---------------------------- MODULE MCKrakenStream ---------------------------
(* A book of one bid and up to three offers, of which the best two are        *)
(* followed and the best one attested.  A snapshot has one bid and two        *)
(* offers; an offer comes in front of them, which pushes the last one out, or *)
(* goes, or the bid goes or comes back; and each message carries the checksum *)
(* of any of these books, whether it is its own or not.                       *)
EXTENDS KrakenStream, TLC

MCPrice == 1 .. 4
MCTimestamp == 0 .. 2

BookOf(resting) == [level \in Level |-> IF level \in resting THEN 1 ELSE 0]
Opening == BookOf({<<"bid", 1>>, <<"offer", 3>>, <<"offer", 4>>})
MCChecksum ==
  {Checksum(ApplyUpdates(Opening, batch)) :
     batch \in {<<"offer", 2>> :> 1, <<"offer", 2>> :> 0, <<"bid", 1>> :> 0}}
MCBookMessageSent ==
  [type : {"snapshot"}, levels : {LevelsOf(Opening), <<"bid", 1>> :> 1},
   checksum : MCChecksum, sound : {TRUE}]
    \cup [type : {"update"},
          levels : {<<"offer", 2>> :> 1, <<"offer", 2>> :> 0, <<"bid", 1>> :> 0,
                    <<"bid", 1>> :> 1},
          checksum : MCChecksum, sound : BOOLEAN]
==============================================================================
