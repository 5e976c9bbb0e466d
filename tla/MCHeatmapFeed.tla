---------------------------- MODULE MCHeatmapFeed ----------------------------
(* A window of three columns of two ticks each, and a book with one level on *)
(* each side: updates change the bid, take the offer away or bring it back.  *)
EXTENDS HeatmapFeed, TLC

MCPrice == {1}
MCQuantity == {1, 2}
MCTime == {0, 1, 3, 5, 9}

Levels(bid, offer) == <<"bid", 1>> :> bid @@ <<"offer", 1>> :> offer
MCBookMessage ==
  [type : {"snapshot"}, levels : {Levels(1, 1), <<"bid", 1>> :> 1}]
    \cup [type : {"update"},
          levels : {<<"bid", 1>> :> 2, <<"offer", 1>> :> 0, <<"offer", 1>> :> 1}]
MCFeedMessage ==
  [sequence : 0 .. MaxSequence, book : MCBookMessage, time : MCTime]
    \cup [sequence : 0 .. MaxSequence, book : {NotOurs}, time : {0}]
TwoSides == {[level \in Level |-> Levels(bid, 1)[level]] : bid \in {1, 2}}
MCFeedEvent ==
  [type : {"Snapshot"}, time : MCTime, book : TwoSides]
    \cup [type : {"Update"}, time : MCTime,
          book : TwoSides \cup {[level \in Level |-> Levels(2, 0)[level]]}]
    \cup {[type |-> "Invalidated"]}
==============================================================================
