-------------------------- MODULE MCKrakenUniverse ---------------------------
(* Two products with a book of one bid and up to three offers, of which the   *)
(* best two are followed and the best one attested: in one of the books an    *)
(* offer comes in front, which pushes the last one out of sight, and goes     *)
(* again; or the bid goes, which leaves one side.                             *)
EXTENDS KrakenUniverse, TLC

CONSTANTS btc, eth

MCProduct == {btc, eth}
MCTraded  == {btc}
MCPrice == 1 .. 4
MCTimestamp == 0 .. MaxMessages

Resting == {<<"bid", 1>>, <<"offer", 3>>, <<"offer", 4>>}
MCOpeningBook == {[level \in Level |-> IF level \in Resting THEN 1 ELSE 0]}
MCUpdateBatch == {<<"offer", 2>> :> 1, <<"offer", 2>> :> 0, <<"bid", 1>> :> 0}
==============================================================================
