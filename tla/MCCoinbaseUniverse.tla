------------------------- MODULE MCCoinbaseUniverse --------------------------
(* Two products with one bid and one offer level each.  An update takes the  *)
(* bid away, or brings the offer, so that a book which missed one of the two *)
(* is never the venue's; in the liveness run one update does both.  Traffic  *)
(* shares a connection between frames and the messages they carry: five are  *)
(* two frames with three messages or three with two, enough for a first      *)
(* frame with a snapshot and an update and another that tells either again.  *)
EXTENDS CoinbaseUniverse, TLC

CONSTANTS btc, eth

MCProduct == {btc, eth}
MCPrice == {1}
MCQuantity == {1}
MCOpeningBook == {[level \in Level |-> IF level[1] = "bid" THEN 1 ELSE 0]}
MCUpdateBatch == {<<"bid", 1>> :> 0, <<"offer", 1>> :> 1}
MCMoveBatch == {<<"bid", 1>> :> 0 @@ <<"offer", 1>> :> 1}
MCTimestamp == 0 .. MaxSequence

MCSymmetry == Permutations(MCProduct)
==============================================================================
