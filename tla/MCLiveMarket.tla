----------------------------- MODULE MCLiveMarket ----------------------------
(* Two products and a window of two columns of one tick each.  A book has     *)
(* both sides from its snapshot on; two ticks later, when the window is full  *)
(* with a carried column and its first one has to go, its bid changes.        *)
EXTENDS LiveMarket, TLC

CONSTANTS btc, eth

MCProduct == {btc, eth}
MCPrice == {1, 2}
MCTime == {0, 2}

TwoSides(quantity) == <<"bid", 1>> :> quantity @@ <<"offer", 2>> :> 1
BookOf(quantity) ==
  [level \in Level |->
     IF level \in DOMAIN TwoSides(quantity) THEN TwoSides(quantity)[level] ELSE 0]

MCFeedMessage ==
  [sequence : {0}, book : {[type |-> "snapshot", levels |-> TwoSides(1)]}, time : MCTime]
    \cup [sequence : {1, 2}, book : {[type |-> "update", levels |-> TwoSides(2)]}, time : {2}]
    \cup [sequence : {1}, book : {NotOurs}, time : {0}]
MCFeedEvent ==
  [type : {"Snapshot"}, time : MCTime, book : {BookOf(1)}]
    \cup [type : {"Update"}, time : {2}, book : {BookOf(2)}]
    \cup {[type |-> "Invalidated"]}
MCSymmetry == Permutations(MCProduct) \cup Permutations(Page)
==============================================================================
