------------------------ MODULE MCScannerPublication -------------------------
(* One or two products and one or two pages; each venue may give a snapshot  *)
(* of either of two books, an update, or the end of its session.             *)
EXTENDS ScannerPublication, TLC

CONSTANTS btc, eth

MCOneProduct  == <<btc>>
MCTwoProducts == <<btc, eth>>
MCTimestamp == {NoTimestamp}

\* A book whose best offer is at the price, with a bid one below it.
BookAt(price) ==
  [level \in Level |-> IF level \in {<<"offer", price>>, <<"bid", price - 1>>} THEN 1 ELSE 0]

MCFeedEvent == {BookEvent("Snapshot", BookAt(2), NoTimestamp),
                BookEvent("Update", BookAt(3), NoTimestamp),
                StatusEvent("Disconnected")}
MCSymmetry == Permutations(Subscriber)
==============================================================================
