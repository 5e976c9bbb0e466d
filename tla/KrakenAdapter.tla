---------------------------- MODULE KrakenAdapter -----------------------------
(***************************************************************************)
(* One product's book as Kraken's book channel tells it                    *)
(* (KrakenBookAdapter, src/kraken_adapter.cpp): a snapshot, then updates   *)
(* of a book of a fixed depth, each with a checksum of the best levels.    *)
(* There are no sequence numbers: the checksum alone tells of a loss.      *)
(*                                                                         *)
(* The exact decimals and the CRC32 are abstracted: the checksum of a book *)
(* is the levels it is computed from, so that two books with different     *)
(* best levels never have the same one.                                    *)
(***************************************************************************)
EXTENDS MarketStateStore

CONSTANTS
  Depth,            \* depth_: how many levels of each side are followed
  ChecksumDepth     \* how many of them a checksum covers: 10 in the code

ASSUME DepthAssumption ==
  Depth \in Nat /\ ChecksumDepth \in Nat \ {0} /\ ChecksumDepth <= Depth

\* A message about one product.  `sound' is whether its members parse.
KrakenMessage ==
  [type : {"snapshot", "update"}, levels : Batch, checksum : Book, sound : BOOLEAN]

Adapter == [status : {"WaitingForSnapshot", "Live", "Stale"}, book : Book,
            timestamp : Timestamp]

\* The adapter of a new session, and what reset leaves.
NewAdapter ==
  [status |-> "WaitingForSnapshot", book |-> EmptyBook, timestamp |-> NoTimestamp]

\* The best `count' levels of each side: the lowest offers, the highest bids.
BestLevels(book, count) ==
  LET BetterThan(level) ==
        {price \in Prices(book, level[1]) :
           IF level[1] = "bid" THEN price > level[2] ELSE price < level[2]}
  IN  [level \in Level |-> IF Cardinality(BetterThan(level)) < count THEN book[level] ELSE 0]

\* A mutant: levels beyond the depth are kept.
TruncateNothing(book) == book

Truncate(book) == BestLevels(book, Depth)

Checksum(book) == BestLevels(book, ChecksumDepth)

\* The levels after a message, before anything is checked.
NextLevels(adapter, message) ==
  Truncate(ApplyUpdates(IF message.type = "snapshot" THEN EmptyBook ELSE adapter.book,
                        message.levels))

\* process returns nothing for an update of a book that is not trusted.
Ignores(adapter, message) == message.type = "update" /\ adapter.status # "Live"

\* A mutant: the checksum is not compared.
TrustsWithoutChecksum(adapter, message) == message.sound

\* What process checks before it keeps the levels; a snapshot must list resting
\* levels of both sides and nothing else.
Trusts(adapter, message) ==
  /\ message.sound
  /\ message.type = "snapshot" =>
       /\ \A level \in DOMAIN message.levels : message.levels[level] # 0
       /\ \A side \in Side : \E level \in DOMAIN message.levels : level[1] = side
  /\ Checksum(NextLevels(adapter, message)) = message.checksum

\* The adapter after an invalidation, which keeps the timestamp.
Invalidation(adapter) == [adapter EXCEPT !.status = "Stale", !.book = EmptyBook]

\* The adapter after KrakenBookAdapter::process.
ProcessBook(adapter, message, timestamp) ==
  IF Ignores(adapter, message) THEN adapter
  ELSE IF Trusts(adapter, message)
  THEN [status |-> "Live", book |-> NextLevels(adapter, message), timestamp |-> timestamp]
  ELSE Invalidation(adapter)

\* The event it returns, of a message it does not ignore.
EventOf(adapter, message, timestamp) ==
  IF Trusts(adapter, message)
  THEN BookEvent(IF message.type = "snapshot" THEN "Snapshot" ELSE "Update",
                 NextLevels(adapter, message), timestamp)
  ELSE BookEvent("Invalidated", NoBook, adapter.timestamp)
==============================================================================
