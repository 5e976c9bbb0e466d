-------------------------- MODULE BookReconstructor --------------------------
(***************************************************************************)
(* Rebuilding one product's book from snapshots and updates                *)
(* (src/book_reconstructor.cpp).  A reconstructor is a record of the book  *)
(* and of whether it is synchronized with the venue; `verdict' is what the *)
(* sequence tracker said of the frame the message came in.                 *)
(***************************************************************************)
EXTENDS OrderBook

BookMessage    == [type : {"snapshot", "update"}, levels : Batch]
Reconstructor  == [book : Book, synchronized : BOOLEAN]

NewReconstructor == [book |-> EmptyBook, synchronized |-> FALSE]

\* What the early returns of BookReconstructor::process leave: a snapshot is
\* taken unless it would roll the book back, an update only when nothing was
\* missed since the book was synchronized.
Applies(reconstructor, message, verdict) ==
  IF message.type = "snapshot"
  THEN verdict \notin {"Duplicate", "Stale"}
  ELSE verdict = "InOrder" /\ reconstructor.synchronized

\* A mutant: a snapshot does not clear the book.
ProcessWithoutClearing(reconstructor, message, verdict) ==
  IF Applies(reconstructor, message, verdict)
  THEN [book |-> ApplyUpdates(reconstructor.book, message.levels), synchronized |-> TRUE]
  ELSE [book         |-> reconstructor.book,
        synchronized |-> reconstructor.synchronized
                           /\ (message.type = "snapshot" \/ verdict # "Gap")]

\* The reconstructor after BookReconstructor::process.  A snapshot clears the
\* book before its levels are applied; an update behind a gap desynchronizes.
Process(reconstructor, message, verdict) ==
  LET base == IF message.type = "snapshot" THEN EmptyBook ELSE reconstructor.book
  IN  IF Applies(reconstructor, message, verdict)
      THEN [book |-> ApplyUpdates(base, message.levels), synchronized |-> TRUE]
      ELSE [book         |-> reconstructor.book,
            synchronized |-> reconstructor.synchronized
                               /\ (message.type = "snapshot" \/ verdict # "Gap")]

MarkDesynchronized(reconstructor) ==
  [reconstructor EXCEPT !.synchronized = FALSE]
==============================================================================
