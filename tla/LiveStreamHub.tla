----------------------------- MODULE LiveStreamHub ---------------------------
(***************************************************************************)
(* What the hub of the live heatmap keeps of an engine's updates and the   *)
(* messages it tells the pages (src/live_stream.cpp).                      *)
(***************************************************************************)
EXTENDS LiveHeatmapEngine

StoredColumn == [index : Nat, column : Column]

\* A mutant: the hub's window is never trimmed.
StoreUpdatesUntrimmed(stored, updates) ==
  LET new == [i \in DOMAIN updates |->
                [index |-> updates[i].index, column |-> updates[i].column]]
  IN  IF updates = <<>> THEN stored
      ELSE IF updates[1].replaces
      THEN [stored EXCEPT ![Len(stored)].column = updates[1].column]
      ELSE stored \o new

\* columns_ once publish_locked took an engine's updates, which are one
\* replacement of the last column or any number of new ones; the oldest columns
\* beyond the configured window are dropped.
StoreUpdates(stored, updates) ==
  LET new    == [i \in DOMAIN updates |->
                   [index |-> updates[i].index, column |-> updates[i].column]]
      excess == Len(stored) + Len(new) - MaxColumns
  IN  IF updates = <<>> THEN stored
      ELSE IF updates[1].replaces
      THEN [stored EXCEPT ![Len(stored)].column = updates[1].column]
      ELSE IF excess <= 0 THEN stored \o new
      ELSE SubSeq(stored \o new, excess + 1, Len(stored) + Len(new))
------------------------------------------------------------------------------
SourceStatus == {"connecting", "connected", "disconnected", "reconnecting"}

\* effective_status_name: what becomes of the book shows only on a connection.
EffectiveStatus(sourceStatus, bookStatus) ==
  IF sourceStatus = "connected" THEN bookStatus ELSE sourceStatus
StatusName == SourceStatus \cup EngineStatus

Reset(product)             == [type |-> "reset", product |-> product]
Hello(product, first)      == [type |-> "hello", product |-> product, first |-> first]
ColumnMessage(update)      == [type |-> "column", update |-> update]
StateMessage(status)       == [type |-> "state", status |-> status]
ErrorMessage               == [type |-> "error"]

\* A mutant: the hello always counts columns from zero.
SnapshotFromZero(product, stored, status, failure) ==
  <<Hello(product, 0)>>
    \o [i \in DOMAIN stored |-> ColumnMessage([index |-> stored[i].index, replaces |-> FALSE,
                                               column |-> stored[i].column])]
    \o <<StateMessage(status)>>
    \o (IF failure THEN <<ErrorMessage>> ELSE <<>>)

\* snapshot_messages: what a page needs to show everything the hub has.
SnapshotMessages(product, stored, status, failure) ==
  <<Hello(product, stored[1].index)>>
    \o [i \in DOMAIN stored |-> ColumnMessage([index |-> stored[i].index, replaces |-> FALSE,
                                               column |-> stored[i].column])]
    \o <<StateMessage(status)>>
    \o (IF failure THEN <<ErrorMessage>> ELSE <<>>)

\* pending_messages: the same before the first column.
PendingMessages(status, failure) ==
  <<StateMessage(status)>> \o (IF failure THEN <<ErrorMessage>> ELSE <<>>)
==============================================================================
