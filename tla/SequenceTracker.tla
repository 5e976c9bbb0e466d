--------------------------- MODULE SequenceTracker ---------------------------
(***************************************************************************)
(* The continuity check every Coinbase consumer runs on a connection's     *)
(* sequence numbers (src/sequence_tracker.cpp).  The tracker's only state  *)
(* is the last accepted number, an optional: NoSequence is nullopt.        *)
(***************************************************************************)
EXTENDS Integers

CONSTANT MaxSequence    \* the largest std::uint64_t

ASSUME MaxSequenceAssumption == MaxSequence \in Nat

NoSequence      == -1
TrackerState    == {NoSequence} \cup 0 .. MaxSequence
SequenceStatus  == {"First", "InOrder", "Duplicate", "Stale", "Gap"}

\* The successor saturates at the top of the integer type.
NextExpected(last) == IF last = MaxSequence THEN last ELSE last + 1

\* The verdict of SequenceTracker::observe on one received number.  The
\* duplicate and stale tests come before the in-order one, so at the saturation
\* point the expected number is reported as a duplicate.
Verdict(last, received) ==
  IF last = NoSequence                 THEN "First"
  ELSE IF received = last              THEN "Duplicate"
  ELSE IF received < last              THEN "Stale"
  ELSE IF received = NextExpected(last) THEN "InOrder"
  ELSE "Gap"

\* A mutant: every number received is the last accepted one.
ObserveAny(last, received) == received

\* The last accepted number afterwards: only a first or an in-order one counts.
Observe(last, received) ==
  IF Verdict(last, received) \in {"First", "InOrder"} THEN received ELSE last
==============================================================================
