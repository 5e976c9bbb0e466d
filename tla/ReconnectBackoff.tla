--------------------------- MODULE ReconnectBackoff --------------------------
(***************************************************************************)
(* The delays between connection attempts (src/reconnect_backoff.cpp).     *)
(* The only state is the nominal delay of the next failure, in             *)
(* milliseconds; the delay slept is drawn from a fraction of it.           *)
(***************************************************************************)
EXTENDS Integers

CONSTANTS InitialDelay, MaximumDelay

\* validate_config throws on anything else.
ASSUME DelayAssumption ==
  InitialDelay \in Nat \ {0} /\ MaximumDelay \in Nat /\ InitialDelay <= MaximumDelay

NominalDelay == InitialDelay .. MaximumDelay

\* A mutant: doubling without the cap.
LengthenedUncapped(nominal) == nominal + nominal

\* The nominal delay after ReconnectBackoff::next_delay: doubled, except that
\* the addend is cut to what is left below the maximum.
Lengthened(nominal) ==
  LET remaining == MaximumDelay - nominal
  IN  IF nominal < MaximumDelay
      THEN nominal + (IF nominal < remaining THEN nominal ELSE remaining)
      ELSE nominal
==============================================================================
