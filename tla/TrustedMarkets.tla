---------------------------- MODULE TrustedMarkets ----------------------------
(***************************************************************************)
(* What a venue's runner promises the market state store, whatever the     *)
(* venue: CoinbaseUniverse and KrakenUniverse implement it.                *)
(*                                                                         *)
(* Only a connection that is trusted makes a market live, with what the    *)
(* venue told of it on that connection.  A connection that broke stays     *)
(* broken, and there is no other before every market it made live was      *)
(* taken down: no two connections ever show at the same time.              *)
(***************************************************************************)
EXTENDS Naturals, Sequences

CONSTANTS
  Product,
  Forward          \* a Boolean: whether a live market only moves forward in what was told

VARIABLES
  trusted,   \* whether there is a connection, of which nothing is known to be lost
  told,      \* by number, what each of the venue's messages on it tells: of each
             \* product, a set of what a market may show of it
  market     \* what each product's market shows of which message: nothing when it
             \* is not live, and never more than one thing

vars == <<trusted, told, market>>

NothingIsLive == market = [product \in Product |-> {}]

Init ==
  /\ trusted = FALSE
  /\ told = <<>>
  /\ NothingIsLive

\* The nothing a new connection begins with is nothing of the last one.
Connect ==
  /\ ~trusted /\ told = <<>> /\ NothingIsLive
  /\ trusted' = TRUE
  /\ UNCHANGED <<told, market>>

Tell ==
  /\ trusted
  /\ \E count \in DOMAIN told' : DOMAIN told = 1 .. count - 1 /\ DOMAIN told' = 1 .. count
  /\ \A at \in DOMAIN told : told'[at] = told[at]
  /\ UNCHANGED <<trusted, market>>

\* A market that is live is moved, or one that is not is made live.
Show(product) ==
  /\ trusted
  /\ \E shown \in market'[product] :
       /\ shown.at \in DOMAIN told /\ shown.top \in told[shown.at][product]
       /\ Forward => \A was \in market[product] : shown.at >= was.at
       /\ market' = [market EXCEPT ![product] = {shown}]
  /\ UNCHANGED <<trusted, told>>

TakenDown(product) ==
  market[product] # {} /\ market' = [market EXCEPT ![product] = {}]

TakeDown ==
  /\ \E product \in Product : TakenDown(product)
  /\ UNCHANGED <<trusted, told>>

\* The loss may take the market it was found in down at once.  What was told on a
\* broken connection is of no use any more, and goes at some time.
Break ==
  /\ trusted /\ trusted' = FALSE
  /\ \/ UNCHANGED market
     \/ \E product \in Product : TakenDown(product)
  /\ told' \in {told, <<>>}

Forget ==
  /\ ~trusted
  /\ told' = <<>>
  /\ UNCHANGED <<trusted, market>>

Next ==
  \/ Connect \/ Tell \/ Break \/ Forget \/ TakeDown
  \/ \E product \in Product : Show(product)

Spec == Init /\ [][Next]_vars
===============================================================================
