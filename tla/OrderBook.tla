------------------------------ MODULE OrderBook ------------------------------
(***************************************************************************)
(* The two-sided book of one product (src/order_book.cpp): two std::map    *)
(* objects from price to quantity, one for bids and one for offers.        *)
(*                                                                         *)
(* A book is a function from levels to quantities in which 0 stands for a  *)
(* price that is not in the map, which is exactly what apply_update makes  *)
(* of a quantity of zero.  A batch of level updates is a partial function  *)
(* from levels to quantities: within a batch the last update of a level    *)
(* wins, so the order in which it lists them is abstracted.                *)
(***************************************************************************)
EXTENDS Integers, FiniteSets

CONSTANTS
  Price,       \* the prices levels may have
  Quantity,    \* the quantities a resting level may have
  NoBook       \* std::nullopt where a book is optional

ASSUME PriceAssumption    == Price \subseteq Nat /\ IsFiniteSet(Price)
ASSUME QuantityAssumption == Quantity \subseteq Nat \ {0}

Side  == {"bid", "offer"}
Level == Side \X Price

Book      == [Level -> Quantity \cup {0}]
EmptyBook == [level \in Level |-> 0]

ASSUME NoBookAssumption == NoBook \notin Book

\* The level updates one message may carry, at most one per level.
Batch == UNION {[levels -> Quantity \cup {0}] : levels \in SUBSET Level}

\* A book after every update of a batch went through OrderBook::apply_update:
\* zero erases the level, anything else sets it.
ApplyUpdates(book, batch) ==
  [level \in Level |-> IF level \in DOMAIN batch THEN batch[level] ELSE book[level]]

\* The prices present on one side.
Prices(book, side) == {price \in Price : book[<<side, price>>] # 0}

\* The batch that lists a book's resting levels: the payload of a snapshot.
LevelsOf(book) ==
  [level \in {resting \in Level : book[resting] # 0} |-> book[level]]
==============================================================================
