----------------------------- MODULE MCCheckout -----------------------------
(***************************************************************************)
(* A small instance of Checkout: one variant, a cap of one, three POSTs to *)
(* /checkout and one slot for adds beyond the cap; stock for three units,  *)
(* carts of one or two.                                                    *)
(***************************************************************************)
EXTENDS Checkout, TLC

CONSTANTS a, u1

\* Adds in flight can lift a line beyond the cap for a moment.
MCRequests == {a :> q : q \in 1 .. Cap + Cardinality(Adds) * MaxQty}

MCKeys == Users \X MCRequests

MCOnHand == a :> 3

MCPostOf == [c \in Posts |-> u1]

Symmetry == Permutations(ResIds) \cup Permutations(Adds) \cup Permutations(Posts)
=============================================================================
