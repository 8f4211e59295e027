----------------------------- MODULE MCFlashBuy -----------------------------
(***************************************************************************)
(* Small instances of FlashBuy: four requests, three of them by one user   *)
(* for twice the limit; stock for the limit and one unit more.             *)
(***************************************************************************)
EXTENDS FlashBuy, TLC

CONSTANTS a, u1, u2, b1, b2, b3, b4

MCKeys == Users \X (1 .. 2 * Limit)

MCRequests == {a :> q : q \in 1 .. Limit}

MCOnHand == a :> 3

MCUserOf == [b \in Buys |-> IF b = b4 THEN u2 ELSE u1]

MCQtyOf == [b \in Buys |-> IF b = b3 THEN 2 ELSE 1]

\* Ids are interchangeable, and so are the first two requests.
Symmetry == Permutations(ResIds) \cup Permutations({b1, b2})
=============================================================================
