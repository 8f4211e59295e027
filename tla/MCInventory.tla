---------------------------- MODULE MCInventory ----------------------------
(***************************************************************************)
(* Small instances of Inventory.  Two variants with two units each, three  *)
(* reservations for one or two variants and two idempotency keys: enough   *)
(* for a key to be used again, for a counter to run out while reservations *)
(* are open, and for a release to be interrupted between its two INCRBYs.  *)
(***************************************************************************)
EXTENDS Inventory, TLC

CONSTANTS a, b

MCOnHand == [v \in Variants |-> 2]

\* One unit of one variant, a basket of both, two units of one variant.
MCRequests == {a :> 1, a :> 1 @@ b :> 1, b :> 2}

Symmetry ==
  Permutations(ResIds) \cup Permutations(Keys) \cup Permutations(Handlers)

=============================================================================
