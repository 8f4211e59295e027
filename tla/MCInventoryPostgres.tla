------------------------ MODULE MCInventoryPostgres ------------------------
(***************************************************************************)
(* Small instances of InventoryPostgres: two variants, baskets that list   *)
(* them in either order, and stock for some of the baskets only.           *)
(***************************************************************************)
EXTENDS InventoryPostgres, TLC

MCOnHand == 1 :> 2 @@ 2 :> 1

Basket(x, y) == [qty |-> 1 :> 1 @@ 2 :> 1, pos |-> x :> 1 @@ y :> 2]

\* Both variants, listed one way and the other, and two units of the first.
MCRequests == {Basket(1, 2), Basket(2, 1), [qty |-> 1 :> 2, pos |-> 1 :> 1]}

Symmetry == Permutations(ResIds) \cup Permutations(Keys) \cup Permutations(Procs)
=============================================================================
