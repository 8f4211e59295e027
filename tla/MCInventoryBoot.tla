-------------------------- MODULE MCInventoryBoot --------------------------
(***************************************************************************)
(* Small instances of InventoryBoot: two replicas with one coroutine slot  *)
(* each, two reservations, a cold start (counters missing) or a warm one.  *)
(***************************************************************************)
EXTENDS InventoryBoot, TLC

CONSTANTS a, p1, p2, h1, h2

MCOnHand == [v \in Variants |-> 2]

MCCold == [v \in Variants |-> 0]

MCRequests == {a :> 1, a :> 2}

MCHome == h1 :> p1 @@ h2 :> p2
=============================================================================
