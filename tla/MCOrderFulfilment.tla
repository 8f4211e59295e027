------------------------- MODULE MCOrderFulfilment -------------------------
(***************************************************************************)
(* Small instances of OrderFulfilment: one or two orders of one unit each, *)
(* both covered by the stock, reserved under keys of their own.            *)
(***************************************************************************)
EXTENDS OrderFulfilment, TLC

CONSTANTS a, o1, o2, k1, k2

MCOnHand == [v \in Variants |-> 2]

MCRequests == {a :> 1}

MCBasket == [o \in Orders |-> a :> 1]

MCKeyOf == [o \in Orders |-> IF o = o1 THEN k1 ELSE k2]
=============================================================================
