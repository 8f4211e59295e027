-------------------------- MODULE MCSaleLifecycle --------------------------
(***************************************************************************)
(* A small instance of SaleLifecycle: one sale, purchases of it, and two   *)
(* workers, one of which may be lost.                                      *)
(***************************************************************************)
EXTENDS SaleLifecycle

CONSTANTS s1

MCSaleOf == [b \in Buys |-> s1]
=============================================================================
