---------------------------- MODULE StockLedger ----------------------------
(***************************************************************************)
(* What the inventory service promises its callers, without Redis, RPCs or *)
(* coroutines: units of a variant are available, held by a reservation or  *)
(* sold, and they move between these places one whole reservation (or one  *)
(* variant of it, when it is given back) at a time.                        *)
(***************************************************************************)
EXTENDS Integers

CONSTANTS
  Variants,
  ResIds,
  Requests,
  InitialOnHand,
  InitialStock,
  HoldsLapse      \* may a reservation lapse without being given back?

VARIABLES
  available,  \* units a shopper can still reserve
  owned,      \* units in the warehouse
  held,       \* units each reservation holds back
  opened      \* reservations made so far

vars == <<available, owned, held, opened>>

Nothing == [v \in Variants |-> 0]

Asked(req) == [v \in Variants |-> IF v \in DOMAIN req THEN req[v] ELSE 0]

Init ==
  /\ available = InitialStock
  /\ owned = InitialOnHand
  /\ held = [r \in ResIds |-> Nothing]
  /\ opened = {}

\* A reservation takes all of its units or none.
Promise(r, req) ==
  /\ r \notin opened
  /\ \A v \in DOMAIN req : req[v] <= available[v]
  /\ opened' = opened \cup {r}
  /\ held' = [held EXCEPT ![r] = Asked(req)]
  /\ available' = [v \in Variants |-> available[v] - Asked(req)[v]]
  /\ UNCHANGED owned

\* The units a reservation holds leave the warehouse.
Sell(r) ==
  /\ owned' = [v \in Variants |-> owned[v] - held[r][v]]
  /\ held' = [held EXCEPT ![r] = Nothing]
  /\ UNCHANGED <<available, opened>>

\* The units of one variant go back on the shelf.
GiveBack(r, v) ==
  /\ available' = [available EXCEPT ![v] = @ + held[r][v]]
  /\ held' = [held EXCEPT ![r][v] = 0]
  /\ UNCHANGED <<owned, opened>>

\* A reservation lapses and nobody gets its units.
Lapse(r) ==
  /\ HoldsLapse
  /\ held' = [held EXCEPT ![r] = Nothing]
  /\ UNCHANGED <<available, owned, opened>>

Next ==
  \E r \in ResIds :
    \/ \E req \in Requests : Promise(r, req)
    \/ Sell(r)
    \/ \E v \in Variants : GiveBack(r, v)
    \/ Lapse(r)

Spec == Init /\ [][Next]_vars
=============================================================================
