----------------------------- MODULE Inventory -----------------------------
(***************************************************************************)
(* The gRPC inventory service in its production (Redis) mode.              *)
(*                                                                         *)
(* Redis holds one counter `stock:<variant>` per variant, one hash         *)
(* `reservation:<id>` per reservation and one string `idem:reserve:<key>`  *)
(* per idempotency key; Postgres holds `quantity_on_hand` per variant.     *)
(* ReserveStock is one Lua script, hence one step.  CommitReservation and  *)
(* ReleaseReservation are coroutines: every awaited Redis command or       *)
(* transaction is a step of its own, and anything may happen in between.   *)
(***************************************************************************)
EXTENDS Integers, FiniteSets

CONSTANTS
  Variants,       \* product variants
  ResIds,         \* the reservation ids uuid4 can return in a run (a bound)
  Keys,           \* idempotency keys callers send
  Handlers,       \* slots for CommitReservation/ReleaseReservation coroutines
  Requests,       \* item lists callers send: variant -> quantity
  InitialOnHand,  \* quantity_on_hand of each variant at the start
  InitialStock,   \* the counters at the start (0 stands for a missing key too:
                  \* the script refuses both, INCRBY counts both from 0)
  CallsOverlap,   \* may two calls that name one reservation run concurrently?
  TTLExpires,     \* do reservation and idempotency records reach their TTL?
  MaxCrashes,     \* how many coroutines may die half way (a bound)
  Absent          \* a Redis key that does not exist

\* The fields of reservation:<id>.
Hash == [items : Requests, idem_key : Keys]

ASSUME VariantsAssumption == Absent \notin ResIds /\ Absent \notin Hash
ASSUME ResIdsAssumption == IsFiniteSet(ResIds)
ASSUME OnHandAssumption ==
  InitialOnHand \in [Variants -> Nat] /\ InitialStock \in [Variants -> Nat]
(* Callers send distinct variants with positive quantities: checkout sends *)
(* the entries of a dict, buy_flashsale a single item.                     *)
ASSUME RequestsAssumption ==
  \A req \in Requests : /\ DOMAIN req \subseteq Variants
                        /\ req \in [DOMAIN req -> Nat \ {0}]
ASSUME EnvironmentAssumption ==
  CallsOverlap \in BOOLEAN /\ TTLExpires \in BOOLEAN /\ MaxCrashes \in Nat

VARIABLES
  stock,        \* Redis stock:<variant>
  onHand,       \* Postgres inventory_levels.quantity_on_hand
  reservation,  \* Redis reservation:<id>, Absent or the hash
  idem,         \* Redis idem:reserve:<key>, Absent or a reservation id
  pc,           \* where each coroutine is suspended
  op,           \* which handler it runs
  rid,          \* request.reservation_id
  got,          \* the hash its HGETALL returned
  todo,         \* variants a release has still to INCRBY
  issued,       \* history: ids handed out by ReserveStock
  sold,         \* history: how often a reservation was taken from on hand
  refunded,     \* history: how often each variant of it went back to stock
  crashed       \* history: how many of its coroutines died half way

redisVars == <<stock, reservation, idem>>
handlerVars == <<pc, op, rid, got, todo>>
historyVars == <<issued, sold, refunded, crashed>>
vars == <<redisVars, onHand, handlerVars, historyVars>>

\* Units of variant v in an item list.
Qty(items, v) == IF v \in DOMAIN items THEN items[v] ELSE 0

\* Units in all the entries of f, each unit counted as an entry and a number.
UnitsIn(f) == Cardinality(UNION {{x} \X (1 .. f[x]) : x \in DOMAIN f})

\* Coroutines that are working on reservation r.
Working(r) == {h \in Handlers : pc[h] # "idle" /\ rid[h] = r}

-----------------------------------------------------------------------------
Init ==
  /\ stock = InitialStock
  /\ onHand = InitialOnHand
  /\ reservation = [r \in ResIds |-> Absent]
  /\ idem = [k \in Keys |-> Absent]
  /\ pc = [h \in Handlers |-> "idle"]
  /\ op = [h \in Handlers |-> "none"]
  /\ rid = [h \in Handlers |-> Absent]
  /\ got = [h \in Handlers |-> Absent]
  /\ todo = [h \in Handlers |-> {}]
  /\ issued = {}
  /\ sold = [r \in ResIds |-> 0]
  /\ refunded = [r \in ResIds |-> [v \in Variants |-> 0]]
  /\ crashed = [r \in ResIds |-> 0]

-----------------------------------------------------------------------------
(* ReserveStock                                                            *)

\* Mutant: one covered item is enough.
SufficientForSome(req) == \E v \in DOMAIN req : stock[v] >= req[v]

\* The pre-check loop of the script: every counter covers its item.
Sufficient(req) == \A v \in DOMAIN req : stock[v] >= req[v]

\* The script answers with the id recorded under the key and writes nothing.
ReserveHit(k) ==
  /\ idem[k] # Absent
  /\ UNCHANGED vars

\* Mutant: the script records the id before it looks at the counters, and nothing
\* rolls a script back.
RejectKeepsRecord(k, req) ==
  /\ idem[k] = Absent
  /\ ~Sufficient(req)
  /\ \E r \in ResIds \ issued : idem' = [idem EXCEPT ![k] = r]
  /\ UNCHANGED <<stock, reservation, onHand, handlerVars, historyVars>>

\* Some counter is short: the script returns before its first write.
ReserveReject(k, req) ==
  /\ idem[k] = Absent
  /\ ~Sufficient(req)
  /\ UNCHANGED vars

\* Mutants: SET idem is forgotten; the hash gets the counters, not the quantities.
ReserveWithoutIdem(k, req, r) ==
  /\ idem[k] = Absent /\ Sufficient(req) /\ r \notin issued
  /\ stock' = [v \in Variants |-> stock[v] - Qty(req, v)]
  /\ reservation' = [reservation EXCEPT ![r] = [items |-> req, idem_key |-> k]]
  /\ issued' = issued \cup {r}
  /\ UNCHANGED <<idem, onHand, handlerVars, sold, refunded, crashed>>

ReserveStoresCounters(k, req, r) ==
  /\ idem[k] = Absent /\ Sufficient(req) /\ r \notin issued
  /\ stock' = [v \in Variants |-> stock[v] - Qty(req, v)]
  /\ reservation' = [reservation EXCEPT ![r] =
       [items |-> [v \in DOMAIN req |-> stock[v]], idem_key |-> k]]
  /\ idem' = [idem EXCEPT ![k] = r]
  /\ issued' = issued \cup {r}
  /\ UNCHANGED <<onHand, handlerVars, sold, refunded, crashed>>

ReserveGrant(k, req, r) ==
  /\ idem[k] = Absent
  /\ Sufficient(req)
  /\ r \notin issued
  /\ stock' = [v \in Variants |-> stock[v] - Qty(req, v)]
  /\ reservation' = [reservation EXCEPT ![r] = [items |-> req, idem_key |-> k]]
  /\ idem' = [idem EXCEPT ![k] = r]
  /\ issued' = issued \cup {r}
  /\ UNCHANGED <<onHand, handlerVars, sold, refunded, crashed>>

ReserveStock(k, req) ==
  \/ ReserveHit(k)
  \/ ReserveReject(k, req)
  \/ \E r \in ResIds : ReserveGrant(k, req, r)

-----------------------------------------------------------------------------
(* CommitReservation and ReleaseReservation                                *)

Finish(h) ==
  /\ pc' = [pc EXCEPT ![h] = "idle"]
  /\ op' = [op EXCEPT ![h] = "none"]
  /\ rid' = [rid EXCEPT ![h] = Absent]
  /\ got' = [got EXCEPT ![h] = Absent]
  /\ todo' = [todo EXCEPT ![h] = {}]

\* HGETALL reservation:<id>.  An empty hash is answered with success, at once.
ReadHash(h, o, r) ==
  /\ pc[h] = "idle"
  /\ r \in issued
  /\ CallsOverlap \/ Working(r) = {}
  /\ IF reservation[r] = Absent
     THEN UNCHANGED handlerVars
     ELSE /\ pc' = [pc EXCEPT ![h] = "apply"]
          /\ op' = [op EXCEPT ![h] = o]
          /\ rid' = [rid EXCEPT ![h] = r]
          /\ got' = [got EXCEPT ![h] = reservation[r]]
          /\ todo' = [todo EXCEPT ![h] =
                        IF o = "release" THEN DOMAIN reservation[r].items ELSE {}]
  /\ UNCHANGED <<redisVars, onHand, historyVars>>

\* CHECK (quantity_on_hand >= 0) lets the UPDATEs of a commit through.
CheckHolds(items) == \A v \in DOMAIN items : onHand[v] >= items[v]

\* Mutant: each UPDATE takes one unit, whatever the quantity.
CommitOneUnit(h) ==
  /\ pc[h] = "apply" /\ op[h] = "commit"
  /\ CheckHolds(got[h].items)
  /\ onHand' = [v \in Variants |->
       IF v \in DOMAIN got[h].items THEN onHand[v] - 1 ELSE onHand[v]]
  /\ sold' = [sold EXCEPT ![rid[h]] = @ + 1]
  /\ pc' = [pc EXCEPT ![h] = "delReservation"]
  /\ UNCHANGED <<redisVars, op, rid, got, todo, issued, refunded, crashed>>

\* One transaction takes every item off quantity_on_hand.
CommitOnHand(h) ==
  /\ pc[h] = "apply" /\ op[h] = "commit"
  /\ CheckHolds(got[h].items)
  /\ onHand' = [v \in Variants |-> onHand[v] - Qty(got[h].items, v)]
  /\ sold' = [sold EXCEPT ![rid[h]] = @ + 1]
  /\ pc' = [pc EXCEPT ![h] = "delReservation"]
  /\ UNCHANGED <<redisVars, op, rid, got, todo, issued, refunded, crashed>>

\* The constraint refuses an UPDATE: rollback, and the exception ends the call.
CommitRefused(h) ==
  /\ pc[h] = "apply" /\ op[h] = "commit"
  /\ ~CheckHolds(got[h].items)
  /\ Finish(h)
  /\ UNCHANGED <<redisVars, onHand, historyVars>>

\* One INCRBY of the release loop; the loop awaits each of them.
ReleaseIncr(h, v) ==
  /\ pc[h] = "apply" /\ op[h] = "release"
  /\ v \in todo[h]
  /\ stock' = [stock EXCEPT ![v] = @ + got[h].items[v]]
  /\ refunded' = [refunded EXCEPT ![rid[h]][v] = @ + 1]
  /\ todo' = [todo EXCEPT ![h] = @ \ {v}]
  /\ pc' = [pc EXCEPT ![h] = IF todo[h] = {v} THEN "delReservation" ELSE "apply"]
  /\ UNCHANGED <<reservation, idem, onHand, op, rid, got, issued, sold, crashed>>

\* Mutant: the hash is left to its TTL.
KeepReservation(h) ==
  /\ pc[h] = "delReservation"
  /\ pc' = [pc EXCEPT ![h] = "delIdem"]
  /\ UNCHANGED <<redisVars, onHand, op, rid, got, todo, historyVars>>

DelReservation(h) ==
  /\ pc[h] = "delReservation"
  /\ reservation' = [reservation EXCEPT ![rid[h]] = Absent]
  /\ pc' = [pc EXCEPT ![h] = "delIdem"]
  /\ UNCHANGED <<stock, idem, onHand, op, rid, got, todo, historyVars>>

\* Mutant: the record is left to its TTL.
KeepIdem(h) ==
  /\ pc[h] = "delIdem"
  /\ Finish(h)
  /\ UNCHANGED <<redisVars, onHand, historyVars>>

\* The record goes whatever id it holds by now.
DelIdem(h) ==
  /\ pc[h] = "delIdem"
  /\ idem' = [idem EXCEPT ![got[h].idem_key] = Absent]
  /\ Finish(h)
  /\ UNCHANGED <<stock, reservation, onHand, historyVars>>

-----------------------------------------------------------------------------
(* Time and failures                                                       *)

\* Mutant: a listener refunds the counters of a hash that expired.
ExpireWithRefund(r) ==
  /\ TTLExpires
  /\ reservation[r] # Absent
  /\ stock' = [v \in Variants |-> stock[v] + Qty(reservation[r].items, v)]
  /\ reservation' = [reservation EXCEPT ![r] = Absent]
  /\ UNCHANGED <<idem, onHand, handlerVars, historyVars>>

\* EXPIRE reservation:<id>: the hash goes, the counters are not refunded.
ExpireReservation(r) ==
  /\ TTLExpires
  /\ reservation[r] # Absent
  /\ reservation' = [reservation EXCEPT ![r] = Absent]
  /\ UNCHANGED <<stock, idem, onHand, handlerVars, historyVars>>

\* The idempotency TTL is at least twice the reservation's, so the hash is
\* gone first.  Bound on time: no coroutine outlives the difference (300 s).
ExpireIdem(k) ==
  /\ TTLExpires
  /\ idem[k] # Absent
  /\ reservation[idem[k]] = Absent
  /\ Working(idem[k]) = {}
  /\ idem' = [idem EXCEPT ![k] = Absent]
  /\ UNCHANGED <<stock, reservation, onHand, handlerVars, historyVars>>

\* A coroutine dies (process killed, Redis or Postgres connection lost).
Crash(h) ==
  /\ pc[h] # "idle"
  /\ crashed[rid[h]] < MaxCrashes
  /\ crashed' = [crashed EXCEPT ![rid[h]] = @ + 1]
  /\ Finish(h)
  /\ UNCHANGED <<redisVars, onHand, issued, sold, refunded>>

-----------------------------------------------------------------------------
Handler(h) ==
  \/ CommitOnHand(h)
  \/ CommitRefused(h)
  \/ \E v \in Variants : ReleaseIncr(h, v)
  \/ DelReservation(h)
  \/ DelIdem(h)

Next ==
  \/ \E k \in Keys, req \in Requests : ReserveStock(k, req)
  \/ \E h \in Handlers, o \in {"commit", "release"}, r \in ResIds : ReadHash(h, o, r)
  \/ \E h \in Handlers : Handler(h)
  \/ \E r \in ResIds : ExpireReservation(r)
  \/ \E k \in Keys : ExpireIdem(k)
  \/ \E h \in Handlers : Crash(h)

Spec == Init /\ [][Next]_vars

-----------------------------------------------------------------------------
(* Properties                                                              *)

\* Shape of the state.
TypeOK ==
  /\ stock \in [Variants -> Int]
  /\ onHand \in [Variants -> Int]
  /\ reservation \in [ResIds -> Hash \cup {Absent}]
  /\ idem \in [Keys -> ResIds \cup {Absent}]
  /\ pc \in [Handlers -> {"idle", "apply", "delReservation", "delIdem"}]
  /\ op \in [Handlers -> {"none", "commit", "release"}]
  /\ rid \in [Handlers -> ResIds \cup {Absent}]
  /\ got \in [Handlers -> Hash \cup {Absent}]
  /\ todo \in [Handlers -> SUBSET Variants]
  /\ issued \in SUBSET ResIds
  /\ sold \in [ResIds -> Nat]
  /\ refunded \in [ResIds -> [Variants -> Nat]]
  /\ crashed \in [ResIds -> Nat]

\* Whatever overlaps, expires or crashes, no Redis counter and no
\* quantity_on_hand goes below zero.
CountersNonNegative ==
  \A v \in Variants : stock[v] >= 0 /\ onHand[v] >= 0

\* When the calls on one reservation do not overlap, its units leave the
\* reservation once: they are sold or refunded, never both and never twice,
\* except that each coroutine that died half way may repeat its effect once.
SettledOnce ==
  \A r \in ResIds, v \in Variants : sold[r] + refunded[r][v] <= 1 + crashed[r]

\* ReserveStock is idempotent: one key never holds two reservations at once.
OneReservationPerKey ==
  \A r, q \in ResIds :
    (reservation[r] # Absent /\ reservation[q] # Absent /\ r # q)
      => reservation[r].idem_key # reservation[q].idem_key

\* Units of v that reservation r holds back: the hash, or the copy a suspended
\* coroutine still acts on, unless they were sold or refunded already.
Held(r, v) ==
  LET copies == {got[h] : h \in {w \in Working(r) : pc[w] = "apply"}}
      hashes == IF reservation[r] # Absent THEN {reservation[r]} ELSE copies
  IN IF sold[r] > 0 \/ refunded[r][v] > 0 \/ hashes = {} THEN 0
     ELSE Qty((CHOOSE x \in hashes : TRUE).items, v)

TotalHeld(v) == UnitsIn([r \in ResIds |-> Held(r, v)])

\* The free counter and all open reservations together never promise more
\* units than Postgres says are on hand.
NoOverPromise == \A v \in Variants : stock[v] + TotalHeld(v) <= onHand[v]

\* A reservation whose hash expired before anybody settled it.
Lapsed(r) ==
  /\ r \in issued /\ reservation[r] = Absent /\ Working(r) = {}
  /\ sold[r] = 0 /\ \A v \in Variants : refunded[r][v] = 0

\* Expiry is the only way to lose units: until a reservation lapses,
\* free + reserved = on hand.
UnitsConserved ==
  (\A r \in ResIds : ~Lapsed(r))
    => \A v \in Variants : stock[v] + TotalHeld(v) = onHand[v]

\* A reservation that reaches its commit can always be taken from on hand:
\* the CHECK constraint never refuses it.
CommitNeverRefused ==
  \A h \in Handlers :
    (pc[h] = "apply" /\ op[h] = "commit") => CheckHolds(got[h].items)

\* A retried ReserveStock is answered with a reservation that was made under its
\* key and is open, unless it lapsed or a call on it is about to drop the record.
\* So a retry after a commit or a release reserves anew: both delete the record,
\* although the comment on its TTL has it outlive them.
IdemNamesReservation ==
  \A k \in Keys :
    idem[k] # Absent =>
      \/ reservation[idem[k]] # Absent /\ reservation[idem[k]].idem_key = k
      \/ Lapsed(idem[k])
      \/ Working(idem[k]) # {}

-----------------------------------------------------------------------------
(* Without overlapping calls and crashes the service is an implementation  *)
(* of the ledger: its counters are the ledger's, and a reservation holds   *)
(* units until they are sold, given back, or (with TTLs) lapse.            *)
Ledger == INSTANCE StockLedger WITH
  available <- stock,
  owned <- onHand,
  held <- [r \in ResIds |-> [v \in Variants |-> Held(r, v)]],
  opened <- issued,
  HoldsLapse <- TTLExpires

\* Every step of Redis, Postgres and the coroutines is one step of the ledger
\* or none: in particular a Lua script takes all units or none, and a commit or
\* release that is run again after the first one finished moves nothing.
ImplementsLedger == Ledger!Spec
=============================================================================
