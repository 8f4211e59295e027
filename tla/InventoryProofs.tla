-------------------------- MODULE InventoryProofs --------------------------
(***************************************************************************)
(* What holds of the inventory service for every set of variants,          *)
(* reservations, keys, coroutines and requests, with and without TTLs:     *)
(* first whatever overlaps and crashes, then when calls on one reservation *)
(* do not overlap, then when no coroutine dies half way either.  Under the *)
(* last condition the service implements the ledger of StockLedger and its *)
(* counters balance.  The last part is about replicas that start and stop. *)
(***************************************************************************)
EXTENDS InventoryBoot, TLAPS, FiniteSetTheorems

\* Facts the state's shape needs to be preserved: a suspended coroutine has
\* its reservation's hash at hand.
Inv ==
  /\ TypeOK
  /\ CountersNonNegative
  /\ \A h \in Handlers :
       IF pc[h] = "idle"
       THEN rid[h] = Absent /\ todo[h] = {} /\ op[h] = "none"
       ELSE rid[h] \in ResIds /\ got[h] \in Hash /\ todo[h] \subseteq DOMAIN got[h].items

\* What the assumptions say of one item list.
LEMMA RequestFacts ==
  ASSUME NEW req \in Requests
  PROVE  /\ DOMAIN req \subseteq Variants
         /\ \A v \in DOMAIN req : req[v] \in Nat /\ req[v] > 0
         /\ \A v \in Variants : Qty(req, v) \in Nat
BY RequestsAssumption DEF Qty

\* The initial state satisfies the invariant.
LEMMA InvInit == Init => Inv
BY OnHandAssumption DEF Init, Inv, TypeOK, CountersNonNegative

\* A reservation takes units only where the script's pre-check found enough.
LEMMA InvReserve ==
  ASSUME Inv, NEW k \in Keys, NEW req \in Requests, ReserveStock(k, req)
  PROVE  Inv'
<1>1. CASE UNCHANGED vars
  BY <1>1 DEF Inv, TypeOK, CountersNonNegative, vars, redisVars, handlerVars, historyVars
<1>2. ASSUME NEW r \in ResIds, ReserveGrant(k, req, r)
      PROVE  Inv'
  <2>1. \A v \in Variants : stock[v] - Qty(req, v) \in Int /\ stock[v] - Qty(req, v) >= 0
    BY <1>2, RequestFacts DEF Inv, TypeOK, CountersNonNegative, ReserveGrant, Sufficient, Qty
  <2>2. [items |-> req, idem_key |-> k] \in Hash
    BY DEF Hash
  <2>3. TypeOK'
    BY <1>2, <2>1, <2>2 DEF Inv, TypeOK, ReserveGrant, handlerVars
  <2>4. CountersNonNegative'
    BY <1>2, <2>1 DEF Inv, CountersNonNegative, ReserveGrant
  <2> QED
    BY <1>2, <2>3, <2>4 DEF Inv, ReserveGrant, handlerVars
<1> QED
  BY <1>1, <1>2 DEF ReserveStock, ReserveHit, ReserveReject

\* Reading the hash suspends a coroutine with a copy of it, or does nothing.
LEMMA InvRead ==
  ASSUME Inv, NEW h \in Handlers, NEW o \in {"commit", "release"}, NEW r \in ResIds,
         ReadHash(h, o, r)
  PROVE  Inv'
<1>1. CASE reservation[r] = Absent
  BY <1>1 DEF Inv, TypeOK, CountersNonNegative, ReadHash,
              redisVars, handlerVars, historyVars
<1>2. CASE reservation[r] # Absent
  <2>1. reservation[r] \in Hash
    BY <1>2 DEF Inv, TypeOK
  <2>2. DOMAIN reservation[r].items \subseteq Variants
    BY <2>1, RequestFacts DEF Hash
  <2>3. TypeOK'
    BY <1>2, <2>1, <2>2, ZenonT(40) DEF Inv, TypeOK, ReadHash, redisVars, historyVars
  <2>4. CountersNonNegative'
    BY DEF Inv, CountersNonNegative, ReadHash, redisVars
  <2>5. ASSUME NEW g \in Handlers
        PROVE  IF pc'[g] = "idle"
               THEN rid'[g] = Absent /\ todo'[g] = {} /\ op'[g] = "none"
               ELSE /\ rid'[g] \in ResIds /\ got'[g] \in Hash
                    /\ todo'[g] \subseteq DOMAIN got'[g].items
    BY <1>2, <2>1, SMTT(20) DEF Inv, TypeOK, ReadHash
  <2> QED
    BY <2>3, <2>4, <2>5 DEF Inv
<1> QED
  BY <1>1, <1>2

\* A coroutine that ends leaves its slot empty and the others alone.
LEMMA FinishFacts ==
  ASSUME Inv, NEW h \in Handlers, Finish(h)
  PROVE  /\ pc' \in [Handlers -> {"idle", "apply", "delReservation", "delIdem"}]
         /\ op' \in [Handlers -> {"none", "commit", "release"}]
         /\ rid' \in [Handlers -> ResIds \cup {Absent}]
         /\ got' \in [Handlers -> Hash \cup {Absent}]
         /\ todo' \in [Handlers -> SUBSET Variants]
         /\ \A g \in Handlers :
              IF pc'[g] = "idle"
              THEN rid'[g] = Absent /\ todo'[g] = {} /\ op'[g] = "none"
              ELSE /\ rid'[g] \in ResIds /\ got'[g] \in Hash
                   /\ todo'[g] \subseteq DOMAIN got'[g].items
BY DEF Inv, TypeOK, Finish

\* A commit takes from quantity_on_hand only what the CHECK constraint lets it.
LEMMA InvCommit ==
  ASSUME Inv, NEW h \in Handlers, CommitOnHand(h)
  PROVE  Inv'
<1>1. got[h] \in Hash /\ rid[h] \in ResIds
  BY DEF Inv, TypeOK, CommitOnHand
<1>2. \A v \in Variants : /\ onHand[v] - Qty(got[h].items, v) \in Int
                          /\ onHand[v] - Qty(got[h].items, v) >= 0
  BY <1>1, RequestFacts DEF Inv, TypeOK, CountersNonNegative, CommitOnHand, CheckHolds, Qty, Hash
<1>3. sold' \in [ResIds -> Nat]
  BY <1>1 DEF Inv, TypeOK, CommitOnHand
<1>4. TypeOK'
  BY <1>2, <1>3 DEF Inv, TypeOK, CommitOnHand, redisVars
<1>5. CountersNonNegative'
  BY <1>2 DEF Inv, CountersNonNegative, CommitOnHand, redisVars
<1> QED
  BY <1>4, <1>5 DEF Inv, TypeOK, CommitOnHand

\* A release only adds to the counters.
LEMMA InvReleaseIncr ==
  ASSUME Inv, NEW h \in Handlers, NEW v \in Variants, ReleaseIncr(h, v)
  PROVE  Inv'
<1>1. got[h] \in Hash /\ rid[h] \in ResIds /\ v \in DOMAIN got[h].items
  BY DEF Inv, TypeOK, ReleaseIncr
<1>2. got[h].items[v] \in Nat
  BY <1>1, RequestFacts DEF Hash
<1>3. stock' \in [Variants -> Int] /\ refunded' \in [ResIds -> [Variants -> Nat]]
  BY <1>1, <1>2 DEF Inv, TypeOK, ReleaseIncr
<1>4. TypeOK'
  BY <1>3 DEF Inv, TypeOK, ReleaseIncr
<1>5. CountersNonNegative'
  BY <1>2 DEF Inv, TypeOK, CountersNonNegative, ReleaseIncr
<1> QED
  BY <1>4, <1>5 DEF Inv, TypeOK, ReleaseIncr

\* Every step of the service and of its environment preserves the invariant.
LEMMA InvStep == Inv /\ [Next]_vars => Inv'
<1> SUFFICES ASSUME Inv, [Next]_vars PROVE Inv'
  OBVIOUS
<1>1. CASE UNCHANGED vars
  BY <1>1 DEF Inv, TypeOK, CountersNonNegative, vars, redisVars, handlerVars, historyVars
<1>2. CASE \E k \in Keys, req \in Requests : ReserveStock(k, req)
  BY <1>2, InvReserve
<1>3. CASE \E h \in Handlers, o \in {"commit", "release"}, r \in ResIds : ReadHash(h, o, r)
  BY <1>3, InvRead
<1>4. ASSUME NEW h \in Handlers, Handler(h) PROVE Inv'
  <2>1. CASE CommitOnHand(h)
    BY <2>1, InvCommit
  <2>2. CASE CommitRefused(h)
    BY <2>2, FinishFacts DEF Inv, TypeOK, CountersNonNegative, CommitRefused,
                             redisVars, historyVars
  <2>3. CASE \E v \in Variants : ReleaseIncr(h, v)
    BY <2>3, InvReleaseIncr
  <2>4. CASE DelReservation(h)
    BY <2>4 DEF Inv, TypeOK, CountersNonNegative, DelReservation, historyVars
  <2>5. CASE DelIdem(h)
    BY <2>5, FinishFacts DEF Inv, TypeOK, CountersNonNegative, DelIdem, historyVars
  <2> QED
    BY <1>4, <2>1, <2>2, <2>3, <2>4, <2>5 DEF Handler
<1>5. CASE \E r \in ResIds : ExpireReservation(r)
  BY <1>5 DEF Inv, TypeOK, CountersNonNegative, ExpireReservation, handlerVars, historyVars
<1>6. CASE \E k \in Keys : ExpireIdem(k)
  BY <1>6 DEF Inv, TypeOK, CountersNonNegative, ExpireIdem, handlerVars, historyVars
<1>7. ASSUME NEW h \in Handlers, Crash(h) PROVE Inv'
  <2>1. crashed' \in [ResIds -> Nat]
    BY <1>7 DEF Inv, TypeOK, Crash
  <2> QED
    BY <1>7, <2>1, FinishFacts DEF Inv, TypeOK, CountersNonNegative, Crash, redisVars
<1> QED
  BY <1>1, <1>2, <1>3, <1>4, <1>5, <1>6, <1>7 DEF Next

\* The state keeps its shape.
THEOREM TypeCorrect == Spec => []TypeOK
<1>1. Inv => TypeOK
  BY DEF Inv
<1> QED
  BY InvInit, InvStep, <1>1, PTL DEF Spec

\* No interleaving of reserves, commits, releases, expiries and crashes takes a
\* Redis counter or quantity_on_hand below zero.
THEOREM NeverNegative == Spec => []CountersNonNegative
<1>1. Inv => CountersNonNegative
  BY DEF Inv
<1> QED
  BY InvInit, InvStep, <1>1, PTL DEF Spec

-----------------------------------------------------------------------------
(* What a suspended call has done so far, whoever else works on its        *)
(* reservation.                                                            *)

Active(h) == pc[h] # "idle"

\* It works on an issued id with the hash it read; a commit past its transaction
\* has sold, a release has returned what it has not still to return; and nothing
\* happened to an id nobody was given.
CallInv ==
  /\ \A h \in Handlers : Active(h) =>
       /\ rid[h] \in issued
       /\ op[h] \in {"commit", "release"}
       /\ reservation[rid[h]] \in {got[h], Absent}
       /\ pc[h] = "delIdem" => reservation[rid[h]] = Absent
       /\ pc[h] # "apply" \/ op[h] = "commit" => todo[h] = {}
  /\ \A h \in Handlers :
       (Active(h) /\ op[h] = "commit" /\ pc[h] # "apply") => sold[rid[h]] >= 1
  /\ \A h \in Handlers, v \in Variants :
       (Active(h) /\ op[h] = "release" /\ v \in DOMAIN got[h].items)
         => v \in todo[h] \/ refunded[rid[h]][v] >= 1
  /\ \A r \in ResIds \ issued : /\ reservation[r] = Absent /\ sold[r] = 0
                                /\ \A v \in Variants : refunded[r][v] = 0

LEMMA CallInvInit == Init => CallInv
BY DEF Init, CallInv, Active

LEMMA CallInvStep == Inv /\ Inv' /\ CallInv /\ [Next]_vars => CallInv'
<1> SUFFICES ASSUME Inv, Inv', CallInv, [Next]_vars PROVE CallInv'
  OBVIOUS
<1> USE DEF Inv, TypeOK, Active
<1>1. CASE UNCHANGED vars
  BY <1>1 DEF CallInv, vars, redisVars, handlerVars, historyVars
<1>2. ASSUME NEW k \in Keys, NEW req \in Requests, NEW r \in ResIds, ReserveGrant(k, req, r)
      PROVE  CallInv'
  <2>1. /\ r \notin issued /\ issued' = issued \cup {r}
        /\ \A q \in ResIds \ {r} : reservation'[q] = reservation[q]
        /\ UNCHANGED <<pc, op, rid, got, todo, sold, refunded>>
    BY <1>2 DEF ReserveGrant, handlerVars
  <2> QED
    BY <2>1 DEF CallInv
<1>3. ASSUME NEW h \in Handlers, NEW o \in {"commit", "release"}, NEW r \in ResIds,
             ReadHash(h, o, r)
      PROVE  CallInv'
  <2>1. CASE reservation[r] = Absent
    BY <1>1, <1>3, <2>1 DEF ReadHash, vars
  <2>2. CASE reservation[r] # Absent
    <3>1. /\ pc'[h] = "apply" /\ op'[h] = o /\ rid'[h] = r /\ got'[h] = reservation[r]
          /\ todo'[h] = IF o = "release" THEN DOMAIN reservation[r].items ELSE {}
          /\ \A g \in Handlers \ {h} : /\ pc'[g] = pc[g] /\ op'[g] = op[g]
                                       /\ rid'[g] = rid[g] /\ got'[g] = got[g]
                                       /\ todo'[g] = todo[g]
          /\ r \in issued
          /\ UNCHANGED <<reservation, issued, sold, refunded>>
      BY <1>3, <2>2 DEF ReadHash, redisVars, historyVars
    <3>2. \A g \in Handlers : Active(g)' =>
            /\ rid'[g] \in issued /\ op'[g] \in {"commit", "release"}
            /\ reservation[rid'[g]] \in {got'[g], Absent}
            /\ pc'[g] = "delIdem" => reservation[rid'[g]] = Absent
            /\ pc'[g] # "apply" \/ op'[g] = "commit" => todo'[g] = {}
      BY <3>1 DEF CallInv
    <3>3. \A g \in Handlers :
            (Active(g)' /\ op'[g] = "commit" /\ pc'[g] # "apply") => sold[rid'[g]] >= 1
      BY <3>1 DEF CallInv
    <3>4. \A g \in Handlers, v \in Variants :
            (Active(g)' /\ op'[g] = "release" /\ v \in DOMAIN got'[g].items)
              => v \in todo'[g] \/ refunded[rid'[g]][v] >= 1
      BY <3>1, SMTT(20) DEF CallInv
    <3> QED
      BY <3>1, <3>2, <3>3, <3>4 DEF CallInv
  <2> QED
    BY <2>1, <2>2
<1>4. ASSUME NEW h \in Handlers, CommitOnHand(h) PROVE CallInv'
  <2>1. /\ pc[h] = "apply" /\ pc'[h] = "delReservation" /\ op[h] = "commit"
        /\ \A g \in Handlers \ {h} : pc'[g] = pc[g]
        /\ rid[h] \in ResIds /\ sold'[rid[h]] = sold[rid[h]] + 1
        /\ \A q \in ResIds \ {rid[h]} : sold'[q] = sold[q]
        /\ UNCHANGED <<reservation, op, rid, got, todo, issued, refunded>>
    BY <1>4 DEF CommitOnHand, redisVars
  <2>2. \A q \in ResIds : sold[q] \in Nat
    OBVIOUS
  <2>3. \A q \in ResIds : sold[q] >= 1 => sold'[q] >= 1
    BY <2>1, <2>2
  <2>4. sold'[rid[h]] >= 1
    BY <2>1, <2>2
  <2>5. \A q \in ResIds \ issued : sold'[q] = 0
    BY <2>1 DEF CallInv
  <2>6. h \in Handlers /\ todo[h] = {}
    BY <2>1 DEF CallInv
  <2> QED
    BY <2>1, <2>3, <2>4, <2>5, <2>6, ZenonT(40) DEF CallInv
<1>5. ASSUME NEW h \in Handlers, NEW v \in Variants, ReleaseIncr(h, v) PROVE CallInv'
  <2>1. /\ pc[h] = "apply" /\ pc'[h] \in {"apply", "delReservation"} /\ op[h] = "release"
        /\ pc'[h] # "apply" => todo'[h] = {}
        /\ \A g \in Handlers \ {h} : pc'[g] = pc[g] /\ todo'[g] = todo[g]
        /\ todo'[h] = todo[h] \ {v}
        /\ rid[h] \in ResIds
        /\ \A q \in ResIds, u \in Variants : (q # rid[h] \/ u # v) => refunded'[q][u] = refunded[q][u]
        /\ UNCHANGED <<reservation, op, rid, got, issued, sold>>
    BY <1>5 DEF ReleaseIncr
  <2>2. refunded'[rid[h]][v] = refunded[rid[h]][v] + 1 /\ refunded[rid[h]][v] \in Nat
    BY <1>5, <2>1 DEF ReleaseIncr
  <2>3. refunded'[rid[h]][v] >= 1
    BY <2>2
  <2>4. \A q \in ResIds, u \in Variants : refunded[q][u] >= 1 => refunded'[q][u] >= 1
    BY <2>1, <2>3
  <2>5. rid[h] \in issued
    BY <2>1 DEF CallInv
  <2>6. \A g \in Handlers : Active(g)' => Active(g) /\ rid[g] \in ResIds
    BY <2>1
  <2>7. \A g \in Handlers, u \in Variants :
          (Active(g)' /\ op[g] = "release" /\ u \in DOMAIN got[g].items)
            => u \in todo'[g] \/ refunded'[rid[g]][u] >= 1
    BY <2>1, <2>3, <2>4, <2>6 DEF CallInv
  <2>8. ASSUME NEW q \in ResIds \ issued, NEW u \in Variants PROVE refunded'[q][u] = 0
    <3>1. refunded[q][u] = 0 /\ q # rid[h]
      BY <2>5 DEF CallInv
    <3> QED
      BY <2>1, <3>1
  <2>9. \A g \in Handlers : g # h /\ Active(g)' => pc[g] = pc'[g] /\ todo'[g] = todo[g]
    BY <2>1
  <2>10. \A g \in Handlers : Active(g)' =>
          /\ rid[g] \in issued
          /\ op[g] \in {"commit", "release"}
          /\ reservation[rid[g]] \in {got[g], Absent}
          /\ pc'[g] = "delIdem" => reservation[rid[g]] = Absent
          /\ pc'[g] # "apply" \/ op[g] = "commit" => todo'[g] = {}
    BY <2>1, <2>9 DEF CallInv
  <2>11. \A g \in Handlers :
          (Active(g)' /\ op[g] = "commit" /\ pc'[g] # "apply") => sold[rid[g]] >= 1
    BY <2>1, <2>9 DEF CallInv
  <2> QED
    BY <2>1, <2>7, <2>8, <2>10, <2>11 DEF CallInv
<1>6. ASSUME NEW h \in Handlers, DelReservation(h) PROVE CallInv'
  <2>1. /\ pc[h] = "delReservation" /\ pc'[h] = "delIdem"
        /\ \A g \in Handlers \ {h} : pc'[g] = pc[g]
        /\ \A q \in ResIds : reservation'[q] \in {reservation[q], Absent}
        /\ rid[h] \in ResIds /\ reservation'[rid[h]] = Absent
        /\ UNCHANGED <<op, rid, got, todo, issued, sold, refunded>>
    BY <1>6 DEF DelReservation, historyVars
  <2>2. \A g \in Handlers : Active(g)' =>
          /\ Active(g) /\ rid[g] \in ResIds
          /\ pc'[g] # "apply" => pc[g] # "apply"
    BY <2>1
  <2>3. \A g \in Handlers : Active(g)' =>
          /\ rid[g] \in issued /\ op[g] \in {"commit", "release"}
          /\ reservation'[rid[g]] \in {got[g], Absent}
          /\ pc'[g] = "delIdem" => reservation'[rid[g]] = Absent
          /\ pc'[g] # "apply" \/ op[g] = "commit" => todo[g] = {}
    BY <2>1, <2>2 DEF CallInv
  <2>4. \A q \in ResIds \ issued : /\ reservation'[q] = Absent /\ sold[q] = 0
                                  /\ \A v \in Variants : refunded[q][v] = 0
    BY <2>1 DEF CallInv
  <2>5. \A g \in Handlers :
          (Active(g)' /\ op[g] = "commit" /\ pc'[g] # "apply") => sold[rid[g]] >= 1
    BY <2>2 DEF CallInv
  <2>6. \A g \in Handlers, v \in Variants :
          (Active(g)' /\ op[g] = "release" /\ v \in DOMAIN got[g].items)
            => v \in todo[g] \/ refunded[rid[g]][v] >= 1
    BY <2>2 DEF CallInv
  <2> QED
    BY <2>1, <2>3, <2>4, <2>5, <2>6 DEF CallInv
<1>7. ASSUME NEW h \in Handlers, CommitRefused(h) \/ DelIdem(h) \/ Crash(h) PROVE CallInv'
  <2>1. /\ pc'[h] = "idle"
        /\ \A g \in Handlers \ {h} : /\ pc'[g] = pc[g] /\ op'[g] = op[g]
                                     /\ rid'[g] = rid[g] /\ got'[g] = got[g]
                                     /\ todo'[g] = todo[g]
        /\ UNCHANGED <<reservation, issued, sold, refunded>>
    BY <1>7 DEF CommitRefused, DelIdem, Crash, Finish, redisVars, historyVars
  <2>2. \A g \in Handlers : Active(g)' =>
          /\ Active(g) /\ pc'[g] = pc[g] /\ op'[g] = op[g] /\ rid'[g] = rid[g]
          /\ got'[g] = got[g] /\ todo'[g] = todo[g]
    BY <2>1
  <2>3. \A g \in Handlers : Active(g)' =>
          /\ rid'[g] \in issued
          /\ op'[g] \in {"commit", "release"}
          /\ reservation[rid'[g]] \in {got'[g], Absent}
          /\ pc'[g] = "delIdem" => reservation[rid'[g]] = Absent
          /\ pc'[g] # "apply" \/ op'[g] = "commit" => todo'[g] = {}
    BY <2>2 DEF CallInv
  <2>4. \A g \in Handlers :
          (Active(g)' /\ op'[g] = "commit" /\ pc'[g] # "apply") => sold[rid'[g]] >= 1
    BY <2>2 DEF CallInv
  <2>5. \A g \in Handlers, v \in Variants :
          (Active(g)' /\ op'[g] = "release" /\ v \in DOMAIN got'[g].items)
            => v \in todo'[g] \/ refunded[rid'[g]][v] >= 1
    BY <2>2 DEF CallInv
  <2> QED
    BY <2>1, <2>3, <2>4, <2>5 DEF CallInv
<1>8. ASSUME NEW r \in ResIds, ExpireReservation(r) PROVE CallInv'
  <2>1. /\ \A q \in ResIds : reservation'[q] \in {reservation[q], Absent}
        /\ UNCHANGED <<pc, op, rid, got, todo, issued, sold, refunded>>
    BY <1>8 DEF ExpireReservation, handlerVars, historyVars
  <2> QED
    BY <2>1 DEF CallInv
<1>9. ASSUME NEW k \in Keys, ExpireIdem(k) PROVE CallInv'
  BY <1>9 DEF ExpireIdem, CallInv, handlerVars, historyVars
<1> QED
  BY <1>1, <1>2, <1>3, <1>4, <1>5, <1>6, <1>7, <1>8, <1>9
     DEF Next, Handler, ReserveStock, ReserveHit, ReserveReject

-----------------------------------------------------------------------------
(* From here on calls that name one reservation do not overlap.            *)

Settled(r, v) == sold[r] + refunded[r][v]

\* At most one coroutine works on a reservation, and only on an issued one;
\* once it deletes the idempotency record the hash is gone.
SerialInv ==
  /\ \A h, g \in Handlers : Active(h) /\ Active(g) /\ rid[h] = rid[g] => h = g
  /\ \A h \in Handlers : Active(h) => rid[h] \in issued
  /\ \A h \in Handlers : pc[h] = "delIdem" => reservation[rid[h]] = Absent
  /\ \A r \in ResIds \ issued : /\ reservation[r] = Absent /\ sold[r] = 0
                                /\ \A v \in Variants : refunded[r][v] = 0

\* Why a reservation settles once.  A hash nobody works on, and a coroutine
\* that has still to apply its effect, mean that nothing was settled yet except
\* by coroutines that died.
SettleInv ==
  /\ SettledOnce
  /\ \A r \in ResIds, v \in Variants :
       (reservation[r] # Absent /\ \A h \in Handlers : Active(h) => rid[h] # r)
         => Settled(r, v) <= crashed[r]
  /\ \A h \in Handlers, v \in Variants :
       (pc[h] = "apply" /\ (op[h] = "commit" \/ v \in todo[h]))
         => Settled(rid[h], v) <= crashed[rid[h]]

\* Why a key holds one reservation.  The record of a hash's key names that
\* hash, and keeps naming it while a coroutine works on it.
IndexInv ==
  /\ \A r \in ResIds :
       reservation[r] # Absent => idem[reservation[r].idem_key] = r
  /\ \A h \in Handlers : Active(h) => idem[got[h].idem_key] = rid[h]

IInv == Inv /\ SerialInv /\ SettleInv /\ IndexInv

\* The initial state satisfies it: nothing is issued.
LEMMA IInvInit == Init => IInv
BY InvInit DEF Init, IInv, SerialInv, SettleInv, IndexInv, SettledOnce, Settled, Active

\* A reservation is granted to a fresh id under a key nobody uses.
LEMMA IInvReserve ==
  ASSUME IInv, Inv', NEW k \in Keys, NEW req \in Requests, NEW r \in ResIds,
         ReserveGrant(k, req, r)
  PROVE  IInv'
<1> USE DEF IInv, Active
<1>1. SerialInv'
  BY DEF SerialInv, Inv, TypeOK, ReserveGrant, handlerVars
<1>2. SettleInv'
  BY DEF SerialInv, SettleInv, SettledOnce, Settled, Inv, TypeOK, ReserveGrant, handlerVars
<1>3. IndexInv'
  <2>1. \A q \in ResIds \ {r} : reservation'[q] = reservation[q]
    BY DEF ReserveGrant, Inv, TypeOK
  <2>2. reservation'[r].idem_key = k /\ idem'[k] = r
    BY DEF ReserveGrant, Inv, TypeOK
  <2>3. \A j \in Keys \ {k} : idem'[j] = idem[j]
    BY DEF ReserveGrant, Inv, TypeOK
  <2>4. \A q \in ResIds \ {r} :
          reservation[q] # Absent => reservation[q].idem_key \in Keys \ {k}
    BY VariantsAssumption DEF ReserveGrant, Inv, TypeOK, IndexInv, Hash
  <2>5. \A h \in Handlers : Active(h) => got[h].idem_key \in Keys \ {k}
    BY VariantsAssumption DEF ReserveGrant, Inv, TypeOK, IndexInv, Hash
  <2> QED
    BY <2>1, <2>2, <2>3, <2>4, <2>5 DEF ReserveGrant, IndexInv, handlerVars
<1> QED
  BY <1>1, <1>2, <1>3

\* A coroutine starts only on a reservation nobody works on.
LEMMA IInvRead ==
  ASSUME IInv, Inv',
         NEW h \in Handlers, NEW o \in {"commit", "release"}, NEW r \in ResIds,
         ReadHash(h, o, r), Working(r) = {} \/ reservation[r] = Absent
  PROVE  IInv'
<1> USE DEF IInv, Active
<1>1. CASE reservation[r] = Absent
  BY <1>1 DEF SerialInv, SettleInv, SettledOnce, Settled, IndexInv, ReadHash,
              redisVars, handlerVars, historyVars
<1>2. CASE reservation[r] # Absent
  <2>1. \A g \in Handlers : Active(g) => rid[g] # r
    BY <1>2 DEF Working
  <2>2. /\ pc' = [pc EXCEPT ![h] = "apply"] /\ op' = [op EXCEPT ![h] = o]
        /\ rid' = [rid EXCEPT ![h] = r] /\ got' = [got EXCEPT ![h] = reservation[r]]
        /\ todo'[h] \subseteq Variants /\ \A g \in Handlers \ {h} : todo'[g] = todo[g]
        /\ UNCHANGED <<redisVars, onHand, historyVars>>
    BY <1>2 DEF ReadHash, Inv, TypeOK
  <2>3. SerialInv'
    BY <1>2, <2>1, <2>2 DEF SerialInv, ReadHash, Inv, TypeOK, redisVars, historyVars
  <2>4. SettleInv'
    <3>1. \A v \in Variants : Settled(r, v) <= crashed[r]
      BY <1>2, <2>1 DEF SettleInv
    <3>2. \A g \in Handlers, v \in Variants :
            (pc'[g] = "apply" /\ (op'[g] = "commit" \/ v \in todo'[g]))
              => Settled(rid'[g], v) <= crashed[rid'[g]]
      BY <2>2, <3>1 DEF SettleInv, Inv, TypeOK
    <3>3. ASSUME NEW q \in ResIds, \A g \in Handlers : pc'[g] # "idle" => rid'[g] # q
          PROVE  \A g \in Handlers : Active(g) => rid[g] # q
      BY <2>2, <3>3 DEF ReadHash, Inv, TypeOK
    <3>4. UNCHANGED <<reservation, sold, refunded, crashed>>
      BY <2>2 DEF redisVars, historyVars
    <3> QED
      BY <3>2, <3>3, <3>4 DEF SettleInv, SettledOnce, Settled
  <2>5. IndexInv'
    BY <1>2, <2>2 DEF IndexInv, Inv, TypeOK, redisVars
  <2> QED
    BY <2>3, <2>4, <2>5
<1> QED
  BY <1>1, <1>2

\* A commit spends the one settlement its reservation has left.
LEMMA IInvCommit ==
  ASSUME IInv, Inv', NEW h \in Handlers, CommitOnHand(h)
  PROVE  IInv'
<1> USE DEF IInv, Active
<1> DEFINE r == rid[h]
<1>1. r \in ResIds /\ Active(h)
  BY DEF CommitOnHand, Inv
<1>2. /\ pc' = [pc EXCEPT ![h] = "delReservation"]
      /\ sold' = [sold EXCEPT ![r] = @ + 1]
      /\ UNCHANGED <<redisVars, op, rid, got, todo, issued, refunded, crashed>>
  BY DEF CommitOnHand
<1>3. SerialInv'
  BY <1>1, <1>2 DEF SerialInv, Inv, TypeOK, redisVars
<1>4. SettleInv'
  <2>1. \A v \in Variants : Settled(r, v) <= crashed[r]
    BY DEF SettleInv, CommitOnHand
  <2>2. \A v \in Variants : sold'[r] + refunded'[r][v] <= 1 + crashed'[r]
    BY <1>1, <1>2, <2>1 DEF Settled, Inv, TypeOK
  <2>3. \A q \in ResIds \ {r} : sold'[q] = sold[q]
    BY <1>2 DEF Inv, TypeOK
  <2>4. \A g \in Handlers \ {h} : Active(g) => rid[g] # r
    BY <1>1 DEF SerialInv
  <2> QED
    BY <1>1, <1>2, <2>2, <2>3, <2>4
       DEF SettleInv, SettledOnce, Settled, Inv, TypeOK, redisVars
<1>5. IndexInv'
  BY <1>1, <1>2 DEF IndexInv, Inv, TypeOK, redisVars
<1> QED
  BY <1>3, <1>4, <1>5

\* So does a release, one variant at a time.
LEMMA IInvReleaseIncr ==
  ASSUME IInv, Inv', NEW h \in Handlers, NEW w \in Variants, ReleaseIncr(h, w)
  PROVE  IInv'
<1> USE DEF IInv, Active
<1> DEFINE r == rid[h]
<1>1. r \in ResIds /\ Active(h) /\ op[h] = "release"
  BY DEF ReleaseIncr, Inv
<1>2. /\ pc'[h] \in {"apply", "delReservation"}
      /\ \A g \in Handlers \ {h} : pc'[g] = pc[g] /\ todo'[g] = todo[g]
      /\ todo'[h] = todo[h] \ {w}
      /\ refunded' = [refunded EXCEPT ![r][w] = @ + 1]
      /\ UNCHANGED <<reservation, idem, op, rid, got, issued, sold, crashed>>
  BY DEF ReleaseIncr, Inv, TypeOK
<1>3. SerialInv'
  BY <1>1, <1>2 DEF SerialInv, Inv, TypeOK
<1>4. SettleInv'
  <2>1. \A v \in todo[h] : v \in Variants => Settled(r, v) <= crashed[r]
    BY DEF SettleInv, ReleaseIncr
  <2>2. /\ \A v \in Variants \ {w} : refunded'[r][v] = refunded[r][v]
        /\ refunded'[r][w] = refunded[r][w] + 1
        /\ \A q \in ResIds \ {r} : refunded'[q] = refunded[q]
    BY <1>1, <1>2 DEF Inv, TypeOK
  <2>3. \A q \in ResIds, v \in Variants : sold[q] + refunded'[q][v] <= 1 + crashed[q]
    BY <2>1, <2>2 DEF SettleInv, SettledOnce, Settled, ReleaseIncr, Inv, TypeOK
  <2>4. \A g \in Handlers \ {h} : Active(g) => rid[g] # r
    BY <1>1 DEF SerialInv
  <2>5. \A g \in Handlers, v \in Variants :
          (pc'[g] = "apply" /\ (op[g] = "commit" \/ v \in todo'[g]))
            => sold[rid[g]] + refunded'[rid[g]][v] <= crashed[rid[g]]
    <3> SUFFICES ASSUME NEW g \in Handlers, NEW v \in Variants,
                        pc'[g] = "apply", op[g] = "commit" \/ v \in todo'[g]
                 PROVE  sold[rid[g]] + refunded'[rid[g]][v] <= crashed[rid[g]]
      OBVIOUS
    <3>1. CASE g = h
      BY <1>1, <1>2, <2>1, <2>2, <3>1 DEF Settled
    <3>2. CASE g # h
      <4>1. pc[g] = "apply" /\ (op[g] = "commit" \/ v \in todo[g])
        BY <1>2, <3>2
      <4>2. rid[g] \in ResIds \ {r}
        BY <2>4, <3>2, <4>1 DEF Inv
      <4> QED
        BY <2>2, <4>1, <4>2 DEF SettleInv, Settled
    <3> QED
      BY <3>1, <3>2
  <2>6. \A q \in ResIds, v \in Variants :
          (reservation[q] # Absent /\ \A g \in Handlers : pc'[g] # "idle" => rid[g] # q)
            => sold[q] + refunded'[q][v] <= crashed[q]
    <3> SUFFICES ASSUME NEW q \in ResIds, NEW v \in Variants, reservation[q] # Absent,
                        \A g \in Handlers : pc'[g] # "idle" => rid[g] # q
                 PROVE  sold[q] + refunded'[q][v] <= crashed[q]
      OBVIOUS
    <3>1. q # r
      BY <1>2
    <3>2. \A g \in Handlers : Active(g) => rid[g] # q
      BY <1>2, <3>1
    <3> QED
      BY <2>2, <3>1, <3>2 DEF SettleInv, Settled
  <2> QED
    BY <1>2, <2>3, <2>5, <2>6 DEF SettleInv, SettledOnce, Settled
<1>5. IndexInv'
  BY <1>1, <1>2 DEF IndexInv
<1> QED
  BY <1>3, <1>4, <1>5

\* Deleting the hash leaves its key's record to the coroutine that deletes it.
LEMMA IInvDelReservation ==
  ASSUME IInv, Inv', NEW h \in Handlers, DelReservation(h)
  PROVE  IInv'
<1> USE DEF IInv, Active
<1>1. rid[h] \in ResIds /\ Active(h)
  BY DEF DelReservation, Inv
<1>2. SerialInv'
  BY <1>1 DEF SerialInv, DelReservation, Inv, TypeOK, historyVars
<1>3. SettleInv'
  BY <1>1 DEF SettleInv, SettledOnce, Settled, DelReservation, Inv, TypeOK, historyVars
<1>4. IndexInv'
  BY <1>1 DEF IndexInv, DelReservation, Inv, TypeOK
<1> QED
  BY <1>2, <1>3, <1>4

\* A coroutine that ends without a crash has spent its effect or never had one.
LEMMA IInvDelIdem ==
  ASSUME IInv, Inv', NEW h \in Handlers, DelIdem(h)
  PROVE  IInv'
<1> USE DEF IInv, Active
<1>1. rid[h] \in ResIds /\ Active(h) /\ reservation[rid[h]] = Absent /\ got[h] \in Hash
  BY DEF DelIdem, Inv, SerialInv
<1>2. /\ pc'[h] = "idle"
      /\ \A g \in Handlers \ {h} : /\ pc'[g] = pc[g] /\ op'[g] = op[g] /\ rid'[g] = rid[g]
                                   /\ got'[g] = got[g] /\ todo'[g] = todo[g]
      /\ UNCHANGED <<reservation, issued, sold, refunded, crashed>>
  BY DEF DelIdem, Finish, Inv, TypeOK, historyVars
<1>3. SerialInv'
  BY <1>1, <1>2 DEF SerialInv
<1>4. SettleInv'
  BY <1>1, <1>2 DEF SettleInv, SettledOnce, Settled
<1>5. IndexInv'
  <2>1. \A k \in Keys \ {got[h].idem_key} : idem'[k] = idem[k]
    BY DEF DelIdem, Inv, TypeOK
  <2>2. \A q \in ResIds : reservation[q] # Absent
          => reservation[q].idem_key \in Keys \ {got[h].idem_key}
    BY <1>1 DEF IndexInv, Inv, TypeOK, Hash
  <2>3. \A g \in Handlers \ {h} : Active(g) => got[g].idem_key \in Keys \ {got[h].idem_key}
    BY <1>1 DEF IndexInv, SerialInv, Inv, Hash
  <2> QED
    BY <1>2, <2>1, <2>2, <2>3 DEF IndexInv
<1> QED
  BY <1>3, <1>4, <1>5

\* A commit the constraint refuses settled nothing.
LEMMA IInvCommitRefused ==
  ASSUME IInv, Inv', NEW h \in Handlers, CommitRefused(h)
  PROVE  IInv'
<1> USE DEF IInv, Active
<1>1. /\ pc'[h] = "idle"
      /\ \A g \in Handlers \ {h} : /\ pc'[g] = pc[g] /\ op'[g] = op[g] /\ rid'[g] = rid[g]
                                   /\ got'[g] = got[g] /\ todo'[g] = todo[g]
      /\ UNCHANGED <<reservation, idem, issued, sold, refunded, crashed>>
  BY DEF CommitRefused, Finish, Inv, TypeOK, redisVars, historyVars
<1>2. SerialInv'
  BY <1>1 DEF SerialInv
<1>3. \A v \in Variants : Settled(rid[h], v) <= crashed[rid[h]]
  BY DEF CommitRefused, SettleInv
<1>4. SettleInv'
  BY <1>1, <1>3 DEF SettleInv, SettledOnce, Settled
<1>5. IndexInv'
  BY <1>1 DEF IndexInv
<1> QED
  BY <1>2, <1>4, <1>5

\* A coroutine that dies leaves at most one settlement to be repeated.
LEMMA IInvCrash ==
  ASSUME IInv, Inv', NEW h \in Handlers, Crash(h)
  PROVE  IInv'
<1> USE DEF IInv, Active
<1>1. rid[h] \in ResIds
  BY DEF Crash, Inv
<1>2. /\ pc'[h] = "idle"
      /\ \A g \in Handlers \ {h} : /\ pc'[g] = pc[g] /\ op'[g] = op[g] /\ rid'[g] = rid[g]
                                   /\ got'[g] = got[g] /\ todo'[g] = todo[g]
      /\ UNCHANGED <<reservation, idem, issued, sold, refunded>>
  BY DEF Crash, Finish, Inv, TypeOK, redisVars
<1>3. /\ crashed'[rid[h]] = crashed[rid[h]] + 1
      /\ \A q \in ResIds \ {rid[h]} : crashed'[q] = crashed[q]
      /\ \A q \in ResIds : crashed[q] \in Nat /\ crashed'[q] \in Nat /\ sold[q] \in Nat
      /\ \A q \in ResIds, v \in Variants : refunded[q][v] \in Nat
  BY <1>1 DEF Crash, Inv, TypeOK
<1>4. SerialInv'
  BY <1>2 DEF SerialInv
<1>5. SettleInv'
  <2>1. \A v \in Variants : Settled(rid[h], v) <= crashed'[rid[h]]
    BY <1>1, <1>3 DEF SettleInv, SettledOnce, Settled
  <2>2. \A g \in Handlers \ {h} : Active(g) => rid[g] \in ResIds \ {rid[h]}
    BY DEF SerialInv, Inv, Crash
  <2>3. SettledOnce'
    BY <1>2, <1>3 DEF SettleInv, SettledOnce
  <2>4. ASSUME NEW g \in Handlers, NEW v \in Variants,
               pc'[g] = "apply", op'[g] = "commit" \/ v \in todo'[g]
        PROVE  sold[rid'[g]] + refunded[rid'[g]][v] <= crashed'[rid'[g]]
    BY <1>2, <1>3, <2>2, <2>4 DEF SettleInv, Settled
  <2>5. ASSUME NEW q \in ResIds, NEW v \in Variants, reservation[q] # Absent,
               \A g \in Handlers : pc'[g] # "idle" => rid'[g] # q
        PROVE  sold[q] + refunded[q][v] <= crashed'[q]
    <3>1. CASE q = rid[h]
      BY <2>1, <3>1 DEF Settled
    <3>2. CASE q # rid[h]
      BY <1>2, <1>3, <2>5, <3>2 DEF SettleInv, Settled
    <3> QED
      BY <3>1, <3>2
  <2> QED
    BY <1>2, <2>3, <2>4, <2>5 DEF SettleInv, Settled
<1>6. IndexInv'
  BY <1>2 DEF IndexInv
<1> QED
  BY <1>4, <1>5, <1>6

\* A call reads a hash that is there only when nobody else works on the reservation.
ReadsAlone ==
  \A h \in Handlers, o \in {"commit", "release"}, r \in ResIds :
    ReadHash(h, o, r) => Working(r) = {} \/ reservation[r] = Absent

\* Every step that reads alone preserves the invariant, whoever sees to that.
LEMMA IInvAlone == IInv /\ [Next]_vars /\ ReadsAlone => IInv'
<1> SUFFICES ASSUME IInv, [Next]_vars, ReadsAlone PROVE IInv'
  OBVIOUS
<1>0. Inv'
  BY InvStep DEF IInv
<1>1. CASE UNCHANGED vars
  BY <1>0, <1>1 DEF IInv, SerialInv, SettleInv, SettledOnce, Settled, IndexInv, Active,
                    vars, redisVars, handlerVars, historyVars
<1>2. ASSUME NEW k \in Keys, NEW req \in Requests, ReserveStock(k, req) PROVE IInv'
  BY <1>0, <1>1, <1>2, IInvReserve DEF ReserveStock, ReserveHit, ReserveReject
<1>3. CASE \E h \in Handlers, o \in {"commit", "release"}, r \in ResIds : ReadHash(h, o, r)
  BY <1>0, <1>3, IInvRead DEF ReadsAlone
<1>4. ASSUME NEW h \in Handlers, Handler(h) PROVE IInv'
  BY <1>0, <1>4, IInvCommit, IInvCommitRefused, IInvReleaseIncr,
     IInvDelReservation, IInvDelIdem DEF Handler
<1>5. ASSUME NEW r \in ResIds, ExpireReservation(r) PROVE IInv'
  <2>1. /\ reservation'[r] = Absent
        /\ \A q \in ResIds \ {r} : reservation'[q] = reservation[q]
        /\ UNCHANGED <<idem, pc, op, rid, got, todo, issued, sold, refunded, crashed>>
    BY <1>5 DEF ExpireReservation, IInv, Inv, TypeOK, handlerVars, historyVars
  <2> QED
    BY <1>0, <2>1 DEF IInv, Inv, SerialInv, SettleInv, SettledOnce, Settled, IndexInv, Active
<1>6. ASSUME NEW k \in Keys, ExpireIdem(k) PROVE IInv'
  <2>1. /\ \A j \in Keys \ {k} : idem'[j] = idem[j]
        /\ UNCHANGED <<reservation, pc, op, rid, got, todo, issued, sold, refunded, crashed>>
    BY <1>6 DEF ExpireIdem, IInv, Inv, TypeOK, handlerVars, historyVars
  <2>2. \A q \in ResIds : reservation[q] # Absent => reservation[q].idem_key \in Keys \ {k}
    BY <1>6 DEF ExpireIdem, IInv, Inv, TypeOK, IndexInv, Hash
  <2>3. \A h \in Handlers : Active(h) => got[h].idem_key \in Keys \ {k}
    BY <1>6 DEF ExpireIdem, Working, IInv, Inv, IndexInv, Active, Hash
  <2>4. IndexInv'
    BY <2>1, <2>2, <2>3 DEF IInv, IndexInv, Active
  <2> QED
    BY <1>0, <2>1, <2>4 DEF IInv, SerialInv, SettleInv, SettledOnce, Settled, Active
<1>7. CASE \E h \in Handlers : Crash(h)
  BY <1>0, <1>7, IInvCrash
<1> QED
  BY <1>1, <1>2, <1>3, <1>4, <1>5, <1>6, <1>7 DEF Next

\* Calls that do not overlap read alone.
LEMMA IInvStep ==
  ASSUME CallsOverlap = FALSE
  PROVE  IInv /\ [Next]_vars => IInv'
<1>1. ReadsAlone
  BY DEF ReadsAlone, ReadHash
<1> QED
  BY <1>1, IInvAlone

\* The units of a reservation are sold or refunded once, and once more at most
\* for every coroutine that died on it.
THEOREM SettlesOnce ==
  ASSUME CallsOverlap = FALSE
  PROVE  Spec => []SettledOnce
<1>1. IInv => SettledOnce
  BY DEF IInv, SettleInv
<1>2. IInv /\ [Next]_vars => IInv'
  BY IInvStep
<1> QED
  BY IInvInit, <1>1, <1>2, PTL DEF Spec

\* One idempotency key never has two reservations open, however the retries of
\* ReserveStock fall between the steps of commits, releases and expiries.
THEOREM IdempotentReserve ==
  ASSUME CallsOverlap = FALSE
  PROVE  Spec => []OneReservationPerKey
<1>1. IInv => OneReservationPerKey
  BY DEF IInv, IndexInv, OneReservationPerKey
<1>2. IInv /\ [Next]_vars => IInv'
  BY IInvStep
<1> QED
  BY IInvInit, <1>1, <1>2, PTL DEF Spec

-----------------------------------------------------------------------------
(* From here on no coroutine dies half way either.                         *)

\* A record names an id whose hash and whose coroutine carry its key; a record that
\* outlived both belongs to a reservation that nobody settled.
Recorded(k, r) ==
  /\ r \in issued
  /\ reservation[r] # Absent => reservation[r].idem_key = k
  /\ \A h \in Working(r) : got[h].idem_key = k
  /\ reservation[r] # Absent \/ Working(r) # {} \/ Lapsed(r)

RecordInv ==
  /\ \A r \in ResIds : crashed[r] = 0
  /\ \A k \in Keys, r \in ResIds : idem[k] = r => Recorded(k, r)

LEMMA RecordInit == Init => RecordInv
BY VariantsAssumption DEF Init, RecordInv

\* A reservation whose hash is there, or whose commit is still to come, has lost nothing.
LEMMA NothingSettled ==
  ASSUME IInv, RecordInv, Variants # {}, NEW r \in ResIds,
         \/ reservation[r] # Absent /\ Working(r) = {}
         \/ \E h \in Working(r) : pc[h] = "apply" /\ op[h] = "commit"
  PROVE  sold[r] = 0 /\ \A v \in Variants : refunded[r][v] = 0
<1>1. \A v \in Variants : sold[r] + refunded[r][v] <= 0
  BY DEF IInv, SettleInv, Settled, RecordInv, Working, Active
<1>2. sold[r] \in Nat /\ \A v \in Variants : refunded[r][v] \in Nat
  BY DEF IInv, Inv, TypeOK
<1> QED
  BY <1>1, <1>2

LEMMA RecordStep ==
  ASSUME MaxCrashes = 0, Variants # {}
  PROVE  IInv /\ IInv' /\ RecordInv /\ [Next]_vars => RecordInv'
<1> SUFFICES ASSUME IInv, IInv', RecordInv, [Next]_vars PROVE RecordInv'
  OBVIOUS
<1> USE DEF IInv, Inv, TypeOK
<1>1. CASE UNCHANGED vars
  BY <1>1 DEF RecordInv, Recorded, Working, Lapsed, vars, redisVars, handlerVars, historyVars
<1>2. ASSUME NEW k \in Keys, NEW req \in Requests, NEW r \in ResIds, ReserveGrant(k, req, r)
      PROVE  RecordInv'
  <2>1. /\ reservation'[r].idem_key = k /\ reservation'[r] # Absent /\ idem'[k] = r
        /\ r \notin issued /\ issued' = issued \cup {r}
        /\ \A q \in ResIds \ {r} : reservation'[q] = reservation[q]
        /\ \A j \in Keys \ {k} : idem'[j] = idem[j]
        /\ UNCHANGED <<pc, rid, got, sold, refunded, crashed>>
    BY <1>2, VariantsAssumption DEF ReserveGrant, handlerVars, Hash
  <2>2. Working(r)' = {} /\ \A q : Working(q)' = Working(q)
    BY <2>1 DEF Working, SerialInv, Active
  <2>3. \A q \in ResIds \ {r} : Lapsed(q) => Lapsed(q)'
    BY <2>1, <2>2 DEF Lapsed
  <2>4. ASSUME NEW j \in Keys, NEW q \in ResIds, idem'[j] = q PROVE Recorded(j, q)'
    <3>1. CASE q = r
      <4>1. j = k
        BY <2>1, <2>4, <3>1 DEF RecordInv, Recorded
      <4> QED
        BY <2>1, <2>2, <3>1, <4>1 DEF Recorded
    <3>2. CASE q # r
      <4>1. idem[j] = q
        BY <2>1, <2>4, <3>2
      <4>2. Recorded(j, q)
        BY <4>1 DEF RecordInv
      <4> QED
        BY <2>1, <2>2, <2>3, <3>2, <4>2 DEF Recorded
    <3> QED
      BY <3>1, <3>2
  <2> QED
    BY <2>1, <2>4 DEF RecordInv
<1>3. ASSUME NEW h \in Handlers, NEW o \in {"commit", "release"}, NEW r \in ResIds,
             ReadHash(h, o, r)
      PROVE  RecordInv'
  <2>1. CASE reservation[r] = Absent
    BY <1>1, <1>3, <2>1 DEF ReadHash, vars
  <2>2. CASE reservation[r] # Absent
    <3>1. /\ pc'[h] # "idle" /\ rid'[h] = r /\ got'[h] = reservation[r] /\ pc[h] = "idle"
          /\ \A g \in Handlers \ {h} : pc'[g] = pc[g] /\ rid'[g] = rid[g] /\ got'[g] = got[g]
          /\ UNCHANGED <<reservation, idem, issued, sold, refunded, crashed>>
      BY <1>3, <2>2 DEF ReadHash, redisVars, historyVars
    <3>2. /\ Working(r)' = Working(r) \cup {h}
          /\ \A q : q # r => Working(q)' = Working(q)
      BY <3>1 DEF Working
    <3>3. \A q \in ResIds : q # r /\ Lapsed(q) => Lapsed(q)'
      BY <3>1, <3>2 DEF Lapsed
    <3>4. \A q \in ResIds : h \notin Working(q)
      BY <3>1 DEF Working
    <3>5. ASSUME NEW k \in Keys, NEW q \in ResIds, idem'[k] = q PROVE Recorded(k, q)'
      <4>1. Recorded(k, q)
        BY <3>1, <3>5 DEF RecordInv
      <4>2. \A g \in Working(q) : g \in Handlers /\ got'[g] = got[g]
        BY <3>1, <3>4 DEF Working
      <4>3. CASE q = r
        BY <2>2, <3>1, <3>2, <4>1, <4>2, <4>3 DEF Recorded
      <4>4. CASE q # r
        BY <3>1, <3>2, <3>3, <4>1, <4>2, <4>4 DEF Recorded
      <4> QED
        BY <4>3, <4>4
    <3> QED
      BY <3>1, <3>5 DEF RecordInv
  <2> QED
    BY <2>1, <2>2
<1>4. ASSUME NEW h \in Handlers, Handler(h) \/ Crash(h) PROVE RecordInv'
  <2>1. CASE CommitOnHand(h) \/ (\E v \in Variants : ReleaseIncr(h, v)) \/ DelReservation(h)
    <3>1. /\ pc[h] # "idle" /\ pc'[h] # "idle" /\ rid[h] \in ResIds
          /\ \A g \in Handlers \ {h} : pc'[g] = pc[g]
          /\ UNCHANGED <<rid, got, idem, issued, crashed>>
          /\ \A q \in ResIds : q # rid[h] =>
               /\ reservation'[q] = reservation[q] /\ sold'[q] = sold[q]
               /\ refunded'[q] = refunded[q]
          /\ reservation'[rid[h]] \in {reservation[rid[h]], Absent}
      BY <2>1 DEF CommitOnHand, ReleaseIncr, DelReservation, redisVars, historyVars
    <3>2. \A q : Working(q)' = Working(q)
      BY <3>1 DEF Working
    <3>3. h \in Working(rid[h])
      BY <3>1 DEF Working
    <3>4. \A q \in ResIds : Lapsed(q) => Lapsed(q)'
      BY <3>1, <3>2, <3>3 DEF Lapsed
    <3> QED
      BY <3>1, <3>2, <3>3, <3>4 DEF RecordInv, Recorded
  <2>2. CASE CommitRefused(h) \/ DelIdem(h)
    <3>1. PICK r \in ResIds : r = rid[h]
      BY <2>2 DEF CommitRefused, DelIdem
    <3>2. /\ pc[h] # "idle" /\ pc'[h] = "idle" /\ got[h] \in Hash
          /\ \A g \in Handlers \ {h} : pc'[g] = pc[g] /\ rid'[g] = rid[g] /\ got'[g] = got[g]
          /\ UNCHANGED <<reservation, issued, sold, refunded, crashed>>
          /\ \A k \in Keys, q \in ResIds : idem'[k] = q => idem[k] = q
      BY <2>2, VariantsAssumption DEF CommitRefused, DelIdem, Finish, redisVars, historyVars, Hash
    <3>3. /\ \A q \in ResIds : q # r => Working(q)' = Working(q) /\ h \notin Working(q)
          /\ Working(r)' = {} /\ h \in Working(r)
      BY <3>1, <3>2 DEF Working, SerialInv, Active
    <3>4. \A q \in ResIds : q # r /\ Lapsed(q) => Lapsed(q)'
      BY <3>2, <3>3 DEF Lapsed
    <3>5. ASSUME NEW k \in Keys, idem'[k] = r
          PROVE  reservation'[r] # Absent \/ Lapsed(r)'
      <4>1. CASE DelIdem(h)
        <5>1. got[h].idem_key = k
          BY <3>2, <3>3, <3>5 DEF RecordInv, Recorded
        <5> QED
          BY <3>5, <4>1, <5>1, VariantsAssumption DEF DelIdem
      <4>2. CASE CommitRefused(h)
        <5>1. sold[r] = 0 /\ \A v \in Variants : refunded[r][v] = 0
          BY <3>3, <4>2, NothingSettled DEF CommitRefused
        <5>2. r \in issued
          BY <3>1, <3>2 DEF SerialInv, Active
        <5> QED
          BY <3>2, <3>3, <5>1, <5>2 DEF Lapsed
      <4> QED
        BY <2>2, <4>1, <4>2
    <3>6. \A q \in ResIds : q # r => \A g \in Working(q)' : got'[g] = got[g]
      BY <3>2, <3>3 DEF Working
    <3>7. ASSUME NEW k \in Keys, NEW q \in ResIds, idem'[k] = q PROVE Recorded(k, q)'
      <4>1. Recorded(k, q)
        BY <3>2, <3>7 DEF RecordInv
      <4>2. CASE q = r
        BY <3>2, <3>3, <3>5, <3>7, <4>1, <4>2 DEF Recorded
      <4>3. CASE q # r
        BY <3>2, <3>3, <3>4, <3>6, <4>1, <4>3 DEF Recorded
      <4> QED
        BY <4>2, <4>3
    <3> QED
      BY <3>2, <3>7 DEF RecordInv
  <2>3. ~Crash(h)
    BY DEF Crash, RecordInv
  <2> QED
    BY <1>4, <2>1, <2>2, <2>3 DEF Handler
<1>5. ASSUME NEW r \in ResIds, ExpireReservation(r) PROVE RecordInv'
  <2>1. /\ reservation[r] # Absent /\ reservation'[r] = Absent
        /\ \A q \in ResIds \ {r} : reservation'[q] = reservation[q]
        /\ UNCHANGED <<idem, pc, rid, got, issued, sold, refunded, crashed>>
    BY <1>5 DEF ExpireReservation, handlerVars, historyVars
  <2>2. \A q : Working(q)' = Working(q)
    BY <2>1 DEF Working
  <2>3. Working(r) # {} \/ Lapsed(r)'
    BY <2>1, <2>2, NothingSettled DEF Lapsed, SerialInv
  <2>4. \A q \in ResIds : q # r /\ Lapsed(q) => Lapsed(q)'
    BY <2>1, <2>2 DEF Lapsed
  <2>5. ASSUME NEW k \in Keys, NEW q \in ResIds, idem'[k] = q PROVE Recorded(k, q)'
    <3>1. Recorded(k, q)
      BY <2>1, <2>5 DEF RecordInv
    <3>2. CASE q = r
      BY <2>1, <2>2, <2>3, <3>1, <3>2 DEF Recorded
    <3>3. CASE q # r
      BY <2>1, <2>2, <2>4, <3>1, <3>3 DEF Recorded
    <3> QED
      BY <3>2, <3>3
  <2> QED
    BY <2>1, <2>5 DEF RecordInv
<1>6. ASSUME NEW k \in Keys, ExpireIdem(k) PROVE RecordInv'
  <2>1. /\ \A j \in Keys, q \in ResIds : idem'[j] = q => idem[j] = q
        /\ UNCHANGED <<reservation, pc, rid, got, issued, sold, refunded, crashed>>
    BY <1>6, VariantsAssumption DEF ExpireIdem, handlerVars, historyVars
  <2>2. /\ \A q : Working(q)' = Working(q)
        /\ \A q \in ResIds : Lapsed(q) => Lapsed(q)'
    BY <2>1 DEF Working, Lapsed
  <2> QED
    BY <2>1, <2>2 DEF RecordInv, Recorded
<1>7. ASSUME NEW k \in Keys, NEW req \in Requests, ReserveStock(k, req) PROVE RecordInv'
  BY <1>1, <1>2, <1>7 DEF ReserveStock, ReserveHit, ReserveReject
<1> QED
  BY <1>1, <1>3, <1>4, <1>5, <1>6, <1>7 DEF Next

\* A retried ReserveStock meets a reservation that is open and its own, or one that
\* lapsed or is being settled: for any number of keys, retries and coroutines, when calls
\* on one reservation do not overlap and none dies half way.
THEOREM RetriesFindTheirs ==
  ASSUME CallsOverlap = FALSE, MaxCrashes = 0, Variants # {}
  PROVE  Spec => []IdemNamesReservation
<1>1. IInv /\ RecordInv => IdemNamesReservation
  <2> SUFFICES ASSUME IInv, RecordInv, NEW k \in Keys, idem[k] # Absent
               PROVE  \/ reservation[idem[k]] # Absent /\ reservation[idem[k]].idem_key = k
                      \/ Lapsed(idem[k]) \/ Working(idem[k]) # {}
    BY DEF IdemNamesReservation
  <2>1. idem[k] \in ResIds
    BY DEF IInv, Inv, TypeOK
  <2> QED
    BY <2>1 DEF RecordInv, Recorded
<1>2. IInv /\ [Next]_vars => IInv'
  BY IInvStep
<1>3. IInv /\ IInv' /\ RecordInv /\ [Next]_vars => RecordInv'
  BY RecordStep
<1> QED
  BY IInvInit, RecordInit, <1>1, <1>2, <1>3, PTL DEF Spec

-----------------------------------------------------------------------------
(* The service implements the ledger: whoever knows StockLedger knows what *)
(* reservations, commits and releases do to units.                         *)


\* A coroutine acts on the hash as it is, or as it was before its TTL, and has moved
\* all the units it has not still to move.
CopyOK(h) ==
  /\ op[h] \in {"commit", "release"}
  /\ reservation[rid[h]] \in {got[h], Absent}
  /\ pc[h] = "apply" /\ reservation[rid[h]] = Absent => TTLExpires
  /\ pc[h] = "apply" /\ op[h] = "release"
       => \A v \in DOMAIN got[h].items \ todo[h] : refunded[rid[h]][v] > 0
  /\ pc[h] # "apply"
       => sold[rid[h]] > 0 \/ \A v \in DOMAIN got[h].items : refunded[rid[h]][v] > 0

CopyInv == \A h \in Handlers : Active(h) => CopyOK(h)

LInv == IInv /\ RecordInv /\ CopyInv

\* What a reservation holds back is read off its hash, or off the coroutine at work.
HeldBy(h, v) ==
  IF pc[h] = "apply" /\ (op[h] = "commit" \/ v \in todo[h])
  THEN Qty(got[h].items, v) ELSE 0

HeldWhere ==
  \A r \in ResIds, v \in Variants :
    /\ Working(r) = {} =>
         Held(r, v) = IF reservation[r] # Absent THEN Qty(reservation[r].items, v) ELSE 0
    /\ \A h \in Handlers : Active(h) /\ rid[h] = r => Held(r, v) = HeldBy(h, v)

-----------------------------------------------------------------------------
(* Copies.                                                                 *)

LEMMA CopyInit == Init => CopyInv
  BY DEF Init, CopyInv, Active

\* A coroutine whose slot, hash and history stand still keeps what it knows.
LEMMA CopyKept ==
  ASSUME NEW h \in Handlers, Active(h) => CopyOK(h),
         UNCHANGED <<pc[h], op[h], rid[h], got[h], todo[h]>>,
         Active(h) => /\ reservation'[rid[h]] = reservation[rid[h]]
                      /\ sold'[rid[h]] = sold[rid[h]]
                      /\ refunded'[rid[h]] = refunded[rid[h]]
  PROVE  Active(h)' => CopyOK(h)'
  BY DEF Active, CopyOK

LEMMA CopyStep ==
  ASSUME MaxCrashes = 0
  PROVE  IInv /\ IInv' /\ RecordInv /\ CopyInv /\ [Next]_vars => CopyInv'
<1> SUFFICES ASSUME IInv, IInv', RecordInv, CopyInv, [Next]_vars PROVE CopyInv'
  OBVIOUS
<1> USE DEF IInv, Inv, TypeOK
<1>1. CASE UNCHANGED vars
  BY <1>1 DEF CopyInv, CopyOK, Active, vars, redisVars, handlerVars, historyVars
<1>2. ASSUME NEW k \in Keys, NEW req \in Requests, NEW r \in ResIds, ReserveGrant(k, req, r)
      PROVE  CopyInv'
  <2>1. \A h \in Handlers : Active(h) => rid[h] # r /\ rid[h] \in ResIds
    BY <1>2 DEF ReserveGrant, SerialInv, Active
  <2>2. \A h \in Handlers : Active(h) => reservation'[rid[h]] = reservation[rid[h]]
    BY <1>2, <2>1 DEF ReserveGrant
  <2> QED
    BY <1>2, <2>2, CopyKept DEF CopyInv, ReserveGrant, handlerVars
<1>3. ASSUME NEW h \in Handlers, NEW o \in {"commit", "release"}, NEW r \in ResIds,
             ReadHash(h, o, r)
      PROVE  CopyInv'
  <2>1. CASE reservation[r] = Absent
    BY <1>1, <1>3, <2>1 DEF ReadHash, vars
  <2>2. CASE reservation[r] # Absent
    <3>1. \A g \in Handlers \ {h} : Active(g)' => CopyOK(g)'
      BY <1>3, <2>2, CopyKept DEF CopyInv, ReadHash, redisVars, historyVars
    <3>2. /\ op'[h] = o /\ rid'[h] = r /\ pc'[h] = "apply" /\ got'[h] = reservation[r]
          /\ todo'[h] = IF o = "release" THEN DOMAIN reservation[r].items ELSE {}
          /\ reservation' = reservation
      BY <1>3, <2>2 DEF ReadHash, redisVars
    <3>3. CopyOK(h)'
      BY <2>2, <3>2 DEF CopyOK
    <3> QED
      BY <3>1, <3>3 DEF CopyInv
  <2> QED
    BY <2>1, <2>2
<1>4. ASSUME NEW h \in Handlers, Handler(h) PROVE CopyInv'
  <2> DEFINE r == rid[h]
  <2>1. Active(h) /\ r \in ResIds /\ CopyOK(h) /\ got[h] \in Hash
    BY <1>4 DEF Handler, CommitOnHand, CommitRefused, ReleaseIncr, DelReservation, DelIdem,
                CopyInv, Active
  <2>2. \A g \in Handlers \ {h} : Active(g) => rid[g] # r /\ rid[g] \in ResIds
    BY <2>1 DEF SerialInv, Active
  <2>3. \A g \in Handlers \ {h} :
          /\ UNCHANGED <<pc[g], op[g], rid[g], got[g], todo[g]>>
          /\ \A q \in ResIds \ {r} : /\ reservation'[q] = reservation[q]
                                     /\ sold'[q] = sold[q] /\ refunded'[q] = refunded[q]
    BY <1>4 DEF Handler, CommitOnHand, CommitRefused, ReleaseIncr, DelReservation, DelIdem,
                Finish, redisVars, historyVars
  <2>4. \A g \in Handlers \ {h} : Active(g)' => CopyOK(g)'
    BY <2>2, <2>3, CopyKept DEF CopyInv
  <2>5. CASE CommitOnHand(h)
    <3>1. /\ op'[h] = op[h] /\ rid'[h] = r /\ got'[h] = got[h] /\ pc'[h] = "delReservation"
          /\ reservation' = reservation /\ sold'[r] > 0
      BY <2>1, <2>5 DEF CommitOnHand, redisVars
    <3> QED
      BY <2>1, <2>4, <3>1 DEF CopyInv, CopyOK
  <2>6. ASSUME NEW w \in Variants, ReleaseIncr(h, w) PROVE CopyInv'
    <3>1. /\ op'[h] = op[h] /\ rid'[h] = r /\ got'[h] = got[h] /\ todo'[h] = todo[h] \ {w}
          /\ pc'[h] = IF todo[h] = {w} THEN "delReservation" ELSE "apply"
          /\ pc[h] = "apply" /\ op[h] = "release"
          /\ reservation' = reservation /\ sold' = sold /\ refunded'[r][w] > 0
          /\ \A v \in Variants \ {w} : refunded'[r][v] = refunded[r][v]
      BY <2>1, <2>6 DEF ReleaseIncr
    <3>2. DOMAIN got[h].items \subseteq Variants
      BY <2>1, RequestFacts DEF Hash
    <3>3. \A v \in DOMAIN got[h].items \ todo'[h] : refunded'[r][v] > 0
      BY <2>1, <3>1, <3>2 DEF CopyOK
    <3>4. CopyOK(h)'
      BY <2>1, <3>1, <3>3 DEF CopyOK
    <3> QED
      BY <2>4, <3>4 DEF CopyInv
  <2>7. CASE DelReservation(h)
    <3>1. /\ op'[h] = op[h] /\ rid'[h] = r /\ got'[h] = got[h] /\ pc'[h] = "delIdem"
          /\ reservation'[r] = Absent /\ sold' = sold /\ refunded' = refunded
          /\ pc[h] = "delReservation"
      BY <2>1, <2>7 DEF DelReservation, historyVars
    <3>2. CopyOK(h)'
      BY <2>1, <3>1 DEF CopyOK
    <3> QED
      BY <2>4, <3>2 DEF CopyInv
  <2>8. CASE CommitRefused(h) \/ DelIdem(h)
    <3>1. ~Active(h)'
      BY <2>8 DEF CommitRefused, DelIdem, Finish, Active
    <3> QED
      BY <2>4, <3>1 DEF CopyInv
  <2> QED
    BY <1>4, <2>5, <2>6, <2>7, <2>8 DEF Handler
<1>5. ASSUME NEW r \in ResIds, ExpireReservation(r) PROVE CopyInv'
  <2>1. /\ UNCHANGED <<pc, op, rid, got, todo, sold, refunded>> /\ TTLExpires
        /\ \A q \in ResIds : reservation'[q] \in {reservation[q], Absent}
    BY <1>5 DEF ExpireReservation, handlerVars, historyVars
  <2>2. ASSUME NEW h \in Handlers, Active(h)' PROVE CopyOK(h)'
    <3>1. Active(h) /\ rid[h] \in ResIds /\ CopyOK(h)
      BY <2>1, <2>2 DEF Active, CopyInv
    <3>2. reservation'[rid[h]] \in {got[h], Absent}
      BY <2>1, <3>1 DEF CopyOK
    <3> QED
      BY <2>1, <3>1, <3>2 DEF CopyOK
  <2> QED
    BY <2>2 DEF CopyInv
<1>6. ASSUME NEW k \in Keys, ExpireIdem(k) PROVE CopyInv'
  BY <1>6, CopyKept DEF CopyInv, ExpireIdem, handlerVars, historyVars
<1>7. ASSUME NEW h \in Handlers, Crash(h) PROVE FALSE
  BY <1>7, MaxCrashes = 0 DEF Crash, RecordInv
<1>8. ASSUME NEW k \in Keys, NEW req \in Requests, ReserveStock(k, req) PROVE CopyInv'
  BY <1>1, <1>2, <1>8 DEF ReserveStock, ReserveHit, ReserveReject
<1> QED
  BY <1>1, <1>3, <1>4, <1>5, <1>6, <1>7, <1>8 DEF Next

-----------------------------------------------------------------------------
(* Where the units are.                                                    *)

LEMMA OneCopy == ASSUME NEW x PROVE (CHOOSE y \in {x} : TRUE) = x
  OBVIOUS

LEMMA HeldIsThere == LInv => HeldWhere
<1> SUFFICES ASSUME LInv, NEW r \in ResIds, NEW v \in Variants
             PROVE  /\ Working(r) = {} =>
                         Held(r, v) = IF reservation[r] # Absent
                                      THEN Qty(reservation[r].items, v) ELSE 0
                    /\ \A h \in Handlers : Active(h) /\ rid[h] = r => Held(r, v) = HeldBy(h, v)
  BY DEF HeldWhere
<1>0. sold[r] \in Nat /\ refunded[r][v] \in Nat
  BY DEF LInv, IInv, Inv, TypeOK
<1>1. ASSUME Working(r) = {}
      PROVE  Held(r, v) = IF reservation[r] # Absent THEN Qty(reservation[r].items, v) ELSE 0
  <2>1. CASE reservation[r] = Absent
    BY <1>1, <2>1 DEF Held
  <2>2. CASE reservation[r] # Absent
    <3>1. sold[r] = 0 /\ refunded[r][v] = 0
      BY <1>1, <2>2, NothingSettled DEF LInv
    <3> QED
      BY <2>2, <3>1, OneCopy DEF Held
  <2> QED
    BY <2>1, <2>2
<1>2. ASSUME NEW h \in Handlers, Active(h), rid[h] = r PROVE Held(r, v) = HeldBy(h, v)
  <2>1. Working(r) = {h}
    BY <1>2 DEF LInv, IInv, Working, SerialInv, Active
  <2>2. CopyOK(h) /\ got[h] \in Hash
    BY <1>2 DEF LInv, IInv, Inv, CopyInv, Active
  <2>3. reservation[r] \in {got[h], Absent} /\ got[h] # Absent
    BY <1>2, <2>2, VariantsAssumption DEF CopyOK
  <2> DEFINE copies == {got[g] : g \in {w \in Working(r) : pc[w] = "apply"}}
             hashes == IF reservation[r] # Absent THEN {reservation[r]} ELSE copies
  <2>4. Held(r, v) = IF sold[r] > 0 \/ refunded[r][v] > 0 \/ hashes = {} THEN 0
                     ELSE Qty((CHOOSE x \in hashes : TRUE).items, v)
    BY DEF Held
  <2>5. hashes \subseteq {got[h]} /\ (pc[h] = "apply" => hashes = {got[h]})
    BY <2>1, <2>3
  <2> HIDE DEF hashes
  <2>6. hashes # {} => (CHOOSE x \in hashes : TRUE) = got[h]
    <3> SUFFICES ASSUME hashes # {} PROVE (CHOOSE x \in hashes : TRUE) = got[h]
      OBVIOUS
    <3>1. hashes = {got[h]}
      BY <2>5
    <3> QED
      BY <3>1, OneCopy
  <2>7. CASE pc[h] = "apply" /\ (op[h] = "commit" \/ v \in todo[h])
    <3>1. sold[r] + refunded[r][v] <= crashed[r] /\ crashed[r] = 0
      BY <1>2, <2>7 DEF LInv, IInv, SettleInv, Settled, RecordInv
    <3>2. sold[r] = 0 /\ refunded[r][v] = 0
      BY <1>0, <3>1
    <3> QED
      BY <2>4, <2>5, <2>6, <2>7, <3>2 DEF HeldBy
  <2>8. CASE ~(pc[h] = "apply" /\ (op[h] = "commit" \/ v \in todo[h]))
    <3>1. sold[r] > 0 \/ refunded[r][v] > 0 \/ v \notin DOMAIN got[h].items
      BY <1>2, <2>2, <2>8 DEF CopyOK, Active
    <3>2. v \notin DOMAIN got[h].items => Qty(got[h].items, v) = 0
      BY DEF Qty
    <3> QED
      BY <2>4, <2>6, <2>8, <3>1, <3>2 DEF HeldBy
  <2> QED
    BY <2>7, <2>8
<1> QED
  BY <1>1, <1>2

-----------------------------------------------------------------------------
(* Steps of the service are steps of the ledger.                           *)

\* A reservation keeps its units while its hash and its coroutines stand still.
LEMMA HeldKept ==
  ASSUME HeldWhere, HeldWhere', NEW q \in ResIds, NEW v \in Variants,
         reservation'[q] = reservation[q], Working(q)' = Working(q),
         \A h \in Working(q) : UNCHANGED <<pc[h], op[h], rid[h], got[h], todo[h]>>
  PROVE  Held(q, v)' = Held(q, v)
<1>1. CASE Working(q) = {}
  <2>1. Held(q, v) = IF reservation[q] # Absent THEN Qty(reservation[q].items, v) ELSE 0
    BY <1>1 DEF HeldWhere
  <2>2. Held(q, v)' = IF reservation'[q] # Absent THEN Qty(reservation'[q].items, v) ELSE 0
    BY <1>1 DEF HeldWhere
  <2> QED
    BY <2>1, <2>2
<1>2. ASSUME NEW h \in Working(q) PROVE Held(q, v)' = Held(q, v)
  <2>1. Held(q, v) = HeldBy(h, v)
    BY <1>2 DEF HeldWhere, Working, Active
  <2>2. h \in Handlers /\ Active(h)' /\ rid'[h] = q
    BY <1>2 DEF Working, Active
  <2>3. Held(q, v)' = HeldBy(h, v)'
    BY <2>2 DEF HeldWhere
  <2>4. HeldBy(h, v)' = HeldBy(h, v)
    BY <1>2 DEF HeldBy
  <2> QED
    BY <2>1, <2>3, <2>4
<1> QED
  BY <1>1, <1>2

LEMMA SameUnits ==
  ASSUME UNCHANGED <<stock, onHand, issued>>,
         \A q \in ResIds, v \in Variants : Held(q, v)' = Held(q, v)
  PROVE  UNCHANGED Ledger!vars
  BY DEF Ledger!vars

\* A coroutine moves units of its own reservation only.
LEMMA OthersKept ==
  ASSUME LInv, HeldWhere, HeldWhere', NEW h \in Handlers, Handler(h),
         NEW q \in ResIds, q # rid[h], NEW v \in Variants
  PROVE  Held(q, v)' = Held(q, v)
<1>1. /\ \A g \in Handlers \ {h} : UNCHANGED <<pc[g], op[g], rid[g], got[g], todo[g]>>
      /\ pc'[h] = "idle" \/ rid'[h] = rid[h]
      /\ reservation'[q] = reservation[q]
  BY DEF Handler, CommitOnHand, CommitRefused, ReleaseIncr, DelReservation, DelIdem,
         Finish, redisVars, historyVars, LInv, IInv, Inv, TypeOK
<1>2. h \notin Working(q) /\ Working(q)' = Working(q)
  BY <1>1 DEF Working
<1>3. \A g \in Working(q) : UNCHANGED <<pc[g], op[g], rid[g], got[g], todo[g]>>
  BY <1>1, <1>2 DEF Working
<1> QED
  BY <1>1, <1>2, <1>3, HeldKept

\* A granted reservation is a promise.
LEMMA GrantPromises ==
  ASSUME LInv, HeldWhere, HeldWhere', NEW k \in Keys, NEW req \in Requests,
         NEW r \in ResIds, ReserveGrant(k, req, r)
  PROVE  Ledger!Promise(r, req)
<1>1. /\ r \notin issued /\ issued' = issued \cup {r}
      /\ reservation'[r] = [items |-> req, idem_key |-> k] /\ reservation'[r] # Absent
      /\ UNCHANGED <<pc, op, rid, got, todo, onHand>>
      /\ stock' = [v \in Variants |-> stock[v] - Qty(req, v)]
      /\ \A v \in DOMAIN req : stock[v] >= req[v]
      /\ \A q \in ResIds \ {r} : reservation'[q] = reservation[q]
  BY VariantsAssumption DEF LInv, IInv, Inv, TypeOK, ReserveGrant, Sufficient, handlerVars, Hash
<1>2. Working(r)' = {} /\ \A q \in ResIds : Working(q)' = Working(q)
  BY <1>1 DEF LInv, IInv, Working, SerialInv, Active
<1>3. \A v \in Variants : Held(r, v)' = Qty(req, v)
  BY <1>1, <1>2 DEF HeldWhere
<1>4. \A q \in ResIds \ {r}, v \in Variants : Held(q, v)' = Held(q, v)
  BY <1>1, <1>2, HeldKept
<1>5. \A v \in DOMAIN req : req[v] <= stock[v]
  BY <1>1, RequestFacts
<1>6. Ledger!Asked(req) = [v \in Variants |-> Qty(req, v)]
  BY DEF Ledger!Asked, Qty
<1>7. ASSUME NEW q \in ResIds
      PROVE  [v \in Variants |-> Held(q, v)']
               = IF q = r THEN Ledger!Asked(req) ELSE [v \in Variants |-> Held(q, v)]
  <2>1. CASE q = r
    BY <1>3, <1>6, <2>1
  <2>2. CASE q # r
    BY <1>4, <2>2
  <2> QED
    BY <2>1, <2>2
<1>8. stock' = [v \in Variants |-> stock[v] - Ledger!Asked(req)[v]]
  BY <1>1, <1>6
<1> QED
  BY <1>1, <1>5, <1>7, <1>8 DEF Ledger!Promise

\* The transaction of a commit sells its reservation.
LEMMA CommitSells ==
  ASSUME LInv, HeldWhere, HeldWhere', NEW h \in Handlers, CommitOnHand(h)
  PROVE  Ledger!Sell(rid[h])
<1> DEFINE r == rid[h]
<1>1. /\ Active(h) /\ r \in ResIds /\ Active(h)' /\ rid'[h] = r
      /\ pc[h] = "apply" /\ op[h] = "commit" /\ pc'[h] = "delReservation"
      /\ UNCHANGED <<stock, issued>>
      /\ onHand' = [v \in Variants |-> onHand[v] - Qty(got[h].items, v)]
  BY DEF CommitOnHand, Active, LInv, IInv, Inv, TypeOK, redisVars
<1>2. \A v \in Variants : Held(r, v) = Qty(got[h].items, v)
  BY <1>1 DEF HeldWhere, HeldBy
<1>3. \A v \in Variants : Held(r, v)' = 0
  BY <1>1 DEF HeldWhere, HeldBy
<1>4. \A q \in ResIds \ {r}, v \in Variants : Held(q, v)' = Held(q, v)
  BY OthersKept DEF Handler
<1> QED
  BY <1>1, <1>2, <1>3, <1>4 DEF Ledger!Sell, Ledger!Nothing

\* An INCRBY of a release gives the units of one variant back.
LEMMA IncrGivesBack ==
  ASSUME LInv, HeldWhere, HeldWhere', NEW h \in Handlers, NEW w \in Variants,
         ReleaseIncr(h, w)
  PROVE  Ledger!GiveBack(rid[h], w)
<1> DEFINE r == rid[h]
<1>1. /\ Active(h) /\ r \in ResIds /\ Active(h)' /\ rid'[h] = r
      /\ w \in todo[h] /\ todo'[h] = todo[h] \ {w} /\ got'[h] = got[h]
      /\ pc[h] = "apply" /\ op[h] = "release" /\ op'[h] = op[h]
      /\ pc'[h] = IF todo[h] = {w} THEN "delReservation" ELSE "apply"
      /\ UNCHANGED <<onHand, issued>>
      /\ stock' = [stock EXCEPT ![w] = @ + got[h].items[w]]
  BY DEF ReleaseIncr, Active, LInv, IInv, Inv, TypeOK
<1>2. got[h] \in Hash /\ w \in DOMAIN got[h].items
  BY <1>1 DEF LInv, IInv, Inv, Active
<1>3. Held(r, w) = got[h].items[w]
  BY <1>1, <1>2 DEF HeldWhere, HeldBy, Qty
<1>4. Held(r, w)' = 0
  BY <1>1 DEF HeldWhere, HeldBy
<1>5. \A v \in Variants \ {w} : Held(r, v)' = Held(r, v)
  <2> SUFFICES ASSUME NEW v \in Variants \ {w} PROVE Held(r, v)' = Held(r, v)
    OBVIOUS
  <2>1. Held(r, v) = HeldBy(h, v) /\ Held(r, v)' = HeldBy(h, v)'
    BY <1>1 DEF HeldWhere
  <2>2. HeldBy(h, v)' = HeldBy(h, v)
    BY <1>1 DEF HeldBy
  <2> QED
    BY <2>1, <2>2
<1>6. \A q \in ResIds \ {r}, v \in Variants : Held(q, v)' = Held(q, v)
  BY OthersKept DEF Handler
<1> QED
  BY <1>1, <1>3, <1>4, <1>5, <1>6 DEF Ledger!GiveBack

\* A reservation whose hash nobody needs any more holds nothing.
LEMMA LapseOf ==
  ASSUME TTLExpires, NEW r \in ResIds, UNCHANGED <<stock, onHand, issued>>,
         \A v \in Variants : Held(r, v)' = 0,
         \A q \in ResIds \ {r}, v \in Variants : Held(q, v)' = Held(q, v)
  PROVE  Ledger!Lapse(r)
  BY DEF Ledger!Lapse, Ledger!Nothing

\* What a step of the service does to the ledger, and why a reservation lapses.
LedgerMove ==
  \E r \in ResIds :
    \/ \E req \in Requests : Ledger!Promise(r, req)
    \/ Ledger!Sell(r)
    \/ \E v \in Variants : Ledger!GiveBack(r, v)
    \/ Ledger!Lapse(r) /\ Lapsed(r)'

LEMMA LedgerStep ==
  ASSUME CallsOverlap = FALSE, MaxCrashes = 0, Variants # {}
  PROVE  LInv /\ LInv' /\ HeldWhere /\ HeldWhere' /\ [Next]_vars
           => LedgerMove \/ UNCHANGED Ledger!vars
<1> SUFFICES ASSUME LInv, LInv', HeldWhere, HeldWhere', [Next]_vars
             PROVE  LedgerMove \/ UNCHANGED Ledger!vars
  OBVIOUS
<1>1. ASSUME UNCHANGED vars PROVE UNCHANGED Ledger!vars
  <2>1. /\ UNCHANGED <<stock, onHand, issued, reservation, pc, op, rid, got, todo>>
        /\ \A q \in ResIds : Working(q)' = Working(q)
    BY <1>1 DEF Working, vars, redisVars, handlerVars, historyVars
  <2>2. \A q \in ResIds, v \in Variants : Held(q, v)' = Held(q, v)
    BY <2>1, HeldKept
  <2> QED
    BY <2>1, <2>2, SameUnits
<1>2. ASSUME NEW k \in Keys, NEW req \in Requests, NEW r \in ResIds, ReserveGrant(k, req, r)
      PROVE  LedgerMove
  BY <1>2, GrantPromises DEF LedgerMove
<1>3. ASSUME NEW h \in Handlers, NEW o \in {"commit", "release"}, NEW r \in ResIds,
             ReadHash(h, o, r)
      PROVE  UNCHANGED Ledger!vars
  <2>1. CASE reservation[r] = Absent
    BY <1>1, <1>3, <2>1 DEF ReadHash, vars
  <2>2. CASE reservation[r] # Absent
    <3>1. /\ UNCHANGED <<stock, onHand, issued, reservation>>
          /\ Working(r) = {} /\ pc[h] = "idle"
          /\ pc'[h] = "apply" /\ rid'[h] = r /\ op'[h] = o /\ got'[h] = reservation[r]
          /\ todo'[h] = IF o = "release" THEN DOMAIN reservation[r].items ELSE {}
          /\ \A g \in Handlers \ {h} : UNCHANGED <<pc[g], op[g], rid[g], got[g], todo[g]>>
      BY <1>3, <2>2, CallsOverlap = FALSE
      DEF ReadHash, redisVars, historyVars, LInv, IInv, Inv, TypeOK
    <3>2. ASSUME NEW q \in ResIds \ {r}, NEW v \in Variants PROVE Held(q, v)' = Held(q, v)
      <4>1. Working(q)' = Working(q) /\ h \notin Working(q)
        BY <3>1 DEF Working
      <4>2. \A g \in Working(q) : UNCHANGED <<pc[g], op[g], rid[g], got[g], todo[g]>>
        BY <3>1, <4>1 DEF Working
      <4> QED
        BY <3>1, <4>1, <4>2, HeldKept
    <3>3. ASSUME NEW v \in Variants PROVE Held(r, v)' = Held(r, v)
      <4>1. Held(r, v) = Qty(reservation[r].items, v)
        BY <2>2, <3>1 DEF HeldWhere
      <4>2. Held(r, v)' = HeldBy(h, v)'
        BY <3>1 DEF HeldWhere, Active
      <4>3. HeldBy(h, v)' = Qty(reservation[r].items, v)
        BY <3>1 DEF HeldBy, Qty
      <4> QED
        BY <4>1, <4>2, <4>3
    <3> QED
      BY <3>1, <3>2, <3>3, SameUnits
  <2> QED
    BY <2>1, <2>2
<1>4. ASSUME NEW h \in Handlers, Handler(h) PROVE LedgerMove \/ UNCHANGED Ledger!vars
  <2>0. Active(h) /\ rid[h] \in ResIds /\ CopyOK(h)
    BY <1>4 DEF Handler, CommitOnHand, CommitRefused, ReleaseIncr, DelReservation, DelIdem,
                LInv, IInv, Inv, CopyInv, Active
  <2>1. PICK r \in ResIds : r = rid[h]
    BY <2>0
  <2>2. \A q \in ResIds \ {r}, v \in Variants : Held(q, v)' = Held(q, v)
    BY <1>4, <2>1, OthersKept
  <2>3. CASE CommitOnHand(h)
    BY <2>0, <2>3, CommitSells DEF LedgerMove
  <2>4. ASSUME NEW w \in Variants, ReleaseIncr(h, w) PROVE LedgerMove
    BY <2>0, <2>4, IncrGivesBack DEF LedgerMove
  <2>5. CASE DelReservation(h)
    <3>1. /\ UNCHANGED <<stock, onHand, issued>> /\ Active(h)' /\ rid'[h] = r
          /\ pc[h] # "apply" /\ pc'[h] # "apply"
      BY <2>0, <2>1, <2>5 DEF DelReservation, historyVars, Active, LInv, IInv, Inv, TypeOK
    <3>2. \A v \in Variants : Held(r, v)' = 0 /\ Held(r, v) = 0
      BY <2>0, <2>1, <3>1 DEF HeldWhere, HeldBy
    <3> QED
      BY <2>2, <3>1, <3>2, SameUnits
  <2>6. ASSUME Finish(h), UNCHANGED <<stock, onHand, issued, reservation>>
        PROVE  Working(r)' = {}
    <3>1. ~Active(h)' /\ \A g \in Handlers \ {h} : UNCHANGED <<pc[g], rid[g]>>
      BY <2>6 DEF Finish, Active, LInv, IInv, Inv, TypeOK
    <3>2. \A g \in Handlers \ {h} : Active(g) => rid[g] # r
      BY <2>0, <2>1 DEF LInv, IInv, SerialInv
    <3> QED
      BY <3>1, <3>2 DEF Working, Active
  <2>7. CASE CommitRefused(h)
    <3>1. /\ UNCHANGED <<stock, onHand, issued, reservation>> /\ Finish(h)
          /\ pc[h] = "apply" /\ op[h] = "commit"
      BY <2>7 DEF CommitRefused, redisVars, historyVars
    <3>2. Working(r)' = {}
      BY <2>6, <3>1
    <3>3. \A v \in Variants : Held(r, v) = Qty(got[h].items, v)
      BY <2>0, <2>1, <3>1 DEF HeldWhere, HeldBy
    <3>4. CASE reservation[r] = Absent
      <4>1. TTLExpires
        BY <2>0, <2>1, <3>1, <3>4 DEF CopyOK
      <4>2. \A v \in Variants : Held(r, v)' = 0
        BY <2>1, <3>1, <3>2, <3>4 DEF HeldWhere
      <4>3. Lapsed(r)'
        <5>1. sold[r] = 0 /\ \A v \in Variants : refunded[r][v] = 0
          BY <2>0, <2>1, <3>1, NothingSettled DEF LInv, Working, Active
        <5>2. r \in issued /\ UNCHANGED <<sold, refunded>>
          BY <2>0, <2>1, <2>7 DEF LInv, IInv, SerialInv, CommitRefused, historyVars
        <5> QED
          BY <3>1, <3>2, <3>4, <5>1, <5>2 DEF Lapsed
      <4> QED
        BY <2>1, <2>2, <3>1, <4>1, <4>2, <4>3, LapseOf DEF LedgerMove
    <3>5. CASE reservation[r] # Absent
      <4>1. reservation[r] = got[h]
        BY <2>0, <2>1, <3>5 DEF CopyOK
      <4>2. \A v \in Variants : Held(r, v)' = Qty(got[h].items, v)
        BY <2>1, <3>1, <3>2, <3>5, <4>1 DEF HeldWhere
      <4> QED
        BY <2>2, <3>1, <3>3, <4>2, SameUnits
    <3> QED
      BY <3>4, <3>5
  <2>8. CASE DelIdem(h)
    <3>1. UNCHANGED <<stock, onHand, issued, reservation>> /\ Finish(h) /\ pc[h] = "delIdem"
      BY <2>8 DEF DelIdem, historyVars
    <3>2. Working(r)' = {} /\ reservation[r] = Absent
      BY <2>0, <2>1, <2>6, <3>1 DEF LInv, IInv, SerialInv
    <3>3. \A v \in Variants : Held(r, v) = 0 /\ Held(r, v)' = 0
      BY <2>0, <2>1, <3>1, <3>2 DEF HeldWhere, HeldBy
    <3> QED
      BY <2>2, <3>1, <3>3, SameUnits
  <2> QED
    BY <1>4, <2>3, <2>4, <2>5, <2>7, <2>8 DEF Handler
<1>5. ASSUME NEW r \in ResIds, ExpireReservation(r)
      PROVE  LedgerMove \/ UNCHANGED Ledger!vars
  <2>1. /\ UNCHANGED <<stock, onHand, pc, op, rid, got, todo, historyVars>> /\ TTLExpires
        /\ reservation[r] # Absent /\ reservation'[r] = Absent
        /\ \A q \in ResIds \ {r} : reservation'[q] = reservation[q]
        /\ \A q \in ResIds : Working(q)' = Working(q)
    BY <1>5 DEF ExpireReservation, handlerVars, historyVars, Working, LInv, IInv, Inv, TypeOK
  <2>2. \A q \in ResIds \ {r}, v \in Variants : Held(q, v)' = Held(q, v)
    BY <2>1, HeldKept
  <2>3. CASE Working(r) = {}
    <3>1. \A v \in Variants : Held(r, v)' = 0
      BY <2>1, <2>3 DEF HeldWhere
    <3>2. sold[r] = 0 /\ \A v \in Variants : refunded[r][v] = 0
      BY <2>1, <2>3, NothingSettled DEF LInv
    <3>3. Lapsed(r)'
      BY <2>1, <2>3, <3>2 DEF Lapsed, historyVars, LInv, IInv, SerialInv
    <3> QED
      BY <2>1, <2>2, <3>1, <3>3, LapseOf DEF LedgerMove, historyVars
  <2>4. ASSUME NEW h \in Working(r) PROVE UNCHANGED Ledger!vars
    <3>1. h \in Handlers /\ Active(h) /\ Active(h)' /\ rid[h] = r /\ rid'[h] = r
      BY <2>1, <2>4 DEF Working, Active
    <3>2. \A v \in Variants : Held(r, v) = HeldBy(h, v) /\ Held(r, v)' = HeldBy(h, v)'
      BY <3>1 DEF HeldWhere
    <3>3. \A v \in Variants : HeldBy(h, v)' = HeldBy(h, v)
      BY <2>1 DEF HeldBy
    <3> QED
      BY <2>1, <2>2, <3>2, <3>3, SameUnits DEF historyVars
  <2> QED
    BY <2>3, <2>4
<1>6. ASSUME NEW k \in Keys, ExpireIdem(k) PROVE UNCHANGED Ledger!vars
  <2>1. /\ UNCHANGED <<stock, onHand, issued, reservation, pc, op, rid, got, todo>>
        /\ \A q \in ResIds : Working(q)' = Working(q)
    BY <1>6 DEF ExpireIdem, handlerVars, historyVars, Working
  <2>2. \A q \in ResIds, v \in Variants : Held(q, v)' = Held(q, v)
    BY <2>1, HeldKept
  <2> QED
    BY <2>1, <2>2, SameUnits
<1>7. ASSUME NEW h \in Handlers, Crash(h) PROVE FALSE
  BY <1>7, MaxCrashes = 0 DEF Crash, LInv, IInv, Inv, RecordInv
<1>8. ASSUME NEW k \in Keys, NEW req \in Requests, ReserveStock(k, req)
      PROVE  LedgerMove \/ UNCHANGED Ledger!vars
  BY <1>1, <1>2, <1>8 DEF ReserveStock, ReserveHit, ReserveReject
<1> QED
  BY <1>1, <1>3, <1>4, <1>5, <1>6, <1>7, <1>8 DEF Next

LEMMA LedgerInit == Init => Ledger!Init
<1> SUFFICES ASSUME Init PROVE Ledger!Init
  OBVIOUS
<1>1. \A q \in ResIds : reservation[q] = Absent /\ Working(q) = {}
  BY DEF Init, Working
<1>2. \A q \in ResIds, v \in Variants : Held(q, v) = 0
  BY <1>1 DEF Held
<1> QED
  BY <1>2 DEF Init, Ledger!Init, Ledger!Nothing

\* Every step of Redis, Postgres and the coroutines is a step of the ledger or none,
\* when calls on one reservation do not overlap and no coroutine dies half way: for any
\* variants, requests, keys and coroutines, with reservations that lapse or without.
THEOREM LedgerImplemented ==
  ASSUME CallsOverlap = FALSE, MaxCrashes = 0, Variants # {}
  PROVE  Spec => ImplementsLedger
<1>1. IInv /\ [Next]_vars => IInv'
  BY IInvStep
<1>2. IInv /\ IInv' /\ RecordInv /\ [Next]_vars => RecordInv'
  BY RecordStep
<1>3. IInv /\ IInv' /\ RecordInv /\ CopyInv /\ [Next]_vars => CopyInv'
  BY CopyStep
<1>4. LInv /\ LInv' /\ HeldWhere /\ HeldWhere' /\ [Next]_vars => [Ledger!Next]_(Ledger!vars)
  <2>1. LedgerMove => Ledger!Next
    BY DEF LedgerMove, Ledger!Next
  <2> QED
    BY <2>1, LedgerStep
<1>5. LInv <=> IInv /\ RecordInv /\ CopyInv
  BY DEF LInv
<1> QED
  BY IInvInit, RecordInit, CopyInit, LedgerInit, HeldIsThere, <1>1, <1>2, <1>3, <1>4, <1>5, PTL
  DEF Spec, ImplementsLedger, Ledger!Spec

-----------------------------------------------------------------------------
(* Units, counted.                                                         *)

\* The units of one entry, and those of the entries in a set.
Pile(f, x) == {x} \X (1 .. f[x])
Piles(f, S) == UNION {Pile(f, x) : x \in S}

LEMMA PileSize ==
  ASSUME NEW S, NEW f \in [S -> Nat], NEW x \in S
  PROVE  IsFiniteSet(Pile(f, x)) /\ Cardinality(Pile(f, x)) = f[x]
<1>1. f[x] \in Nat
  OBVIOUS
<1>2. IsFiniteSet({x}) /\ Cardinality({x}) = 1
  BY FS_Singleton
<1>3. IsFiniteSet(1 .. f[x]) /\ Cardinality(1 .. f[x]) = f[x]
  <2>1. 1 \in Int /\ f[x] \in Int /\ (1 > f[x] => f[x] = 0) /\ f[x] - 1 + 1 = f[x]
    BY <1>1
  <2> QED
    BY <2>1, FS_Interval
<1>4. /\ IsFiniteSet({x} \X (1 .. f[x]))
      /\ Cardinality({x} \X (1 .. f[x])) = Cardinality({x}) * Cardinality(1 .. f[x])
  BY <1>2, <1>3, FS_Product, Zenon
<1>5. 1 * f[x] = f[x]
  BY <1>1
<1> QED
  BY <1>2, <1>3, <1>4, <1>5 DEF Pile

LEMMA PilesFinite ==
  ASSUME NEW S, IsFiniteSet(S), NEW f \in [S -> Nat], NEW T \in SUBSET S
  PROVE  IsFiniteSet(Piles(f, T)) /\ Cardinality(Piles(f, T)) \in Nat
<1>1. IsFiniteSet(T)
  BY FS_Subset
<1>2. IsFiniteSet({Pile(f, x) : x \in T})
  <2> DEFINE h == [x \in T |-> Pile(f, x)]
  <2>1. h \in Surjection(T, {Pile(f, x) : x \in T})
    BY DEF Surjection
  <2> QED
    BY <1>1, <2>1, FS_Surjection, Zenon
<1>3. \A P \in {Pile(f, x) : x \in T} : IsFiniteSet(P)
  BY PileSize
<1>4. IsFiniteSet(Piles(f, T))
  BY <1>2, <1>3, FS_UNION DEF Piles
<1> QED
  BY <1>4, FS_CardinalityType

LEMMA UnitsSplit ==
  ASSUME NEW S, IsFiniteSet(S), NEW f \in [S -> Nat], NEW q \in S
  PROVE  /\ UnitsIn(f) = Cardinality(Piles(f, S \ {q})) + f[q]
         /\ Cardinality(Piles(f, S \ {q})) \in Nat /\ UnitsIn(f) \in Nat
<1>1. Piles(f, S) = Piles(f, S \ {q}) \cup Pile(f, q)
  BY DEF Piles
<1>2. Piles(f, S \ {q}) \cap Pile(f, q) = {}
  BY DEF Piles, Pile
<1>3. IsFiniteSet(Piles(f, S \ {q})) /\ Cardinality(Piles(f, S \ {q})) \in Nat
  BY PilesFinite
<1>4. IsFiniteSet(Pile(f, q)) /\ Cardinality(Pile(f, q)) = f[q] /\ f[q] \in Nat
  BY PileSize
<1>5. Cardinality(Piles(f, S))
        = Cardinality(Piles(f, S \ {q})) + Cardinality(Pile(f, q)) - Cardinality({})
  <2> DEFINE A == Piles(f, S \ {q})
             B == Pile(f, q)
  <2> HIDE DEF A, B
  <2>1. Cardinality(A \cup B) = Cardinality(A) + Cardinality(B) - Cardinality(A \cap B)
    BY <1>3, <1>4, FS_Union DEF A, B
  <2> QED
    BY <1>1, <1>2, <2>1, Zenon DEF A, B
<1>6. UnitsIn(f) = Cardinality(Piles(f, S))
  BY DEF UnitsIn, Piles, Pile
<1> QED
  BY <1>3, <1>4, <1>5, <1>6, FS_EmptySet

LEMMA UnitsFact ==
  ASSUME NEW S, IsFiniteSet(S), NEW f \in [S -> Nat]
  PROVE  UnitsIn(f) \in Nat
<1>1. UnitsIn(f) = Cardinality(Piles(f, S))
  BY DEF UnitsIn, Piles, Pile
<1> QED
  BY <1>1, PilesFinite

LEMMA UnitsNone ==
  ASSUME NEW S, NEW f \in [S -> Nat], \A x \in S : f[x] = 0
  PROVE  UnitsIn(f) = 0
<1>1. \A x \in S : 1 .. f[x] = {}
  OBVIOUS
<1>2. UNION {{x} \X (1 .. f[x]) : x \in S} = {}
  BY <1>1
<1> QED
  BY <1>2, FS_EmptySet DEF UnitsIn

LEMMA UnitsMoved ==
  ASSUME NEW S, IsFiniteSet(S), NEW f \in [S -> Nat], NEW g \in [S -> Nat], NEW q \in S,
         \A x \in S \ {q} : g[x] = f[x]
  PROVE  UnitsIn(g) + f[q] = UnitsIn(f) + g[q]
<1>1. Piles(g, S \ {q}) = Piles(f, S \ {q})
  BY DEF Piles, Pile
<1> QED
  BY <1>1, UnitsSplit

LEMMA UnitsAtLeast ==
  ASSUME NEW S, IsFiniteSet(S), NEW f \in [S -> Nat], NEW q \in S
  PROVE  f[q] <= UnitsIn(f)
<1>1. f[q] \in Nat
  OBVIOUS
<1>2. /\ UnitsIn(f) = Cardinality(Piles(f, S \ {q})) + f[q]
      /\ Cardinality(Piles(f, S \ {q})) \in Nat
  BY UnitsSplit
<1> QED
  BY <1>1, <1>2

-----------------------------------------------------------------------------
(* What the service promises never exceeds what is on hand.                *)

HeldCounts == \A r \in ResIds, v \in Variants : Held(r, v) \in Nat

LEMMA HeldIsNat == LInv => HeldCounts
<1> SUFFICES ASSUME LInv, NEW r \in ResIds, NEW v \in Variants PROVE Held(r, v) \in Nat
  BY DEF HeldCounts
<1>0. HeldWhere
  BY HeldIsThere
<1> USE <1>0
<1>1. \A x \in Hash : Qty(x.items, v) \in Nat
  BY RequestFacts DEF Hash
<1>2. CASE Working(r) = {}
  BY <1>1, <1>2 DEF HeldWhere, LInv, IInv, Inv, TypeOK
<1>3. ASSUME NEW h \in Working(r) PROVE Held(r, v) \in Nat
  <2>1. h \in Handlers /\ Active(h) /\ rid[h] = r /\ got[h] \in Hash
    BY <1>3 DEF Working, Active, LInv, IInv, Inv
  <2>2. Held(r, v) = HeldBy(h, v)
    BY <2>1 DEF HeldWhere
  <2> QED
    BY <1>1, <2>1, <2>2 DEF HeldBy
<1> QED
  BY <1>2, <1>3

\* A reservation that is not made yet, or holds nothing, counts for nothing.
LEMMA UnissuedHoldsNothing ==
  ASSUME LInv, HeldWhere, NEW r \in ResIds \ issued, NEW v \in Variants
  PROVE  Held(r, v) = 0
<1>1. reservation[r] = Absent /\ Working(r) = {}
  BY DEF LInv, IInv, SerialInv, Working, Active
<1> QED
  BY <1>1 DEF HeldWhere

\* The total moves with the one reservation that moves.
LEMMA TotalMoves ==
  ASSUME HeldCounts, HeldCounts', NEW v \in Variants, NEW q \in ResIds,
         \A x \in ResIds \ {q} : Held(x, v)' = Held(x, v)
  PROVE  /\ TotalHeld(v)' + Held(q, v) = TotalHeld(v) + Held(q, v)'
         /\ TotalHeld(v) \in Nat /\ TotalHeld(v)' \in Nat
         /\ Held(q, v) \in Nat /\ Held(q, v)' \in Nat
<1> DEFINE F == [r \in ResIds |-> Held(r, v)]
<1>1. PICK f \in [ResIds -> Nat] : f = F
  BY DEF HeldCounts
<1>2. F' \in [ResIds -> Nat]
  BY DEF HeldCounts
<1>3. PICK g \in [ResIds -> Nat] : g = F'
  BY <1>2
<1>4. \A x \in ResIds \ {q} : g[x] = f[x]
  BY <1>1, <1>3
<1>5. UnitsIn(g) + f[q] = UnitsIn(f) + g[q] /\ UnitsIn(f) \in Nat /\ UnitsIn(g) \in Nat
  BY <1>4, UnitsMoved, UnitsFact, ResIdsAssumption
<1>6. TotalHeld(v) = UnitsIn(f) /\ TotalHeld(v)' = UnitsIn(g)
  BY <1>1, <1>3 DEF TotalHeld
<1> QED
  BY <1>1, <1>3, <1>5, <1>6

LEMMA TotalStays ==
  ASSUME \A x \in ResIds, v \in Variants : Held(x, v)' = Held(x, v), NEW v \in Variants
  PROVE  TotalHeld(v)' = TotalHeld(v)
<1>1. [r \in ResIds |-> Held(r, v)]' = [r \in ResIds |-> Held(r, v)]
  OBVIOUS
<1> QED
  BY <1>1 DEF TotalHeld

\* Nobody settles a reservation that lapsed.
LEMMA LapsedStays ==
  ASSUME IInv, [Next]_vars, NEW r \in ResIds, Lapsed(r)
  PROVE  Lapsed(r)'
<1>1. r \in issued /\ reservation[r] = Absent /\ \A h \in Handlers : Active(h) => rid[h] # r
  BY DEF Lapsed, Working, Active
<1> SUFFICES /\ r \in issued' /\ reservation'[r] = Absent
             /\ sold'[r] = sold[r] /\ refunded'[r] = refunded[r]
             /\ \A h \in Handlers : pc'[h] # "idle" => rid'[h] # r
  BY DEF Lapsed, Working
<1> USE <1>1 DEF IInv, Inv, TypeOK, Active
<1>2. CASE UNCHANGED vars
  BY <1>2 DEF vars, redisVars, handlerVars, historyVars
<1>3. ASSUME NEW k \in Keys, NEW req \in Requests, NEW q \in ResIds, ReserveGrant(k, req, q)
      PROVE  /\ r \in issued' /\ reservation'[r] = Absent
             /\ sold'[r] = sold[r] /\ refunded'[r] = refunded[r]
             /\ \A h \in Handlers : pc'[h] # "idle" => rid'[h] # r
  BY <1>3 DEF ReserveGrant, handlerVars
<1>4. ASSUME NEW h \in Handlers, NEW o \in {"commit", "release"}, NEW q \in ResIds,
             ReadHash(h, o, q)
      PROVE  /\ r \in issued' /\ reservation'[r] = Absent
             /\ sold'[r] = sold[r] /\ refunded'[r] = refunded[r]
             /\ \A g \in Handlers : pc'[g] # "idle" => rid'[g] # r
  BY <1>4 DEF ReadHash, redisVars, handlerVars, historyVars
<1>5. ASSUME NEW h \in Handlers, Handler(h) \/ Crash(h)
      PROVE  /\ r \in issued' /\ reservation'[r] = Absent
             /\ sold'[r] = sold[r] /\ refunded'[r] = refunded[r]
             /\ \A g \in Handlers : pc'[g] # "idle" => rid'[g] # r
  <2>1. CASE CommitOnHand(h) \/ DelReservation(h) \/ \E v \in Variants : ReleaseIncr(h, v)
    BY <2>1 DEF CommitOnHand, ReleaseIncr, DelReservation, redisVars, historyVars
  <2>2. CASE CommitRefused(h) \/ DelIdem(h) \/ Crash(h)
    BY <2>2 DEF CommitRefused, DelIdem, Crash, Finish, redisVars, historyVars
  <2> QED
    BY <1>5, <2>1, <2>2 DEF Handler
<1>6. CASE (\E q \in ResIds : ExpireReservation(q)) \/ (\E k \in Keys : ExpireIdem(k))
  BY <1>6 DEF ExpireReservation, ExpireIdem, handlerVars, historyVars
<1> QED
  BY <1>2, <1>3, <1>4, <1>5, <1>6 DEF Next, ReserveStock, ReserveHit, ReserveReject


LEMMA BalanceInit ==
  ASSUME \A v \in Variants : InitialStock[v] <= InitialOnHand[v], Init
  PROVE  /\ NoOverPromise
         /\ InitialStock = InitialOnHand => UnitsConserved
<1>1. \A r \in ResIds : reservation[r] = Absent /\ Working(r) = {}
  BY DEF Init, Working
<1>2. ASSUME NEW v \in Variants PROVE TotalHeld(v) = 0
  <2>1. \A r \in ResIds : Held(r, v) = 0
    BY <1>1 DEF Held
  <2>2. \A x \in ResIds : [r \in ResIds |-> Held(r, v)][x] = 0
    BY <2>1
  <2>3. [r \in ResIds |-> Held(r, v)] \in [ResIds -> Nat]
    BY <2>1
  <2> QED
    BY <2>2, <2>3, UnitsNone DEF TotalHeld
<1>3. \A v \in Variants : InitialStock[v] \in Nat /\ InitialOnHand[v] \in Nat
  BY OnHandAssumption
<1> QED
  BY <1>2, <1>3 DEF Init, NoOverPromise, UnitsConserved

\* What a step of the ledger does to the balance of one variant.
LEMMA BalanceStep ==
  ASSUME LInv, LInv', HeldWhere, HeldWhere', HeldCounts, HeldCounts', NEW v \in Variants,
         LedgerMove \/ UNCHANGED Ledger!vars
  PROVE  \/ onHand'[v] - stock'[v] - TotalHeld(v)' = onHand[v] - stock[v] - TotalHeld(v)
         \/ /\ onHand'[v] - stock'[v] - TotalHeld(v)' >= onHand[v] - stock[v] - TotalHeld(v)
            /\ \E r \in ResIds : Lapsed(r)'
<1> DEFINE H == [r \in ResIds |-> [w \in Variants |-> Held(r, w)]]
<1>0. /\ stock[v] \in Int /\ stock'[v] \in Int /\ onHand[v] \in Int /\ onHand'[v] \in Int
      /\ \A r \in ResIds : H[r][v] = Held(r, v) /\ H'[r][v] = Held(r, v)'
      /\ \A r \in ResIds : Held(r, v) \in Nat /\ Held(r, v)' \in Nat
  BY DEF LInv, IInv, Inv, TypeOK, HeldCounts
<1>1. CASE UNCHANGED Ledger!vars
  <2>1. UNCHANGED <<stock, onHand>> /\ H' = H
    BY <1>1 DEF Ledger!vars
  <2>2. [r \in ResIds |-> Held(r, v)]' = [r \in ResIds |-> Held(r, v)]
    BY <1>0, <2>1
  <2>3. TotalHeld(v)' = TotalHeld(v)
    BY <2>2 DEF TotalHeld
  <2> QED
    BY <2>1, <2>3
<1>2. ASSUME NEW r \in ResIds, NEW req \in Requests, Ledger!Promise(r, req)
      PROVE  onHand'[v] - stock'[v] - TotalHeld(v)' = onHand[v] - stock[v] - TotalHeld(v)
  <2>1. /\ r \notin issued /\ H' = [H EXCEPT ![r] = Ledger!Asked(req)]
        /\ stock'[v] = stock[v] - Ledger!Asked(req)[v] /\ onHand'[v] = onHand[v]
    BY <1>2 DEF Ledger!Promise
  <2>2. Held(r, v) = 0
    BY <2>1, UnissuedHoldsNothing
  <2>3. Held(r, v)' = Ledger!Asked(req)[v] /\ \A x \in ResIds \ {r} : Held(x, v)' = Held(x, v)
    BY <1>0, <2>1
  <2>4. /\ TotalHeld(v)' + Held(r, v) = TotalHeld(v) + Held(r, v)'
        /\ TotalHeld(v) \in Nat /\ TotalHeld(v)' \in Nat
    BY <2>3, TotalMoves
  <2> QED
    BY <1>0, <2>1, <2>2, <2>3, <2>4
<1>3. ASSUME NEW r \in ResIds, Ledger!Sell(r)
      PROVE  onHand'[v] - stock'[v] - TotalHeld(v)' = onHand[v] - stock[v] - TotalHeld(v)
  <2>1. /\ H' = [H EXCEPT ![r] = Ledger!Nothing]
        /\ onHand'[v] = onHand[v] - H[r][v] /\ stock'[v] = stock[v]
    BY <1>3 DEF Ledger!Sell
  <2>2. Held(r, v)' = 0 /\ \A x \in ResIds \ {r} : Held(x, v)' = Held(x, v)
    BY <1>0, <2>1, ZenonT(40) DEF Ledger!Nothing
  <2>3. /\ TotalHeld(v)' + Held(r, v) = TotalHeld(v) + Held(r, v)'
        /\ TotalHeld(v) \in Nat /\ TotalHeld(v)' \in Nat
    BY <2>2, TotalMoves
  <2> QED
    BY <1>0, <2>1, <2>2, <2>3
<1>4. ASSUME NEW r \in ResIds, NEW w \in Variants, Ledger!GiveBack(r, w)
      PROVE  onHand'[v] - stock'[v] - TotalHeld(v)' = onHand[v] - stock[v] - TotalHeld(v)
  <2>1. /\ H' = [H EXCEPT ![r][w] = 0] /\ onHand'[v] = onHand[v]
        /\ stock' = [stock EXCEPT ![w] = @ + H[r][w]] /\ stock \in [Variants -> Int]
    BY <1>4 DEF Ledger!GiveBack, LInv, IInv, Inv, TypeOK
  <2>2. /\ \A x \in ResIds \ {r} : Held(x, v)' = Held(x, v)
        /\ Held(r, v)' = IF v = w THEN 0 ELSE Held(r, v)
        /\ stock'[v] = IF v = w THEN stock[v] + Held(r, v) ELSE stock[v]
    BY <1>0, <2>1
  <2>3. /\ TotalHeld(v)' + Held(r, v) = TotalHeld(v) + Held(r, v)'
        /\ TotalHeld(v) \in Nat /\ TotalHeld(v)' \in Nat
    BY <2>2, TotalMoves
  <2> QED
    BY <1>0, <2>1, <2>2, <2>3
<1>5. ASSUME NEW r \in ResIds, Ledger!Lapse(r), Lapsed(r)'
      PROVE  /\ onHand'[v] - stock'[v] - TotalHeld(v)' >= onHand[v] - stock[v] - TotalHeld(v)
             /\ \E x \in ResIds : Lapsed(x)'
  <2>1. H' = [H EXCEPT ![r] = Ledger!Nothing] /\ onHand'[v] = onHand[v] /\ stock'[v] = stock[v]
    BY <1>5 DEF Ledger!Lapse
  <2>2. Held(r, v)' = 0 /\ \A x \in ResIds \ {r} : Held(x, v)' = Held(x, v)
    BY <1>0, <2>1, ZenonT(40) DEF Ledger!Nothing
  <2>3. /\ TotalHeld(v)' + Held(r, v) = TotalHeld(v) + Held(r, v)'
        /\ TotalHeld(v) \in Nat /\ TotalHeld(v)' \in Nat
    BY <2>2, TotalMoves
  <2>4. TotalHeld(v)' <= TotalHeld(v)
    BY <1>0, <2>2, <2>3
  <2>5. onHand'[v] - stock'[v] - TotalHeld(v)' >= onHand[v] - stock[v] - TotalHeld(v)
    BY <1>0, <2>1, <2>3, <2>4
  <2> QED
    BY <1>5, <2>5
<1> QED
  BY <1>1, <1>2, <1>3, <1>4, <1>5 DEF LedgerMove

LEMMA BalanceKept ==
  ASSUME CallsOverlap = FALSE, MaxCrashes = 0, Variants # {}
  PROVE  LInv /\ LInv' /\ HeldWhere /\ HeldWhere' /\ HeldCounts /\ HeldCounts' /\ [Next]_vars
           => /\ NoOverPromise => NoOverPromise'
              /\ UnitsConserved => UnitsConserved'
<1> SUFFICES ASSUME LInv, LInv', HeldWhere, HeldWhere', HeldCounts, HeldCounts', [Next]_vars
             PROVE  /\ NoOverPromise => NoOverPromise'
                    /\ UnitsConserved => UnitsConserved'
  OBVIOUS
<1>1. LedgerMove \/ UNCHANGED Ledger!vars
  BY LedgerStep
<1>2. \A r \in ResIds : Lapsed(r) => Lapsed(r)'
  BY LapsedStays DEF LInv
<1>3. ASSUME NEW v \in Variants
      PROVE  /\ stock[v] \in Int /\ stock'[v] \in Int
             /\ onHand[v] \in Int /\ onHand'[v] \in Int
             /\ TotalHeld(v) \in Nat /\ TotalHeld(v)' \in Nat
  <2>1. [r \in ResIds |-> Held(r, v)] \in [ResIds -> Nat]
    BY DEF HeldCounts
  <2>2. [r \in ResIds |-> Held(r, v)]' \in [ResIds -> Nat]
    BY DEF HeldCounts
  <2>3. TotalHeld(v) \in Nat
    BY <2>1, UnitsFact, ResIdsAssumption DEF TotalHeld
  <2>4. TotalHeld(v)' \in Nat
    <3>1. PICK g \in [ResIds -> Nat] : g = [r \in ResIds |-> Held(r, v)]'
      BY <2>2
    <3>2. UnitsIn(g) \in Nat
      BY UnitsFact, ResIdsAssumption
    <3> QED
      BY <3>1, <3>2 DEF TotalHeld
  <2> QED
    BY <2>3, <2>4 DEF LInv, IInv, Inv, TypeOK
<1>4. \A v \in Variants :
        \/ onHand'[v] - stock'[v] - TotalHeld(v)' = onHand[v] - stock[v] - TotalHeld(v)
        \/ /\ onHand'[v] - stock'[v] - TotalHeld(v)' >= onHand[v] - stock[v] - TotalHeld(v)
           /\ \E r \in ResIds : Lapsed(r)'
  BY <1>1, BalanceStep
<1>5. ASSUME NoOverPromise PROVE NoOverPromise'
  <2> SUFFICES ASSUME NEW v \in Variants PROVE stock'[v] + TotalHeld(v)' <= onHand'[v]
    BY DEF NoOverPromise
  <2>1. stock[v] + TotalHeld(v) <= onHand[v]
    BY <1>5 DEF NoOverPromise
  <2>2. onHand'[v] - stock'[v] - TotalHeld(v)' >= onHand[v] - stock[v] - TotalHeld(v)
    BY <1>3, <1>4
  <2> QED
    BY <1>3, <2>1, <2>2
<1>6. ASSUME UnitsConserved PROVE UnitsConserved'
  <2> SUFFICES ASSUME \A r \in ResIds : ~Lapsed(r)', NEW v \in Variants
               PROVE  stock'[v] + TotalHeld(v)' = onHand'[v]
    BY DEF UnitsConserved
  <2>1. stock[v] + TotalHeld(v) = onHand[v]
    BY <1>2, <1>6 DEF UnitsConserved
  <2>2. onHand'[v] - stock'[v] - TotalHeld(v)' = onHand[v] - stock[v] - TotalHeld(v)
    BY <1>4
  <2>3. /\ stock[v] \in Int /\ stock'[v] \in Int /\ onHand[v] \in Int /\ onHand'[v] \in Int
        /\ TotalHeld(v) \in Int /\ TotalHeld(v)' \in Int
    BY <1>3
  <2> QED
    BY <2>1, <2>2, <2>3
<1> QED
  BY <1>5, <1>6

\* The invariant the three theorems below share.
LEMMA ServiceInv ==
  ASSUME CallsOverlap = FALSE, MaxCrashes = 0, Variants # {}
  PROVE  Spec => [](LInv /\ HeldWhere /\ HeldCounts)
<1>1. IInv /\ [Next]_vars => IInv'
  BY IInvStep
<1>2. IInv /\ IInv' /\ RecordInv /\ [Next]_vars => RecordInv'
  BY RecordStep
<1>3. IInv /\ IInv' /\ RecordInv /\ CopyInv /\ [Next]_vars => CopyInv'
  BY CopyStep
<1>4. LInv <=> IInv /\ RecordInv /\ CopyInv
  BY DEF LInv
<1> QED
  BY IInvInit, RecordInit, CopyInit, HeldIsThere, HeldIsNat, <1>1, <1>2, <1>3, <1>4, PTL DEF Spec

\* The free counter and the open reservations never promise more than is on hand, for
\* any variants, requests, reservations and keys, when the counters start within the
\* levels, calls on one reservation do not overlap and none dies half way.
THEOREM PromisesAreCovered ==
  ASSUME CallsOverlap = FALSE, MaxCrashes = 0, Variants # {},
         \A v \in Variants : InitialStock[v] <= InitialOnHand[v]
  PROVE  Spec => []NoOverPromise
<1>1. Init => NoOverPromise
  BY BalanceInit
<1>2. LInv /\ LInv' /\ HeldWhere /\ HeldWhere' /\ HeldCounts /\ HeldCounts' /\ [Next]_vars
        => (NoOverPromise => NoOverPromise')
  BY BalanceKept
<1> QED
  BY ServiceInv, <1>1, <1>2, PTL DEF Spec

\* Until a reservation lapses no unit gets lost between Redis and Postgres: free and
\* reserved units add up to what is on hand, if they did when the counters were loaded.
THEOREM OnlyLapsesLoseUnits ==
  ASSUME CallsOverlap = FALSE, MaxCrashes = 0, Variants # {}, InitialStock = InitialOnHand
  PROVE  Spec => []UnitsConserved
<1>1. Init => UnitsConserved
  <2>1. \A v \in Variants : InitialStock[v] <= InitialOnHand[v]
    BY OnHandAssumption
  <2> QED
    BY <2>1, BalanceInit
<1>2. LInv /\ LInv' /\ HeldWhere /\ HeldWhere' /\ HeldCounts /\ HeldCounts' /\ [Next]_vars
        => (UnitsConserved => UnitsConserved')
  BY BalanceKept
<1> QED
  BY ServiceInv, <1>1, <1>2, PTL DEF Spec

\* No commit is refused by the CHECK constraint: whoever was promised units, in any
\* number of reservations that commit in any order, gets them.
THEOREM CommitsGoThrough ==
  ASSUME CallsOverlap = FALSE, MaxCrashes = 0, Variants # {},
         \A v \in Variants : InitialStock[v] <= InitialOnHand[v]
  PROVE  Spec => []CommitNeverRefused
<1>1. LInv /\ HeldWhere /\ HeldCounts /\ NoOverPromise => CommitNeverRefused
  <2> SUFFICES ASSUME LInv, HeldWhere, HeldCounts, NoOverPromise, NEW h \in Handlers,
                      pc[h] = "apply", op[h] = "commit", NEW v \in DOMAIN got[h].items
               PROVE  onHand[v] >= got[h].items[v]
    BY DEF CommitNeverRefused, CheckHolds
  <2>1. rid[h] \in ResIds /\ got[h] \in Hash /\ Active(h)
    BY DEF LInv, IInv, Inv, Active
  <2>2. v \in Variants
    BY <2>1, RequestFacts DEF Hash
  <2>3. Held(rid[h], v) = got[h].items[v]
    BY <2>1, <2>2 DEF HeldWhere, HeldBy, Qty
  <2>4. [r \in ResIds |-> Held(r, v)] \in [ResIds -> Nat]
    BY <2>2 DEF HeldCounts
  <2>5. Held(rid[h], v) <= TotalHeld(v) /\ TotalHeld(v) \in Nat /\ Held(rid[h], v) \in Nat
    <3>1. PICK f \in [ResIds -> Nat] : f = [r \in ResIds |-> Held(r, v)]
      BY <2>4
    <3>2. f[rid[h]] <= UnitsIn(f) /\ UnitsIn(f) \in Nat
      BY <2>1, UnitsAtLeast, UnitsFact, ResIdsAssumption
    <3> QED
      BY <2>1, <3>1, <3>2 DEF TotalHeld
  <2>6. stock[v] >= 0 /\ stock[v] \in Int /\ onHand[v] \in Int
    BY <2>2 DEF LInv, IInv, Inv, TypeOK, CountersNonNegative
  <2>7. stock[v] + TotalHeld(v) <= onHand[v]
    BY <2>2 DEF NoOverPromise
  <2> QED
    BY <2>3, <2>5, <2>6, <2>7
<1> QED
  BY ServiceInv, PromisesAreCovered, <1>1, PTL

-----------------------------------------------------------------------------
(* Replicas that load the counters while others serve.                     *)


Phases == {"start", "read", "store", "unlock", "serving"}

\* A replica that loads has the key, and the key is there for a loader, unless it
\* outlived a kill.
BootInv ==
  /\ Inv
  /\ lock \in BOOLEAN
  /\ boot \in [Replicas -> Phases]
  /\ levels \in [Replicas -> [Variants -> Int]]
  /\ kills \in Nat
  /\ lock => Loading # {} \/ kills > 0

LEMMA NotReadIsLevels == NotRead \in [Variants -> Int]
BY DEF NotRead

LEMMA BootInvInit == BootInit => BootInv
<1> SUFFICES ASSUME BootInit PROVE BootInv
  OBVIOUS
<1>1. Inv
  BY InvInit DEF BootInit
<1>2. boot \in [Replicas -> Phases] /\ levels \in [Replicas -> [Variants -> Int]]
  BY NotReadIsLevels DEF BootInit, Phases
<1> QED
  BY <1>1, <1>2 DEF BootInit, BootInv

\* While a replica boots or the key expires, the service itself stands still.
LEMMA InvKept == ASSUME Inv, UNCHANGED vars PROVE Inv'
BY InvStep

\* The load replaces the counters by levels that are not negative.
LEMMA StoreKeepsInv ==
  ASSUME BootInv, NEW p \in Replicas, BootStore(p)
  PROVE  Inv'
<1>1. stock' \in [Variants -> Int] /\ \A v \in Variants : stock'[v] >= 0
  BY DEF BootInv, BootStore
<1> QED
  BY <1>1 DEF BootInv, BootStore, Inv, TypeOK, CountersNonNegative, handlerVars, historyVars

\* Every RPC and every TTL is a step of the service.
LEMMA ServeKeepsInv == ASSUME Inv, ServeCalls PROVE Inv'
<1>1. Next
  BY DEF ServeCalls, Next
<1> QED
  BY <1>1, InvStep

LEMMA BootInvStep == BootInv /\ [BootNext]_serviceVars => BootInv'
<1> SUFFICES ASSUME BootInv, [BootNext]_serviceVars PROVE BootInv'
  OBVIOUS
<1>1. ASSUME NEW p \in Replicas, BootLock(p) PROVE BootInv'
  <2>1. Inv'
    BY <1>1, InvKept DEF BootInv, BootLock
  <2>2. lock \/ boot'[p] = "read"
    BY <1>1 DEF BootInv, BootLock
  <2>3. \A q \in Replicas : q \in Loading => q \in Loading'
    BY <1>1 DEF BootInv, BootLock, Loading
  <2> QED
    BY <1>1, <2>1, <2>2, <2>3 DEF BootInv, BootLock, Loading, Phases, faultVars
<1>2. ASSUME NEW p \in Replicas, BootRead(p) PROVE BootInv'
  <2>1. Inv' /\ onHand \in [Variants -> Int]
    BY <1>2, InvKept DEF BootInv, BootRead, Inv, TypeOK
  <2>2. p \in Loading'
    BY <1>2 DEF BootInv, BootRead, Loading
  <2> QED
    BY <1>2, <2>1, <2>2 DEF BootInv, BootRead, Phases, faultVars
<1>3. ASSUME NEW p \in Replicas, BootStore(p) PROVE BootInv'
  <2>1. Inv'
    BY <1>3, StoreKeepsInv
  <2>2. p \in Loading'
    BY <1>3 DEF BootInv, BootStore, Loading
  <2> QED
    BY <1>3, <2>1, <2>2, NotReadIsLevels DEF BootInv, BootStore, Phases, faultVars
<1>4. ASSUME NEW p \in Replicas, BootUnlock(p) PROVE BootInv'
  <2>1. Inv'
    BY <1>4, InvKept DEF BootInv, BootUnlock
  <2> QED
    BY <1>4, <2>1 DEF BootInv, BootUnlock, Phases, faultVars
<1>5. ASSUME NEW p \in Replicas, BootCrash(p) PROVE BootInv'
  <2>1. Inv'
    BY <1>5, InvKept DEF BootInv, BootCrash
  <2>2. kills' \in Nat /\ kills' > 0
    BY <1>5 DEF BootInv, BootCrash
  <2> QED
    BY <1>5, <2>1, <2>2, NotReadIsLevels DEF BootInv, BootCrash, Phases
<1>6. ASSUME NEW p \in Replicas, BootFails(p) PROVE BootInv'
  <2>1. Inv'
    BY <1>6, InvKept DEF BootInv, BootFails
  <2>2. boot' \in [Replicas -> Phases] /\ levels' \in [Replicas -> [Variants -> Int]]
    BY <1>6, NotReadIsLevels DEF BootInv, BootFails, Phases
  <2> QED
    BY <1>6, <2>1, <2>2 DEF BootInv, BootFails
<1>7. ASSUME NEW p \in Replicas, Restart(p) PROVE BootInv'
  <2>1. Inv'
    BY <1>7, InvKept DEF BootInv, Restart
  <2>2. \A q \in Replicas : q \in Loading => q \in Loading'
    BY <1>7 DEF BootInv, Restart, Loading
  <2> QED
    BY <1>7, <2>1, <2>2 DEF BootInv, Restart, Loading, Phases
<1>8. CASE LockExpire
  <2>1. Inv'
    BY <1>8, InvKept DEF BootInv, LockExpire
  <2> QED
    BY <1>8, <2>1 DEF BootInv, LockExpire, faultVars
<1>9. CASE ServeCalls /\ UNCHANGED bootVars
  <2>1. Inv'
    BY <1>9, ServeKeepsInv DEF BootInv
  <2> QED
    BY <1>9, <2>1 DEF BootInv, bootVars, faultVars, Loading
<1>10. CASE UNCHANGED serviceVars
  <2>1. Inv'
    BY <1>10, InvKept DEF BootInv, serviceVars
  <2> QED
    BY <1>10, <2>1 DEF BootInv, serviceVars, bootVars, faultVars, Loading
<1> QED
  BY <1>1, <1>2, <1>3, <1>4, <1>5, <1>6, <1>7, <1>8, <1>9, <1>10 DEF BootNext, Boot

\* Loads, kills, failures and restarts, whatever reservations, commits and releases
\* overlap with them, take no counter and no quantity_on_hand below zero.
THEOREM BootNeverNegative == BootSpec => []CountersNonNegative
<1>1. BootInv => CountersNonNegative
  BY DEF BootInv, Inv
<1> QED
  BY BootInvInit, BootInvStep, <1>1, PTL DEF BootSpec

\* A replica that starts without loading leaves it to one that is loading, unless a
\* loader was killed: for any number of replicas, and when the key expires early.
THEOREM SkipsForALoader == BootSpec => SkipsOnlyForALoader
<1>1. BootInv /\ [BootNext]_serviceVars
        => [\A p \in Replicas : (boot[p] = "start" /\ boot'[p] = "serving")
              => Loading # {} \/ kills > 0]_serviceVars
  <2> SUFFICES ASSUME BootInv, BootNext, NEW p \in Replicas,
                      boot[p] = "start", boot'[p] = "serving"
               PROVE  Loading # {} \/ kills > 0
    OBVIOUS
  <2>1. CASE \E q \in Replicas : BootLock(q)
    BY <2>1 DEF BootInv, BootLock
  <2>2. ASSUME ~(\E q \in Replicas : BootLock(q)) PROVE FALSE
    <3>1. CASE \E q \in Replicas : Boot(q) \/ BootCrash(q) \/ BootFails(q) \/ Restart(q)
      BY <2>2, <3>1 DEF BootInv, Boot, BootRead, BootStore, BootUnlock, BootCrash,
                        BootFails, Restart, Phases, Loading
    <3>2. CASE LockExpire \/ (ServeCalls /\ UNCHANGED bootVars)
      BY <3>2 DEF LockExpire, bootVars
    <3> QED
      BY <3>1, <3>2 DEF BootNext
  <2> QED
    BY <2>1, <2>2
<1> QED
  BY BootInvInit, BootInvStep, <1>1, PTL DEF BootSpec, SkipsOnlyForALoader
=============================================================================
