---------------------- MODULE InventoryPostgresProofs ----------------------
(***************************************************************************)
(* What holds of the Postgres mode for every set of variants, requests,    *)
(* keys and coroutines, any number of failures, and with or without TTLs:  *)
(* first with calls on one reservation that overlap; the last part counts  *)
(* the units of open reservations, for calls that follow each other.       *)
(***************************************************************************)
EXTENDS InventoryPostgres, WellFoundedInduction, FiniteSetTheorems, TLAPS

-----------------------------------------------------------------------------
(* The invariants.                                                         *)

\* A busy coroutine knows its reservation, its key and its quantities.
HasCall(p) ==
  pc[p] # "idle" => rid[p] \in ResIds /\ key[p] \in Keys /\ items[p] \in Requests

\* What a transaction has locked it holds, and there the rows are still as its
\* SELECT returned them.
RowsHeld(p) ==
  InTransaction(p) =>
    /\ pc[p] # "lock" => todo[p] = {}
    /\ \A v \in DOMAIN items[p].qty \ todo[p] :
         lock[v] = p /\ seen[p][v] = onHand[v] - reserved[v]

Decided(p) == pc[p] = "book" => Covered(p)

RowInv ==
  /\ PgTypeOK
  /\ NeverOversold
  /\ \A p \in Procs : HasCall(p) /\ RowsHeld(p) /\ Decided(p)

\* Only transactions hold locks, and a reservation only below all it still asks for.
LocksAscend(p) ==
  \A v \in Variants :
    lock[v] = p =>
      /\ InTransaction(p)
      /\ pc[p] = "lock" /\ op[p] = "reserve" => \A w \in todo[p] : v < w

LockInv == RowInv /\ \A p \in Procs : LocksAscend(p)

\* Nothing is known of an id before uuid4 has returned it.
FreshIds ==
  /\ \A k \in Keys : idem[k] # Absent => idem[k] \in issued
  /\ \A p \in Procs : pc[p] # "idle" => rid[p] \in issued
  /\ \A r \in ResIds : r \notin issued => reservation[r] = Absent /\ settled[r] = 0

\* The claim of a reservation is under the key its coroutines and its hash name.
KeysAgree ==
  \A k \in Keys, r \in ResIds :
    idem[k] = r =>
      /\ \A p \in Working(r) : key[p] = k
      /\ reservation[r] # Absent => reservation[r].idem_key = k

\* Until its transaction the claim of a reservation is its coroutine's to take back,
\* and once it is settled that of a coroutine on its way to delete it.
Owner(r) ==
  /\ booked[r] = Absent =>
       \E p \in Working(r) :
         op[p] = "reserve" /\ pc[p] \in {"lock", "check", "book", "dropClaim"}
  /\ settled[r] # 0 =>
       \E p \in Working(r) : pc[p] \in {"delReservation", "delIdem"}

ClaimsOwned ==
  \A k \in Keys, r \in ResIds : idem[k] = r /\ r \notin lost => Owner(r)

OpsFit ==
  \A p \in Procs :
    /\ pc[p] \in {"apply", "delReservation", "delIdem"} => op[p] # "reserve"
    /\ pc[p] \in {"check", "book", "dropClaim", "hset", "expire"} => op[p] = "reserve"

ClaimInv == RowInv /\ FreshIds /\ KeysAgree /\ OpsFit /\ ClaimsOwned

-----------------------------------------------------------------------------
(* Rows and their locks.                                                   *)

\* What the assumptions say of one request.
LEMMA RequestFacts ==
  ASSUME NEW req \in Requests
  PROVE  /\ DOMAIN req.qty \subseteq Variants
         /\ \A v \in DOMAIN req.qty : req.qty[v] \in Nat /\ req.qty[v] > 0
         /\ \A v \in Variants : Qty(req, v) \in Nat
         /\ req # Absent
BY PgRequestsAssumption, PgAbsentAssumption DEF Qty

\* The initial state satisfies the invariant.
LEMMA RowInit == Init => RowInv
BY PgStockAssumption DEF Init, RowInv, PgTypeOK, NeverOversold, HasCall, RowsHeld,
     Decided, InTransaction, NothingSeen

\* A claim starts a transaction that has locked nothing yet.
LEMMA RowClaim ==
  ASSUME RowInv, NEW p \in Procs, NEW k \in Keys, NEW req \in Requests,
         NEW r \in ResIds, Claim(p, k, req, r)
  PROVE  RowInv'
<1>1. DOMAIN req.qty \subseteq Variants
  BY RequestFacts
<1>2. PgTypeOK'
  BY <1>1 DEF RowInv, PgTypeOK, Claim, Goto, rowVars
<1>3. NeverOversold'
  BY DEF RowInv, NeverOversold, Claim, rowVars
<1>4. ASSUME NEW q \in Procs PROVE (HasCall(q) /\ RowsHeld(q) /\ Decided(q))'
  BY DEF RowInv, PgTypeOK, HasCall, RowsHeld, Decided, InTransaction, Covered, Claim, Goto, rowVars
<1> QED
  BY <1>2, <1>3, <1>4 DEF RowInv

\* A transaction that gets a lock takes no other's, and reads the row it locks.
LEMMA RowLock ==
  ASSUME RowInv, NEW p \in Procs, NEW v \in Variants, LockRow(p, v)
  PROVE  RowInv'
<1>1. v \in todo[p] /\ lock[v] = Absent /\ Absent \notin Procs
  BY PgAbsentAssumption DEF LockRow, NextRow
<1>2. PgTypeOK'
  BY <1>1 DEF RowInv, PgTypeOK, LockRow, Goto, redisVars, historyVars
<1>3. NeverOversold'
  BY DEF RowInv, NeverOversold, LockRow
<1>4. ASSUME NEW q \in Procs, q # p PROVE (HasCall(q) /\ RowsHeld(q) /\ Decided(q))'
  <2>1. /\ pc'[q] = pc[q] /\ todo'[q] = todo[q] /\ seen'[q] = seen[q]
        /\ items' = items /\ rid' = rid /\ key' = key
        /\ onHand' = onHand /\ reserved' = reserved
    BY <1>4 DEF RowInv, PgTypeOK, LockRow, Goto
  <2>2. \A w \in Variants : lock[w] = q => lock'[w] = q
    BY <1>1 DEF RowInv, PgTypeOK, LockRow
  <2>3. InTransaction(q) => DOMAIN items[q].qty \subseteq Variants
    BY RequestFacts DEF RowInv, HasCall, InTransaction
  <2> QED
    BY <2>1, <2>2, <2>3 DEF RowInv, HasCall, RowsHeld, Decided, InTransaction, Covered
<1>5. (HasCall(p) /\ RowsHeld(p) /\ Decided(p))'
  <2>1. /\ pc[p] = "lock" /\ pc'[p] \in {"lock", "check", "apply"}
        /\ pc'[p] # "lock" => todo[p] = {v}
        /\ todo'[p] = todo[p] \ {v}
        /\ items' = items /\ rid' = rid /\ key' = key
        /\ onHand' = onHand /\ reserved' = reserved
    BY DEF RowInv, PgTypeOK, LockRow, Goto
  <2>2. lock'[v] = p /\ seen'[p][v] = onHand[v] - reserved[v]
    BY DEF RowInv, PgTypeOK, LockRow
  <2>3. \A w \in Variants \ {v} : lock'[w] = lock[w] /\ seen'[p][w] = seen[p][w]
    BY DEF RowInv, PgTypeOK, LockRow
  <2>4. DOMAIN items[p].qty \subseteq Variants
    BY <2>1, RequestFacts DEF RowInv, HasCall
  <2> QED
    BY <2>1, <2>2, <2>3, <2>4 DEF RowInv, HasCall, RowsHeld, Decided, InTransaction
<1> QED
  BY <1>2, <1>3, <1>4, <1>5 DEF RowInv

\* A coroutine that gives up its locks, and does not write, disturbs nobody else.
LEMMA OthersUndisturbed ==
  ASSUME RowInv, NEW p \in Procs, Unlock(p), onHand' = onHand, reserved' = reserved,
         NEW q \in Procs, q # p,
         pc'[q] = pc[q], rid'[q] = rid[q], key'[q] = key[q], items'[q] = items[q],
         todo'[q] = todo[q], seen'[q] = seen[q]
  PROVE  (HasCall(q) /\ RowsHeld(q) /\ Decided(q))'
<1>1. \A w \in Variants : lock[w] = q => lock'[w] = q
  BY DEF Unlock
<1>2. InTransaction(q) => DOMAIN items[q].qty \subseteq Variants
  BY RequestFacts DEF RowInv, HasCall, InTransaction
<1> QED
  BY <1>1, <1>2 DEF RowInv, HasCall, RowsHeld, Decided, InTransaction, Covered

\* A rejected, failed or dead call: locks are given back, nothing is written.
LEMMA RowRelease ==
  ASSUME RowInv, NEW p \in Procs, Unlock(p), onHand' = onHand, reserved' = reserved,
         PgTypeOK', \A q \in Procs \ {p} :
           /\ pc'[q] = pc[q] /\ rid'[q] = rid[q] /\ key'[q] = key[q]
           /\ items'[q] = items[q] /\ todo'[q] = todo[q] /\ seen'[q] = seen[q],
         ~InTransaction(p)', HasCall(p)'
  PROVE  RowInv'
<1>1. NeverOversold'
  BY DEF RowInv, NeverOversold
<1>2. (RowsHeld(p) /\ Decided(p))'
  BY DEF RowsHeld, Decided, InTransaction
<1>3. ASSUME NEW q \in Procs, q # p PROVE (HasCall(q) /\ RowsHeld(q) /\ Decided(q))'
  BY <1>3, OthersUndisturbed
<1> QED
  BY <1>1, <1>2, <1>3 DEF RowInv

\* What a coroutine that ends leaves of the calls.
LEMMA FinishFacts ==
  ASSUME RowInv, NEW p \in Procs, Finish(p)
  PROVE  /\ pc' \in [Procs -> {"idle", "lock", "check", "book", "dropClaim", "hset",
                               "expire", "apply", "delReservation", "delIdem"}]
         /\ op' \in [Procs -> {"none", "reserve", "commit", "release"}]
         /\ key' \in [Procs -> Keys \cup {Absent}]
         /\ rid' \in [Procs -> ResIds \cup {Absent}]
         /\ items' \in [Procs -> Requests \cup {Absent}]
         /\ todo' \in [Procs -> SUBSET Variants]
         /\ seen' \in [Procs -> [Variants -> Int]]
         /\ pc'[p] = "idle" /\ ~InTransaction(p)' /\ HasCall(p)'
         /\ \A q \in Procs \ {p} :
              /\ pc'[q] = pc[q] /\ op'[q] = op[q] /\ rid'[q] = rid[q] /\ key'[q] = key[q]
              /\ items'[q] = items[q] /\ todo'[q] = todo[q] /\ seen'[q] = seen[q]
BY DEF RowInv, PgTypeOK, Finish, NothingSeen, InTransaction, HasCall

\* Giving back locks keeps the lock table's shape.
LEMMA UnlockType ==
  ASSUME RowInv, NEW p \in Procs, Unlock(p)
  PROVE  lock' \in [Variants -> Procs \cup {Absent}]
BY DEF RowInv, PgTypeOK, Unlock

\* A coroutine outside of a transaction has no rows to look after.
LEMMA RowElsewhere ==
  ASSUME RowInv, NEW p \in Procs, UNCHANGED rowVars, PgTypeOK',
         \A q \in Procs \ {p} :
           /\ pc'[q] = pc[q] /\ rid'[q] = rid[q] /\ key'[q] = key[q]
           /\ items'[q] = items[q] /\ todo'[q] = todo[q] /\ seen'[q] = seen[q],
         (HasCall(p) /\ RowsHeld(p) /\ Decided(p))'
  PROVE  RowInv'
BY DEF RowInv, NeverOversold, HasCall, RowsHeld, Decided, InTransaction, Covered, rowVars

\* The pre-check lets a reservation book only what was free when it locked the rows.
LEMMA RowDecide ==
  ASSUME RowInv, NEW p \in Procs, Check(p) \/ Reject(p)
  PROVE  RowInv'
<1>1. CASE Check(p)
  <2>1. PgTypeOK'
    BY <1>1 DEF RowInv, PgTypeOK, Check, Goto, rowVars, redisVars, historyVars
  <2>2. (HasCall(p) /\ RowsHeld(p) /\ Decided(p))'
    BY <1>1 DEF RowInv, PgTypeOK, HasCall, RowsHeld, Decided, InTransaction, Covered,
                Check, Goto, rowVars
  <2> QED
    BY <1>1, <2>1, <2>2, RowElsewhere DEF RowInv, PgTypeOK, Check, Goto
<1>2. CASE Reject(p)
  <2>1. key[p] \in Keys
    BY <1>2 DEF RowInv, HasCall, Reject
  <2>2. PgTypeOK'
    BY <1>2, <2>1, FinishFacts, UnlockType DEF RowInv, PgTypeOK, Reject, historyVars
  <2> QED
    BY <1>2, <2>2, FinishFacts, RowRelease DEF Reject
<1> QED
  BY <1>1, <1>2

\* A reservation raises quantity_reserved on rows it has kept locked since it read
\* them: what was free is free.
LEMMA RowBook ==
  ASSUME RowInv, NEW p \in Procs, Book(p) \/ BookUnanswered(p)
  PROVE  RowInv'
<1>1. /\ pc[p] = "book" /\ BookUnits(p) /\ onHand' = onHand
      /\ pc' \in [Procs -> {"idle", "lock", "check", "book", "dropClaim", "hset",
                            "expire", "apply", "delReservation", "delIdem"}]
      /\ pc'[p] \in {"hset", "dropClaim"}
      /\ \A q \in Procs \ {p} : pc'[q] = pc[q]
      /\ UNCHANGED <<redisVars, op, key, rid, items, todo, seen, issued, settled>>
      /\ lost' \in SUBSET ResIds
  BY DEF RowInv, PgTypeOK, HasCall, Book, BookUnanswered, Goto
<1>2. /\ items[p] \in Requests /\ rid[p] \in ResIds /\ key[p] \in Keys /\ todo[p] = {}
      /\ DOMAIN items[p].qty \subseteq Variants
      /\ \A v \in Variants : Qty(items[p], v) \in Nat
  BY <1>1, RequestFacts DEF RowInv, HasCall, RowsHeld, InTransaction
<1>3. \A v \in DOMAIN items[p].qty :
        lock[v] = p /\ items[p].qty[v] <= onHand[v] - reserved[v]
  BY <1>1, <1>2 DEF RowInv, RowsHeld, Decided, Covered, InTransaction
<1>4. \A v \in Variants : reserved'[v] = reserved[v] + Qty(items[p], v)
  BY <1>1 DEF BookUnits
<1>5. PgTypeOK'
  <2>1. reserved' \in [Variants -> Int]
    BY <1>1, <1>2 DEF RowInv, PgTypeOK, BookUnits
  <2>2. booked' \in [ResIds -> Requests \cup {Absent}]
    BY <1>1, <1>2 DEF RowInv, PgTypeOK, BookUnits
  <2> QED
    BY <1>1, <2>1, <2>2, UnlockType DEF RowInv, PgTypeOK, BookUnits, redisVars
<1>6. NeverOversold'
  BY <1>1, <1>2, <1>3, <1>4, SMTT(20) DEF RowInv, PgTypeOK, NeverOversold, Qty
<1>7. ASSUME NEW q \in Procs PROVE (HasCall(q) /\ RowsHeld(q) /\ Decided(q))'
  <2>1. CASE q = p
    BY <1>1, <1>2, <2>1 DEF HasCall, RowsHeld, Decided, InTransaction
  <2>2. CASE q # p
    <3>1. \A w \in Variants :
            lock[w] = q => lock'[w] = q /\ reserved'[w] = reserved[w]
      BY <1>1, <1>2, <1>3, <1>4, <2>2 DEF BookUnits, Unlock, Qty, RowInv, PgTypeOK
    <3>2. InTransaction(q) => DOMAIN items[q].qty \subseteq Variants
      BY RequestFacts DEF RowInv, HasCall, InTransaction
    <3> QED
      BY <1>1, <2>2, <3>1, <3>2 DEF RowInv, HasCall, RowsHeld, Decided, InTransaction, Covered
  <2> QED
    BY <2>1, <2>2
<1> QED
  BY <1>5, <1>6, <1>7 DEF RowInv

\* What follows the transaction is about Redis alone.
LEMMA RowRedis ==
  ASSUME RowInv, NEW p \in Procs,
         DropClaim(p) \/ StoreHash(p) \/ SetTTL(p) \/ DelReservation(p) \/ DelIdem(p)
  PROVE  RowInv'
<1>1. rid[p] \in ResIds /\ key[p] \in Keys /\ items[p] \in Requests
  BY DEF RowInv, HasCall, DropClaim, StoreHash, SetTTL, DelReservation, DelIdem
<1>2. CASE DropClaim(p) \/ SetTTL(p) \/ DelIdem(p)
  <2>1. PgTypeOK'
    BY <1>1, <1>2, FinishFacts DEF RowInv, PgTypeOK, DropClaim, SetTTL, DelIdem, rowVars, historyVars
  <2>2. Finish(p) /\ UNCHANGED rowVars
    BY <1>2 DEF DropClaim, SetTTL, DelIdem
  <2>3. (RowsHeld(p) /\ Decided(p))'
    BY <2>2, FinishFacts DEF RowsHeld, Decided
  <2> QED
    BY <2>1, <2>2, <2>3, FinishFacts, RowElsewhere
<1>3. CASE StoreHash(p) \/ DelReservation(p)
  <2>1. [items |-> items[p], idem_key |-> key[p]] \in Hash
    BY <1>1 DEF Hash
  <2>2. /\ reservation' \in [ResIds -> Hash \cup {Absent}]
        /\ expiring' \in SUBSET ResIds
    BY <1>1, <1>3, <2>1 DEF RowInv, PgTypeOK, StoreHash, DelReservation
  <2>3. pc' \in [Procs -> {"idle", "lock", "check", "book", "dropClaim", "hset",
                           "expire", "apply", "delReservation", "delIdem"}]
    BY <1>3, ZenonT(40) DEF RowInv, PgTypeOK, StoreHash, DelReservation, Goto
  <2>4. PgTypeOK'
    BY <1>3, <2>2, <2>3 DEF RowInv, PgTypeOK, StoreHash, DelReservation, rowVars, historyVars
  <2>5. (HasCall(p) /\ RowsHeld(p) /\ Decided(p))'
    BY <1>1, <1>3 DEF RowInv, PgTypeOK, HasCall, RowsHeld, Decided, InTransaction,
                      StoreHash, DelReservation, Goto
  <2> QED
    BY <1>3, <2>4, <2>5, RowElsewhere DEF RowInv, PgTypeOK, StoreHash, DelReservation, Goto
<1> QED
  BY <1>2, <1>3

\* A commit or release starts from a copy of the hash.
LEMMA RowRead ==
  ASSUME RowInv, NEW p \in Procs, NEW o \in {"commit", "release"}, NEW r \in ResIds,
         ReadHash(p, o, r)
  PROVE  RowInv'
<1>1. CASE reservation[r] = Absent
  BY <1>1 DEF RowInv, PgTypeOK, NeverOversold, HasCall, RowsHeld, Decided, InTransaction,
              Covered, ReadHash, rowVars, redisVars, callVars, historyVars
<1>2. CASE reservation[r] # Absent
  <2>1. reservation[r].items \in Requests /\ reservation[r].idem_key \in Keys
    BY <1>2 DEF RowInv, PgTypeOK, Hash
  <2>2. DOMAIN reservation[r].items.qty \subseteq Variants
    BY <2>1, RequestFacts
  <2>3. /\ pc' \in [Procs -> {"idle", "lock", "check", "book", "dropClaim", "hset",
                              "expire", "apply", "delReservation", "delIdem"}]
        /\ op' \in [Procs -> {"none", "reserve", "commit", "release"}]
    BY <1>2, ZenonT(40) DEF RowInv, PgTypeOK, ReadHash, Goto
  <2>4. /\ key' \in [Procs -> Keys \cup {Absent}]
        /\ rid' \in [Procs -> ResIds \cup {Absent}]
        /\ items' \in [Procs -> Requests \cup {Absent}]
        /\ seen' = seen
    BY <1>2, <2>1 DEF RowInv, PgTypeOK, ReadHash
  <2>5. todo' \in [Procs -> SUBSET Variants]
    <3>1. todo' = [todo EXCEPT ![p] = DOMAIN reservation[r].items.qty]
      BY <1>2 DEF ReadHash
    <3> QED
      BY <2>2, <3>1 DEF RowInv, PgTypeOK
  <2>6. PgTypeOK'
    BY <2>3, <2>4, <2>5 DEF RowInv, PgTypeOK, ReadHash, rowVars, redisVars, historyVars
  <2>7. (HasCall(p) /\ RowsHeld(p) /\ Decided(p))'
    BY <1>2, <2>1 DEF RowInv, PgTypeOK, HasCall, RowsHeld, Decided, InTransaction, ReadHash, Goto
  <2> QED
    BY <1>2, <2>6, <2>7, RowElsewhere, ZenonT(40) DEF RowInv, PgTypeOK, ReadHash, Goto
<1> QED
  BY <1>1, <1>2

\* A commit or release writes rows it has locked, and the constraints stop it from
\* taking more than is there.
LEMMA RowApply ==
  ASSUME RowInv, NEW p \in Procs, Apply(p)
  PROVE  RowInv'
<1>1. /\ items[p] \in Requests /\ rid[p] \in ResIds /\ key[p] \in Keys /\ todo[p] = {}
      /\ DOMAIN items[p].qty \subseteq Variants
      /\ \A v \in Variants : Qty(items[p], v) \in Nat
      /\ \A v \in DOMAIN items[p].qty : items[p].qty[v] \in Nat
  BY RequestFacts DEF RowInv, HasCall, RowsHeld, InTransaction, Apply
<1>2. \A v \in DOMAIN items[p].qty : lock[v] = p
  BY <1>1 DEF RowInv, RowsHeld, InTransaction, Apply
<1>3. \A v \in Variants :
        /\ reserved'[v] = reserved[v] - Qty(items[p], v)
        /\ onHand'[v] = IF op[p] = "commit" THEN onHand[v] - Qty(items[p], v) ELSE onHand[v]
  BY DEF Apply
<1>4. PgTypeOK'
  <2>1. reserved' \in [Variants -> Int] /\ onHand' \in [Variants -> Int]
    BY <1>1 DEF RowInv, PgTypeOK, Apply
  <2>2. settled' \in [ResIds -> Nat]
    BY <1>1 DEF RowInv, PgTypeOK, Apply
  <2> QED
    BY <2>1, <2>2, UnlockType DEF RowInv, PgTypeOK, Apply, Goto, redisVars
<1>5. NeverOversold'
  BY <1>1, <1>3 DEF RowInv, PgTypeOK, NeverOversold, Apply, CheckHolds, Qty
<1>6. ASSUME NEW q \in Procs PROVE (HasCall(q) /\ RowsHeld(q) /\ Decided(q))'
  <2>1. CASE q = p
    BY <1>1, <2>1 DEF RowInv, PgTypeOK, HasCall, RowsHeld, Decided, InTransaction, Apply, Goto
  <2>2. CASE q # p
    <3>1. \A w \in Variants :
            lock[w] = q => lock'[w] = q /\ reserved'[w] = reserved[w] /\ onHand'[w] = onHand[w]
      BY <1>1, <1>2, <1>3, <2>2 DEF Apply, Unlock, Qty, RowInv, PgTypeOK
    <3>2. InTransaction(q) => DOMAIN items[q].qty \subseteq Variants
      BY RequestFacts DEF RowInv, HasCall, InTransaction
    <3>3. pc'[q] = pc[q] /\ UNCHANGED <<key, rid, items, todo, seen>>
      BY <2>2 DEF RowInv, PgTypeOK, Apply, Goto
    <3> QED
      BY <3>1, <3>2, <3>3 DEF RowInv, HasCall, RowsHeld, Decided, InTransaction, Covered
  <2> QED
    BY <2>1, <2>2
<1> QED
  BY <1>4, <1>5, <1>6 DEF RowInv

\* However a transaction ends without a COMMIT, the rows are as they were.
LEMMA RowRollback ==
  ASSUME RowInv, NEW p \in Procs, Rollback(p), pc[p] # "idle",
         UNCHANGED <<issued, booked, settled>>, lost' \in SUBSET ResIds
  PROVE  RowInv'
<1>1. CASE op[p] = "reserve"
  <2>1. PgTypeOK'
    BY <1>1, UnlockType DEF RowInv, PgTypeOK, Rollback, Goto, redisVars
  <2>2. HasCall(p)' /\ ~InTransaction(p)'
    BY <1>1 DEF RowInv, PgTypeOK, HasCall, InTransaction, Rollback, Goto
  <2> QED
    BY <1>1, <2>1, <2>2, RowRelease DEF RowInv, PgTypeOK, Rollback, Goto
<1>2. CASE op[p] # "reserve"
  <2>1. PgTypeOK'
    BY <1>2, UnlockType, FinishFacts DEF RowInv, PgTypeOK, Rollback, redisVars
  <2> QED
    BY <1>2, <2>1, FinishFacts, RowRelease DEF Rollback
<1> QED
  BY <1>1, <1>2

LEMMA RowDie ==
  ASSUME RowInv, NEW p \in Procs, Die(p) \/ ApplyRefused(p)
  PROVE  RowInv'
<1>1. PgTypeOK'
  BY UnlockType, FinishFacts DEF RowInv, PgTypeOK, HasCall, Die, ApplyRefused, redisVars, historyVars
<1> QED
  BY <1>1, FinishFacts, RowRelease DEF Die, ApplyRefused

\* A refusal whose answer was lost leaves the rows to the next one as well.
LEMMA RowRejectUnanswered ==
  ASSUME RowInv, NEW p \in Procs, RejectUnanswered(p)
  PROVE  RowInv'
<1>1. pc[p] # "idle" /\ rid[p] \in ResIds /\ key[p] \in Keys
  BY DEF RowInv, HasCall, RejectUnanswered
<1>2. PgTypeOK'
  BY <1>1, UnlockType DEF RowInv, PgTypeOK, RejectUnanswered, Goto
<1>3. HasCall(p)' /\ ~InTransaction(p)'
  BY <1>1 DEF RowInv, PgTypeOK, HasCall, InTransaction, RejectUnanswered, Goto
<1> QED
  BY <1>1, <1>2, <1>3, RowRelease DEF RowInv, PgTypeOK, RejectUnanswered, Goto

\* Every step of the service and of its environment preserves the invariant.
LEMMA RowStep == RowInv /\ [Next]_vars => RowInv'
<1> SUFFICES ASSUME RowInv, [Next]_vars PROVE RowInv'
  OBVIOUS
<1>1. CASE UNCHANGED vars
  BY <1>1 DEF RowInv, PgTypeOK, NeverOversold, HasCall, RowsHeld, Decided, InTransaction,
              Covered, vars, rowVars, redisVars, callVars, historyVars
<1>2. ASSUME NEW p \in Procs, ReserveStock(p) PROVE RowInv'
  BY <1>2, RowClaim, RowDecide, RowBook, RowRedis DEF ReserveStock
<1>3. ASSUME NEW p \in Procs, Settle(p) PROVE RowInv'
  BY <1>3, RowRead, RowApply, RowDie, RowRedis DEF Settle
<1>4. ASSUME NEW p \in Procs, NEW v \in Variants, LockRow(p, v) PROVE RowInv'
  BY <1>4, RowLock
<1>5. ASSUME NEW p \in Procs, DeadlockDetected(p) PROVE RowInv'
  <2>1. pc[p] # "idle"
    BY <1>5 DEF DeadlockDetected, DeadlockAmong, WaitsFor
  <2> QED
    BY <1>5, <2>1, RowRollback DEF DeadlockDetected, historyVars, RowInv, PgTypeOK
<1>6. ASSUME NEW p \in Procs, TransactionFails(p) PROVE RowInv'
  BY <1>6, RowRollback DEF TransactionFails, InTransaction, RowInv, PgTypeOK, HasCall
<1>7. ASSUME NEW p \in Procs, Die(p) \/ RejectUnanswered(p) PROVE RowInv'
  BY <1>7, RowDie, RowRejectUnanswered
<1>8. ASSUME NEW k \in Keys, Observe(k) PROVE RowInv'
  BY <1>8, <1>1 DEF Observe
<1>9. ASSUME NEW r \in ResIds, ExpireReservation(r) PROVE RowInv'
  BY <1>9 DEF RowInv, PgTypeOK, NeverOversold, HasCall, RowsHeld, Decided, InTransaction,
              Covered, ExpireReservation, rowVars, callVars, historyVars
<1>10. ASSUME NEW k \in Keys, ExpireIdem(k) PROVE RowInv'
  BY <1>10 DEF RowInv, PgTypeOK, NeverOversold, HasCall, RowsHeld, Decided, InTransaction,
              Covered, ExpireIdem, rowVars, callVars, historyVars
<1> QED
  BY <1>1, <1>2, <1>3, <1>4, <1>5, <1>6, <1>7, <1>8, <1>9, <1>10 DEF Next

LEMMA RowAlways == Spec => []RowInv
BY RowInit, RowStep, PTL DEF Spec

\* Shape of the state, for any instance of the Postgres mode.
THEOREM PgTypeCorrect == Spec => []PgTypeOK
<1>1. RowInv => PgTypeOK
  BY DEF RowInv
<1> QED
  BY <1>1, RowAlways, PTL

\* What _reserve_postgres promises is on hand: decided on rows it read under their
\* locks, it never oversells, whatever other calls do, fail at or leave behind.
THEOREM NeverOversells == Spec => []NeverOversold
<1>1. RowInv => NeverOversold
  BY DEF RowInv
<1> QED
  BY <1>1, RowAlways, PTL

-----------------------------------------------------------------------------
(* Deadlocks.                                                              *)

LEMMA LockInit == Init => LockInv
BY RowInit, PgAbsentAssumption DEF Init, LockInv, LocksAscend

\* A step of p that grants no lock leaves the locks in order.
LEMMA NoLockGranted ==
  ASSUME LockInv, NEW p \in Procs,
         \A v \in Variants : lock'[v] \in {lock[v], Absent},
         \A q \in Procs \ {p} : pc'[q] = pc[q] /\ op'[q] = op[q] /\ todo'[q] = todo[q],
         \/ \A v \in Variants : lock'[v] # p
         \/ ~InTransaction(p)
         \/ InTransaction(p)' /\ pc'[p] # "lock",
         NEW q \in Procs
  PROVE  LocksAscend(q)'
BY PgAbsentAssumption DEF LockInv, LocksAscend, InTransaction

\* Granted a row, a reservation holds nothing above the rows it still wants.
LEMMA AscendLock ==
  ASSUME LockInv, NEW p \in Procs, NEW v \in Variants, LockRow(p, v), NEW q \in Procs
  PROVE  LocksAscend(q)'
<1>1. /\ pc[p] = "lock" /\ op' = op /\ InTransaction(p)'
      /\ \A w \in Variants : lock'[w] = IF w = v THEN p ELSE lock[w]
      /\ \A g \in Procs : todo'[g] = IF g = p THEN todo[p] \ {v} ELSE todo[g]
      /\ \A g \in Procs \ {p} : pc'[g] = pc[g]
  BY DEF LockInv, RowInv, PgTypeOK, LockRow, Goto, InTransaction
<1>2. todo[p] \subseteq Variants /\ Variants \subseteq Nat
  BY PgStockAssumption DEF LockInv, RowInv, PgTypeOK
<1>3. op[p] = "reserve" => \A w \in todo[p] \ {v} : v < w
  BY <1>2 DEF LockRow, NextRow, Rank
<1>4. CASE q = p
  BY <1>1, <1>3, <1>4 DEF LockInv, LocksAscend
<1>5. CASE q # p
  BY <1>1, <1>5 DEF LockInv, LocksAscend, InTransaction
<1> QED
  BY <1>4, <1>5

\* What Unlock leaves of the lock table.
LEMMA UnlockFacts ==
  ASSUME LockInv, NEW p \in Procs, Unlock(p)
  PROVE  \A v \in Variants : lock'[v] \in {lock[v], Absent} /\ lock'[v] # p
BY PgAbsentAssumption DEF LockInv, RowInv, PgTypeOK, Unlock

\* A transaction that ends gives all its locks back and moves no other's.
LEMMA AscendUnlock ==
  ASSUME LockInv, NEW p \in Procs, Unlock(p),
         \A q \in Procs \ {p} : pc'[q] = pc[q] /\ op'[q] = op[q] /\ todo'[q] = todo[q],
         NEW q \in Procs
  PROVE  LocksAscend(q)'
BY UnlockFacts, NoLockGranted

\* The same for a call that ends with its transaction, and for one that ends later.
LEMMA AscendEnd ==
  ASSUME LockInv, NEW p \in Procs, Unlock(p), Finish(p), NEW q \in Procs
  PROVE  LocksAscend(q)'
BY AscendUnlock, FinishFacts DEF LockInv

LEMMA AscendFinish ==
  ASSUME LockInv, NEW p \in Procs, lock' = lock, ~InTransaction(p), Finish(p),
         NEW q \in Procs
  PROVE  LocksAscend(q)'
BY NoLockGranted, FinishFacts DEF LockInv

\* Every step keeps the locks in order.
LEMMA LockStep == LockInv /\ [Next]_vars => LockInv'
<1> SUFFICES ASSUME LockInv, [Next]_vars, NEW q \in Procs PROVE LocksAscend(q)'
  BY RowStep DEF LockInv
<1>1. CASE UNCHANGED <<lock, callVars>>
  BY <1>1 DEF LockInv, LocksAscend, InTransaction, callVars
<1>2. CASE UNCHANGED vars
  BY <1>1, <1>2 DEF vars, rowVars
<1>3. ASSUME NEW p \in Procs, ReserveStock(p) PROVE LocksAscend(q)'
  <2>1. ASSUME NEW k \in Keys, NEW req \in Requests, NEW r \in ResIds, Claim(p, k, req, r)
        PROVE  LocksAscend(q)'
    BY <2>1, NoLockGranted DEF Claim, Goto, rowVars, InTransaction, LockInv, RowInv, PgTypeOK
  <2>2. CASE Check(p)
    BY <2>2, NoLockGranted DEF Check, Goto, rowVars, InTransaction, LockInv, RowInv, PgTypeOK
  <2>3. CASE Reject(p)
    BY <2>3, AscendEnd DEF Reject
  <2>4. CASE Book(p) \/ BookUnanswered(p)
    BY <2>4, AscendUnlock DEF Book, BookUnanswered, BookUnits, Goto, LockInv, RowInv, PgTypeOK
  <2>5. CASE DropClaim(p) \/ SetTTL(p)
    BY <2>5, AscendFinish DEF DropClaim, SetTTL, rowVars, InTransaction
  <2>6. CASE StoreHash(p)
    BY <2>6, NoLockGranted DEF StoreHash, Goto, rowVars, InTransaction, LockInv, RowInv, PgTypeOK
  <2> QED
    BY <1>3, <2>1, <2>2, <2>3, <2>4, <2>5, <2>6 DEF ReserveStock
<1>4. ASSUME NEW p \in Procs, Settle(p) PROVE LocksAscend(q)'
  <2>1. ASSUME NEW o \in {"commit", "release"}, NEW r \in ResIds, ReadHash(p, o, r)
        PROVE  LocksAscend(q)'
    <3>1. CASE UNCHANGED callVars
      BY <2>1, <3>1, <1>1 DEF ReadHash, rowVars
    <3>2. CASE reservation[r] # Absent
      BY <2>1, <3>2, NoLockGranted DEF ReadHash, Goto, rowVars, InTransaction,
         LockInv, RowInv, PgTypeOK
    <3> QED
      BY <2>1, <3>1, <3>2 DEF ReadHash
  <2>2. CASE Apply(p)
    BY <2>2, AscendUnlock DEF Apply, Goto, LockInv, RowInv, PgTypeOK
  <2>3. CASE ApplyRefused(p)
    BY <2>3, AscendEnd DEF ApplyRefused
  <2>4. CASE DelReservation(p)
    BY <2>4, NoLockGranted DEF DelReservation, Goto, rowVars, InTransaction, LockInv, RowInv, PgTypeOK
  <2>5. CASE DelIdem(p)
    BY <2>5, AscendFinish DEF DelIdem, rowVars, InTransaction
  <2> QED
    BY <1>4, <2>1, <2>2, <2>3, <2>4, <2>5 DEF Settle
<1>5. ASSUME NEW p \in Procs, NEW v \in Variants, LockRow(p, v) PROVE LocksAscend(q)'
  BY <1>5, AscendLock
<1>6. ASSUME NEW p \in Procs, Rollback(p) PROVE LocksAscend(q)'
  <2>1. CASE op[p] = "reserve"
    BY <1>6, <2>1, AscendUnlock DEF Rollback, Goto, LockInv, RowInv, PgTypeOK
  <2>2. CASE op[p] # "reserve"
    BY <1>6, <2>2, AscendEnd DEF Rollback
  <2> QED
    BY <2>1, <2>2
<1>7. ASSUME NEW p \in Procs, Die(p) \/ RejectUnanswered(p) PROVE LocksAscend(q)'
  <2>1. CASE Die(p)
    BY <2>1, AscendEnd DEF Die
  <2>2. CASE RejectUnanswered(p)
    BY <2>2, AscendUnlock DEF RejectUnanswered, Goto, LockInv, RowInv, PgTypeOK
  <2> QED
    BY <1>7, <2>1, <2>2
<1>8. ASSUME NEW k \in Keys, Observe(k) PROVE LocksAscend(q)'
  BY <1>2, <1>8 DEF Observe
<1>9. ASSUME NEW r \in ResIds, ExpireReservation(r) PROVE LocksAscend(q)'
  BY <1>1, <1>9 DEF ExpireReservation, rowVars
<1>10. ASSUME NEW k \in Keys, ExpireIdem(k) PROVE LocksAscend(q)'
  BY <1>1, <1>10 DEF ExpireIdem, rowVars
<1> QED
  BY <1>2, <1>3, <1>4, <1>5, <1>6, <1>7, <1>8, <1>9, <1>10
  DEF Next, DeadlockDetected, TransactionFails

LEMMA LockAlways == Spec => []LockInv
BY LockInit, LockStep, PTL DEF Spec

\* A set of numbers with an upper bound has a greatest element.
LEMMA HasMaximum ==
  ASSUME NEW n \in Nat, NEW T \in SUBSET (0 .. n), T # {}
  PROVE  \E x \in T : \A y \in T : y <= x
<1> DEFINE S == {n - x : x \in T}
<1>1. S \subseteq Nat
  <2>1. \A x \in T : n - x \in Nat
    OBVIOUS
  <2> QED
    BY <2>1
<1>2. S # {}
  OBVIOUS
<1>3. \E m \in S : \A k \in S : ~ (<<k, m>> \in OpToRel(<, Nat))
  <2> HIDE DEF S
  <2> QED
    BY <1>1, <1>2, NatLessThanWellFounded, WFMin
<1>4. PICK m \in S : \A k \in S : ~ (<<k, m>> \in OpToRel(<, Nat))
  BY <1>3
<1>5. \A k \in S : ~(k < m)
  BY <1>1, <1>4 DEF OpToRel
<1>6. PICK x \in T : m = n - x
  BY <1>4
<1>7. \A y \in T : ~(n - y < n - x)
  BY <1>5, <1>6
<1> QED
  BY <1>7

\* Around a cycle of reservations the rows they wait for would ascend for ever.
LEMMA NoCycle ==
  ASSUME LockInv, NEW n \in Nat, Variants \subseteq 0 .. n,
         NEW S \in SUBSET Procs, DeadlockAmong(S)
  PROVE  \E p \in S : op[p] # "reserve"
<1> SUFFICES ASSUME \A p \in S : op[p] = "reserve" PROVE FALSE
  OBVIOUS
<1> DEFINE T == {v \in Variants : \E p \in S : v \in NextRow(p) /\ lock[v] \in S}
<1>1. ASSUME NEW p \in S
      PROVE  pc[p] = "lock" /\ \E v \in T : v \in NextRow(p)
  <2>1. WaitsFor(p) \cap S # {}
    BY DEF DeadlockAmong
  <2>2. pc[p] = "lock" /\ WaitsFor(p) \subseteq {lock[v] : v \in NextRow(p)}
    BY <2>1 DEF WaitsFor
  <2>3. NextRow(p) \subseteq Variants
    BY DEF NextRow, LockInv, RowInv, PgTypeOK
  <2> QED
    BY <2>1, <2>2, <2>3
<1>2. T # {}
  BY <1>1 DEF DeadlockAmong
<1>3. PICK v \in T : \A w \in T : w <= v
  <2>1. T \in SUBSET (0 .. n)
    OBVIOUS
  <2> HIDE DEF T
  <2> QED
    BY <1>2, <2>1, HasMaximum
<1>4. lock[v] \in S
  BY <1>3
<1>5. PICK w \in T : w \in NextRow(lock[v])
  BY <1>1, <1>4
<1>6. v < w
  <2>1. pc[lock[v]] = "lock" /\ op[lock[v]] = "reserve" /\ w \in todo[lock[v]]
    BY <1>1, <1>4, <1>5 DEF NextRow
  <2> QED
    BY <1>4, <2>1 DEF LockInv, LocksAscend
<1> QED
  <2>1. v \in Nat /\ w \in Nat
    BY PgStockAssumption
  <2>2. w <= v
    BY <1>3
  <2> QED
    BY <1>6, <2>1, <2>2

\* "Lock in sorted order to dodge deadlocks" does, for ids that fit into a bounded
\* integer: no circle of waiting transactions consists of reservations alone.
THEOREM NoDeadlockOfReservations ==
  ASSUME NEW n \in Nat, Variants \subseteq 0 .. n
  PROVE  Spec => []ReservationsNeverDeadlock
<1>1. LockInv => ReservationsNeverDeadlock
  BY NoCycle DEF ReservationsNeverDeadlock
<1> QED
  BY <1>1, LockAlways, PTL

-----------------------------------------------------------------------------
(* Claims.                                                                 *)

LEMMA ClaimInit == Init => ClaimInv
BY RowInit, PgAbsentAssumption
DEF Init, ClaimInv, FreshIds, KeysAgree, OpsFit, ClaimsOwned, Working

\* The other coroutines are as they were.
OthersAsBefore(p) ==
  \A q \in Procs \ {p} :
    pc'[q] = pc[q] /\ op'[q] = op[q] /\ rid'[q] = rid[q] /\ key'[q] = key[q]

\* A reservation keeps its owner through a step of a coroutine that works on another
\* one, or owes nothing.
LEMMA OwnerKept ==
  ASSUME NEW p \in Procs, NEW r \in ResIds, OthersAsBefore(p), Owner(r),
         booked'[r] = booked[r], settled'[r] = settled[r],
         \/ p \notin Working(r)
         \/ pc[p] \in {"lock", "apply"} /\ op[p] # "reserve"
         \/ pc[p] \in {"hset", "expire"}
  PROVE  Owner(r)'
BY DEF OthersAsBefore, Owner, Working

\* And through a step of its own coroutine that goes on in the same part of the call.
LEMMA OwnerGoesOn ==
  ASSUME NEW p \in Procs, NEW r \in ResIds, OthersAsBefore(p), Owner(r),
         booked'[r] = booked[r], settled'[r] = settled[r],
         pc[p] # "idle", pc'[p] # "idle", rid'[p] = rid[p], op'[p] = op[p],
         pc[p] \in {"lock", "check", "book", "dropClaim"} /\ op[p] = "reserve"
           => pc'[p] \in {"lock", "check", "book", "dropClaim"},
         pc[p] \in {"delReservation", "delIdem"} => pc'[p] \in {"delReservation", "delIdem"}
  PROVE  Owner(r)'
BY DEF OthersAsBefore, Owner, Working

\* The steps that end a call, or a transaction, without a write of the hash.
LEMMA ClaimFinish ==
  ASSUME ClaimInv, RowInv', NEW p \in Procs, Finish(p), pc[p] # "idle",
         \A k \in Keys : idem'[k] = idem[k] \/ idem'[k] = Absent,
         UNCHANGED <<reservation, issued, booked, settled>>, lost \subseteq lost',
         \/ idem'[key[p]] = Absent
         \/ rid[p] \in lost'
         \/ pc[p] \in {"lock", "apply"} /\ op[p] # "reserve"
         \/ pc[p] = "expire"
  PROVE  ClaimInv'
<1>1. OthersAsBefore(p) /\ pc'[p] = "idle"
  BY FinishFacts DEF ClaimInv, OthersAsBefore
<1>2. FreshIds'
  BY <1>1 DEF ClaimInv, FreshIds, OthersAsBefore
<1>3. KeysAgree'
  BY <1>1, PgAbsentAssumption DEF ClaimInv, KeysAgree, OthersAsBefore, Working
<1>4. OpsFit'
  BY <1>1 DEF ClaimInv, OpsFit, OthersAsBefore
<1>5. ASSUME NEW k \in Keys, NEW r \in ResIds, idem'[k] = r, r \notin lost'
      PROVE  Owner(r)'
  <2>1. idem[k] = r /\ r \notin lost
    BY <1>5, PgAbsentAssumption
  <2>2. Owner(r)
    BY <1>5, <2>1 DEF ClaimInv, ClaimsOwned
  <2>3. \/ p \notin Working(r)
        \/ pc[p] \in {"lock", "apply"} /\ op[p] # "reserve"
        \/ pc[p] \in {"hset", "expire"}
    BY <1>5, <2>1, PgAbsentAssumption DEF ClaimInv, KeysAgree, Working
  <2> QED
    BY <1>1, <2>2, <2>3, OwnerKept
<1> QED
  BY <1>2, <1>3, <1>4, <1>5 DEF ClaimInv, ClaimsOwned

\* The steps of a call that goes on, with what each must show of its own reservation.
LEMMA ClaimMove ==
  ASSUME ClaimInv, RowInv', NEW p \in Procs, OthersAsBefore(p),
         UNCHANGED <<idem, op, key, rid, issued>>, pc[p] # "idle", lost \subseteq lost', OpsFit',
         \A r \in ResIds : \/ reservation'[r] = reservation[r]
                           \/ reservation'[r] = Absent
                           \/ r = rid[p] /\ reservation'[r].idem_key = key[p],
         \A r \in ResIds \ {rid[p]} : booked'[r] = booked[r] /\ settled'[r] = settled[r],
         \A r \in ResIds : r = rid[p] /\ Owner(r) => Owner(r)' \/ r \in lost'
  PROVE  ClaimInv'
<1>1. FreshIds'
  BY DEF ClaimInv, FreshIds, OthersAsBefore
<1>2. KeysAgree'
  BY DEF ClaimInv, KeysAgree, OthersAsBefore, Working
<1>3. ASSUME NEW k \in Keys, NEW r \in ResIds, idem'[k] = r, r \notin lost'
      PROVE  Owner(r)'
  <2>1. Owner(r)
    BY <1>3 DEF ClaimInv, ClaimsOwned
  <2>2. CASE r = rid[p]
    BY <1>3, <2>1, <2>2
  <2>3. CASE r # rid[p]
    BY <2>1, <2>3, OwnerKept DEF Working
  <2> QED
    BY <2>2, <2>3
<1> QED
  BY <1>1, <1>2, <1>3 DEF ClaimInv, ClaimsOwned

\* A transaction that asks for rows, decides, and rolls back still owns its claim.
LEMMA ClaimGoesOn ==
  ASSUME ClaimInv, RowInv', NEW p \in Procs,
         \/ \E v \in Variants : LockRow(p, v)
         \/ Check(p)
         \/ DelReservation(p)
         \/ Rollback(p) /\ InTransaction(p) /\ op[p] = "reserve"
            /\ UNCHANGED <<issued, booked, settled>> /\ lost \subseteq lost'
  PROVE  ClaimInv'
<1>1. /\ OthersAsBefore(p) /\ UNCHANGED <<idem, op, key, rid, issued, booked, settled>>
      /\ pc[p] # "idle" /\ pc'[p] # "idle" /\ lost \subseteq lost' /\ OpsFit'
      /\ pc[p] \in {"lock", "check", "book", "dropClaim"} /\ op[p] = "reserve"
           => pc'[p] \in {"lock", "check", "book", "dropClaim"}
      /\ pc[p] \in {"delReservation", "delIdem"} => pc'[p] \in {"delReservation", "delIdem"}
  BY DEF ClaimInv, RowInv, PgTypeOK, OpsFit, OthersAsBefore, LockRow, Check, DelReservation,
         Rollback, Goto, InTransaction, redisVars, historyVars
<1>2. \A r \in ResIds : reservation'[r] = reservation[r] \/ reservation'[r] = Absent
  BY DEF ClaimInv, RowInv, PgTypeOK, LockRow, Check, DelReservation, Rollback, redisVars
<1>3. ASSUME NEW r \in ResIds, Owner(r) PROVE Owner(r)'
  BY <1>1, <1>3, OwnerGoesOn
<1> QED
  BY <1>1, <1>2, <1>3, ClaimMove

\* A reservation that is booked needs no owner, one whose answer was lost is lost.
LEMMA ClaimBook ==
  ASSUME ClaimInv, RowInv', NEW p \in Procs, Book(p) \/ BookUnanswered(p) \/ StoreHash(p)
  PROVE  ClaimInv'
<1>1. /\ OthersAsBefore(p) /\ UNCHANGED <<idem, op, key, rid, issued, settled>>
      /\ pc[p] \in {"book", "hset"} /\ lost \subseteq lost' /\ OpsFit'
      /\ items[p] \in Requests /\ items[p] # Absent
  BY RequestFacts DEF ClaimInv, RowInv, PgTypeOK, HasCall, OpsFit, OthersAsBefore, Book,
         BookUnanswered, StoreHash, Goto, redisVars, historyVars
<1>2. \A r \in ResIds : \/ reservation'[r] = reservation[r]
                        \/ r = rid[p] /\ reservation'[r].idem_key = key[p]
  BY DEF ClaimInv, RowInv, PgTypeOK, Book, BookUnanswered, StoreHash, redisVars
<1>3. \A r \in ResIds \ {rid[p]} : booked'[r] = booked[r]
  BY DEF ClaimInv, RowInv, PgTypeOK, Book, BookUnanswered, BookUnits, StoreHash, historyVars
<1>4. ASSUME NEW r \in ResIds, r = rid[p], Owner(r) PROVE Owner(r)' \/ r \in lost'
  <2>1. CASE Book(p)
    <3>1. booked'[r] # Absent
      BY <1>1, <1>4, <2>1 DEF ClaimInv, RowInv, PgTypeOK, Book, BookUnits
    <3> QED
      BY <1>1, <1>4, <3>1, <2>1 DEF Owner, Working, OthersAsBefore, Book
  <2>2. CASE BookUnanswered(p)
    BY <1>4, <2>2 DEF BookUnanswered
  <2>3. CASE StoreHash(p)
    BY <1>1, <1>4, <2>3, OwnerKept DEF StoreHash, historyVars
  <2> QED
    BY <2>1, <2>2, <2>3
<1> QED
  BY <1>1, <1>2, <1>3, <1>4, ClaimMove

\* Who commits or releases owns the claim from then on.
LEMMA ClaimApply ==
  ASSUME ClaimInv, RowInv', NEW p \in Procs, Apply(p)
  PROVE  ClaimInv'
<1>1. /\ OthersAsBefore(p)
      /\ UNCHANGED <<idem, op, key, rid, issued, booked, reservation, lost>>
      /\ pc[p] = "apply" /\ op[p] # "reserve" /\ pc'[p] = "delReservation" /\ OpsFit'
  BY DEF ClaimInv, RowInv, PgTypeOK, OpsFit, OthersAsBefore, Apply, Goto, redisVars
<1>2. \A r \in ResIds \ {rid[p]} : settled'[r] = settled[r]
  BY DEF ClaimInv, RowInv, PgTypeOK, Apply
<1>3. ASSUME NEW r \in ResIds, r = rid[p], Owner(r) PROVE Owner(r)'
  BY <1>1, <1>3 DEF Owner, Working, OthersAsBefore
<1> QED
  BY <1>1, <1>2, <1>3, ClaimMove

\* A new claim is under an id nobody has seen; a reader of the hash takes its key.
LEMMA ClaimStart ==
  ASSUME ClaimInv, RowInv', NEW p \in Procs,
         \/ \E k \in Keys, req \in Requests, r \in ResIds : Claim(p, k, req, r)
         \/ \E o \in {"commit", "release"}, r \in ResIds :
              ReadHash(p, o, r) /\ reservation[r] # Absent
  PROVE  ClaimInv'
<1>1. /\ OthersAsBefore(p) /\ pc[p] = "idle" /\ pc'[p] = "lock"
      /\ UNCHANGED <<reservation, booked, settled, lost>>
      /\ \A r \in ResIds : p \notin Working(r)
  BY DEF ClaimInv, RowInv, PgTypeOK, OthersAsBefore, Claim, ReadHash, Goto, Working,
         redisVars, historyVars
<1>2. OpsFit'
  BY <1>1 DEF ClaimInv, OpsFit, OthersAsBefore
<1>3. ASSUME NEW r \in ResIds, Owner(r) PROVE Owner(r)'
  BY <1>1, <1>3, OwnerKept
<1>4. ASSUME NEW k \in Keys, NEW req \in Requests, NEW r \in ResIds, Claim(p, k, req, r)
      PROVE  ClaimInv'
  <2>1. /\ rid'[p] = r /\ key'[p] = k /\ op'[p] = "reserve" /\ issued' = issued \cup {r}
        /\ r \notin issued /\ \A j \in Keys : idem'[j] = IF j = k THEN r ELSE idem[j]
    BY <1>4 DEF ClaimInv, RowInv, PgTypeOK, Claim
  <2>2. FreshIds'
    BY <1>1, <2>1 DEF ClaimInv, FreshIds, OthersAsBefore
  <2>3. KeysAgree'
    BY <1>1, <2>1, PgAbsentAssumption DEF ClaimInv, KeysAgree, FreshIds, OthersAsBefore, Working
  <2>4. Owner(r)'
    BY <1>1, <2>1 DEF ClaimInv, FreshIds, Owner, Working
  <2> QED
    BY <1>1, <1>2, <1>3, <2>1, <2>2, <2>3, <2>4 DEF ClaimInv, ClaimsOwned
<1>5. ASSUME NEW o \in {"commit", "release"}, NEW r \in ResIds, ReadHash(p, o, r),
             reservation[r] # Absent
      PROVE  ClaimInv'
  <2>1. /\ rid'[p] = r /\ key'[p] = reservation[r].idem_key /\ UNCHANGED <<issued, idem>>
        /\ r \in issued
    BY <1>5 DEF ClaimInv, RowInv, PgTypeOK, ReadHash, redisVars, historyVars
  <2>2. FreshIds'
    BY <1>1, <2>1 DEF ClaimInv, FreshIds, OthersAsBefore
  <2>3. KeysAgree'
    BY <1>1, <1>5, <2>1 DEF ClaimInv, KeysAgree, OthersAsBefore, Working
  <2> QED
    BY <1>1, <1>2, <1>3, <2>1, <2>2, <2>3 DEF ClaimInv, ClaimsOwned
<1> QED
  BY <1>4, <1>5

\* A deadlock's victim and a failed transaction, on either side.
LEMMA ClaimRollback ==
  ASSUME ClaimInv, RowInv', NEW p \in Procs, Rollback(p), InTransaction(p),
         UNCHANGED <<issued, booked, settled>>, lost \subseteq lost'
  PROVE  ClaimInv'
<1>1. CASE op[p] = "reserve"
  BY <1>1, ClaimGoesOn
<1>2. CASE op[p] # "reserve"
  <2>1. /\ Finish(p) /\ UNCHANGED <<idem, reservation>>
        /\ pc[p] \in {"lock", "apply"}
    BY <1>2 DEF ClaimInv, OpsFit, InTransaction, Rollback, redisVars
  <2> QED
    BY <1>2, <2>1, ClaimFinish
<1> QED
  BY <1>1, <1>2

\* The ends of a call: its claim is deleted, or not its own to delete, or it is lost.
LEMMA ClaimEnd ==
  ASSUME ClaimInv, RowInv', NEW p \in Procs,
         \/ Reject(p) \/ DropClaim(p) \/ SetTTL(p) \/ DelIdem(p)
         \/ ApplyRefused(p) \/ Die(p)
  PROVE  ClaimInv'
<1>1. /\ Finish(p) /\ pc[p] # "idle" /\ lost \subseteq lost'
      /\ UNCHANGED <<reservation, issued, booked, settled>>
      /\ key[p] \in Keys
  BY DEF ClaimInv, RowInv, HasCall, Reject, DropClaim, SetTTL, DelIdem, ApplyRefused, Die,
         redisVars, historyVars
<1>2. \A k \in Keys : idem'[k] = idem[k] \/ idem'[k] = Absent
  BY DEF ClaimInv, RowInv, PgTypeOK, Reject, DropClaim, SetTTL, DelIdem, ApplyRefused, Die,
         redisVars
<1>3. \/ idem'[key[p]] = Absent
      \/ rid[p] \in lost'
      \/ pc[p] \in {"lock", "apply"} /\ op[p] # "reserve"
      \/ pc[p] = "expire"
  BY <1>1 DEF ClaimInv, RowInv, PgTypeOK, OpsFit, Reject, DropClaim, SetTTL, DelIdem,
              ApplyRefused, Die
<1> QED
  BY <1>1, <1>2, <1>3, ClaimFinish

\* A refusal whose answer was lost has deleted the claim, and is lost itself.
LEMMA ClaimRejectUnanswered ==
  ASSUME ClaimInv, RowInv', NEW p \in Procs, RejectUnanswered(p)
  PROVE  ClaimInv'
<1>1. /\ OthersAsBefore(p) /\ UNCHANGED <<reservation, op, key, rid, issued, booked, settled>>
      /\ pc[p] = "check" /\ pc'[p] = "dropClaim" /\ lost' = lost \cup {rid[p]}
  BY DEF ClaimInv, RowInv, PgTypeOK, OthersAsBefore, RejectUnanswered, Goto
<1>2. \A k \in Keys : idem'[k] = idem[k] \/ idem'[k] = Absent
  BY DEF ClaimInv, RowInv, PgTypeOK, RejectUnanswered
<1>3. FreshIds'
  BY <1>1, <1>2 DEF ClaimInv, FreshIds, OthersAsBefore
<1>4. KeysAgree'
  BY <1>1, <1>2, PgAbsentAssumption DEF ClaimInv, KeysAgree, OthersAsBefore, Working
<1>5. OpsFit'
  BY <1>1 DEF ClaimInv, OpsFit, OthersAsBefore
<1>6. ASSUME NEW k \in Keys, NEW r \in ResIds, idem'[k] = r, r \notin lost'
      PROVE  Owner(r)'
  <2>1. idem[k] = r /\ r \notin lost /\ p \notin Working(r)
    BY <1>1, <1>2, <1>6, PgAbsentAssumption DEF Working
  <2>2. Owner(r)
    BY <1>6, <2>1 DEF ClaimInv, ClaimsOwned
  <2> QED
    BY <1>1, <2>1, <2>2, OwnerKept
<1> QED
  BY <1>3, <1>4, <1>5, <1>6 DEF ClaimInv, ClaimsOwned

\* Keys that reach their TTL take facts away and add none.
LEMMA ClaimExpire ==
  ASSUME ClaimInv, RowInv', UNCHANGED <<callVars, historyVars>>,
         \A k \in Keys : idem'[k] = idem[k] \/ idem'[k] = Absent,
         \A r \in ResIds : reservation'[r] = reservation[r] \/ reservation'[r] = Absent
  PROVE  ClaimInv'
<1>1. FreshIds'
  BY DEF ClaimInv, FreshIds, callVars, historyVars
<1>2. KeysAgree'
  BY PgAbsentAssumption DEF ClaimInv, KeysAgree, Working, callVars
<1>3. OpsFit'
  BY DEF ClaimInv, OpsFit, callVars
<1>4. ClaimsOwned'
  BY PgAbsentAssumption DEF ClaimInv, ClaimsOwned, Owner, Working, callVars, historyVars
<1> QED
  BY <1>1, <1>2, <1>3, <1>4 DEF ClaimInv

\* Every step keeps the claims backed.
LEMMA ClaimStep == ClaimInv /\ [Next]_vars => ClaimInv'
<1> SUFFICES ASSUME ClaimInv, [Next]_vars PROVE ClaimInv'
  OBVIOUS
<1>1. RowInv'
  BY RowStep DEF ClaimInv
<1>2. CASE UNCHANGED vars
  BY <1>1, <1>2, ClaimExpire DEF vars, redisVars
<1>3. ASSUME NEW p \in Procs, ReserveStock(p) PROVE ClaimInv'
  BY <1>1, <1>3, ClaimStart, ClaimGoesOn, ClaimBook, ClaimEnd DEF ReserveStock
<1>4. ASSUME NEW p \in Procs, Settle(p) PROVE ClaimInv'
  <2>1. ASSUME NEW o \in {"commit", "release"}, NEW r \in ResIds, ReadHash(p, o, r)
        PROVE  ClaimInv'
    <3>1. CASE reservation[r] = Absent
      BY <1>1, <2>1, <3>1, ClaimExpire DEF ReadHash, redisVars
    <3>2. CASE reservation[r] # Absent
      BY <1>1, <2>1, <3>2, ClaimStart
    <3> QED
      BY <3>1, <3>2
  <2> QED
    BY <1>1, <1>4, <2>1, ClaimApply, ClaimEnd, ClaimGoesOn DEF Settle
<1>5. ASSUME NEW p \in Procs, NEW v \in Variants, LockRow(p, v) PROVE ClaimInv'
  BY <1>1, <1>5, ClaimGoesOn
<1>6. ASSUME NEW p \in Procs, DeadlockDetected(p) PROVE ClaimInv'
  <2>1. InTransaction(p)
    BY <1>6 DEF DeadlockDetected, DeadlockAmong, WaitsFor, InTransaction
  <2> QED
    BY <1>1, <1>6, <2>1, ClaimRollback DEF DeadlockDetected, historyVars
<1>7. ASSUME NEW p \in Procs, TransactionFails(p) PROVE ClaimInv'
  BY <1>1, <1>7, ClaimRollback DEF TransactionFails
<1>8. ASSUME NEW p \in Procs, Die(p) \/ RejectUnanswered(p) PROVE ClaimInv'
  BY <1>1, <1>8, ClaimEnd, ClaimRejectUnanswered
<1>9. ASSUME NEW k \in Keys, Observe(k) PROVE ClaimInv'
  BY <1>2, <1>9 DEF Observe
<1>10. ASSUME NEW r \in ResIds, ExpireReservation(r) PROVE ClaimInv'
  BY <1>1, <1>10, ClaimExpire DEF ExpireReservation, ClaimInv, RowInv, PgTypeOK
<1>11. ASSUME NEW k \in Keys, ExpireIdem(k) PROVE ClaimInv'
  BY <1>1, <1>11, ClaimExpire DEF ExpireIdem, ClaimInv, RowInv, PgTypeOK
<1> QED
  BY <1>2, <1>3, <1>4, <1>5, <1>6, <1>7, <1>8, <1>9, <1>10, <1>11 DEF Next

\* A claimed idempotency key names a reservation that is being made, is open under
\* that key or is being settled, unless its hash timed out or its coroutine was lost:
\* no refused, failed or deadlocked transaction leaves a claim behind.
THEOREM ClaimsAreBacked == Spec => []ClaimIsBacked
<1>1. ClaimInv => ClaimIsBacked
  <2> SUFFICES ASSUME ClaimInv, NEW k \in Keys, idem[k] # Absent, idem[k] \notin lost
               PROVE  \/ Working(idem[k]) # {}
                      \/ reservation[idem[k]] # Absent /\ reservation[idem[k]].idem_key = k
                      \/ Leaked(idem[k])
    BY DEF ClaimIsBacked
  <2>1. idem[k] \in ResIds /\ Owner(idem[k])
    BY DEF ClaimInv, RowInv, PgTypeOK, ClaimsOwned
  <2>2. reservation[idem[k]] # Absent => reservation[idem[k]].idem_key = k
    BY <2>1 DEF ClaimInv, KeysAgree
  <2>3. CASE booked[idem[k]] = Absent \/ settled[idem[k]] # 0
    BY <2>1, <2>3 DEF Owner
  <2>4. CASE booked[idem[k]] # Absent /\ settled[idem[k]] = 0
    BY <2>2, <2>4 DEF Leaked, Alive
  <2> QED
    BY <2>3, <2>4
<1> QED
  BY <1>1, ClaimInit, ClaimStep, PTL DEF Spec

-----------------------------------------------------------------------------
(* The units of open reservations                                          *)

\* A call relies on what is booked under its reservation: nothing until the transaction
\* of ReserveStock commits, and then its quantities, until they are settled.
CallFits(p) ==
  /\ op[p] = "reserve" /\ pc[p] \in {"lock", "check", "book", "dropClaim"}
       => booked[rid[p]] = Absent /\ settled[rid[p]] = 0
  /\ pc[p] = "hset" \/ (op[p] # "reserve" /\ pc[p] \in {"lock", "apply"})
       => booked[rid[p]] = items[p] /\ settled[rid[p]] = 0

\* A hash holds what is booked, and is being deleted once that is settled.
HashFits(r) ==
  reservation[r] # Absent =>
    /\ reservation[r].items = booked[r]
    /\ settled[r] = 0 \/ \E p \in Working(r) : pc[p] = "delReservation"

\* Units of v that are booked under r and not settled, whether or not a hash is left.
Owed(r, v) ==
  IF booked[r] # Absent /\ settled[r] = 0 THEN Qty(booked[r], v) ELSE 0

\* Units in all the entries of f.
UnitsIn(f) == Cardinality(UNION {{x} \X (1 .. f[x]) : x \in DOMAIN f})

OneWorker ==
  \A p, q \in Procs : pc[p] # "idle" /\ pc[q] # "idle" /\ rid[p] = rid[q] => p = q

BookInv ==
  /\ ClaimInv
  /\ OneWorker
  /\ \A r \in ResIds : r \notin issued => booked[r] = Absent
  /\ lost = {} =>
       /\ \A p \in Procs : CallFits(p)
       /\ \A r \in ResIds : HashFits(r)
       /\ \A v \in Variants : reserved[v] = UnitsIn([r \in ResIds |-> Owed(r, v)])

\* The units of one entry, and those of the entries in a set.
Pile(f, x) == {x} \X (1 .. f[x])
Piles(f, S) == UNION {Pile(f, x) : x \in S}

LEMMA PileSize ==
  ASSUME NEW S, NEW f \in [S -> Nat], NEW x \in S
  PROVE  IsFiniteSet(Pile(f, x)) /\ Cardinality(Pile(f, x)) = f[x]
<1>1. f[x] \in Nat
  OBVIOUS
<1>2. IsFiniteSet({x}) /\ Cardinality({x}) = 1
  BY FS_Singleton
<1>3. IsFiniteSet(1 .. f[x]) /\ Cardinality(1 .. f[x]) = f[x]
  <2>1. 1 \in Int /\ f[x] \in Int /\ (1 > f[x] => f[x] = 0) /\ f[x] - 1 + 1 = f[x]
    BY <1>1
  <2> QED
    BY <2>1, FS_Interval
<1>4. /\ IsFiniteSet({x} \X (1 .. f[x]))
      /\ Cardinality({x} \X (1 .. f[x])) = Cardinality({x}) * Cardinality(1 .. f[x])
  BY <1>2, <1>3, FS_Product, Zenon
<1>5. 1 * f[x] = f[x]
  BY <1>1
<1> QED
  BY <1>2, <1>3, <1>4, <1>5 DEF Pile

LEMMA PilesFinite ==
  ASSUME NEW S, IsFiniteSet(S), NEW f \in [S -> Nat], NEW T \in SUBSET S
  PROVE  IsFiniteSet(Piles(f, T)) /\ Cardinality(Piles(f, T)) \in Nat
<1>1. IsFiniteSet(T)
  BY FS_Subset
<1>2. IsFiniteSet({Pile(f, x) : x \in T})
  <2> DEFINE h == [x \in T |-> Pile(f, x)]
  <2>1. h \in Surjection(T, {Pile(f, x) : x \in T})
    BY DEF Surjection
  <2> QED
    BY <1>1, <2>1, FS_Surjection, Zenon
<1>3. \A P \in {Pile(f, x) : x \in T} : IsFiniteSet(P)
  BY PileSize
<1>4. IsFiniteSet(Piles(f, T))
  BY <1>2, <1>3, FS_UNION DEF Piles
<1> QED
  BY <1>4, FS_CardinalityType

LEMMA UnitsSplit ==
  ASSUME NEW S, IsFiniteSet(S), NEW f \in [S -> Nat], NEW q \in S
  PROVE  /\ UnitsIn(f) = Cardinality(Piles(f, S \ {q})) + f[q]
         /\ Cardinality(Piles(f, S \ {q})) \in Nat /\ UnitsIn(f) \in Nat
<1>1. Piles(f, S) = Piles(f, S \ {q}) \cup Pile(f, q)
  BY DEF Piles
<1>2. Piles(f, S \ {q}) \cap Pile(f, q) = {}
  BY DEF Piles, Pile
<1>3. IsFiniteSet(Piles(f, S \ {q})) /\ Cardinality(Piles(f, S \ {q})) \in Nat
  BY PilesFinite
<1>4. IsFiniteSet(Pile(f, q)) /\ Cardinality(Pile(f, q)) = f[q] /\ f[q] \in Nat
  BY PileSize
<1>5. Cardinality(Piles(f, S))
        = Cardinality(Piles(f, S \ {q})) + Cardinality(Pile(f, q)) - Cardinality({})
  <2> DEFINE A == Piles(f, S \ {q})
             B == Pile(f, q)
  <2> HIDE DEF A, B
  <2>1. Cardinality(A \cup B) = Cardinality(A) + Cardinality(B) - Cardinality(A \cap B)
    BY <1>3, <1>4, FS_Union DEF A, B
  <2> QED
    BY <1>1, <1>2, <2>1, Zenon DEF A, B
<1>6. UnitsIn(f) = Cardinality(Piles(f, S))
  BY DEF UnitsIn, Piles, Pile
<1> QED
  BY <1>3, <1>4, <1>5, <1>6, FS_EmptySet

LEMMA UnitsFact ==
  ASSUME NEW S, IsFiniteSet(S), NEW f \in [S -> Nat]
  PROVE  UnitsIn(f) \in Nat
<1>1. UnitsIn(f) = Cardinality(Piles(f, S))
  BY DEF UnitsIn, Piles, Pile
<1> QED
  BY <1>1, PilesFinite

LEMMA UnitsMoved ==
  ASSUME NEW S, IsFiniteSet(S), NEW f \in [S -> Nat], NEW g \in [S -> Nat], NEW q \in S,
         \A x \in S \ {q} : g[x] = f[x]
  PROVE  UnitsIn(g) + f[q] = UnitsIn(f) + g[q]
<1>1. Piles(g, S \ {q}) = Piles(f, S \ {q})
  BY DEF Piles, Pile
<1> QED
  BY <1>1, UnitsSplit

LEMMA UnitsBelow ==
  ASSUME NEW S, IsFiniteSet(S), NEW f \in [S -> Nat], NEW g \in [S -> Nat],
         \A x \in S : f[x] <= g[x]
  PROVE  UnitsIn(f) <= UnitsIn(g)
<1>1. \A x \in S : 1 .. f[x] \subseteq 1 .. g[x]
  OBVIOUS
<1>2. Piles(f, S) \subseteq Piles(g, S)
  BY <1>1 DEF Piles, Pile
<1>3. UnitsIn(f) = Cardinality(Piles(f, S)) /\ UnitsIn(g) = Cardinality(Piles(g, S))
  BY DEF UnitsIn, Piles, Pile
<1>4. IsFiniteSet(Piles(g, S))
  BY PilesFinite
<1> QED
  BY <1>2, <1>3, <1>4, FS_Subset

LEMMA UnitsNone ==
  ASSUME NEW S, NEW f \in [S -> Nat], \A x \in S : f[x] = 0
  PROVE  UnitsIn(f) = 0
<1>1. \A x \in S : 1 .. f[x] = {}
  OBVIOUS
<1>2. UNION {{x} \X (1 .. f[x]) : x \in S} = {}
  BY <1>1
<1> QED
  BY <1>2, FS_EmptySet DEF UnitsIn

OwedCounts ==
  \A v \in Variants : /\ [r \in ResIds |-> Owed(r, v)] \in [ResIds -> Nat]
                      /\ [r \in ResIds |-> Held(r, v)] \in [ResIds -> Nat]

LEMMA OwedIsNat == RowInv => OwedCounts
<1> SUFFICES ASSUME RowInv, NEW v \in Variants, NEW r \in ResIds
             PROVE  Owed(r, v) \in Nat /\ Held(r, v) \in Nat
  BY DEF OwedCounts
<1>1. booked[r] # Absent => booked[r] \in Requests
  BY DEF RowInv, PgTypeOK
<1> QED
  BY <1>1, RequestFacts DEF Owed, Held

LEMMA BookInit == Init => BookInv
<1> SUFFICES ASSUME Init PROVE BookInv
  OBVIOUS
<1>1. ClaimInv /\ OwedCounts
  BY ClaimInit, OwedIsNat DEF ClaimInv
<1>2. OneWorker /\ (\A r \in ResIds : booked[r] = Absent /\ HashFits(r)) /\ \A p \in Procs : CallFits(p)
  BY DEF Init, OneWorker, CallFits, HashFits
<1>3. ASSUME NEW v \in Variants PROVE reserved[v] = UnitsIn([r \in ResIds |-> Owed(r, v)])
  <2>1. PICK f \in [ResIds -> Nat] : f = [r \in ResIds |-> Owed(r, v)]
    BY <1>1 DEF OwedCounts
  <2>2. \A r \in ResIds : f[r] = 0
    BY <1>2, <2>1 DEF Owed
  <2> QED
    BY <2>1, <2>2, UnitsNone DEF Init
<1> QED
  BY <1>1, <1>2, <1>3 DEF BookInv

\* A coroutine p moves reservation r, and no other.
Moves(p, r) ==
  /\ OthersAsBefore(p)
  /\ \A q \in Procs \ {p} : items'[q] = items[q] /\ (pc[q] # "idle" => rid[q] # r)
  /\ pc[p] # "idle" => rid[p] = r
  /\ pc'[p] # "idle" => rid'[p] = r
  /\ \A x \in ResIds \ {r} : /\ booked'[x] = booked[x] /\ settled'[x] = settled[x]
                             /\ reservation'[x] = reservation[x]
  /\ issued \subseteq issued' /\ lost \subseteq lost'

\* What is left to show of a step that moves one reservation.
LEMMA BookMoves ==
  ASSUME BookInv, ClaimInv', OwedCounts', NEW p \in Procs, NEW r \in ResIds, Moves(p, r),
         booked'[r] # Absent => r \in issued',
         lost' = {} => /\ CallFits(p)' /\ HashFits(r)'
                       /\ \A v \in Variants : reserved'[v] - reserved[v] = Owed(r, v)' - Owed(r, v)
  PROVE  BookInv'
<1>1. OneWorker'
  BY DEF BookInv, OneWorker, Moves, OthersAsBefore
<1>2. \A x \in ResIds : x \notin issued' => booked'[x] = Absent
  BY DEF BookInv, Moves
<1>3. ASSUME lost' = {}, NEW q \in Procs PROVE CallFits(q)'
  <2>1. CASE q = p
    BY <1>3, <2>1
  <2>2. CASE q # p /\ pc[q] # "idle"
    <3>1. CallFits(q) /\ rid[q] \in ResIds \ {r}
      BY <1>3, <2>2 DEF BookInv, Moves, ClaimInv, RowInv, HasCall
    <3> QED
      BY <2>2, <3>1 DEF CallFits, Moves, OthersAsBefore
  <2>3. CASE q # p /\ pc[q] = "idle"
    BY <2>3 DEF CallFits, Moves, OthersAsBefore
  <2> QED
    BY <2>1, <2>2, <2>3
<1>4. ASSUME lost' = {}, NEW x \in ResIds PROVE HashFits(x)'
  <2>1. CASE x = r
    BY <1>4, <2>1
  <2>2. CASE x # r
    <3>1. HashFits(x)
      BY <1>4 DEF BookInv, Moves
    <3>2. \A q \in Working(x) : q \in Procs \ {p} /\ pc'[q] = pc[q] /\ rid'[q] = rid[q]
      BY <2>2 DEF Working, Moves, OthersAsBefore
    <3>3. \A q \in Working(x) : q \in Working(x)'
      BY <3>2 DEF Working
    <3> QED
      BY <2>2, <3>1, <3>2, <3>3 DEF HashFits, Moves
  <2> QED
    BY <2>1, <2>2
<1>5. ASSUME lost' = {}, NEW v \in Variants PROVE reserved'[v] = UnitsIn([x \in ResIds |-> Owed(x, v)'])
  <2>0. OwedCounts
    BY OwedIsNat DEF BookInv, ClaimInv
  <2>1. PICK f \in [ResIds -> Nat] : f = [x \in ResIds |-> Owed(x, v)]
    BY <2>0 DEF OwedCounts
  <2>2. PICK g \in [ResIds -> Nat] : g = [x \in ResIds |-> Owed(x, v)']
    BY <2>0 DEF OwedCounts
  <2>3. \A x \in ResIds \ {r} : g[x] = f[x]
    BY <2>1, <2>2 DEF Owed, Moves
  <2>4. UnitsIn(g) + f[r] = UnitsIn(f) + g[r] /\ UnitsIn(f) \in Nat /\ UnitsIn(g) \in Nat
    BY <2>3, PgResIdsAssumption, UnitsMoved, UnitsFact
  <2>5. f[r] = Owed(r, v) /\ g[r] = Owed(r, v)' /\ f[r] \in Nat /\ g[r] \in Nat
    BY <2>1, <2>2
  <2>6. reserved[v] = UnitsIn(f) /\ reserved'[v] - reserved[v] = g[r] - f[r]
    BY <1>5, <2>1, <2>5 DEF BookInv, Moves
  <2>7. reserved[v] \in Int /\ reserved'[v] \in Int
    BY DEF BookInv, ClaimInv, RowInv, PgTypeOK
  <2> QED
    BY <2>2, <2>4, <2>5, <2>6, <2>7
<1> QED
  BY <1>1, <1>2, <1>3, <1>4, <1>5 DEF BookInv

\* A step that books and settles nothing, and leaves the hashes.
LEMMA BookAside ==
  ASSUME BookInv, ClaimInv', OwedCounts', NEW p \in Procs, OthersAsBefore(p),
         \A q \in Procs \ {p} : items'[q] = items[q],
         pc[p] # "idle", pc'[p] # "idle" => rid'[p] = rid[p],
         UNCHANGED <<reserved, reservation, booked, settled, issued>>, lost \subseteq lost',
         lost' = {} => CallFits(p)' /\ (pc[p] = "delReservation" => reservation[rid[p]] = Absent)
  PROVE  BookInv'
<1>1. PICK r \in ResIds : r = rid[p]
  BY DEF BookInv, ClaimInv, RowInv, HasCall
<1>2. Moves(p, r)
  BY <1>1 DEF Moves, BookInv, OneWorker
<1>3. ASSUME lost' = {} PROVE HashFits(r)'
  <2>1. HashFits(r) /\ \A q \in Working(r) : q = p
    BY <1>1, <1>3 DEF BookInv, OneWorker, Working
  <2> QED
    BY <1>1, <1>3, <2>1 DEF HashFits
<1>4. \A v \in Variants : reserved'[v] - reserved[v] = Owed(r, v)' - Owed(r, v)
  <2> SUFFICES ASSUME NEW v \in Variants PROVE reserved'[v] - reserved[v] = Owed(r, v)' - Owed(r, v)
    OBVIOUS
  <2>1. OwedCounts /\ Owed(r, v)' = Owed(r, v) /\ reserved'[v] = reserved[v] /\ reserved[v] \in Int
    BY OwedIsNat DEF BookInv, ClaimInv, Owed, RowInv, PgTypeOK
  <2>2. Owed(r, v) \in Nat
    BY <2>1 DEF OwedCounts
  <2> QED
    BY <2>1, <2>2
<1> QED
  BY <1>2, <1>3, <1>4, BookMoves DEF BookInv

\* ReserveStock starts under an id nobody has seen.
LEMMA BookClaim ==
  ASSUME BookInv, ClaimInv', OwedCounts', NEW p \in Procs, NEW k \in Keys, NEW req \in Requests,
         NEW r \in ResIds, Claim(p, k, req, r)
  PROVE  BookInv'
<1>1. /\ pc'[p] = "lock" /\ op'[p] = "reserve" /\ rid'[p] = r /\ pc[p] = "idle"
      /\ OthersAsBefore(p) /\ \A q \in Procs \ {p} : items'[q] = items[q]
      /\ UNCHANGED <<reserved, reservation, booked, settled, lost>> /\ r \notin issued
      /\ issued' = issued \cup {r}
  BY DEF Claim, Goto, OthersAsBefore, BookInv, ClaimInv, RowInv, PgTypeOK, rowVars
<1>2. booked[r] = Absent /\ settled[r] = 0 /\ reservation[r] = Absent
  BY <1>1 DEF BookInv, ClaimInv, FreshIds
<1>3. Moves(p, r)
  BY <1>1 DEF Moves, BookInv, ClaimInv, FreshIds
<1>4. CallFits(p)' /\ HashFits(r)'
  BY <1>1, <1>2 DEF CallFits, HashFits
<1>5. \A v \in Variants : reserved'[v] - reserved[v] = Owed(r, v)' - Owed(r, v)
  BY <1>1, <1>2 DEF Owed, BookInv, ClaimInv, RowInv, PgTypeOK
<1> QED
  BY <1>1, <1>2, <1>3, <1>4, <1>5, BookMoves

\* A commit or release starts from a hash that was not settled.
LEMMA BookRead ==
  ASSUME CallsOverlap = FALSE, BookInv, ClaimInv', OwedCounts', NEW p \in Procs,
         NEW o \in {"commit", "release"}, NEW r \in ResIds,
         ReadHash(p, o, r), reservation[r] # Absent
  PROVE  BookInv'
<1>1. /\ pc'[p] = "lock" /\ op'[p] = o /\ rid'[p] = r /\ pc[p] = "idle"
      /\ items'[p] = reservation[r].items
      /\ OthersAsBefore(p) /\ \A q \in Procs \ {p} : items'[q] = items[q]
      /\ UNCHANGED <<reserved, reservation, booked, settled, lost, issued>> /\ r \in issued
      /\ Working(r) = {}
  BY DEF ReadHash, Goto, OthersAsBefore, BookInv, ClaimInv, RowInv, PgTypeOK, rowVars, redisVars,
         historyVars
<1>2. Moves(p, r)
  BY <1>1 DEF Moves, Working
<1>3. ASSUME lost' = {} PROVE CallFits(p)' /\ HashFits(r)'
  <2>1. HashFits(r)
    BY <1>1, <1>3 DEF BookInv
  <2> QED
    BY <1>1, <2>1 DEF CallFits, HashFits
<1>4. \A v \in Variants : reserved'[v] - reserved[v] = Owed(r, v)' - Owed(r, v)
  <2> SUFFICES ASSUME NEW v \in Variants PROVE reserved'[v] - reserved[v] = Owed(r, v)' - Owed(r, v)
    OBVIOUS
  <2>1. OwedCounts /\ Owed(r, v)' = Owed(r, v) /\ reserved'[v] = reserved[v] /\ reserved[v] \in Int
    BY <1>1, OwedIsNat DEF BookInv, ClaimInv, Owed, RowInv, PgTypeOK
  <2>2. Owed(r, v) \in Nat
    BY <2>1 DEF OwedCounts
  <2> QED
    BY <2>1, <2>2
<1> QED
  BY <1>1, <1>2, <1>3, <1>4, BookMoves

\* The transaction of ReserveStock books its quantities, once.
LEMMA BookBooks ==
  ASSUME BookInv, ClaimInv', OwedCounts', NEW p \in Procs, Book(p) \/ BookUnanswered(p)
  PROVE  BookInv'
<1>1. PICK r \in ResIds : r = rid[p]
  BY DEF BookInv, ClaimInv, RowInv, HasCall, Book, BookUnanswered
<1>2. /\ pc[p] = "book" /\ pc'[p] \in {"hset", "dropClaim"} /\ op[p] = "reserve"
      /\ UNCHANGED <<op, rid, items, reservation, settled, issued>> /\ r \in issued
      /\ booked'[r] = items[p] /\ \A x \in ResIds \ {r} : booked'[x] = booked[x]
      /\ items[p] \in Requests /\ OthersAsBefore(p) /\ lost \subseteq lost'
      /\ \A v \in Variants : reserved'[v] = reserved[v] + Qty(items[p], v) /\ reserved[v] \in Int
  BY <1>1 DEF Book, BookUnanswered, BookUnits, Goto, OthersAsBefore, BookInv, ClaimInv, OpsFit,
     FreshIds, RowInv, PgTypeOK, HasCall, redisVars
<1>3. Moves(p, r)
  BY <1>1, <1>2 DEF Moves, BookInv, OneWorker
<1>4. ASSUME lost' = {}
      PROVE  /\ CallFits(p)' /\ HashFits(r)'
             /\ \A v \in Variants : reserved'[v] - reserved[v] = Owed(r, v)' - Owed(r, v)
  <2>1. Book(p) /\ lost = {} /\ pc'[p] = "hset"
    BY <1>4, <1>2 DEF Book, BookUnanswered, Goto, BookInv, ClaimInv, RowInv, PgTypeOK
  <2>2. booked[r] = Absent /\ settled[r] = 0 /\ reservation[r] = Absent
    <3>1. CallFits(p) /\ HashFits(r)
      BY <2>1 DEF BookInv
    <3>2. booked[r] = Absent /\ settled[r] = 0
      BY <1>1, <1>2, <3>1 DEF CallFits
    <3>3. reservation[r] # Absent => reservation[r].items \in Requests
      BY DEF BookInv, ClaimInv, RowInv, PgTypeOK, Hash
    <3> QED
      BY <3>1, <3>2, <3>3, RequestFacts DEF HashFits
  <2>3. CallFits(p)' /\ HashFits(r)'
    BY <1>1, <1>2, <2>1, <2>2 DEF CallFits, HashFits
  <2>4. ASSUME NEW v \in Variants PROVE reserved'[v] - reserved[v] = Owed(r, v)' - Owed(r, v)
    <3>1. Owed(r, v) = 0 /\ Owed(r, v)' = Qty(items[p], v)
      BY <1>2, <2>2, RequestFacts DEF Owed
    <3>2. Qty(items[p], v) \in Nat
      BY <1>2, RequestFacts
    <3> QED
      BY <1>2, <3>1, <3>2
  <2> QED
    BY <2>3, <2>4
<1> QED
  BY <1>2, <1>3, <1>4, BookMoves

\* The hash of what was booked.
LEMMA BookStore ==
  ASSUME BookInv, ClaimInv', OwedCounts', NEW p \in Procs, StoreHash(p)
  PROVE  BookInv'
<1>1. PICK r \in ResIds : r = rid[p]
  BY DEF BookInv, ClaimInv, RowInv, HasCall, StoreHash
<1>2. /\ pc[p] = "hset" /\ pc'[p] = "expire"
      /\ UNCHANGED <<op, rid, items, booked, settled, reserved, issued, lost>> /\ r \in issued
      /\ reservation'[r].items = items[p] /\ \A x \in ResIds \ {r} : reservation'[x] = reservation[x]
      /\ OthersAsBefore(p)
  BY <1>1 DEF StoreHash, Goto, OthersAsBefore, BookInv, ClaimInv,
     FreshIds, RowInv, PgTypeOK, historyVars, rowVars
<1>3. Moves(p, r)
  BY <1>1, <1>2 DEF Moves, BookInv, OneWorker
<1>4. ASSUME lost' = {} PROVE CallFits(p)' /\ HashFits(r)'
  <2>1. booked[r] = items[p] /\ settled[r] = 0 /\ op[p] = "reserve"
    BY <1>1, <1>2, <1>4 DEF BookInv, CallFits, ClaimInv, OpsFit
  <2> QED
    BY <1>2, <2>1 DEF CallFits, HashFits
<1>5. \A v \in Variants : reserved'[v] - reserved[v] = Owed(r, v)' - Owed(r, v)
  <2> SUFFICES ASSUME NEW v \in Variants PROVE reserved'[v] - reserved[v] = Owed(r, v)' - Owed(r, v)
    OBVIOUS
  <2>1. OwedCounts /\ Owed(r, v)' = Owed(r, v) /\ reserved'[v] = reserved[v] /\ reserved[v] \in Int
    BY <1>2, OwedIsNat DEF BookInv, ClaimInv, Owed, RowInv, PgTypeOK
  <2>2. Owed(r, v) \in Nat
    BY <2>1 DEF OwedCounts
  <2> QED
    BY <2>1, <2>2
<1> QED
  BY <1>2, <1>3, <1>4, <1>5, BookMoves DEF BookInv

\* A commit or release takes off what is booked, and settles it.
LEMMA BookApply ==
  ASSUME BookInv, ClaimInv', OwedCounts', NEW p \in Procs, Apply(p)
  PROVE  BookInv'
<1>1. PICK r \in ResIds : r = rid[p]
  BY DEF BookInv, ClaimInv, RowInv, HasCall, Apply
<1>2. /\ pc[p] = "apply" /\ pc'[p] = "delReservation" /\ op[p] # "reserve"
      /\ UNCHANGED <<op, rid, items, reservation, booked, issued, lost>> /\ r \in issued
      /\ settled'[r] = settled[r] + 1 /\ settled[r] \in Nat
      /\ \A x \in ResIds \ {r} : settled'[x] = settled[x]
      /\ items[p] \in Requests /\ OthersAsBefore(p)
      /\ \A v \in Variants : reserved'[v] = reserved[v] - Qty(items[p], v) /\ reserved[v] \in Int
  BY <1>1 DEF Apply, Goto, OthersAsBefore, BookInv, ClaimInv, OpsFit,
     FreshIds, RowInv, PgTypeOK, HasCall, redisVars
<1>3. Moves(p, r)
  BY <1>1, <1>2 DEF Moves, BookInv, OneWorker
<1>4. ASSUME lost' = {}
      PROVE  /\ CallFits(p)' /\ HashFits(r)'
             /\ \A v \in Variants : reserved'[v] - reserved[v] = Owed(r, v)' - Owed(r, v)
  <2>1. CallFits(p) /\ HashFits(r)
    BY <1>2, <1>4 DEF BookInv
  <2>2. booked[r] = items[p] /\ settled[r] = 0 /\ settled'[r] = 1
    BY <1>1, <1>2, <2>1 DEF CallFits
  <2>3. CallFits(p)'
    BY <1>2 DEF CallFits
  <2>4. HashFits(r)'
    <3>1. p \in Working(r)'
      BY <1>1, <1>2 DEF Working
    <3> QED
      BY <1>2, <2>1, <3>1 DEF HashFits
  <2>5. ASSUME NEW v \in Variants PROVE reserved'[v] - reserved[v] = Owed(r, v)' - Owed(r, v)
    <3>1. Owed(r, v)' = 0 /\ Owed(r, v) = Qty(items[p], v)
      BY <1>2, <2>2, RequestFacts DEF Owed
    <3>2. Qty(items[p], v) \in Nat
      BY <1>2, RequestFacts
    <3> QED
      BY <1>2, <3>1, <3>2
  <2> QED
    BY <2>3, <2>4, <2>5
<1> QED
  BY <1>2, <1>3, <1>4, BookMoves DEF BookInv

LEMMA BookDelete ==
  ASSUME BookInv, ClaimInv', OwedCounts', NEW p \in Procs, DelReservation(p)
  PROVE  BookInv'
<1>1. PICK r \in ResIds : r = rid[p]
  BY DEF BookInv, ClaimInv, RowInv, HasCall, DelReservation
<1>2. /\ pc[p] = "delReservation" /\ pc'[p] = "delIdem" /\ op[p] # "reserve"
      /\ UNCHANGED <<op, rid, items, booked, settled, reserved, issued, lost>> /\ r \in issued
      /\ reservation'[r] = Absent /\ \A x \in ResIds \ {r} : reservation'[x] = reservation[x]
      /\ OthersAsBefore(p)
  BY <1>1 DEF DelReservation, Goto, OthersAsBefore, BookInv, ClaimInv, OpsFit,
     FreshIds, RowInv, PgTypeOK, historyVars, rowVars
<1>3. Moves(p, r)
  BY <1>1, <1>2 DEF Moves, BookInv, OneWorker
<1>4. CallFits(p)' /\ HashFits(r)'
  BY <1>2 DEF CallFits, HashFits
<1>5. \A v \in Variants : reserved'[v] - reserved[v] = Owed(r, v)' - Owed(r, v)
  <2> SUFFICES ASSUME NEW v \in Variants PROVE reserved'[v] - reserved[v] = Owed(r, v)' - Owed(r, v)
    OBVIOUS
  <2>1. OwedCounts /\ Owed(r, v)' = Owed(r, v) /\ reserved'[v] = reserved[v] /\ reserved[v] \in Int
    BY <1>2, OwedIsNat DEF BookInv, ClaimInv, Owed, RowInv, PgTypeOK
  <2>2. Owed(r, v) \in Nat
    BY <2>1 DEF OwedCounts
  <2> QED
    BY <2>1, <2>2
<1> QED
  BY <1>2, <1>3, <1>4, <1>5, BookMoves DEF BookInv

\* The steps that decide, lock rows, roll back, or end a call.
LEMMA BookOthers ==
  ASSUME BookInv, ClaimInv', OwedCounts', NEW p \in Procs,
         \/ \E v \in Variants : LockRow(p, v)
         \/ Check(p) \/ Reject(p) \/ DropClaim(p) \/ SetTTL(p) \/ DelIdem(p) \/ ApplyRefused(p)
         \/ DeadlockDetected(p) \/ TransactionFails(p) \/ RejectUnanswered(p) \/ Die(p)
  PROVE  BookInv'
<1>1. /\ pc[p] # "idle" /\ UNCHANGED <<reserved, reservation, booked, settled, issued>>
      /\ lost \subseteq lost'
  BY DEF LockRow, Check, Reject, DropClaim, SetTTL, DelIdem, ApplyRefused, DeadlockDetected,
     DeadlockAmong, WaitsFor, TransactionFails, RejectUnanswered, InTransaction, Die, Rollback,
     rowVars, redisVars, historyVars
<1>2. /\ OthersAsBefore(p) /\ \A q \in Procs \ {p} : items'[q] = items[q]
      /\ pc'[p] # "idle" => rid'[p] = rid[p] /\ items'[p] = items[p] /\ op'[p] = op[p]
  <2>1. CASE Finish(p)
    BY <2>1, FinishFacts DEF OthersAsBefore, BookInv, ClaimInv
  <2>2. CASE UNCHANGED <<op, key, rid, items>> /\ \E s \in {"lock", "check", "book", "apply", "dropClaim"} : Goto(p, s)
    BY <2>2 DEF OthersAsBefore, Goto, BookInv, ClaimInv, RowInv, PgTypeOK
  <2> QED
    BY <2>1, <2>2 DEF LockRow, Check, Reject, DropClaim, SetTTL, DelIdem, ApplyRefused,
       DeadlockDetected, TransactionFails, RejectUnanswered, Die, Rollback
<1>3. ASSUME lost' = {} PROVE CallFits(p)' /\ pc[p] # "delReservation"
  <2>0. ~Die(p) /\ ~TransactionFails(p) /\ ~RejectUnanswered(p)
    BY <1>3 DEF Die, TransactionFails, RejectUnanswered
  <2>1. CallFits(p)
    BY <1>1, <1>3 DEF BookInv
  <2>2. pc[p] # "delReservation"
    BY <2>0 DEF LockRow, Check, Reject, DropClaim, SetTTL, DelIdem, ApplyRefused, DeadlockDetected,
       DeadlockAmong, WaitsFor
  <2>3. CASE pc'[p] = "idle"
    BY <2>2, <2>3 DEF CallFits
  <2>4. CASE pc'[p] # "idle"
    <3>1. /\ pc'[p] \in {"lock", "check", "book", "apply", "dropClaim"}
          /\ op[p] = "reserve" => pc[p] \in {"lock", "check", "book", "dropClaim"}
          /\ op[p] # "reserve" => pc[p] \in {"lock", "apply"} /\ pc'[p] \in {"lock", "apply"}
      BY <2>0, <2>4, FinishFacts DEF LockRow, Check, Reject, DropClaim, SetTTL, DelIdem, ApplyRefused,
         DeadlockDetected, DeadlockAmong, WaitsFor, Rollback, Goto, BookInv, ClaimInv, OpsFit, RowInv,
         PgTypeOK
    <3> QED
      BY <1>1, <1>2, <2>1, <2>4, <3>1 DEF CallFits
  <2> QED
    BY <2>2, <2>3, <2>4
<1> QED
  BY <1>1, <1>2, <1>3, BookAside

\* Keys that reach their TTL.
LEMMA BookExpire ==
  ASSUME BookInv, ClaimInv', UNCHANGED <<callVars, historyVars, reserved>>,
         \A r \in ResIds : reservation'[r] = reservation[r] \/ reservation'[r] = Absent
  PROVE  BookInv'
<1>1. UNCHANGED <<pc, op, rid, items, issued, booked, settled, lost, reserved>>
  BY DEF callVars, historyVars
<1>2. ASSUME lost' = {}
      PROVE  (\A p \in Procs : CallFits(p)') /\ (\A r \in ResIds : HashFits(r)')
  BY <1>1, <1>2 DEF BookInv, CallFits, HashFits, Working
<1>3. OneWorker' /\ \A r \in ResIds : r \notin issued' => booked'[r] = Absent
  BY <1>1 DEF BookInv, OneWorker
<1>4. \A v \in Variants : [r \in ResIds |-> Owed(r, v)]' = [r \in ResIds |-> Owed(r, v)]
  BY <1>1 DEF Owed
<1>5. lost' = {} => \A v \in Variants : reserved'[v] = UnitsIn([r \in ResIds |-> Owed(r, v)]')
  BY <1>1, <1>4 DEF BookInv
<1> QED
  BY <1>2, <1>3, <1>5 DEF BookInv

LEMMA BookStep ==
  ASSUME CallsOverlap = FALSE
  PROVE  BookInv /\ ClaimInv' /\ OwedCounts' /\ [Next]_vars => BookInv'
<1> SUFFICES ASSUME BookInv, ClaimInv', OwedCounts', [Next]_vars PROVE BookInv'
  OBVIOUS
<1>1. CASE UNCHANGED vars
  BY <1>1, BookExpire DEF vars, redisVars, rowVars
<1>2. ASSUME NEW p \in Procs, ReserveStock(p) PROVE BookInv'
  BY <1>2, BookClaim, BookBooks, BookStore, BookOthers DEF ReserveStock
<1>3. ASSUME NEW p \in Procs, Settle(p) PROVE BookInv'
  <2>1. ASSUME NEW o \in {"commit", "release"}, NEW r \in ResIds, ReadHash(p, o, r)
        PROVE  BookInv'
    <3>1. CASE reservation[r] = Absent
      BY <2>1, <3>1, BookExpire DEF ReadHash, redisVars, rowVars
    <3>2. CASE reservation[r] # Absent
      BY <2>1, <3>2, BookRead
    <3> QED
      BY <3>1, <3>2
  <2> QED
    BY <1>3, <2>1, BookApply, BookDelete, BookOthers DEF Settle
<1>4. ASSUME NEW p \in Procs,
             \/ \E v \in Variants : LockRow(p, v)
             \/ DeadlockDetected(p) \/ TransactionFails(p) \/ RejectUnanswered(p) \/ Die(p)
      PROVE  BookInv'
  BY <1>4, BookOthers
<1>5. ASSUME NEW r \in ResIds, ExpireReservation(r) PROVE BookInv'
  BY <1>5, BookExpire DEF ExpireReservation, rowVars, BookInv, ClaimInv, RowInv, PgTypeOK
<1>6. ASSUME NEW k \in Keys, ExpireIdem(k) PROVE BookInv'
  BY <1>6, BookExpire DEF ExpireIdem, rowVars
<1>7. ASSUME NEW k \in Keys, Observe(k) PROVE BookInv'
  BY <1>1, <1>7 DEF Observe
<1> QED
  BY <1>1, <1>2, <1>3, <1>4, <1>5, <1>6, <1>7 DEF Next

\* When calls on one reservation follow each other and no coroutine is lost, what open
\* reservations hold is reserved in Postgres, and nothing else is until a hash reaches its
\* TTL: for any number of coroutines, deadlocks and refusals.
THEOREM UnitsAreAccounted ==
  ASSUME CallsOverlap = FALSE
  PROVE  Spec => []UnitsAccounted
<1>1. BookInv /\ OwedCounts => UnitsAccounted
  <2> SUFFICES ASSUME BookInv, OwedCounts, lost = {}, NEW v \in Variants
               PROVE  /\ TotalHeld(v) <= reserved[v]
                      /\ (\A r \in ResIds : ~Leaked(r)) => TotalHeld(v) = reserved[v]
    BY DEF UnitsAccounted
  <2>1. PICK f \in [ResIds -> Nat] : f = [r \in ResIds |-> Owed(r, v)]
    BY DEF OwedCounts
  <2>2. PICK g \in [ResIds -> Nat] : g = [r \in ResIds |-> Held(r, v)]
    BY DEF OwedCounts
  <2>3. reserved[v] = UnitsIn(f)
    BY <2>1 DEF BookInv
  <2>4. TotalHeld(v) = UnitsIn(g)
    <3>1. DOMAIN g = ResIds /\ \A r \in ResIds : g[r] = Held(r, v)
      BY <2>2
    <3> QED
      BY <3>1 DEF TotalHeld, UnitsIn
  <2>5. \A r \in ResIds : g[r] <= f[r]
    BY <2>1, <2>2 DEF Held, Owed
  <2>6. ASSUME \A r \in ResIds : ~Leaked(r) PROVE g = f
    BY <2>1, <2>2, <2>6 DEF Held, Owed, Leaked
  <2> QED
    BY <2>3, <2>4, <2>5, <2>6, PgResIdsAssumption, UnitsBelow
<1>2. BookInv => RowInv
  BY DEF BookInv, ClaimInv
<1>3. BookInv /\ ClaimInv' /\ OwedCounts' /\ [Next]_vars => BookInv'
  BY BookStep
<1>4. ClaimInv => RowInv
  BY DEF ClaimInv
<1> QED
  BY <1>1, <1>2, <1>3, <1>4, ClaimInit, ClaimStep, BookInit, OwedIsNat, PTL DEF Spec
=============================================================================
