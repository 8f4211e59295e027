------------------------- MODULE InventoryPostgres -------------------------
(***************************************************************************)
(* The inventory service with USE_POSTGRES_STOCK set, the baseline of the  *)
(* measurements.  Stock is held back in Postgres: a reservation raises     *)
(* quantity_reserved under row locks.  The idempotency claim and the hash  *)
(* of the reservation stay in Redis, outside of that transaction, so each  *)
(* call is a chain of Redis commands and one transaction.                  *)
(*                                                                         *)
(* A row that inventory_levels lacks is a row of zeros: the pre-check      *)
(* refuses both with the same answer.                                      *)
(***************************************************************************)
EXTENDS Integers, FiniteSets

CONSTANTS
  Variants,       \* variant ids, numbers since the locks are taken in their order
  ResIds,         \* the reservation ids uuid4 can return in a run (a bound)
  Keys,           \* idempotency keys callers send
  Procs,          \* slots for coroutines of the three handlers
  Requests,       \* wanted quantities, and where each variant stands in the list
  InitialOnHand,  \* quantity_on_hand of each variant at the start
  CallsOverlap,   \* may two calls that name one reservation run concurrently?
  TTLExpires,     \* do reservation and idempotency records reach their TTL?
  MaxLosses,      \* how many coroutines may fail or die half way (a bound)
  Absent          \* a Redis key that does not exist, a row lock nobody holds

ASSUME PgAbsentAssumption == Absent \notin ResIds \cup Procs \cup Requests
ASSUME PgStockAssumption ==
  Variants \subseteq Nat /\ InitialOnHand \in [Variants -> Nat]
ASSUME PgResIdsAssumption == IsFiniteSet(ResIds)
(* `wanted` sums up repeated variants, and quantities are positive.        *)
ASSUME PgRequestsAssumption ==
  \A req \in Requests : /\ DOMAIN req.qty \subseteq Variants
                        /\ DOMAIN req.qty # {}
                        /\ req.qty \in [DOMAIN req.qty -> Nat \ {0}]
                        /\ req.pos \in [DOMAIN req.qty -> Nat]
ASSUME PgEnvironmentAssumption ==
  CallsOverlap \in BOOLEAN /\ TTLExpires \in BOOLEAN /\ MaxLosses \in Nat

VARIABLES
  onHand, reserved,  \* Postgres: the two quantity columns of inventory_levels
  lock,              \* Postgres: which transaction holds the lock of each row
  idem,              \* Redis idem:reserve:<key>
  reservation,       \* Redis reservation:<id>, Absent or the hash
  expiring,          \* hashes that have been given their TTL
  pc, op,            \* where each coroutine is suspended, in which handler
  key, rid, items,   \* what it works on: key, reservation and quantities
  todo,              \* rows its transaction has still to lock
  seen,              \* free units of each row when its SELECT locked it
  issued,            \* history: ids generated
  booked,            \* history: what the transaction of each id held back
  settled,           \* history: how often it was taken or given back
  lost               \* history: ids whose coroutine failed or died half way

rowVars == <<onHand, reserved, lock>>
redisVars == <<idem, reservation, expiring>>
callVars == <<pc, op, key, rid, items, todo, seen>>
historyVars == <<issued, booked, settled, lost>>
vars == <<rowVars, redisVars, callVars, historyVars>>

Hash == [items : Requests, idem_key : Keys]

\* Units of variant v in an item list.
Qty(req, v) == IF v \in DOMAIN req.qty THEN req.qty[v] ELSE 0

Working(r) == {p \in Procs : pc[p] # "idle" /\ rid[p] = r}

NothingSeen == [v \in Variants |-> 0]

Init ==
  /\ onHand = InitialOnHand
  /\ reserved = [v \in Variants |-> 0]
  /\ lock = [v \in Variants |-> Absent]
  /\ idem = [k \in Keys |-> Absent]
  /\ reservation = [r \in ResIds |-> Absent]
  /\ expiring = {}
  /\ pc = [p \in Procs |-> "idle"]
  /\ op = [p \in Procs |-> "none"]
  /\ key = [p \in Procs |-> Absent]
  /\ rid = [p \in Procs |-> Absent]
  /\ items = [p \in Procs |-> Absent]
  /\ todo = [p \in Procs |-> {}]
  /\ seen = [p \in Procs |-> NothingSeen]
  /\ issued = {}
  /\ booked = [r \in ResIds |-> Absent]
  /\ settled = [r \in ResIds |-> 0]
  /\ lost = {}

-----------------------------------------------------------------------------
(* Pieces of the handlers                                                  *)

Goto(p, s) == pc' = [pc EXCEPT ![p] = s]

Finish(p) ==
  /\ pc' = [pc EXCEPT ![p] = "idle"]
  /\ op' = [op EXCEPT ![p] = "none"]
  /\ key' = [key EXCEPT ![p] = Absent]
  /\ rid' = [rid EXCEPT ![p] = Absent]
  /\ items' = [items EXCEPT ![p] = Absent]
  /\ todo' = [todo EXCEPT ![p] = {}]
  /\ seen' = [seen EXCEPT ![p] = NothingSeen]

\* Commit and rollback both give the row locks back.
Unlock(p) == lock' = [v \in Variants |-> IF lock[v] = p THEN Absent ELSE lock[v]]

\* Mutant: no ORDER BY, a reservation locks its rows in the order of the list.
RankAsListed(p, v) == items[p].pos[v]

\* Reservations lock rows in the order of variant ids; commit and release update
\* them in the order of the hash, which is that of the request.
Rank(p, v) == IF op[p] = "reserve" THEN v ELSE items[p].pos[v]

\* The row a transaction asks for next.
NextRow(p) ==
  {v \in todo[p] : \A w \in todo[p] : Rank(p, v) <= Rank(p, w)}

\* Mutant: a plain SELECT, without FOR UPDATE, neither waits nor locks.
LockRowPlain(p, v) ==
  /\ pc[p] = "lock" /\ v \in NextRow(p)
  /\ op[p] # "reserve" => lock[v] = Absent
  /\ lock' = [lock EXCEPT ![v] = IF op[p] = "reserve" THEN @ ELSE p]
  /\ seen' = [seen EXCEPT ![p][v] = onHand[v] - reserved[v]]
  /\ todo' = [todo EXCEPT ![p] = @ \ {v}]
  /\ Goto(p, IF todo[p] # {v} THEN "lock"
             ELSE IF op[p] = "reserve" THEN "check" ELSE "apply")
  /\ UNCHANGED <<onHand, reserved, redisVars, op, key, rid, items, historyVars>>

\* A row lock is granted: to SELECT ... FOR UPDATE, which then reads the row, or to
\* the UPDATE of a commit or release.
LockRow(p, v) ==
  /\ pc[p] = "lock" /\ v \in NextRow(p)
  /\ lock[v] = Absent
  /\ lock' = [lock EXCEPT ![v] = p]
  /\ seen' = [seen EXCEPT ![p][v] = onHand[v] - reserved[v]]
  /\ todo' = [todo EXCEPT ![p] = @ \ {v}]
  /\ Goto(p, IF todo[p] # {v} THEN "lock"
             ELSE IF op[p] = "reserve" THEN "check" ELSE "apply")
  /\ UNCHANGED <<onHand, reserved, redisVars, op, key, rid, items, historyVars>>

-----------------------------------------------------------------------------
(* ReserveStock                                                            *)

\* SET idem NX wins: the key names the reservation before there is one.
Claim(p, k, req, r) ==
  /\ pc[p] = "idle"
  /\ idem[k] = Absent /\ r \notin issued
  /\ idem' = [idem EXCEPT ![k] = r]
  /\ Goto(p, "lock")
  /\ op' = [op EXCEPT ![p] = "reserve"]
  /\ key' = [key EXCEPT ![p] = k]
  /\ rid' = [rid EXCEPT ![p] = r]
  /\ items' = [items EXCEPT ![p] = req]
  /\ todo' = [todo EXCEPT ![p] = DOMAIN req.qty]
  /\ issued' = issued \cup {r}
  /\ UNCHANGED <<rowVars, reservation, expiring, seen, booked, settled, lost>>

\* SET NX loses: success is answered with whatever the key names at the GET,
\* an unfinished reservation or, by then, nothing at all.
Observe(k) ==
  /\ idem[k] # Absent
  /\ UNCHANGED vars

\* The pre-check of every variant on the rows the SELECT returned.
Covered(p) == \A v \in DOMAIN items[p].qty : seen[p][v] >= items[p].qty[v]

Check(p) ==
  /\ pc[p] = "check" /\ Covered(p)
  /\ Goto(p, "book")
  /\ UNCHANGED <<rowVars, redisVars, op, key, rid, items, todo, seen, historyVars>>

\* A variant is short: DEL of the claim, then the transaction is rolled back.
Reject(p) ==
  /\ pc[p] = "check" /\ ~Covered(p)
  /\ idem' = [idem EXCEPT ![key[p]] = Absent]
  /\ Unlock(p)
  /\ Finish(p)
  /\ UNCHANGED <<onHand, reserved, reservation, expiring, historyVars>>

BookUnits(p) ==
  /\ reserved' = [v \in Variants |-> reserved[v] + Qty(items[p], v)]
  /\ booked' = [booked EXCEPT ![rid[p]] = items[p]]
  /\ Unlock(p)

\* The UPDATEs, relative to the rows as they are now, and the COMMIT.
Book(p) ==
  /\ pc[p] = "book"
  /\ BookUnits(p)
  /\ Goto(p, "hset")
  /\ UNCHANGED <<onHand, redisVars, op, key, rid, items, todo, seen, issued, settled, lost>>

\* Postgres commits, but the connection breaks before the answer: the handler
\* believes the transaction failed.
BookUnanswered(p) ==
  /\ pc[p] = "book"
  /\ Cardinality(lost) < MaxLosses
  /\ BookUnits(p)
  /\ lost' = lost \cup {rid[p]}
  /\ Goto(p, "dropClaim")
  /\ UNCHANGED <<onHand, redisVars, op, key, rid, items, todo, seen, issued, settled>>

\* The except branch: DEL of the claim, and the exception goes on.
DropClaim(p) ==
  /\ pc[p] = "dropClaim"
  /\ idem' = [idem EXCEPT ![key[p]] = Absent]
  /\ Finish(p)
  /\ UNCHANGED <<rowVars, reservation, expiring, historyVars>>

\* HSET of the hash with pg = 1, without a TTL so far.
StoreHash(p) ==
  /\ pc[p] = "hset"
  /\ reservation' = [reservation EXCEPT ![rid[p]] =
                       [items |-> items[p], idem_key |-> key[p]]]
  /\ Goto(p, "expire")
  /\ UNCHANGED <<rowVars, idem, expiring, op, key, rid, items, todo, seen, historyVars>>

\* EXPIRE of the hash, and the answer.
SetTTL(p) ==
  /\ pc[p] = "expire"
  /\ expiring' = IF reservation[rid[p]] = Absent THEN expiring ELSE expiring \cup {rid[p]}
  /\ Finish(p)
  /\ UNCHANGED <<rowVars, idem, reservation, historyVars>>

-----------------------------------------------------------------------------
(* CommitReservation and ReleaseReservation, their pg = 1 branches         *)

\* HGETALL reservation:<id>.  An empty hash is answered with success, at once.
ReadHash(p, o, r) ==
  /\ pc[p] = "idle"
  /\ r \in issued
  /\ CallsOverlap \/ Working(r) = {}
  /\ IF reservation[r] = Absent
     THEN UNCHANGED callVars
     ELSE /\ Goto(p, "lock")
          /\ op' = [op EXCEPT ![p] = o]
          /\ key' = [key EXCEPT ![p] = reservation[r].idem_key]
          /\ rid' = [rid EXCEPT ![p] = r]
          /\ items' = [items EXCEPT ![p] = reservation[r].items]
          /\ todo' = [todo EXCEPT ![p] = DOMAIN reservation[r].items.qty]
          /\ UNCHANGED seen
  /\ UNCHANGED <<rowVars, redisVars, historyVars>>

\* CHECK (quantity_on_hand >= 0) and CHECK (quantity_reserved >= 0).
CheckHolds(p) ==
  \A v \in DOMAIN items[p].qty :
    /\ reserved[v] >= items[p].qty[v]
    /\ op[p] = "commit" => onHand[v] >= items[p].qty[v]

\* A commit lowers both columns, a release quantity_reserved, in one transaction.
Apply(p) ==
  /\ pc[p] = "apply" /\ CheckHolds(p)
  /\ onHand' = IF op[p] = "commit"
               THEN [v \in Variants |-> onHand[v] - Qty(items[p], v)] ELSE onHand
  /\ reserved' = [v \in Variants |-> reserved[v] - Qty(items[p], v)]
  /\ settled' = [settled EXCEPT ![rid[p]] = @ + 1]
  /\ Unlock(p)
  /\ Goto(p, "delReservation")
  /\ UNCHANGED <<redisVars, op, key, rid, items, todo, seen, issued, booked, lost>>

\* The constraint refuses an UPDATE: rollback, and the exception ends the call.
ApplyRefused(p) ==
  /\ pc[p] = "apply" /\ ~CheckHolds(p)
  /\ Unlock(p)
  /\ Finish(p)
  /\ UNCHANGED <<onHand, reserved, redisVars, historyVars>>

\* Mutant: the hash is left to its TTL.
KeepReservation(p) ==
  /\ pc[p] = "delReservation"
  /\ Goto(p, "delIdem")
  /\ UNCHANGED <<rowVars, redisVars, op, key, rid, items, todo, seen, historyVars>>

DelReservation(p) ==
  /\ pc[p] = "delReservation"
  /\ reservation' = [reservation EXCEPT ![rid[p]] = Absent]
  /\ expiring' = expiring \ {rid[p]}
  /\ Goto(p, "delIdem")
  /\ UNCHANGED <<rowVars, idem, op, key, rid, items, todo, seen, historyVars>>

DelIdem(p) ==
  /\ pc[p] = "delIdem"
  /\ idem' = [idem EXCEPT ![key[p]] = Absent]
  /\ Finish(p)
  /\ UNCHANGED <<rowVars, reservation, expiring, historyVars>>

-----------------------------------------------------------------------------
(* Deadlocks, failures and time                                            *)

\* Who holds the row p asks for.
WaitsFor(p) ==
  IF pc[p] # "lock" THEN {}
  ELSE {lock[v] : v \in NextRow(p)} \ {Absent, p}

\* Every transaction of S waits for one of S, and is waited for by one of S.
DeadlockAmong(S) ==
  /\ S # {}
  /\ \A p \in S : WaitsFor(p) \cap S # {} /\ \E q \in S : p \in WaitsFor(q)

InTransaction(p) == pc[p] \in {"lock", "check", "book", "apply"}

\* Mutant: the except branch re-raises and leaves the claim.
RollbackKeepsClaim(p) ==
  /\ Unlock(p)
  /\ Finish(p)
  /\ UNCHANGED <<onHand, reserved, redisVars>>

\* Rollback and exception: a reservation goes on to drop its claim, a commit or
\* release is over and leaves the hash for a retry.
Rollback(p) ==
  /\ Unlock(p)
  /\ IF op[p] = "reserve"
     THEN /\ Goto(p, "dropClaim")
          /\ UNCHANGED <<op, key, rid, items, todo, seen>>
     ELSE Finish(p)
  /\ UNCHANGED <<onHand, reserved, redisVars>>

\* Postgres breaks a deadlock by failing one of its transactions.
DeadlockDetected(p) ==
  /\ \E S \in SUBSET Procs : p \in S /\ DeadlockAmong(S)
  /\ Rollback(p)
  /\ UNCHANGED historyVars

MayBeLost(p) == rid[p] \in lost \/ Cardinality(lost) < MaxLosses

\* Pool timeout, broken connection, or a refusal whose DEL Redis fails: the
\* transaction is over before its COMMIT.
TransactionFails(p) ==
  /\ InTransaction(p) /\ MayBeLost(p)
  /\ Rollback(p)
  /\ lost' = lost \cup {rid[p]}
  /\ UNCHANGED <<issued, booked, settled>>

\* The DEL of a refusal has run, but its answer is lost: the transaction is rolled
\* back, and the except branch sends the DEL a second time.
RejectUnanswered(p) ==
  /\ pc[p] = "check" /\ ~Covered(p) /\ MayBeLost(p)
  /\ idem' = [idem EXCEPT ![key[p]] = Absent]
  /\ Unlock(p)
  /\ Goto(p, "dropClaim")
  /\ lost' = lost \cup {rid[p]}
  /\ UNCHANGED <<onHand, reserved, reservation, expiring, op, key, rid, items, todo,
                 seen, issued, booked, settled>>

\* The process is killed, or a Redis command outside of the try block raises.
Die(p) ==
  /\ pc[p] # "idle" /\ MayBeLost(p)
  /\ Unlock(p)
  /\ Finish(p)
  /\ lost' = lost \cup {rid[p]}
  /\ UNCHANGED <<onHand, reserved, redisVars, issued, booked, settled>>

\* The hash goes; quantity_reserved stays as it is.
ExpireReservation(r) ==
  /\ TTLExpires
  /\ reservation[r] # Absent /\ r \in expiring
  /\ reservation' = [reservation EXCEPT ![r] = Absent]
  /\ expiring' = expiring \ {r}
  /\ UNCHANGED <<rowVars, idem, callVars, historyVars>>

\* The claim's TTL is at least twice the hash's: a hash with a TTL is gone first.
\* Bound on time: no coroutine outlives the difference (300 s).
ExpireIdem(k) ==
  /\ TTLExpires
  /\ idem[k] # Absent
  /\ idem[k] \notin expiring
  /\ Working(idem[k]) = {}
  /\ idem' = [idem EXCEPT ![k] = Absent]
  /\ UNCHANGED <<rowVars, reservation, expiring, callVars, historyVars>>

-----------------------------------------------------------------------------
ReserveStock(p) ==
  \/ \E k \in Keys, req \in Requests, r \in ResIds : Claim(p, k, req, r)
  \/ Check(p)
  \/ Reject(p)
  \/ Book(p)
  \/ BookUnanswered(p)
  \/ DropClaim(p)
  \/ StoreHash(p)
  \/ SetTTL(p)

Settle(p) ==
  \/ \E o \in {"commit", "release"}, r \in ResIds : ReadHash(p, o, r)
  \/ Apply(p)
  \/ ApplyRefused(p)
  \/ DelReservation(p)
  \/ DelIdem(p)

Next ==
  \/ \E p \in Procs : ReserveStock(p)
  \/ \E p \in Procs : Settle(p)
  \/ \E p \in Procs, v \in Variants : LockRow(p, v)
  \/ \E k \in Keys : Observe(k)
  \/ \E p \in Procs : DeadlockDetected(p)
  \/ \E p \in Procs : TransactionFails(p) \/ RejectUnanswered(p)
  \/ \E p \in Procs : Die(p)
  \/ \E r \in ResIds : ExpireReservation(r)
  \/ \E k \in Keys : ExpireIdem(k)

Spec == Init /\ [][Next]_vars

-----------------------------------------------------------------------------
(* Properties                                                              *)

\* Shape of the state.
PgTypeOK ==
  /\ onHand \in [Variants -> Int] /\ reserved \in [Variants -> Int]
  /\ lock \in [Variants -> Procs \cup {Absent}]
  /\ idem \in [Keys -> ResIds \cup {Absent}]
  /\ reservation \in [ResIds -> Hash \cup {Absent}]
  /\ expiring \in SUBSET ResIds
  /\ pc \in [Procs -> {"idle", "lock", "check", "book", "dropClaim", "hset",
                       "expire", "apply", "delReservation", "delIdem"}]
  /\ op \in [Procs -> {"none", "reserve", "commit", "release"}]
  /\ key \in [Procs -> Keys \cup {Absent}]
  /\ rid \in [Procs -> ResIds \cup {Absent}]
  /\ items \in [Procs -> Requests \cup {Absent}]
  /\ todo \in [Procs -> SUBSET Variants]
  /\ seen \in [Procs -> [Variants -> Int]]
  /\ issued \in SUBSET ResIds
  /\ booked \in [ResIds -> Requests \cup {Absent}]
  /\ settled \in [ResIds -> Nat]
  /\ lost \in SUBSET ResIds

\* Reservations are decided on rows read earlier in the transaction, and still no
\* variant is ever oversold: what is reserved is on hand, whatever overlaps, fails,
\* dies or expires.
NeverOversold ==
  \A v \in Variants : 0 <= reserved[v] /\ reserved[v] <= onHand[v]

\* The hash is there, or a coroutine is on its way to store it or works on a copy.
Alive(r) ==
  \/ reservation[r] # Absent
  \/ \E p \in Working(r) :
       \/ pc[p] = "hset"
       \/ op[p] # "reserve" /\ pc[p] \in {"lock", "apply"}

Held(r, v) ==
  IF booked[r] # Absent /\ settled[r] = 0 /\ Alive(r) THEN Qty(booked[r], v) ELSE 0

\* Units of all reservations, each one as a reservation and a number.
TotalHeld(v) == Cardinality(UNION {{r} \X (1 .. Held(r, v)) : r \in ResIds})

\* A reservation whose units nobody can take or give back any more.
Leaked(r) == booked[r] # Absent /\ settled[r] = 0 /\ ~Alive(r)

\* While calls on one reservation follow each other and no coroutine is lost, the
\* units of every open reservation are reserved in Postgres, and until a hash
\* reaches its TTL nothing else is.
UnitsAccounted ==
  lost = {} =>
    \A v \in Variants :
      /\ TotalHeld(v) <= reserved[v]
      /\ (\A r \in ResIds : ~Leaked(r)) => TotalHeld(v) = reserved[v]

\* A claimed key names a reservation that a retry can count on: it is being made,
\* or is open under that key, or is being settled; only a lost coroutine or the TTL
\* of the hash leaves a claim that names nothing.  In particular no refused and no
\* failed transaction does.
ClaimIsBacked ==
  \A k \in Keys :
    idem[k] # Absent =>
      LET r == idem[k] IN
      \/ Working(r) # {}
      \/ reservation[r] # Absent /\ reservation[r].idem_key = k
      \/ r \in lost
      \/ Leaked(r)

\* "Two concurrent reservations touching an overlapping set of variants cannot
\* deadlock against each other": a cycle of waiting transactions has a commit or a
\* release in it.
ReservationsNeverDeadlock ==
  \A S \in SUBSET Procs :
    DeadlockAmong(S) => \E p \in S : op[p] # "reserve"
=============================================================================
