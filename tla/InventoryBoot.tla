--------------------------- MODULE InventoryBoot ---------------------------
(***************************************************************************)
(* Replicas of the inventory service that start, load the Redis counters   *)
(* from Postgres (bootstrap_stock_counters) and then serve, while Redis    *)
(* keeps the counters and reservations of earlier boots.                   *)
(***************************************************************************)
EXTENDS Inventory

CONSTANTS
  Replicas,      \* inventory processes
  Home,          \* the replica each coroutine slot runs in
  MaxRestarts,   \* graceful restarts of a replica (a bound)
  MaxKills,      \* kills inside the bootstrap (a bound)
  MaxFailures    \* failures of Postgres or Redis inside the bootstrap (a bound)

ASSUME BootAssumption ==
  /\ Home \in [Handlers -> Replicas]
  /\ MaxRestarts \in Nat /\ MaxKills \in Nat /\ MaxFailures \in Nat

VARIABLES
  lock,       \* does the key lock:inventory_bootstrap exist?
  boot,       \* how far each replica is
  levels,     \* what its SELECT returned
  restarts,   \* graceful restarts so far
  kills,      \* kills inside the bootstrap so far
  failures,   \* failures inside the bootstrap so far
  loaded      \* history: has any replica written the counters?

faultVars == <<restarts, kills, failures>>
bootVars == <<lock, boot, levels, faultVars, loaded>>
serviceVars == <<vars, bootVars>>

NotRead == [v \in Variants |-> 0]

Loading == {p \in Replicas : boot[p] \in {"read", "store", "unlock"}}

BootInit ==
  /\ Init
  /\ lock = FALSE
  /\ boot = [p \in Replicas |-> "start"]
  /\ levels = [p \in Replicas |-> NotRead]
  /\ restarts = 0
  /\ kills = 0
  /\ failures = 0
  /\ loaded = FALSE

\* Mutant: the outcome of SET NX is read the wrong way round.
BootLockInverted(p) ==
  /\ boot[p] = "start"
  /\ boot' = [boot EXCEPT ![p] = IF lock THEN "read" ELSE "serving"]
  /\ lock' = TRUE
  /\ UNCHANGED <<vars, levels, faultVars, loaded>>

\* SET lock NX EX 60: the loser of the race serves with the counters it finds.
BootLock(p) ==
  /\ boot[p] = "start"
  /\ boot' = [boot EXCEPT ![p] = IF lock THEN "serving" ELSE "read"]
  /\ lock' = TRUE
  /\ UNCHANGED <<vars, levels, faultVars, loaded>>

\* quantity_reserved is only ever written by the Postgres mode: here it is 0.
BootRead(p) ==
  /\ boot[p] = "read"
  /\ levels' = [levels EXCEPT ![p] = onHand]
  /\ boot' = [boot EXCEPT ![p] = "store"]
  /\ UNCHANGED <<vars, lock, faultVars, loaded>>

\* Mutant: open reservations are subtracted from a level read before, unclamped.
BootStoreNet(p) ==
  /\ boot[p] = "store"
  /\ stock' = [v \in Variants |-> levels[p][v] -
       UnitsIn([r \in {q \in ResIds : reservation[q] # Absent}
                  |-> Qty(reservation[r].items, v)])]
  /\ levels' = [levels EXCEPT ![p] = NotRead]
  /\ boot' = [boot EXCEPT ![p] = "unlock"]
  /\ loaded' = TRUE
  /\ UNCHANGED <<reservation, idem, onHand, handlerVars, historyVars,
                 lock, faultVars>>

\* MSET of every counter, in one command.
BootStore(p) ==
  /\ boot[p] = "store"
  /\ stock' = [v \in Variants |-> IF levels[p][v] < 0 THEN 0 ELSE levels[p][v]]
  /\ levels' = [levels EXCEPT ![p] = NotRead]
  /\ boot' = [boot EXCEPT ![p] = "unlock"]
  /\ loaded' = TRUE
  /\ UNCHANGED <<reservation, idem, onHand, handlerVars, historyVars,
                 lock, faultVars>>

\* Mutant: the key is not deleted.
BootKeepsLock(p) ==
  /\ boot[p] = "unlock"
  /\ boot' = [boot EXCEPT ![p] = "serving"]
  /\ UNCHANGED <<vars, lock, levels, faultVars, loaded>>

\* The finally clause deletes the key whoever set it last.
BootUnlock(p) ==
  /\ boot[p] = "unlock"
  /\ lock' = FALSE
  /\ boot' = [boot EXCEPT ![p] = "serving"]
  /\ UNCHANGED <<vars, levels, faultVars, loaded>>

\* The lock reaches its TTL, even if a load is not through by then.
LockExpire ==
  /\ lock
  /\ lock' = FALSE
  /\ UNCHANGED <<vars, boot, levels, faultVars, loaded>>

\* The process is killed while it loads, so that no finally runs; or the DEL of the
\* finally clause fails.  It is started again and the lock is left behind.
BootCrash(p) ==
  /\ p \in Loading
  /\ kills < MaxKills
  /\ kills' = kills + 1
  /\ boot' = [boot EXCEPT ![p] = "start"]
  /\ levels' = [levels EXCEPT ![p] = NotRead]
  /\ UNCHANGED <<vars, lock, restarts, failures, loaded>>

\* Postgres or Redis fails while it loads (the MSET may have run, and only its answer
\* is lost): finally deletes the key, the exception ends the process, and it is
\* started again.
BootFails(p) ==
  /\ p \in Loading
  /\ failures < MaxFailures
  /\ failures' = failures + 1
  /\ lock' = FALSE
  /\ boot' = [boot EXCEPT ![p] = "start"]
  /\ levels' = [levels EXCEPT ![p] = NotRead]
  /\ UNCHANGED <<vars, restarts, kills, loaded>>

\* SIGTERM: server.stop drains the coroutines, then the process starts anew.
Restart(p) ==
  /\ boot[p] = "serving"
  /\ restarts < MaxRestarts
  /\ \A h \in Handlers : Home[h] = p => pc[h] = "idle"
  /\ restarts' = restarts + 1
  /\ boot' = [boot EXCEPT ![p] = "start"]
  /\ UNCHANGED <<vars, lock, levels, kills, failures, loaded>>

Boot(p) == BootLock(p) \/ BootRead(p) \/ BootStore(p) \/ BootUnlock(p)

\* RPCs reach replicas that have reached server.start.
ServeCalls ==
  \/ /\ \E p \in Replicas : boot[p] = "serving"
     /\ \E k \in Keys, req \in Requests : ReserveStock(k, req)
  \/ \E h \in Handlers, o \in {"commit", "release"}, r \in ResIds :
       boot[Home[h]] = "serving" /\ ReadHash(h, o, r)
  \/ \E h \in Handlers : Handler(h) \/ Crash(h)
  \/ \E r \in ResIds : ExpireReservation(r)
  \/ \E k \in Keys : ExpireIdem(k)

BootNext ==
  \/ \E p \in Replicas : Boot(p) \/ BootCrash(p) \/ BootFails(p) \/ Restart(p)
  \/ LockExpire
  \/ ServeCalls /\ UNCHANGED bootVars

BootSpec == BootInit /\ [][BootNext]_serviceVars

\* A replica that starts goes on starting, and Redis expires the lock.
FairBootSpec ==
  /\ BootSpec
  /\ \A p \in Replicas : WF_serviceVars(Boot(p))
  /\ WF_serviceVars(LockExpire)

-----------------------------------------------------------------------------
\* Once a replica has been up long enough the counters have been loaded, unless a
\* loader was killed, or failed to delete its lock, and left it for the others to find.
CountersGetLoaded == <>(loaded \/ kills > 0)

\* A replica starts without loading only because another is loading right now,
\* or left its lock behind: "whichever loses the race trusts the winner".
SkipsOnlyForALoader ==
  [][\A p \in Replicas :
       (boot[p] = "start" /\ boot'[p] = "serving")
         => Loading # {} \/ kills > 0]_serviceVars
=============================================================================
