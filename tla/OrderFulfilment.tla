-------------------------- MODULE OrderFulfilment --------------------------
(***************************************************************************)
(* Orders from the moment a route has persisted them: the Celery chain     *)
(*                                                                         *)
(*   capture -> commit -> invoice -> notify -> dispatch                    *)
(*                                                                         *)
(* with acks-late delivery, and the beat job that sweeps orders which stay *)
(* pending, both of them calling the inventory service of module Inventory *)
(* step by step.  The RPC a worker or a sweep waits for runs in the        *)
(* coroutine slot that bears its name.                                     *)
(*                                                                         *)
(* Transactions are READ COMMITTED and lock nothing they read, so each     *)
(* task is a step that reads and a later step that commits.                *)
(***************************************************************************)
EXTENDS Inventory, Sequences

CONSTANTS
  Orders,         \* orders the routes place
  Workers,        \* Celery prefork processes
  Sweeps,         \* runs of expire_stuck_pending_orders
  Basket,         \* the items of each order
  KeyOf,          \* the idempotency key each order was reserved under
  HandoffFails,   \* may process_order fail to reach the broker?
  MaxLost,        \* worker processes that may die (a bound)
  MaxRetries,     \* max_retries of commit_inventory
  Unreachable,    \* callers whose RPCs, commands and transactions may fail
  Races           \* may TTLs and sweeps reach an order its chain still works on?

ASSUME FulfilmentAssumption ==
  /\ Handlers = Workers \cup Sweeps /\ Workers \cap Sweeps = {}
  /\ Basket \in [Orders -> Requests] /\ KeyOf \in [Orders -> Keys]
  /\ {HandoffFails, Races} \subseteq BOOLEAN /\ Unreachable \subseteq Handlers
  /\ MaxLost \in Nat /\ MaxRetries \in Nat /\ IsFiniteSet(Workers)
  /\ Absent \notin Orders

Chain == <<"capture", "commit", "invoice", "notify", "dispatch">>

Task == 1 .. Len(Chain)

VARIABLES
  status,    \* orders.status ("none": no row yet)
  payment,   \* payments.status
  resOf,     \* orders.reservation_id
  handoff,   \* is process_order still due, done or lost?
  aged,      \* orders that were pending for STUCK_THRESHOLD
  queue,     \* messages in the broker: how many of each order and task
  job,       \* the message a worker holds
  phase,     \* how far its task body is
  retries,   \* failed commit RPCs of each order
  lost,      \* worker processes that died
  invoices,  \* invoice.created rows of each order
  sweepAt,   \* how far each sweep is
  chosen,    \* orders a sweep selected and has not treated yet
  current,   \* the order it treats
  treated,   \* orders it will mark cancelled when it commits
  refunds    \* history: how often the purchase counter was refunded

chainVars == <<queue, job, phase, retries, lost, invoices>>
orderVars == <<status, payment, resOf, handoff, aged>>
sweepVars == <<sweepAt, chosen, current, treated, refunds>>
flowVars == <<vars, chainVars, orderVars, sweepVars>>

NoJob == [order |-> Absent, task |-> 0]

FlowInit ==
  /\ Init
  /\ status = [o \in Orders |-> "none"]
  /\ payment = [o \in Orders |-> "none"]
  /\ resOf = [o \in Orders |-> Absent]
  /\ handoff = [o \in Orders |-> "none"]
  /\ aged = {}
  /\ queue = [o \in Orders |-> [t \in Task |-> 0]]
  /\ job = [w \in Workers |-> NoJob]
  /\ phase = [w \in Workers |-> "idle"]
  /\ retries = [o \in Orders |-> 0]
  /\ lost = 0
  /\ invoices = [o \in Orders |-> 0]
  /\ sweepAt = [x \in Sweeps |-> "start"]
  /\ chosen = [x \in Sweeps |-> {}]
  /\ current = [x \in Sweeps |-> Absent]
  /\ treated = [x \in Sweeps |-> {}]
  /\ refunds = [o \in Orders |-> 0]

-----------------------------------------------------------------------------
(* Routes and time                                                         *)

\* A route reserved the items and persisted Order and Payment.
Place(o) ==
  /\ status[o] = "none"
  /\ \E r \in ResIds :
       /\ ReserveGrant(KeyOf[o], Basket[o], r)
       /\ resOf' = [resOf EXCEPT ![o] = r]
  /\ status' = [status EXCEPT ![o] = "pending"]
  /\ payment' = [payment EXCEPT ![o] = "initiated"]
  /\ handoff' = [handoff EXCEPT ![o] = "due"]
  /\ UNCHANGED <<aged, chainVars, sweepVars>>

\* process_order pushes the first message of the chain.
Enqueue(o) ==
  /\ handoff[o] = "due"
  /\ handoff' = [handoff EXCEPT ![o] = "done"]
  /\ queue' = [queue EXCEPT ![o][1] = @ + 1]
  /\ UNCHANGED <<vars, status, payment, resOf, aged,
                 job, phase, retries, lost, invoices, sweepVars>>

\* The push fails, or the route dies first: the order stays pending.
EnqueueFails(o) ==
  /\ HandoffFails
  /\ handoff[o] = "due"
  /\ handoff' = [handoff EXCEPT ![o] = "lost"]
  /\ UNCHANGED <<vars, status, payment, resOf, aged, chainVars, sweepVars>>

\* The threshold passes.  It is longer than the TTL of the reservation, but the two
\* clocks are left apart here: a sweep may meet a hash that is gone or one that is not.
Age(o) ==
  /\ status[o] = "pending"
  /\ o \notin aged
  /\ aged' = aged \cup {o}
  /\ UNCHANGED <<vars, status, payment, resOf, handoff, chainVars, sweepVars>>

\* A TTL of Redis; a run without races keeps it away from chains under way.
InChain(o) ==
  \/ handoff[o] = "due"
  \/ \E t \in Task : queue[o][t] > 0
  \/ \E w \in Workers : job[w].order = o

Expire ==
  /\ \/ \E r \in ResIds :
          /\ Races \/ \A o \in Orders : resOf[o] = r => ~InChain(o)
          /\ ExpireReservation(r)
     \/ \E k \in Keys : ExpireIdem(k)
  /\ UNCHANGED <<orderVars, chainVars, sweepVars>>

-----------------------------------------------------------------------------
(* Celery workers                                                          *)

Take(w, o, t) ==
  /\ phase[w] = "idle"
  /\ queue[o][t] > 0
  /\ queue' = [queue EXCEPT ![o][t] = @ - 1]
  /\ job' = [job EXCEPT ![w] = [order |-> o, task |-> t]]
  /\ phase' = [phase EXCEPT ![w] = "read"]
  /\ UNCHANGED <<vars, orderVars, retries, lost, invoices, sweepVars>>

\* Mutants: the invoice task does not look for its event; capture does not look
\* at the status.
GateInvoicesAgain(t, o) ==
  CASE Chain[t] = "capture"  -> status[o] = "pending"
    [] Chain[t] = "commit"   -> status[o] \in {"paid", "pending"}
    [] Chain[t] = "dispatch" -> status[o] = "paid"
    [] OTHER                 -> TRUE

GateCapturesAgain(t, o) ==
  CASE Chain[t] = "commit"   -> status[o] \in {"paid", "pending"}
    [] Chain[t] = "invoice"  -> invoices[o] = 0
    [] Chain[t] = "dispatch" -> status[o] = "paid"
    [] OTHER                 -> TRUE

\* What the gate of each task lets through, given what the task read.
Gate(t, o) ==
  CASE Chain[t] = "capture"  -> status[o] = "pending"
    [] Chain[t] = "commit"   -> status[o] \in {"paid", "pending"}
    [] Chain[t] = "invoice"  -> invoices[o] = 0
    [] Chain[t] = "notify"   -> TRUE
    [] Chain[t] = "dispatch" -> status[o] = "paid"

\* The task reads the order: it returns at once or has something to do.
Read(w) ==
  /\ phase[w] = "read"
  /\ phase' = [phase EXCEPT ![w] =
                 IF ~Gate(job[w].task, job[w].order) THEN "done"
                 ELSE IF Chain[job[w].task] = "commit" THEN "call" ELSE "write"]
  /\ UNCHANGED <<vars, orderVars, queue, job, retries, lost, invoices, sweepVars>>

\* The transaction of a task commits what it decided on when it read.
Write(w) ==
  LET o == job[w].order
      task == Chain[job[w].task]
  IN /\ phase[w] = "write"
     /\ phase' = [phase EXCEPT ![w] = "done"]
     /\ status' = [status EXCEPT ![o] = CASE task = "capture"  -> "paid"
                                          [] task = "dispatch" -> "fulfilling"
                                          [] OTHER             -> @]
     /\ payment' = [payment EXCEPT ![o] = IF task = "capture" THEN "captured" ELSE @]
     /\ invoices' = [invoices EXCEPT ![o] = IF task = "invoice" THEN @ + 1 ELSE @]
     /\ UNCHANGED <<vars, resOf, handoff, aged, queue, job, retries, lost, sweepVars>>

\* commit_inventory calls CommitReservation and waits for the answer.
CallCommit(w) ==
  LET r == resOf[job[w].order]
  IN /\ phase[w] = "call"
     /\ ReadHash(w, "commit", r)
     /\ phase' = [phase EXCEPT ![w] = IF reservation[r] = Absent THEN "done" ELSE "rpc"]
     /\ UNCHANGED <<orderVars, queue, job, retries, lost, invoices, sweepVars>>

\* The coroutine of a call goes on while its caller waits.
Serve(h) ==
  /\ \/ CommitOnHand(h)
     \/ \E v \in Variants : ReleaseIncr(h, v)
     \/ DelReservation(h)
  /\ UNCHANGED <<orderVars, chainVars, sweepVars>>

CommitAnswered(w) ==
  /\ phase[w] = "rpc"
  /\ DelIdem(w)
  /\ phase' = [phase EXCEPT ![w] = "done"]
  /\ UNCHANGED <<orderVars, queue, job, retries, lost, invoices, sweepVars>>

\* Mutant: an RpcError is logged and the chain goes on.
CommitErrorSwallowed(w) ==
  /\ \/ phase[w] = "call" /\ w \in Unreachable /\ UNCHANGED vars
     \/ phase[w] = "rpc" /\ (CommitRefused(w) \/ Crash(w))
  /\ phase' = [phase EXCEPT ![w] = "done"]
  /\ UNCHANGED <<orderVars, queue, job, retries, lost, invoices, sweepVars>>

\* RpcError: autoretry puts the task back, until max_retries is used up.
CommitFailed(w) ==
  LET o == job[w].order
  IN /\ \/ phase[w] = "call" /\ w \in Unreachable /\ UNCHANGED vars
        \/ phase[w] = "rpc" /\ (CommitRefused(w) \/ Crash(w))
     /\ phase' = [phase EXCEPT ![w] = "idle"]
     /\ job' = [job EXCEPT ![w] = NoJob]
     /\ IF retries[o] < MaxRetries
        THEN /\ queue' = [queue EXCEPT ![o][job[w].task] = @ + 1]
             /\ retries' = [retries EXCEPT ![o] = @ + 1]
        ELSE UNCHANGED <<queue, retries>>
     /\ UNCHANGED <<orderVars, lost, invoices, sweepVars>>

\* The database fails in a task, or only the answer to its COMMIT is lost: autoretry
\* puts the task back, or its max_retries are used up and the chain ends here.
TaskFails(w) ==
  /\ w \in Unreachable
  /\ phase[w] \in {"read", "write", "done"}
  /\ \/ queue' = [queue EXCEPT ![job[w].order][job[w].task] = @ + 1]
     \/ UNCHANGED queue
  /\ phase' = [phase EXCEPT ![w] = "idle"]
  /\ job' = [job EXCEPT ![w] = NoJob]
  /\ UNCHANGED <<vars, orderVars, retries, lost, invoices, sweepVars>>

\* The task succeeded: its worker sends the next one of the chain ...
Forward(w) ==
  LET o == job[w].order
      t == job[w].task
  IN /\ phase[w] = "done"
     /\ queue' = IF t < Len(Chain) THEN [queue EXCEPT ![o][t + 1] = @ + 1] ELSE queue
     /\ phase' = [phase EXCEPT ![w] = "ack"]
     /\ UNCHANGED <<vars, orderVars, job, retries, lost, invoices, sweepVars>>

\* ... and only then acknowledges the message (task_acks_late).
Ack(w) ==
  /\ phase[w] = "ack"
  /\ phase' = [phase EXCEPT ![w] = "idle"]
  /\ job' = [job EXCEPT ![w] = NoJob]
  /\ UNCHANGED <<vars, orderVars, queue, retries, lost, invoices, sweepVars>>

\* The process dies: the message comes back (task_reject_on_worker_lost), and
\* the server cancels the coroutine of a call whose client is gone.
WorkerLost(w) ==
  /\ phase[w] # "idle"
  /\ lost < MaxLost
  /\ lost' = lost + 1
  /\ queue' = [queue EXCEPT ![job[w].order][job[w].task] = @ + 1]
  /\ job' = [job EXCEPT ![w] = NoJob]
  /\ phase' = [phase EXCEPT ![w] = "idle"]
  /\ IF phase[w] = "rpc" THEN Crash(w) ELSE UNCHANGED vars
  /\ UNCHANGED <<orderVars, retries, invoices, sweepVars>>

-----------------------------------------------------------------------------
(* expire_stuck_pending_orders                                             *)

InSweep(o) == \E x \in Sweeps : o \in chosen[x] \cup {current[x]} \cup treated[x]

\* Mutant: the SELECT does not filter on the status.
SweepSelectsAny(x) ==
  /\ sweepAt[x] = "start"
  /\ aged # {}
  /\ Races \/ \A o \in aged : ~InChain(o) /\ ~InSweep(o)
  /\ chosen' = [chosen EXCEPT ![x] = aged]
  /\ sweepAt' = [sweepAt EXCEPT ![x] = "next"]
  /\ UNCHANGED <<vars, orderVars, chainVars, current, treated, refunds>>

\* SELECT of the pending orders past the cutoff, without FOR UPDATE.
SweepSelect(x) ==
  LET stuck == {o \in aged : status[o] = "pending"}
  IN /\ sweepAt[x] = "start"
     /\ stuck # {}
     /\ Races \/ \A o \in stuck : ~InChain(o) /\ ~InSweep(o)
     /\ chosen' = [chosen EXCEPT ![x] = stuck]
     /\ sweepAt' = [sweepAt EXCEPT ![x] = "next"]
     /\ UNCHANGED <<vars, orderVars, chainVars, current, treated, refunds>>

\* Mutant: an order whose hash is gone is skipped.
SweepSkipsExpired(x, o) ==
  /\ sweepAt[x] = "next"
  /\ o \in chosen[x]
  /\ ReadHash(x, "release", resOf[o])
  /\ chosen' = [chosen EXCEPT ![x] = @ \ {o}]
  /\ IF reservation[resOf[o]] = Absent
     THEN UNCHANGED <<current, sweepAt>>
     ELSE /\ current' = [current EXCEPT ![x] = o]
          /\ sweepAt' = [sweepAt EXCEPT ![x] = "rpc"]
  /\ UNCHANGED <<orderVars, chainVars, treated, refunds>>

\* The next order of the loop; ReleaseReservation reads its hash, unless the
\* call does not get through: an RpcError is logged and swallowed.
SweepRelease(x, o) ==
  /\ sweepAt[x] = "next"
  /\ o \in chosen[x]
  /\ \/ /\ ReadHash(x, "release", resOf[o])
        /\ sweepAt' = [sweepAt EXCEPT ![x] =
                         IF reservation[resOf[o]] = Absent THEN "refund" ELSE "rpc"]
     \/ /\ x \in Unreachable
        /\ sweepAt' = [sweepAt EXCEPT ![x] = "refund"]
        /\ UNCHANGED vars
  /\ chosen' = [chosen EXCEPT ![x] = @ \ {o}]
  /\ current' = [current EXCEPT ![x] = o]
  /\ UNCHANGED <<orderVars, chainVars, treated, refunds>>

\* The call ends, with an answer or with an RpcError.
ReleaseAnswered(x) ==
  /\ sweepAt[x] = "rpc"
  /\ DelIdem(x) \/ Crash(x)
  /\ sweepAt' = [sweepAt EXCEPT ![x] = "refund"]
  /\ UNCHANGED <<orderVars, chainVars, chosen, current, treated, refunds>>

\* DECRBY of the user's purchase counter: done at once, not with the commit, and
\* a RedisError is logged and swallowed.
SweepRefund(x) ==
  /\ sweepAt[x] = "refund"
  /\ \/ refunds' = [refunds EXCEPT ![current[x]] = @ + 1]
     \/ x \in Unreachable /\ UNCHANGED refunds
  /\ treated' = [treated EXCEPT ![x] = @ \cup {current[x]}]
  /\ current' = [current EXCEPT ![x] = Absent]
  /\ sweepAt' = [sweepAt EXCEPT ![x] = "next"]
  /\ UNCHANGED <<vars, orderVars, chainVars, chosen>>

\* One transaction marks every treated order cancelled, whatever it is by now.
SweepCommit(x) ==
  /\ sweepAt[x] = "next"
  /\ chosen[x] = {}
  /\ status' = [o \in Orders |-> IF o \in treated[x] THEN "cancelled" ELSE status[o]]
  /\ treated' = [treated EXCEPT ![x] = {}]
  /\ sweepAt' = [sweepAt EXCEPT ![x] = "start"]
  /\ UNCHANGED <<vars, payment, resOf, handoff, aged, chainVars, chosen, current, refunds>>

\* The process of the sweep dies: the transaction rolls back, what went to
\* Redis stays, and the redelivered message starts the sweep over.
SweepLost(x) ==
  /\ sweepAt[x] # "start"
  /\ lost < MaxLost
  /\ lost' = lost + 1
  /\ sweepAt' = [sweepAt EXCEPT ![x] = "start"]
  /\ chosen' = [chosen EXCEPT ![x] = {}]
  /\ current' = [current EXCEPT ![x] = Absent]
  /\ treated' = [treated EXCEPT ![x] = {}]
  /\ IF sweepAt[x] = "rpc" THEN Crash(x) ELSE UNCHANGED vars
  /\ UNCHANGED <<orderVars, queue, job, phase, retries, invoices, refunds>>

-----------------------------------------------------------------------------
Work(w) ==
  \/ Read(w) \/ Write(w) \/ CallCommit(w) \/ Serve(w) \/ CommitAnswered(w)
  \/ CommitFailed(w) \/ TaskFails(w) \/ Forward(w) \/ Ack(w)

Sweep(x) ==
  \/ SweepSelect(x) \/ \E o \in Orders : SweepRelease(x, o)
  \/ Serve(x) \/ ReleaseAnswered(x) \/ SweepRefund(x) \/ SweepCommit(x)

FlowNext ==
  \/ \E o \in Orders : Place(o) \/ Enqueue(o) \/ EnqueueFails(o) \/ Age(o)
  \/ Expire
  \/ \E w \in Workers : Work(w) \/ WorkerLost(w)
  \/ \E w \in Workers, o \in Orders, t \in Task : Take(w, o, t)
  \/ \E x \in Sweeps : Sweep(x) \/ SweepLost(x)

FlowSpec == FlowInit /\ [][FlowNext]_flowVars

\* Routes and workers go on, messages are delivered, TTLs and the threshold are
\* reached, and beat starts a sweep whenever there is something to sweep.
FairFlowSpec ==
  /\ FlowSpec
  /\ \A o \in Orders : WF_flowVars(Enqueue(o) \/ EnqueueFails(o)) /\ WF_flowVars(Age(o))
  /\ WF_flowVars(Expire)
  /\ \A w \in Workers : WF_flowVars(Work(w))
  /\ \A o \in Orders, t \in Task : WF_flowVars(\E w \in Workers : Take(w, o, t))
  /\ \A x \in Sweeps : WF_flowVars(Sweep(x))

-----------------------------------------------------------------------------
(* Properties                                                              *)

\* An order handed to the warehouse had its units taken from on hand.
DispatchedIsSold ==
  \A o \in Orders : status[o] = "fulfilling" => sold[resOf[o]] >= 1

\* "Every task is replay-safe": redelivered messages take an order's units from
\* on hand once ...
SoldOnce == \A o \in Orders : resOf[o] # Absent => sold[resOf[o]] <= 1

\* ... and invoice it once.
OneInvoice == \A o \in Orders : invoices[o] <= 1

\* With more workers the gates stop a copy of a chain that reads after the other has
\* written, not one that read before.  So an order is invoiced, and its units are sold,
\* again only if a process died and left a copy, or the coroutine of the call died,
\* and no more often than there are processes to run copies side by side.
RepeatsNeedDeaths ==
  \A o \in Orders :
    /\ invoices[o] <= 1 + lost /\ invoices[o] <= Cardinality(Workers)
    /\ resOf[o] # Absent =>
         /\ sold[resOf[o]] <= 1 + lost + crashed[resOf[o]]
         /\ sold[resOf[o]] <= Cardinality(Workers) + crashed[resOf[o]]

\* pending -> paid -> fulfilling or pending -> cancelled, never back.
Moves == {<<"none", "pending">>, <<"pending", "paid">>,
          <<"paid", "fulfilling">>, <<"pending", "cancelled">>}

\* Copies of a chain run side by side where a process died and there are others.
CopiesOverlap == lost > 0 /\ Cardinality(Workers) > 1

\* No stale task or sweep drags an order to a status it has left, except that the
\* capture of a second copy may put a dispatched order back to paid, whence that
\* copy dispatches it again.
StatusAdvances ==
  [][\A o \in Orders :
       \/ status'[o] = status[o]
       \/ <<status[o], status'[o]>> \in Moves
       \/ CopiesOverlap /\ status[o] = "fulfilling" /\ status'[o] = "paid"]_status

\* A cancelled order was not charged, did not reduce on hand, and gave its user's
\* purchase allowance back once at most, and once more for each sweep that died.
CancelledIsVoid ==
  \A o \in Orders :
    status[o] = "cancelled" =>
      /\ payment[o] = "initiated" /\ sold[resOf[o]] = 0
      /\ refunds[o] <= 1 + lost

\* The chain moves an order through pending and paid to fulfilling; an order for
\* which it does not is swept.
OrdersGetSettled ==
  \A o \in Orders :
    status[o] = "pending" ~> status[o] \in {"fulfilling", "cancelled"}
=============================================================================
