----------------------- MODULE OrderFulfilmentProofs -----------------------
(***************************************************************************)
(* What holds of orders for every set of orders, workers and sweeps: which *)
(* call each of them waits for, that an order never shares a reservation,  *)
(* how often an order can be invoiced and sold however copies of its chain *)
(* overlap, and, when sweeps and TTLs stay away from chains under way,     *)
(* that tasks and sweeps of any number never contradict each other.        *)
(***************************************************************************)
EXTENDS OrderFulfilment, InventoryProofs

Statuses == {"none", "pending", "paid", "fulfilling", "cancelled"}

\* Shape of the state.
FlowTypeOK ==
  /\ status \in [Orders -> Statuses]
  /\ payment \in [Orders -> {"none", "initiated", "captured"}]
  /\ resOf \in [Orders -> ResIds \cup {Absent}]
  /\ handoff \in [Orders -> {"none", "due", "done", "lost"}]
  /\ aged \subseteq Orders
  /\ queue \in [Orders -> [Task -> Nat]]
  /\ job \in [Workers -> [order : Orders, task : Task] \cup {NoJob}]
  /\ phase \in [Workers -> {"idle", "read", "write", "call", "rpc", "done", "ack"}]
  /\ retries \in [Orders -> Nat]
  /\ lost \in Nat
  /\ invoices \in [Orders -> Nat]
  /\ sweepAt \in [Sweeps -> {"start", "next", "rpc", "refund"}]
  /\ chosen \in [Sweeps -> SUBSET Orders]
  /\ current \in [Sweeps -> Orders \cup {Absent}]
  /\ treated \in [Sweeps -> SUBSET Orders]
  /\ refunds \in [Orders -> Nat]

\* What a worker holds fits the point its task has reached; its coroutine slot is
\* busy only with the commit it waits for.
WorkInv ==
  \A w \in Workers :
    /\ phase[w] # "idle" => job[w] \in [order : Orders, task : Task]
    /\ phase[w] = "idle" => job[w] = NoJob
    /\ phase[w] \in {"call", "rpc"} => job[w].task = 2
    /\ phase[w] = "write" => job[w].task # 2
    /\ pc[w] # "idle" =>
         phase[w] = "rpc" /\ op[w] = "commit" /\ rid[w] = resOf[job[w].order]

\* Sweep x has order o in hand.
InHand(x, o) == o \in chosen[x] \/ o = current[x] \/ o \in treated[x]

\* An order is at one point of a sweep; the sweep's slot is busy only with the
\* release it waits for.
SweepInv ==
  \A x \in Sweeps :
    /\ sweepAt[x] = "start" => chosen[x] = {} /\ treated[x] = {}
    /\ sweepAt[x] \in {"rpc", "refund"} => current[x] \in Orders
    /\ sweepAt[x] \in {"start", "next"} => current[x] = Absent
    /\ pc[x] # "idle" =>
         sweepAt[x] = "rpc" /\ op[x] = "release" /\ rid[x] = resOf[current[x]]
    /\ \A o \in chosen[x] : o # current[x] /\ o \notin treated[x]
    /\ current[x] \notin treated[x]

\* Nothing knows of an order that is not placed; a placed one has a reservation of
\* its own.
PlaceInv ==
  /\ \A o \in Orders : resOf[o] = Absent <=> status[o] = "none"
  /\ \A o \in Orders : status[o] = "none" =>
       /\ handoff[o] = "none" /\ payment[o] = "none" /\ ~InChain(o)
       /\ \A x \in Sweeps : ~InHand(x, o)
  /\ \A o \in Orders : resOf[o] # Absent => resOf[o] \in issued
  /\ \A o, p \in Orders : resOf[o] # Absent /\ resOf[o] = resOf[p] => o = p

FlowInv == Inv /\ CallInv /\ FlowTypeOK /\ WorkInv /\ SweepInv /\ PlaceInv

\* The message of a task that comes after the capture.
Captured(o) ==
  \/ \E t \in Task : t >= 2 /\ queue[o][t] > 0
  \/ \E w \in Workers :
       job[w].order = o /\ (job[w].task >= 2 \/ phase[w] \in {"done", "ack"})

\* An order is in the hands of a chain or of one sweep, never of both.
HandsApart ==
  /\ \A x \in Sweeps, o \in Orders : InHand(x, o) => ~InChain(o) /\ status[o] = "pending"
  /\ \A x, y \in Sweeps, o \in Orders : InHand(x, o) /\ InHand(y, o) => x = y
  /\ \A o \in Orders : status[o] = "cancelled" => ~InChain(o)

\* So what a chain did past its capture is done to an order that stays paid.
PaidInv ==
  \A o \in Orders :
    /\ Captured(o) \/ payment[o] = "captured" => status[o] \in {"paid", "fulfilling"}
    /\ resOf[o] # Absent /\ sold[resOf[o]] # 0 => status[o] \in {"paid", "fulfilling"}
    /\ status[o] # "none" => payment[o] \in {"initiated", "captured"}

ApartInv == FlowInv /\ HandsApart /\ PaidInv

RefundInv ==
  \A o \in Orders :
    refunds[o] <= lost + IF status[o] = "cancelled" \/ \E x \in Sweeps : o \in treated[x]
                         THEN 1 ELSE 0

Committed(o) ==
  \/ status[o] = "fulfilling"
  \/ \E t \in Task : t >= 3 /\ queue[o][t] > 0
  \/ \E w \in Workers :
       /\ job[w].order = o
       /\ job[w].task >= 3 \/ (job[w].task = 2 /\ phase[w] \in {"done", "ack"})

CommitInv ==
  /\ \A o \in Orders : Committed(o) => sold[resOf[o]] >= 1
  /\ \A o \in Orders :
       InChain(o) /\ reservation[resOf[o]] = Absent => sold[resOf[o]] >= 1

-----------------------------------------------------------------------------
(* Steps of the flow and steps of the service.                             *)

\* The tasks by number.
LEMMA Tasks ==
  /\ Len(Chain) = 5 /\ Task = 1 .. 5
  /\ Chain[1] = "capture" /\ Chain[2] = "commit" /\ Chain[3] = "invoice"
  /\ Chain[4] = "notify" /\ Chain[5] = "dispatch"
BY DEF Task, Chain

\* Workers and sweeps have slots; no order is Absent.
LEMMA Slots ==
  /\ \A w \in Workers : w \in Handlers /\ w \notin Sweeps
  /\ \A x \in Sweeps : x \in Handlers /\ x \notin Workers
  /\ \A h \in Handlers : h \in Workers \/ h \in Sweeps
  /\ Absent \notin Orders /\ Absent \notin ResIds
BY FulfilmentAssumption, VariantsAssumption

\* Whatever an order does to the inventory service is a step of the service: the
\* flow uses it through its calls only.
LEMMA FlowServes == Inv /\ [FlowNext]_flowVars => [Next]_vars
<1> SUFFICES ASSUME Inv, [FlowNext]_flowVars PROVE [Next]_vars
  OBVIOUS
<1>0. CASE UNCHANGED flowVars
  BY <1>0 DEF flowVars
<1>1. ASSUME NEW o \in Orders, Place(o) \/ Enqueue(o) \/ EnqueueFails(o) \/ Age(o)
      PROVE  [Next]_vars
  <2>1. CASE Place(o)
    <3>1. PICK r \in ResIds : ReserveGrant(KeyOf[o], Basket[o], r)
      BY <2>1 DEF Place
    <3>2. KeyOf[o] \in Keys /\ Basket[o] \in Requests
      BY FulfilmentAssumption
    <3> QED
      BY <3>1, <3>2 DEF Next, ReserveStock
  <2> QED
    BY <1>1, <2>1 DEF Enqueue, EnqueueFails, Age
<1>2. CASE Expire
  BY <1>2 DEF Expire, Next
<1>3. ASSUME NEW w \in Workers, Work(w) \/ WorkerLost(w) PROVE [Next]_vars
  <2>1. w \in Handlers
    BY Slots
  <2>2. CASE CallCommit(w)
    <3>1. PICK r : ReadHash(w, "commit", r)
      BY <2>2 DEF CallCommit
    <3>2. r \in ResIds
      BY <3>1 DEF ReadHash, Inv, TypeOK
    <3> QED
      BY <2>1, <3>1, <3>2 DEF Next
  <2>3. CASE Serve(w)
    BY <2>1, <2>3 DEF Serve, Next, Handler
  <2>4. CASE CommitAnswered(w)
    BY <2>1, <2>4 DEF CommitAnswered, Next, Handler
  <2>5. CASE CommitFailed(w)
    BY <2>1, <2>5 DEF CommitFailed, Next, Handler
  <2>6. CASE WorkerLost(w)
    BY <2>1, <2>6 DEF WorkerLost, Next
  <2>7. CASE Read(w) \/ Write(w) \/ TaskFails(w) \/ Forward(w) \/ Ack(w)
    BY <2>7 DEF Read, Write, TaskFails, Forward, Ack
  <2> QED
    BY <1>3, <2>2, <2>3, <2>4, <2>5, <2>6, <2>7 DEF Work
<1>4. CASE \E w \in Workers, o \in Orders, t \in Task : Take(w, o, t)
  BY <1>4 DEF Take
<1>5. ASSUME NEW x \in Sweeps, Sweep(x) \/ SweepLost(x) PROVE [Next]_vars
  <2>1. x \in Handlers
    BY Slots
  <2>2. CASE \E o \in Orders : SweepRelease(x, o)
    <3>1. CASE UNCHANGED vars
      BY <3>1
    <3>2. CASE \E r : ReadHash(x, "release", r)
      <4>1. PICK r : ReadHash(x, "release", r)
        BY <3>2
      <4>2. r \in ResIds
        BY <4>1 DEF ReadHash, Inv, TypeOK
      <4> QED
        BY <2>1, <4>1, <4>2 DEF Next
    <3> QED
      BY <2>2, <3>1, <3>2 DEF SweepRelease
  <2>3. CASE Serve(x)
    BY <2>1, <2>3 DEF Serve, Next, Handler
  <2>4. CASE ReleaseAnswered(x)
    BY <2>1, <2>4 DEF ReleaseAnswered, Next, Handler
  <2>5. CASE SweepLost(x)
    BY <2>1, <2>5 DEF SweepLost, Next
  <2>6. CASE SweepSelect(x) \/ SweepRefund(x) \/ SweepCommit(x)
    BY <2>6 DEF SweepSelect, SweepRefund, SweepCommit
  <2> QED
    BY <1>5, <2>2, <2>3, <2>4, <2>5, <2>6 DEF Sweep
<1> QED
  BY <1>0, <1>1, <1>2, <1>3, <1>4, <1>5 DEF FlowNext

\* So the service's invariants hold of it.
LEMMA FlowKeepsCalls == Inv /\ CallInv /\ [FlowNext]_flowVars => Inv' /\ CallInv'
BY FlowServes, InvStep, CallInvStep

-----------------------------------------------------------------------------
(* Whatever overlaps, expires, dies or races.                              *)

LEMMA FlowInvInit == FlowInit => FlowInv
<1> SUFFICES ASSUME FlowInit PROVE FlowInv
  OBVIOUS
<1>1. Inv /\ CallInv
  BY InvInit, CallInvInit DEF FlowInit
<1>2. FlowTypeOK
  BY DEF FlowInit, FlowTypeOK, Statuses
<1>3. WorkInv /\ SweepInv
  BY Slots DEF FlowInit, Init, WorkInv, SweepInv, NoJob
<1>4. \A o \in Orders : ~InChain(o) /\ \A x \in Sweeps : ~InHand(x, o)
  BY Slots DEF FlowInit, InChain, InHand, NoJob
<1>5. PlaceInv
  BY <1>4 DEF FlowInit, PlaceInv
<1> QED
  BY <1>1, <1>2, <1>3, <1>5 DEF FlowInv

\* What a busy worker holds.
LEMMA Holding ==
  ASSUME FlowTypeOK, WorkInv, NEW w \in Workers, phase[w] # "idle"
  PROVE  /\ job[w].order \in Orders /\ job[w].task \in Task /\ job[w].task \in 1 .. 5
         /\ InChain(job[w].order)
BY Tasks DEF FlowTypeOK, WorkInv, InChain

\* The state keeps its shape.
LEMMA FlowTypeStep == FlowTypeOK /\ WorkInv /\ SweepInv /\ Inv /\ [FlowNext]_flowVars => FlowTypeOK'
<1> SUFFICES ASSUME FlowTypeOK, WorkInv, SweepInv, Inv, [FlowNext]_flowVars PROVE FlowTypeOK'
  OBVIOUS
<1> USE DEF FlowTypeOK
<1>0. CASE UNCHANGED flowVars
  BY <1>0 DEF flowVars, chainVars, orderVars, sweepVars
<1>1. ASSUME NEW o \in Orders, Place(o) \/ Enqueue(o) \/ EnqueueFails(o) \/ Age(o)
      PROVE  FlowTypeOK'
  <2>1. CASE Place(o)
    BY <2>1 DEF Place, chainVars, sweepVars, Statuses
  <2>2. CASE Enqueue(o)
    <3>1. queue' \in [Orders -> [Task -> Nat]]
      BY <2>2, Tasks DEF Enqueue
    <3> QED
      BY <2>2, <3>1 DEF Enqueue, sweepVars
  <2>3. CASE EnqueueFails(o)
    BY <2>3 DEF EnqueueFails, chainVars, sweepVars
  <2>4. CASE Age(o)
    BY <2>4 DEF Age, chainVars, sweepVars
  <2> QED
    BY <1>1, <2>1, <2>2, <2>3, <2>4
<1>2. CASE Expire
  BY <1>2 DEF Expire, chainVars, orderVars, sweepVars
<1>3. ASSUME NEW w \in Workers, Work(w) \/ WorkerLost(w) PROVE FlowTypeOK'
  <2>1. CASE Read(w)
    BY <2>1 DEF Read, orderVars, sweepVars
  <2>2. CASE Write(w)
    <3>1. job[w].order \in Orders
      BY <2>2, Holding DEF Write
    <3> QED
      BY <2>2, <3>1 DEF Write, sweepVars, Statuses
  <2>3. CASE CallCommit(w) \/ CommitAnswered(w)
    BY <2>3 DEF CallCommit, CommitAnswered, orderVars, sweepVars
  <2>4. CASE Serve(w)
    BY <2>4 DEF Serve, chainVars, orderVars, sweepVars
  <2>5. CASE CommitFailed(w)
    <3>1. job[w].order \in Orders /\ job[w].task \in Task
      BY <2>5, Holding DEF CommitFailed
    <3>2. queue' \in [Orders -> [Task -> Nat]] /\ retries' \in [Orders -> Nat]
      <4>1. CASE retries[job[w].order] < MaxRetries
        <5>1. /\ queue' = [queue EXCEPT ![job[w].order][job[w].task] = @ + 1]
              /\ retries' = [retries EXCEPT ![job[w].order] = @ + 1]
          BY <2>5, <4>1 DEF CommitFailed
        <5> QED
          BY <3>1, <5>1
      <4>2. CASE ~(retries[job[w].order] < MaxRetries)
        BY <2>5, <4>2 DEF CommitFailed
      <4> QED
        BY <4>1, <4>2
    <3>3. /\ phase' = [phase EXCEPT ![w] = "idle"] /\ job' = [job EXCEPT ![w] = NoJob]
          /\ UNCHANGED <<orderVars, lost, invoices, sweepVars>>
      BY <2>5 DEF CommitFailed
    <3> QED
      BY <3>2, <3>3 DEF orderVars, sweepVars
  <2>9. CASE TaskFails(w)
    <3>1. job[w].order \in Orders /\ job[w].task \in Task
      BY <2>9, Holding DEF TaskFails
    <3>2. queue' \in [Orders -> [Task -> Nat]]
      <4>1. CASE UNCHANGED queue
        BY <4>1
      <4>2. CASE queue' = [queue EXCEPT ![job[w].order][job[w].task] = @ + 1]
        BY <3>1, <4>2
      <4> QED
        BY <2>9, <4>1, <4>2 DEF TaskFails
    <3> QED
      BY <2>9, <3>2 DEF TaskFails, orderVars, sweepVars
  <2>6. CASE Forward(w)
    <3>1. job[w].order \in Orders /\ job[w].task \in 1 .. 5
      BY <2>6, Holding DEF Forward
    <3>2. queue' \in [Orders -> [Task -> Nat]]
      BY <2>6, <3>1, Tasks DEF Forward
    <3> QED
      BY <2>6, <3>2 DEF Forward, orderVars, sweepVars
  <2>7. CASE Ack(w)
    BY <2>7 DEF Ack, orderVars, sweepVars
  <2>8. CASE WorkerLost(w)
    <3>1. job[w].order \in Orders /\ job[w].task \in Task
      BY <2>8, Holding DEF WorkerLost
    <3>2. queue' \in [Orders -> [Task -> Nat]]
      BY <2>8, <3>1 DEF WorkerLost
    <3> QED
      BY <2>8, <3>2 DEF WorkerLost, orderVars, sweepVars
  <2> QED
    BY <1>3, <2>1, <2>2, <2>3, <2>4, <2>5, <2>6, <2>7, <2>8, <2>9 DEF Work
<1>4. ASSUME NEW w \in Workers, NEW o \in Orders, NEW t \in Task, Take(w, o, t)
      PROVE  FlowTypeOK'
  <2>1. queue' \in [Orders -> [Task -> Nat]]
    BY <1>4 DEF Take
  <2> QED
    BY <1>4, <2>1 DEF Take, orderVars, sweepVars
<1>5. ASSUME NEW x \in Sweeps, Sweep(x) \/ SweepLost(x) PROVE FlowTypeOK'
  <2>1. CASE SweepSelect(x)
    BY <2>1 DEF SweepSelect, orderVars, chainVars
  <2>2. ASSUME NEW o \in Orders, SweepRelease(x, o) PROVE FlowTypeOK'
    <3>1. sweepAt' \in [Sweeps -> {"start", "next", "rpc", "refund"}]
      <4>1. sweepAt \in [Sweeps -> {"start", "next", "rpc", "refund"}]
        BY DEF FlowTypeOK
      <4>2. \/ sweepAt' = [sweepAt EXCEPT ![x] = "refund"]
            \/ sweepAt' = [sweepAt EXCEPT ![x] = "rpc"]
        BY <2>2 DEF SweepRelease
      <4> QED
        BY ONLY <4>1, <4>2
    <3>2. /\ chosen' = [chosen EXCEPT ![x] = @ \ {o}] /\ current' = [current EXCEPT ![x] = o]
          /\ UNCHANGED <<orderVars, chainVars, treated, refunds>>
      BY <2>2 DEF SweepRelease
    <3> QED
      BY <3>1, <3>2 DEF orderVars, chainVars
  <2>3. CASE Serve(x)
    BY <2>3 DEF Serve, chainVars, orderVars, sweepVars
  <2>4. CASE ReleaseAnswered(x)
    BY <2>4 DEF ReleaseAnswered, chainVars, orderVars
  <2>5. CASE SweepRefund(x)
    <3>1. current[x] \in Orders
      BY <2>5 DEF SweepRefund, SweepInv
    <3>2. refunds' \in [Orders -> Nat]
      BY <2>5, <3>1 DEF SweepRefund
    <3>3. /\ treated' = [treated EXCEPT ![x] = @ \cup {current[x]}]
          /\ current' = [current EXCEPT ![x] = Absent]
          /\ sweepAt' = [sweepAt EXCEPT ![x] = "next"]
          /\ UNCHANGED <<vars, orderVars, chainVars, chosen>>
      BY <2>5 DEF SweepRefund
    <3> QED
      BY <3>1, <3>2, <3>3 DEF chainVars, orderVars
  <2>6. CASE SweepCommit(x)
    BY <2>6 DEF SweepCommit, chainVars, Statuses
  <2>7. CASE SweepLost(x)
    BY <2>7 DEF SweepLost, orderVars
  <2> QED
    BY <1>5, <2>1, <2>2, <2>3, <2>4, <2>5, <2>6, <2>7 DEF Sweep
<1> QED
  BY <1>0, <1>1, <1>2, <1>3, <1>4, <1>5 DEF FlowNext

\* A step of a call moves its own slot only.
LEMMA SlotOfReader ==
  ASSUME Inv, NEW h \in Handlers, NEW o \in {"commit", "release"}, NEW r, ReadHash(h, o, r)
  PROVE  /\ \A g \in Handlers \ {h} : pc'[g] = pc[g] /\ op'[g] = op[g] /\ rid'[g] = rid[g]
         /\ reservation[r] = Absent => pc'[h] = "idle"
         /\ reservation[r] # Absent => pc'[h] = "apply" /\ op'[h] = o /\ rid'[h] = r
         /\ UNCHANGED <<reservation, sold, issued>>
BY DEF Inv, TypeOK, ReadHash, handlerVars, redisVars, historyVars

LEMMA SlotOfServed ==
  ASSUME Inv, NEW h \in Handlers, Serve(h)
  PROVE  /\ pc[h] # "idle" /\ \A g \in Handlers \ {h} : pc'[g] = pc[g]
         /\ UNCHANGED <<op, rid, issued>>
BY DEF Inv, TypeOK, Serve, CommitOnHand, ReleaseIncr, DelReservation, historyVars

LEMMA SlotOfEnded ==
  ASSUME Inv, NEW h \in Handlers, DelIdem(h) \/ CommitRefused(h) \/ Crash(h)
  PROVE  /\ pc'[h] = "idle" /\ pc[h] # "idle"
         /\ \A g \in Handlers \ {h} : pc'[g] = pc[g] /\ op'[g] = op[g] /\ rid'[g] = rid[g]
         /\ UNCHANGED <<reservation, sold, issued>>
BY DEF Inv, TypeOK, DelIdem, CommitRefused, Crash, Finish, redisVars, historyVars

\* A worker is where its message says, and its slot too.
LEMMA WorkStep == FlowInv /\ FlowTypeOK' /\ [FlowNext]_flowVars => WorkInv'
<1> SUFFICES ASSUME FlowInv, FlowTypeOK', [FlowNext]_flowVars PROVE WorkInv'
  OBVIOUS
<1> USE DEF FlowInv, WorkInv
<1> DEFINE Fine(u) ==
      /\ phase[u] # "idle" => job[u] \in [order : Orders, task : Task]
      /\ phase[u] = "idle" => job[u] = NoJob
      /\ phase[u] \in {"call", "rpc"} => job[u].task = 2
      /\ phase[u] = "write" => job[u].task # 2
      /\ pc[u] # "idle" => phase[u] = "rpc" /\ op[u] = "commit" /\ rid[u] = resOf[job[u].order]
<1>a. \A u \in Workers : Fine(u)
  OBVIOUS
<1>b. ASSUME NEW u \in Workers, phase'[u] = phase[u], job'[u] = job[u], pc'[u] = pc[u],
             op'[u] = op[u], rid'[u] = rid[u], resOf'[job[u].order] = resOf[job[u].order]
      PROVE  Fine(u)'
  BY <1>a, <1>b
<1>c. \A u \in Workers : u \in Handlers
  BY Slots
<1>0. CASE UNCHANGED flowVars
  BY <1>0 DEF flowVars, chainVars, orderVars, vars, handlerVars
<1>1. ASSUME NEW o \in Orders, Place(o) \/ Enqueue(o) \/ EnqueueFails(o) \/ Age(o),
             NEW u \in Workers
      PROVE  Fine(u)'
  <2>1. CASE Place(o)
    <3>1. job[u].order # o
      <4>1. ~InChain(o)
        BY <2>1 DEF Place, PlaceInv
      <4> QED
        BY <4>1 DEF InChain
    <3>2. /\ \A p : p # o => resOf'[p] = resOf[p]
          /\ UNCHANGED <<phase, job, pc, op, rid>>
      BY <2>1 DEF Place, ReserveGrant, chainVars, handlerVars, FlowTypeOK
    <3> QED
      BY <1>b, <3>1, <3>2
  <2>2. CASE Enqueue(o) \/ EnqueueFails(o) \/ Age(o)
    BY <1>b, <2>2 DEF Enqueue, EnqueueFails, Age, chainVars, vars, handlerVars
  <2> QED
    BY <1>1, <2>1, <2>2
<1>2. ASSUME Expire, NEW u \in Workers PROVE Fine(u)'
  BY <1>b, <1>2 DEF Expire, ExpireReservation, ExpireIdem, chainVars, orderVars, handlerVars
<1>3. ASSUME NEW w \in Workers, Work(w) \/ WorkerLost(w), NEW u \in Workers PROVE Fine(u)'
  <2>0. UNCHANGED resOf
    BY <1>3 DEF Work, WorkerLost, Read, Write, CallCommit, Serve, CommitAnswered,
                CommitFailed, TaskFails, Forward, Ack, orderVars
  <2>1. CASE Read(w)
    BY <1>a, <1>b, <2>1, Tasks, Holding, <2>0 DEF Read, vars, handlerVars, FlowTypeOK
  <2>2. CASE Write(w)
    BY <1>a, <1>b, <2>2, <2>0 DEF Write, vars, handlerVars, FlowTypeOK
  <2>3. CASE CallCommit(w)
    <3> DEFINE r == resOf[job[w].order]
    <3>1. /\ \A g \in Handlers \ {w} : pc'[g] = pc[g] /\ op'[g] = op[g] /\ rid'[g] = rid[g]
          /\ reservation[r] = Absent => pc'[w] = "idle"
          /\ reservation[r] # Absent => pc'[w] = "apply" /\ op'[w] = "commit" /\ rid'[w] = r
      BY <2>3, <1>c, SlotOfReader DEF CallCommit
    <3> HIDE DEF r
    <3>2. /\ phase[w] = "call" /\ UNCHANGED job
          /\ phase'[w] = IF reservation[r] = Absent THEN "done" ELSE "rpc"
          /\ \A g \in Workers \ {w} : phase'[g] = phase[g]
      BY <2>3 DEF CallCommit, FlowTypeOK, r
    <3>3. CASE u = w
      BY <1>a, <2>0, <3>1, <3>2, <3>3 DEF r
    <3>4. CASE u # w
      BY <1>b, <1>c, <2>0, <3>1, <3>2, <3>4
    <3> QED
      BY <3>3, <3>4
  <2>4. CASE Serve(w)
    <3>1. /\ pc[w] # "idle" /\ \A g \in Handlers \ {w} : pc'[g] = pc[g]
          /\ UNCHANGED <<op, rid>>
      BY <2>4, <1>c, SlotOfServed
    <3> QED
      BY <1>a, <1>b, <1>c, <2>0, <2>4, <3>1 DEF Serve, chainVars
  <2>5. CASE CommitAnswered(w)
    <3>1. /\ pc'[w] = "idle"
          /\ \A g \in Handlers \ {w} : pc'[g] = pc[g] /\ op'[g] = op[g] /\ rid'[g] = rid[g]
      BY <2>5, <1>c, SlotOfEnded DEF CommitAnswered
    <3>2. /\ UNCHANGED job /\ phase'[w] = "done" /\ phase[w] = "rpc"
          /\ \A g \in Workers \ {w} : phase'[g] = phase[g]
      BY <2>5 DEF CommitAnswered, FlowTypeOK
    <3> QED
      BY <1>a, <1>b, <1>c, <2>0, <3>1, <3>2
  <2>6. CASE CommitFailed(w) \/ TaskFails(w) \/ WorkerLost(w)
    <3>1. /\ pc'[w] = "idle"
          /\ \A g \in Handlers \ {w} : pc'[g] = pc[g] /\ op'[g] = op[g] /\ rid'[g] = rid[g]
      <4>1. CASE UNCHANGED vars /\ phase[w] # "rpc"
        BY <4>1, <1>a DEF vars, handlerVars
      <4>2. CASE CommitRefused(w) \/ Crash(w)
        BY <4>2, <1>c, SlotOfEnded
      <4> QED
        BY <2>6, <4>1, <4>2 DEF CommitFailed, TaskFails, WorkerLost
    <3>2. /\ job'[w] = NoJob /\ phase'[w] = "idle"
          /\ \A g \in Workers \ {w} : phase'[g] = phase[g] /\ job'[g] = job[g]
      BY <2>6 DEF CommitFailed, TaskFails, WorkerLost, FlowTypeOK
    <3> QED
      BY <1>a, <1>b, <1>c, <2>0, <3>1, <3>2
  <2>7. CASE Forward(w)
    BY <1>a, <1>b, <2>7, <2>0 DEF Forward, vars, handlerVars, FlowTypeOK
  <2>8. CASE Ack(w)
    BY <1>a, <1>b, <2>8, <2>0 DEF Ack, vars, handlerVars, FlowTypeOK
  <2> QED
    BY <1>3, <2>1, <2>2, <2>3, <2>4, <2>5, <2>6, <2>7, <2>8 DEF Work
<1>4. ASSUME NEW w \in Workers, NEW o \in Orders, NEW t \in Task, Take(w, o, t),
             NEW u \in Workers
      PROVE  Fine(u)'
  BY <1>4, <1>a, <1>b DEF Take, orderVars, vars, handlerVars, FlowTypeOK
<1>5. ASSUME NEW x \in Sweeps, Sweep(x) \/ SweepLost(x), NEW u \in Workers PROVE Fine(u)'
  <2>1. \A g \in Handlers \ {x} : pc'[g] = pc[g] /\ op'[g] = op[g] /\ rid'[g] = rid[g]
    <3>1. CASE UNCHANGED vars
      BY <3>1 DEF vars, handlerVars
    <3>2. CASE \E r : ReadHash(x, "release", r)
      BY <3>2, Slots, SlotOfReader
    <3>3. CASE Serve(x)
      BY <3>3, Slots, SlotOfServed
    <3>4. CASE DelIdem(x) \/ Crash(x)
      BY <3>4, Slots, SlotOfEnded
    <3> QED
      BY <1>5, <3>1, <3>2, <3>3, <3>4
         DEF Sweep, SweepLost, SweepSelect, SweepRelease, ReleaseAnswered, SweepRefund, SweepCommit
  <2>2. UNCHANGED <<resOf, job, phase>>
    BY <1>5 DEF Sweep, SweepLost, SweepSelect, SweepRelease, ReleaseAnswered, SweepRefund,
                SweepCommit, Serve, orderVars, chainVars
  <2>3. u \in Handlers \ {x}
    BY Slots
  <2> QED
    BY <1>b, <2>1, <2>2, <2>3
<1> QED
  BY <1>0, <1>1, <1>2, <1>3, <1>4, <1>5 DEF FlowNext

\* Placing an order gives a reservation to that order and to no other.
LEMMA PlaceFacts ==
  ASSUME FlowTypeOK, Inv, PlaceInv, NEW o \in Orders, Place(o)
  PROVE  /\ resOf[o] = Absent /\ ~InChain(o) /\ \A x \in Sweeps : ~InHand(x, o)
         /\ status[o] = "none" /\ status'[o] = "pending" /\ payment'[o] = "initiated"
         /\ handoff'[o] = "due"
         /\ resOf'[o] \in ResIds \ issued /\ resOf'[o] \in issued'
         /\ \A p : p # o => /\ resOf'[p] = resOf[p] /\ status'[p] = status[p]
                            /\ payment'[p] = payment[p] /\ handoff'[p] = handoff[p]
         /\ reservation'[resOf'[o]] = [items |-> Basket[o], idem_key |-> KeyOf[o]]
         /\ \A r : r # resOf'[o] => reservation'[r] = reservation[r]
         /\ issued \subseteq issued'
         /\ UNCHANGED <<pc, op, rid, got, todo, sold, refunded, crashed, aged>>
         /\ UNCHANGED <<queue, job, phase, retries, lost, invoices>>
         /\ UNCHANGED <<sweepAt, chosen, current, treated, refunds>>
BY DEF FlowTypeOK, Inv, TypeOK, PlaceInv, Place, ReserveGrant, handlerVars, chainVars, sweepVars

\* A worker's step leaves the sweeps and the slots of the others alone.
LEMMA WorkerAlone ==
  ASSUME Inv, NEW w \in Workers, Work(w) \/ WorkerLost(w)
  PROVE  /\ \A g \in Handlers \ {w} : pc'[g] = pc[g] /\ op'[g] = op[g] /\ rid'[g] = rid[g]
         /\ UNCHANGED <<resOf, handoff, aged, sweepAt, chosen, current, treated, refunds>>
         /\ issued' = issued
<1>1. w \in Handlers
  BY Slots
<1>2. /\ \A g \in Handlers \ {w} : pc'[g] = pc[g] /\ op'[g] = op[g] /\ rid'[g] = rid[g]
      /\ issued' = issued
  <2>1. CASE UNCHANGED vars
    BY <2>1 DEF vars, handlerVars, historyVars
  <2>2. CASE \E r : ReadHash(w, "commit", r)
    BY <1>1, <2>2, SlotOfReader
  <2>3. CASE Serve(w)
    BY <1>1, <2>3, SlotOfServed
  <2>4. CASE DelIdem(w) \/ CommitRefused(w) \/ Crash(w)
    BY <1>1, <2>4, SlotOfEnded
  <2> QED
    BY <2>1, <2>2, <2>3, <2>4
       DEF Work, WorkerLost, Read, Write, CallCommit, CommitAnswered, CommitFailed, TaskFails, Forward, Ack
<1> QED
  BY <1>2 DEF Work, WorkerLost, Read, Write, CallCommit, CommitAnswered, CommitFailed, TaskFails,
              Forward, Ack, Serve, orderVars, sweepVars

\* A sweep's step leaves the chain and the slots of the others alone.
LEMMA SweepAlone ==
  ASSUME Inv, NEW x \in Sweeps, Sweep(x) \/ SweepLost(x)
  PROVE  /\ \A g \in Handlers \ {x} : pc'[g] = pc[g] /\ op'[g] = op[g] /\ rid'[g] = rid[g]
         /\ UNCHANGED <<resOf, payment, handoff, aged, queue, job, phase, retries, invoices>>
         /\ issued' = issued
<1>1. x \in Handlers
  BY Slots
<1>2. /\ \A g \in Handlers \ {x} : pc'[g] = pc[g] /\ op'[g] = op[g] /\ rid'[g] = rid[g]
      /\ issued' = issued
  <2>1. CASE UNCHANGED vars
    BY <2>1 DEF vars, handlerVars, historyVars
  <2>2. CASE \E r : ReadHash(x, "release", r)
    BY <1>1, <2>2, SlotOfReader
  <2>3. CASE Serve(x)
    BY <1>1, <2>3, SlotOfServed
  <2>4. CASE DelIdem(x) \/ Crash(x)
    BY <1>1, <2>4, SlotOfEnded
  <2> QED
    BY <2>1, <2>2, <2>3, <2>4
       DEF Sweep, SweepLost, SweepSelect, SweepRelease, ReleaseAnswered, SweepRefund, SweepCommit
<1> QED
  BY <1>2 DEF Sweep, SweepLost, SweepSelect, SweepRelease, ReleaseAnswered, SweepRefund,
              SweepCommit, Serve, orderVars, chainVars

\* The orders a sweep has in hand after a step: those it had, or those it selects.
LEMMA HandMoves ==
  ASSUME FlowTypeOK, SweepInv, NEW x \in Sweeps, Sweep(x) \/ SweepLost(x)
  PROVE  /\ \A y \in Sweeps \ {x} : /\ sweepAt'[y] = sweepAt[y] /\ chosen'[y] = chosen[y]
                                    /\ current'[y] = current[y] /\ treated'[y] = treated[y]
         /\ \A o \in Orders : InHand(x, o)' =>
              InHand(x, o) \/ (SweepSelect(x) /\ o \in aged /\ status[o] = "pending")
         /\ \A o \in Orders : status'[o] # status[o] =>
              /\ SweepCommit(x) /\ o \in treated[x] /\ status'[o] = "cancelled"
<1> USE DEF FlowTypeOK, SweepInv, InHand
<1>1. CASE SweepSelect(x)
  BY <1>1 DEF SweepSelect, orderVars
<1>2. ASSUME NEW p \in Orders, SweepRelease(x, p) PROVE InHand(x, p)
  BY <1>2 DEF SweepRelease
<1>3. CASE \E p \in Orders : SweepRelease(x, p)
  BY <1>3 DEF SweepRelease, orderVars
<1>4. CASE Serve(x) \/ ReleaseAnswered(x)
  BY <1>4 DEF Serve, ReleaseAnswered, orderVars, sweepVars
<1>5. CASE SweepRefund(x)
  BY <1>5, Slots DEF SweepRefund, orderVars
<1>6. CASE SweepCommit(x)
  BY <1>6, Slots DEF SweepCommit
<1>7. CASE SweepLost(x)
  BY <1>7, Slots DEF SweepLost, orderVars
<1> QED
  BY <1>1, <1>3, <1>4, <1>5, <1>6, <1>7 DEF Sweep

\* A sweep is where its list says, and its slot too.
LEMMA SweepStep == FlowInv /\ FlowTypeOK' /\ [FlowNext]_flowVars => SweepInv'
<1> SUFFICES ASSUME FlowInv, FlowTypeOK', [FlowNext]_flowVars PROVE SweepInv'
  OBVIOUS
<1> USE DEF FlowInv, SweepInv
<1> DEFINE Fine(y) ==
      /\ sweepAt[y] = "start" => chosen[y] = {} /\ treated[y] = {}
      /\ sweepAt[y] \in {"rpc", "refund"} => current[y] \in Orders
      /\ sweepAt[y] \in {"start", "next"} => current[y] = Absent
      /\ pc[y] # "idle" =>
           sweepAt[y] = "rpc" /\ op[y] = "release" /\ rid[y] = resOf[current[y]]
      /\ \A o \in chosen[y] : o # current[y] /\ o \notin treated[y]
      /\ current[y] \notin treated[y]
<1>a. \A y \in Sweeps : Fine(y)
  OBVIOUS
<1>b. ASSUME NEW y \in Sweeps, sweepAt'[y] = sweepAt[y], chosen'[y] = chosen[y],
             current'[y] = current[y], treated'[y] = treated[y], pc'[y] = pc[y],
             op'[y] = op[y], rid'[y] = rid[y], resOf'[current[y]] = resOf[current[y]]
      PROVE  Fine(y)'
  BY <1>a, <1>b
<1>0. CASE UNCHANGED flowVars
  BY <1>0 DEF flowVars, sweepVars, orderVars, vars, handlerVars
<1>1. ASSUME NEW o \in Orders, Place(o) \/ Enqueue(o) \/ EnqueueFails(o) \/ Age(o),
             NEW y \in Sweeps
      PROVE  Fine(y)'
  <2>1. CASE Place(o)
    <3>1. /\ ~InHand(y, o) /\ \A p : p # o => resOf'[p] = resOf[p]
          /\ UNCHANGED <<pc, op, rid, sweepAt, chosen, current, treated>>
      <4>1. FlowTypeOK /\ Inv /\ PlaceInv
        BY DEF FlowInv
      <4> HIDE DEF FlowInv, SweepInv
      <4> QED
        BY <2>1, <4>1, PlaceFacts
    <3>2. current[y] # o
      BY <3>1 DEF InHand
    <3> QED
      BY <1>b, <3>1, <3>2
  <2>2. CASE Enqueue(o) \/ EnqueueFails(o) \/ Age(o)
    BY <1>b, <2>2 DEF Enqueue, EnqueueFails, Age, sweepVars, vars, handlerVars
  <2> QED
    BY <1>1, <2>1, <2>2
<1>2. ASSUME Expire, NEW y \in Sweeps PROVE Fine(y)'
  BY <1>b, <1>2 DEF Expire, ExpireReservation, ExpireIdem, sweepVars, orderVars, handlerVars
<1>3. ASSUME NEW w \in Workers, Work(w) \/ WorkerLost(w), NEW y \in Sweeps PROVE Fine(y)'
  <2>1. y \in Handlers \ {w}
    BY Slots
  <2> QED
    BY <1>3, <1>b, <2>1, WorkerAlone
<1>4. ASSUME NEW w \in Workers, NEW o \in Orders, NEW t \in Task, Take(w, o, t),
             NEW y \in Sweeps
      PROVE  Fine(y)'
  BY <1>4, <1>b DEF Take, orderVars, vars, handlerVars, sweepVars
<1>5. ASSUME NEW x \in Sweeps, Sweep(x) \/ SweepLost(x), NEW y \in Sweeps PROVE Fine(y)'
  <2>0. x \in Handlers /\ y \in Handlers /\ UNCHANGED resOf
    BY <1>5, SweepAlone, Slots
  <2>1. CASE y # x
    BY <1>5, <1>b, <2>0, <2>1, HandMoves, SweepAlone
  <2>2. CASE y = x
    <3>1. CASE SweepSelect(x)
      BY <1>a, <2>2, <3>1, Slots DEF SweepSelect, vars, handlerVars, FlowTypeOK
    <3>2. ASSUME NEW o \in Orders, SweepRelease(x, o) PROVE Fine(x)'
      <4>1. /\ sweepAt[x] = "next" /\ o \in chosen[x] /\ current'[x] = o
            /\ chosen'[x] = chosen[x] \ {o} /\ treated' = treated
            /\ sweepAt'[x] \in {"rpc", "refund"}
        BY <3>2 DEF SweepRelease, FlowTypeOK
      <4>2. pc'[x] # "idle" => sweepAt'[x] = "rpc" /\ op'[x] = "release" /\ rid'[x] = resOf[o]
        <5>1. CASE UNCHANGED vars
          BY <1>a, <4>1, <5>1 DEF vars, handlerVars
        <5>2. CASE /\ ReadHash(x, "release", resOf[o])
                   /\ sweepAt' = [sweepAt EXCEPT ![x] =
                                    IF reservation[resOf[o]] = Absent THEN "refund" ELSE "rpc"]
          BY <2>0, <5>2, SlotOfReader DEF FlowTypeOK
        <5> QED
          BY <3>2, <5>1, <5>2 DEF SweepRelease
      <4> QED
        BY <1>a, <2>0, <4>1, <4>2
    <3>3. CASE Serve(x)
      <4>1. pc[x] # "idle" /\ UNCHANGED <<op, rid>>
        BY <2>0, <3>3, SlotOfServed
      <4> QED
        BY <1>a, <2>0, <2>2, <3>3, <4>1 DEF Serve, sweepVars
    <3>4. CASE ReleaseAnswered(x)
      <4>1. pc'[x] = "idle"
        BY <2>0, <3>4, SlotOfEnded DEF ReleaseAnswered
      <4> QED
        BY <1>a, <2>2, <3>4, <4>1 DEF ReleaseAnswered, FlowTypeOK
    <3>5. CASE SweepRefund(x)
      BY <1>a, <2>2, <3>5, Slots DEF SweepRefund, vars, handlerVars, FlowTypeOK
    <3>6. CASE SweepCommit(x)
      BY <1>a, <2>2, <3>6 DEF SweepCommit, vars, handlerVars, FlowTypeOK
    <3>7. CASE SweepLost(x)
      <4>1. pc'[x] = "idle"
        <5>1. CASE sweepAt[x] = "rpc"
          BY <2>0, <3>7, <5>1, SlotOfEnded DEF SweepLost
        <5>2. CASE sweepAt[x] # "rpc"
          BY <1>a, <3>7, <5>2 DEF SweepLost, vars, handlerVars
        <5> QED
          BY <5>1, <5>2
      <4> QED
        BY <1>a, <2>2, <3>7, <4>1 DEF SweepLost, FlowTypeOK
    <3> QED
      BY <1>5, <2>2, <3>1, <3>2, <3>3, <3>4, <3>5, <3>6, <3>7 DEF Sweep
  <2> QED
    BY <2>1, <2>2
<1> QED
  BY <1>0, <1>1, <1>2, <1>3, <1>4, <1>5 DEF FlowNext

\* The transaction of a task.
LEMMA WriteFacts ==
  ASSUME FlowTypeOK, WorkInv, NEW w \in Workers, Write(w)
  PROVE  /\ job[w].order \in Orders /\ InChain(job[w].order)
         /\ phase'[w] = "done" /\ job[w].task \in {1, 3, 4, 5}
         /\ \A u \in Workers \ {w} : phase'[u] = phase[u]
         /\ \A p \in Orders : p # job[w].order =>
              status'[p] = status[p] /\ payment'[p] = payment[p] /\ invoices'[p] = invoices[p]
         /\ job[w].task = 1 =>
              status'[job[w].order] = "paid" /\ payment'[job[w].order] = "captured"
         /\ job[w].task = 5 => status'[job[w].order] = "fulfilling"
         /\ job[w].task \notin {1, 5} => status'[job[w].order] = status[job[w].order]
         /\ job[w].task # 1 => payment'[job[w].order] = payment[job[w].order]
         /\ invoices'[job[w].order] =
              invoices[job[w].order] + IF job[w].task = 3 THEN 1 ELSE 0
         /\ UNCHANGED <<vars, resOf, handoff, aged, queue, job, retries, lost, sweepVars>>
<1>1. phase[w] = "write" /\ phase[w] # "idle"
  BY DEF Write
<1>2. /\ job[w].order \in Orders /\ InChain(job[w].order)
      /\ job[w].task \in 1 .. 5 /\ job[w].task # 2
  BY <1>1, Holding DEF WorkInv
<1>3. job[w].task \in {1, 3, 4, 5}
  BY <1>2
<1>4. /\ Chain[job[w].task] = "capture" <=> job[w].task = 1
      /\ Chain[job[w].task] = "dispatch" <=> job[w].task = 5
      /\ Chain[job[w].task] = "invoice" <=> job[w].task = 3
  BY <1>3, Tasks
<1>5. /\ phase'[w] = "done" /\ \A u \in Workers \ {w} : phase'[u] = phase[u]
      /\ UNCHANGED <<vars, resOf, handoff, aged, queue, job, retries, lost, sweepVars>>
  BY DEF Write, FlowTypeOK
<1>6. /\ status' = [status EXCEPT ![job[w].order] =
                      CASE Chain[job[w].task] = "capture"  -> "paid"
                        [] Chain[job[w].task] = "dispatch" -> "fulfilling"
                        [] OTHER                           -> @]
      /\ payment' = [payment EXCEPT ![job[w].order] =
                       IF Chain[job[w].task] = "capture" THEN "captured" ELSE @]
      /\ invoices' = [invoices EXCEPT ![job[w].order] =
                       IF Chain[job[w].task] = "invoice" THEN @ + 1 ELSE @]
  BY DEF Write
<1>7. \A p \in Orders : invoices[p] \in Nat
  BY DEF FlowTypeOK
<1>8. /\ job[w].task = 1 => status'[job[w].order] = "paid"
      /\ job[w].task = 5 => status'[job[w].order] = "fulfilling"
      /\ job[w].task \notin {1, 5} => status'[job[w].order] = status[job[w].order]
      /\ \A p \in Orders : p # job[w].order => status'[p] = status[p]
  BY <1>2, <1>4, <1>6 DEF FlowTypeOK
<1>9. /\ job[w].task = 1 => payment'[job[w].order] = "captured"
      /\ job[w].task # 1 => payment'[job[w].order] = payment[job[w].order]
      /\ \A p \in Orders : p # job[w].order => payment'[p] = payment[p]
  BY <1>2, <1>4, <1>6 DEF FlowTypeOK
<1>10. /\ invoices'[job[w].order] =
            invoices[job[w].order] + IF job[w].task = 3 THEN 1 ELSE 0
       /\ \A p \in Orders : p # job[w].order => invoices'[p] = invoices[p]
  BY <1>2, <1>4, <1>6, <1>7 DEF FlowTypeOK
<1> QED
  BY <1>2, <1>3, <1>5, <1>8, <1>9, <1>10

\* The other steps of a worker do not change an order.
LEMMA OrderKept ==
  ASSUME NEW w \in Workers, Work(w) \/ WorkerLost(w), ~Write(w)
  PROVE  UNCHANGED <<status, payment>>
BY DEF Work, WorkerLost, Read, CallCommit, Serve, CommitAnswered, CommitFailed, TaskFails, Forward,
       Ack, orderVars

\* What can happen to the row of an order in one step.
OrderMove(o) ==
  \/ /\ Place(o) /\ status[o] = "none" /\ status'[o] = "pending"
     /\ payment'[o] = "initiated" /\ handoff'[o] = "due"
  \/ /\ status'[o] = status[o] /\ payment'[o] = payment[o] /\ resOf'[o] = resOf[o]
     /\ handoff'[o] = handoff[o] \/ (handoff[o] = "due" /\ handoff'[o] # "due")
  \/ /\ \E w \in Workers :
          /\ Write(w) /\ job[w].order = o
          /\ \/ job[w].task = 1 /\ status'[o] = "paid" /\ payment'[o] = "captured"
             \/ job[w].task = 5 /\ status'[o] = "fulfilling" /\ payment'[o] = payment[o]
     /\ InChain(o) /\ resOf'[o] = resOf[o] /\ handoff'[o] = handoff[o]
  \/ /\ \E x \in Sweeps : SweepCommit(x) /\ o \in treated[x]
     /\ status'[o] = "cancelled" /\ payment'[o] = payment[o]
     /\ resOf'[o] = resOf[o] /\ handoff'[o] = handoff[o]

LEMMA OrderMoves ==
  ASSUME FlowInv, [FlowNext]_flowVars, NEW o \in Orders
  PROVE  OrderMove(o) /\ issued \subseteq issued'
<1>i. FlowTypeOK /\ Inv /\ PlaceInv /\ WorkInv /\ SweepInv
  BY DEF FlowInv
<1>0. CASE UNCHANGED flowVars
  BY <1>0 DEF flowVars, orderVars, vars, historyVars, OrderMove
<1>1. ASSUME NEW p \in Orders, Place(p) \/ Enqueue(p) \/ EnqueueFails(p) \/ Age(p)
      PROVE  OrderMove(o) /\ issued \subseteq issued'
  <2>1. CASE Place(p)
    BY <1>i, <2>1, PlaceFacts, ZenonT(40) DEF OrderMove
  <2>2. CASE Enqueue(p) \/ EnqueueFails(p) \/ Age(p)
    BY <1>i, <2>2 DEF Enqueue, EnqueueFails, Age, vars, historyVars, FlowTypeOK, OrderMove
  <2> QED
    BY <1>1, <2>1, <2>2
<1>2. CASE Expire
  BY <1>2 DEF Expire, ExpireReservation, ExpireIdem, historyVars, orderVars, OrderMove
<1>3. ASSUME NEW w \in Workers, Work(w) \/ WorkerLost(w)
      PROVE  OrderMove(o) /\ issued \subseteq issued'
  <2>1. issued' = issued /\ UNCHANGED <<resOf, handoff>>
    BY <1>3, <1>i, WorkerAlone
  <2>2. CASE Write(w)
    <3>1. CASE job[w].order = o
      BY <1>i, <2>1, <2>2, <3>1, WriteFacts DEF OrderMove
    <3>2. CASE job[w].order # o
      BY <1>i, <2>1, <2>2, <3>2, WriteFacts DEF OrderMove
    <3> QED
      BY <3>1, <3>2
  <2>3. CASE ~Write(w)
    BY <1>3, <2>1, <2>3, OrderKept DEF OrderMove
  <2> QED
    BY <2>2, <2>3
<1>4. CASE \E w \in Workers, p \in Orders, t \in Task : Take(w, p, t)
  BY <1>4 DEF Take, vars, historyVars, orderVars, OrderMove
<1>5. ASSUME NEW x \in Sweeps, Sweep(x) \/ SweepLost(x)
      PROVE  OrderMove(o) /\ issued \subseteq issued'
  <2>1. issued' = issued /\ UNCHANGED <<payment, resOf, handoff>>
    BY <1>5, <1>i, SweepAlone
  <2>2. status'[o] # status[o] => SweepCommit(x) /\ o \in treated[x] /\ status'[o] = "cancelled"
    BY <1>5, <1>i, HandMoves
  <2> QED
    BY <2>1, <2>2 DEF OrderMove
<1> QED
  BY <1>0, <1>1, <1>2, <1>3, <1>4, <1>5 DEF FlowNext

\* A chain starts when its order is placed and at no other time.
LEMMA ChainMoves ==
  ASSUME FlowInv, [FlowNext]_flowVars, NEW o \in Orders, InChain(o)'
  PROVE  InChain(o) \/ (status[o] = "none" /\ status'[o] = "pending")
<1>i. FlowTypeOK /\ Inv /\ PlaceInv /\ WorkInv /\ SweepInv
  BY DEF FlowInv
<1>a. NoJob.order # o
  BY Slots DEF NoJob
<1>0. CASE UNCHANGED flowVars
  BY <1>0 DEF flowVars, orderVars, chainVars, InChain
<1>1. ASSUME NEW p \in Orders, Place(p) \/ Enqueue(p) \/ EnqueueFails(p) \/ Age(p)
      PROVE  InChain(o) \/ (status[o] = "none" /\ status'[o] = "pending")
  <2>1. CASE Place(p)
    BY <1>i, <2>1, PlaceFacts, ZenonT(40) DEF InChain
  <2>2. CASE Enqueue(p)
    BY <1>i, <2>2 DEF Enqueue, InChain, FlowTypeOK
  <2>3. CASE EnqueueFails(p) \/ Age(p)
    BY <1>i, <2>3 DEF EnqueueFails, Age, chainVars, InChain, FlowTypeOK
  <2> QED
    BY <1>1, <2>1, <2>2, <2>3
<1>2. CASE Expire
  BY <1>2 DEF Expire, orderVars, chainVars, InChain
<1>3. ASSUME NEW w \in Workers, Work(w) \/ WorkerLost(w)
      PROVE  InChain(o)
  <2>1. UNCHANGED handoff
    BY <1>3, <1>i, WorkerAlone
  <2>2. CASE UNCHANGED <<queue, job>>
    BY <2>1, <2>2 DEF InChain
  <2>3. CASE CommitFailed(w) \/ TaskFails(w) \/ Forward(w) \/ Ack(w) \/ WorkerLost(w)
    <3>1. phase[w] # "idle"
      BY <2>3 DEF CommitFailed, TaskFails, Forward, Ack, WorkerLost
    <3>2. job[w].order \in Orders /\ InChain(job[w].order)
      BY <1>i, <3>1, Holding
    <3>3. CASE job[w].order = o
      BY <3>2, <3>3
    <3>4. CASE job[w].order # o
      <4>1. queue'[o] = queue[o]
        BY <1>i, <2>3, <3>2, <3>4 DEF CommitFailed, TaskFails, Forward, Ack, WorkerLost, FlowTypeOK
      <4>2. \A u \in Workers : job'[u] = job[u] \/ job'[u] = NoJob
        BY <1>i, <2>3 DEF CommitFailed, TaskFails, Forward, Ack, WorkerLost, FlowTypeOK
      <4> QED
        BY <1>a, <2>1, <4>1, <4>2 DEF InChain
    <3> QED
      BY <3>3, <3>4
  <2> QED
    BY <1>3, <2>2, <2>3 DEF Work, Read, Write, CallCommit, Serve, CommitAnswered, chainVars
<1>4. ASSUME NEW w \in Workers, NEW p \in Orders, NEW t \in Task, Take(w, p, t)
      PROVE  InChain(o)
  <2>1. queue[p][t] > 0 /\ UNCHANGED handoff
    BY <1>4 DEF Take, orderVars
  <2>2. \A u \in Workers : job'[u] = job[u] \/ job'[u].order = p
    BY <1>i, <1>4 DEF Take, FlowTypeOK
  <2>3. p # o => queue'[o] = queue[o]
    BY <1>i, <1>4 DEF Take, FlowTypeOK
  <2> QED
    BY <2>1, <2>2, <2>3 DEF InChain
<1>5. ASSUME NEW x \in Sweeps, Sweep(x) \/ SweepLost(x)
      PROVE  InChain(o)
  BY <1>5, <1>i, SweepAlone DEF InChain
<1> QED
  BY <1>0, <1>1, <1>2, <1>3, <1>4, <1>5 DEF FlowNext

\* A sweep takes in hand what it selects, and nothing else.
LEMMA HandsMove ==
  ASSUME FlowInv, [FlowNext]_flowVars, NEW y \in Sweeps, NEW o \in Orders, InHand(y, o)'
  PROVE  InHand(y, o) \/ (SweepSelect(y) /\ o \in aged /\ status[o] = "pending")
<1>i. FlowTypeOK /\ Inv /\ PlaceInv /\ WorkInv /\ SweepInv
  BY DEF FlowInv
<1>1. ASSUME NEW x \in Sweeps, Sweep(x) \/ SweepLost(x)
      PROVE  InHand(y, o) \/ (SweepSelect(y) /\ o \in aged /\ status[o] = "pending")
  BY <1>i, <1>1, HandMoves DEF InHand
<1>2. CASE UNCHANGED <<chosen, current, treated>>
  BY <1>2 DEF InHand
<1>3. ASSUME NEW w \in Workers, Work(w) \/ WorkerLost(w)
      PROVE  UNCHANGED <<chosen, current, treated>>
  BY <1>i, <1>3, WorkerAlone
<1> QED
  BY <1>1, <1>2, <1>3
     DEF FlowNext, flowVars, sweepVars, Place, Enqueue, EnqueueFails, Age, Expire, Take

\* An order is known when it is placed, and owns its reservation from then on.
LEMMA PlaceStep == FlowInv /\ Inv' /\ FlowTypeOK' /\ [FlowNext]_flowVars => PlaceInv'
<1> SUFFICES ASSUME FlowInv, Inv', FlowTypeOK', [FlowNext]_flowVars PROVE PlaceInv'
  OBVIOUS
<1>i. FlowTypeOK /\ Inv /\ PlaceInv /\ WorkInv /\ SweepInv
  BY DEF FlowInv
<1>a. \A o \in Orders : OrderMove(o) /\ issued \subseteq issued'
  BY OrderMoves
<1>b. \A o \in Orders : InChain(o)' => InChain(o) \/ (status[o] = "none" /\ status'[o] = "pending")
  BY ChainMoves
<1>c. \A y \in Sweeps, o \in Orders : InHand(y, o)' => InHand(y, o) \/ status[o] = "pending"
  BY HandsMove
<1>d. \A o \in Orders : status'[o] = "none" =>
        status[o] = "none" /\ handoff'[o] = "none" /\ payment'[o] = "none"
  BY <1>a, <1>i DEF OrderMove, PlaceInv
<1>e. \A o \in Orders : status'[o] = "none" => ~InChain(o)' /\ \A x \in Sweeps : ~InHand(x, o)'
  BY <1>b, <1>c, <1>d, <1>i DEF PlaceInv
<1>f. CASE \E p \in Orders : Place(p)
  <2>1. PICK p \in Orders : Place(p)
    BY <1>f
  <2>2. /\ resOf[p] = Absent /\ status[p] = "none" /\ status'[p] = "pending"
        /\ resOf'[p] \in ResIds \ issued /\ resOf'[p] \in issued'
        /\ \A q : q # p => resOf'[q] = resOf[q] /\ status'[q] = status[q]
    BY <1>i, <2>1, PlaceFacts
  <2>3. \A q \in Orders : q # p /\ resOf'[q] # Absent => resOf'[q] # resOf'[p]
    BY <1>i, <2>2 DEF PlaceInv
  <2>4. \A o, q \in Orders : resOf'[o] # Absent /\ resOf'[o] = resOf'[q] => o = q
    BY <1>i, <2>2, <2>3 DEF PlaceInv
  <2>5. \A o \in Orders : resOf'[o] # Absent => resOf'[o] \in issued'
    BY <1>a, <1>i, <2>2 DEF PlaceInv
  <2>6. \A o \in Orders : resOf'[o] = Absent <=> status'[o] = "none"
    BY <1>i, <2>2, Slots DEF PlaceInv
  <2> QED
    BY <1>d, <1>e, <2>4, <2>5, <2>6 DEF PlaceInv
<1>g. CASE ~\E p \in Orders : Place(p)
  <2>1. \A o \in Orders : resOf'[o] = resOf[o]
    <3>1. ASSUME NEW w \in Workers, Work(w) \/ WorkerLost(w) PROVE UNCHANGED resOf
      BY <1>i, <3>1, WorkerAlone
    <3>2. ASSUME NEW x \in Sweeps, Sweep(x) \/ SweepLost(x) PROVE UNCHANGED resOf
      BY <1>i, <3>2, SweepAlone
    <3> QED
      BY <1>g, <3>1, <3>2
         DEF FlowNext, flowVars, orderVars, Enqueue, EnqueueFails, Age, Expire, Take
  <2>2. \A o \in Orders : resOf'[o] = Absent <=> status'[o] = "none"
    <3>1. \A o \in Orders : status'[o] = "none" <=> status[o] = "none"
      <4>1. ASSUME NEW o \in Orders, status[o] = "none" PROVE status'[o] = "none"
        <5>1. ~InChain(o) /\ \A x \in Sweeps : o \notin treated[x]
          BY <1>i, <4>1 DEF PlaceInv, InHand
        <5> QED
          BY <1>a, <1>g, <4>1, <5>1 DEF OrderMove
      <4> QED
        BY <1>d, <4>1
    <3> QED
      BY <1>i, <2>1, <3>1 DEF PlaceInv
  <2> QED
    BY <1>a, <1>d, <1>e, <1>i, <2>1, <2>2 DEF PlaceInv
<1> QED
  BY <1>f, <1>g

LEMMA FlowInvStep == FlowInv /\ [FlowNext]_flowVars => FlowInv'
<1> SUFFICES ASSUME FlowInv, [FlowNext]_flowVars PROVE FlowInv'
  OBVIOUS
<1>1. Inv' /\ CallInv'
  BY FlowKeepsCalls DEF FlowInv
<1>2. FlowTypeOK'
  BY FlowTypeStep DEF FlowInv
<1>3. WorkInv' /\ SweepInv' /\ PlaceInv'
  BY <1>1, <1>2, WorkStep, SweepStep, PlaceStep
<1> QED
  BY <1>1, <1>2, <1>3 DEF FlowInv

\* The state of orders, workers and sweeps keeps its shape, and the flow is a client
\* that drives the inventory service through its handlers alone: no counter and no
\* quantity_on_hand goes below zero on its account.
THEOREM FlowTypeCorrect == FlowSpec => [](FlowTypeOK /\ CountersNonNegative)
<1>1. FlowInv => FlowTypeOK /\ CountersNonNegative
  BY DEF FlowInv, Inv
<1> QED
  BY <1>1, FlowInvInit, FlowInvStep, PTL DEF FlowSpec

-----------------------------------------------------------------------------
(* From here on sweeps and TTLs keep away from chains under way.           *)

\* Only the transaction of a commit that a worker waits for sells units.
LEMMA SoldBy ==
  ASSUME FlowInv, [FlowNext]_flowVars, NEW o \in Orders, resOf[o] # Absent,
         sold'[resOf[o]] # sold[resOf[o]]
  PROVE  /\ \E w \in Workers : /\ CommitOnHand(w) /\ rid[w] = resOf[o]
                               /\ job[w].order = o /\ job[w].task = 2
         /\ Captured(o)
<1>i. FlowTypeOK /\ Inv /\ PlaceInv /\ WorkInv /\ SweepInv
  BY DEF FlowInv
<1>1. resOf[o] \in ResIds
  BY <1>i DEF FlowTypeOK
<1>2. PICK h \in Handlers : CommitOnHand(h) /\ rid[h] = resOf[o]
  <2>1. [Next]_vars
    BY <1>i, FlowServes
  <2>2. CASE \E h \in Handlers : CommitOnHand(h)
    <3>1. PICK h \in Handlers : CommitOnHand(h)
      BY <2>2
    <3>2. rid[h] # resOf[o] => sold'[resOf[o]] = sold[resOf[o]]
      BY <1>1, <1>i, <3>1 DEF CommitOnHand, Inv, TypeOK
    <3> QED
      BY <3>1, <3>2
  <2>3. CASE ~\E h \in Handlers : CommitOnHand(h)
    <3>1. UNCHANGED sold
      BY <2>1, <2>3 DEF Next, vars, historyVars, ReserveStock, ReserveHit, ReserveReject,
         ReserveGrant, ReadHash, Handler, CommitRefused, ReleaseIncr, DelReservation, DelIdem,
         ExpireReservation, ExpireIdem, Crash
    <3> QED
      BY <3>1
  <2> QED
    BY <2>2, <2>3
<1>3. pc[h] # "idle" /\ op[h] = "commit"
  BY <1>2 DEF CommitOnHand
<1>4. h \in Workers /\ phase[h] = "rpc" /\ rid[h] = resOf[job[h].order] /\ job[h].task = 2
  BY <1>3, <1>i, Slots DEF WorkInv, SweepInv
<1>5. job[h].order \in Orders
  BY <1>4, <1>i, Holding
<1>6. job[h].order = o
  BY <1>2, <1>4, <1>5, <1>i DEF PlaceInv
<1> QED
  BY <1>2, <1>4, <1>6 DEF Captured

\* An order gets past its capture by that task's transaction, or because the task
\* finds it past it already.
LEMMA CapturedMoves ==
  ASSUME FlowInv, [FlowNext]_flowVars, NEW o \in Orders, Captured(o)'
  PROVE  \/ Captured(o) \/ status'[o] = "paid"
         \/ InChain(o) /\ status[o] # "pending" /\ status'[o] = status[o]
<1>i. FlowTypeOK /\ Inv /\ PlaceInv /\ WorkInv /\ SweepInv
  BY DEF FlowInv
<1>a. NoJob.order # o
  BY Slots DEF NoJob
<1> DEFINE Goal == \/ Captured(o) \/ status'[o] = "paid"
                   \/ InChain(o) /\ status[o] # "pending" /\ status'[o] = status[o]
<1>0. CASE UNCHANGED <<queue, job, phase>>
  BY <1>0 DEF Captured
<1>1. ASSUME NEW p \in Orders, Place(p) \/ Enqueue(p) \/ EnqueueFails(p) \/ Age(p)
      PROVE  Captured(o)
  <2>1. CASE Enqueue(p)
    <3>1. \A t \in Task : t >= 2 => queue'[o][t] = queue[o][t]
      BY <1>i, <2>1 DEF Enqueue, FlowTypeOK
    <3> QED
      BY <2>1, <3>1 DEF Enqueue, Captured
  <2> QED
    BY <1>0, <1>1, <2>1 DEF Place, EnqueueFails, Age, chainVars, Captured
<1>3. ASSUME NEW w \in Workers, Work(w) \/ WorkerLost(w)
      PROVE  Goal
  <2>1. CASE Read(w)
    <3>1. CASE job[w].order = o /\ job[w].task = 1 /\ phase'[w] = "done"
      <4>1. phase[w] # "idle" /\ InChain(o)
        BY <1>i, <2>1, <3>1, Holding DEF Read
      <4>2. ~Gate(1, o)
        BY <1>i, <2>1, <3>1, Tasks DEF Read, FlowTypeOK
      <4>3. status[o] # "pending"
        BY <4>2, Tasks DEF Gate
      <4> QED
        BY <2>1, <4>1, <4>3 DEF Read, orderVars
    <3>2. CASE ~(job[w].order = o /\ job[w].task = 1 /\ phase'[w] = "done")
      <4>1. \A u \in Workers \ {w} : phase'[u] = phase[u]
        BY <1>i, <2>1 DEF Read, FlowTypeOK
      <4>2. UNCHANGED <<queue, job>> /\ phase[w] = "read" /\ phase'[w] # "ack"
        BY <1>i, <2>1 DEF Read, FlowTypeOK
      <4>3. job[w].order = o => job[w].task >= 1
        BY <1>i, <4>2, Holding, Tasks
      <4>4. job[w].order = o /\ job[w].task # 1 => job[w].task >= 2
        BY <1>i, <4>2, Holding, Tasks
      <4> QED
        BY <3>2, <4>1, <4>2, <4>4 DEF Captured
    <3> QED
      BY <3>1, <3>2
  <2>2. CASE Write(w)
    <3>1. /\ job[w].task = 1 => status'[job[w].order] = "paid"
          /\ job[w].task \in {1, 3, 4, 5} /\ \A u \in Workers \ {w} : phase'[u] = phase[u]
          /\ UNCHANGED <<queue, job>>
      BY <1>i, <2>2, WriteFacts
    <3> QED
      BY <3>1 DEF Captured
  <2>3. CASE CallCommit(w) \/ CommitAnswered(w)
    <3>1. /\ UNCHANGED <<queue, job>> /\ job[w].task = 2
          /\ \A u \in Workers \ {w} : phase'[u] = phase[u]
      BY <1>i, <2>3 DEF CallCommit, CommitAnswered, FlowTypeOK, WorkInv
    <3> QED
      BY <3>1 DEF Captured
  <2>4. CASE Serve(w)
    BY <1>0, <2>4 DEF Serve, chainVars
  <2>5. CASE CommitFailed(w) \/ TaskFails(w) \/ WorkerLost(w)
    <3> DEFINE p == job[w].order
               t == job[w].task
    <3>1. phase[w] # "idle" /\ (CommitFailed(w) => t = 2)
      BY <1>i, <2>5 DEF CommitFailed, TaskFails, WorkerLost, WorkInv
    <3>2. p \in Orders /\ t \in Task /\ t \in 1 .. 5
      BY <1>i, <3>1, Holding
    <3>3. \A q \in Orders, s \in Task : (q # p \/ s # t) => queue'[q][s] = queue[q][s]
      BY <1>i, <2>5, <3>2 DEF CommitFailed, TaskFails, WorkerLost, FlowTypeOK
    <3>4. /\ job'[w] = NoJob /\ phase'[w] = "idle"
          /\ \A u \in Workers \ {w} : phase'[u] = phase[u] /\ job'[u] = job[u]
      BY <1>i, <2>5 DEF CommitFailed, TaskFails, WorkerLost, FlowTypeOK
    <3>5. \A s \in Task : s >= 2 /\ queue'[o][s] > 0 => queue[o][s] > 0 \/ (p = o /\ t >= 2)
      BY <3>2, <3>3
    <3> HIDE DEF p, t
    <3>6. p = o /\ t >= 2 => Captured(o)
      BY DEF Captured, p, t
    <3>7. ASSUME NEW u \in Workers, job'[u].order = o PROVE u # w
      BY <1>a, <3>4, <3>7
    <3> QED
      BY <3>4, <3>5, <3>6, <3>7 DEF Captured
  <2>6. CASE Forward(w)
    <3> DEFINE p == job[w].order
    <3>1. phase[w] = "done" /\ p \in Orders
      BY <1>i, <2>6, Holding DEF Forward
    <3>2. \A q \in Orders : q # p => queue'[q] = queue[q]
      BY <1>i, <2>6, <3>1 DEF Forward, FlowTypeOK
    <3>3. /\ UNCHANGED job /\ phase'[w] = "ack"
          /\ \A u \in Workers \ {w} : phase'[u] = phase[u]
      BY <1>i, <2>6 DEF Forward, FlowTypeOK
    <3>4. p = o => Captured(o)
      BY <3>1 DEF Captured
    <3>5. CASE p # o
      <4>1. queue'[o] = queue[o]
        BY <3>2, <3>5
      <4> QED
        BY <3>3, <3>5, <4>1 DEF Captured
    <3> QED
      BY <3>4, <3>5
  <2>7. CASE Ack(w)
    <3>1. /\ UNCHANGED queue /\ job'[w] = NoJob
          /\ \A u \in Workers \ {w} : phase'[u] = phase[u] /\ job'[u] = job[u]
      BY <1>i, <2>7 DEF Ack, FlowTypeOK
    <3> QED
      BY <1>a, <3>1 DEF Captured
  <2> QED
    BY <1>3, <2>1, <2>2, <2>3, <2>4, <2>5, <2>6, <2>7 DEF Work
<1>4. ASSUME NEW w \in Workers, NEW p \in Orders, NEW t \in Task, Take(w, p, t)
      PROVE  Captured(o)
  <2>1. /\ queue[p][t] > 0 /\ job'[w] = [order |-> p, task |-> t] /\ phase'[w] = "read"
        /\ \A u \in Workers \ {w} : phase'[u] = phase[u] /\ job'[u] = job[u]
    BY <1>i, <1>4 DEF Take, FlowTypeOK
  <2>2. \A q \in Orders, s \in Task : queue[q][s] \in Nat
    BY <1>i DEF FlowTypeOK
  <2>3. \A q \in Orders, s \in Task : queue'[q][s] = queue[q][s] \/ (q = p /\ s = t)
    BY <1>i, <1>4 DEF Take, FlowTypeOK
  <2>4. \A s \in Task : queue'[o][s] > 0 => queue[o][s] > 0
    BY <2>1, <2>3
  <2>5. job'[w].order = p /\ job'[w].task = t
    BY <2>1
  <2> QED
    BY <2>1, <2>4, <2>5 DEF Captured
<1>5. ASSUME NEW x \in Sweeps, Sweep(x) \/ SweepLost(x)
      PROVE  Captured(o)
  <2>1. UNCHANGED <<queue, job, phase>>
    BY <1>5, <1>i, SweepAlone
  <2> QED
    BY <2>1 DEF Captured
<1> QED
  BY <1>0, <1>1, <1>3, <1>4, <1>5 DEF FlowNext, flowVars, chainVars, Expire

LEMMA ApartInit == FlowInit => ApartInv
<1> SUFFICES ASSUME FlowInit PROVE ApartInv
  OBVIOUS
<1>1. FlowInv
  BY FlowInvInit
<1>2. \A o \in Orders : ~Captured(o) /\ \A x \in Sweeps : ~InHand(x, o)
  BY Slots DEF FlowInit, Captured, InHand, NoJob
<1>3. HandsApart /\ PaidInv
  BY <1>2 DEF FlowInit, HandsApart, PaidInv
<1> QED
  BY <1>1, <1>3 DEF ApartInv

\* A sweep selects only orders nobody works on.
LEMMA SelectsApart ==
  ASSUME Races = FALSE, NEW x \in Sweeps, SweepSelect(x),
         NEW o \in Orders, o \in aged, status[o] = "pending"
  PROVE  ~InChain(o) /\ \A y \in Sweeps : ~InHand(y, o)
<1>1. ~InChain(o) /\ ~InSweep(o)
  BY DEF SweepSelect
<1> QED
  BY <1>1 DEF InSweep, InHand

LEMMA HandsStep ==
  ASSUME Races = FALSE
  PROVE  ApartInv /\ FlowInv' /\ [FlowNext]_flowVars => HandsApart'
<1> SUFFICES ASSUME ApartInv, FlowInv', [FlowNext]_flowVars PROVE HandsApart'
  OBVIOUS
<1>i. FlowInv /\ FlowTypeOK /\ Inv /\ PlaceInv /\ WorkInv /\ SweepInv /\ HandsApart
  BY DEF FlowInv, ApartInv
<1>a. \A o \in Orders : OrderMove(o)
  BY <1>i, OrderMoves
<1>b. \A o \in Orders : InChain(o)' => InChain(o) \/ status[o] = "none"
  BY <1>i, ChainMoves
<1>c. \A y \in Sweeps, o \in Orders : InHand(y, o)' =>
        InHand(y, o) \/ (SweepSelect(y) /\ o \in aged /\ status[o] = "pending")
  BY <1>i, HandsMove
<1>d. ASSUME NEW x \in Sweeps, SweepCommit(x), NEW o \in Orders PROVE ~InHand(x, o)'
  BY <1>d, <1>i, Slots DEF SweepCommit, SweepInv, InHand, FlowTypeOK
<1>e. ASSUME NEW x \in Sweeps, NEW o \in Orders, InHand(x, o)'
      PROVE  ~InChain(o) /\ ~InChain(o)' /\ status[o] = "pending" /\ status'[o] = "pending"
  <2>1. ~InChain(o) /\ status[o] = "pending"
    BY <1>c, <1>e, <1>i, SelectsApart DEF HandsApart
  <2>2. ~InChain(o)'
    BY <1>b, <2>1
  <2>3. status'[o] = "pending"
    <3>1. CASE status'[o] = status[o]
      BY <2>1, <3>1
    <3>2. ASSUME NEW y \in Sweeps, SweepCommit(y), o \in treated[y] PROVE FALSE
      <4>1. InHand(y, o)
        BY <3>2 DEF InHand
      <4>2. CASE InHand(x, o)
        <5>1. x = y
          BY <1>i, <4>1, <4>2 DEF HandsApart
        <5> QED
          BY <1>d, <1>e, <3>2, <5>1
      <4>3. CASE ~InHand(x, o)
        BY <1>c, <1>e, <4>1, <4>3, <2>1, SelectsApart
      <4> QED
        BY <4>2, <4>3
    <3> QED
      BY <1>a, <2>1, <3>1, <3>2 DEF OrderMove
  <2> QED
    BY <2>1, <2>2, <2>3
<1>f. ASSUME NEW x \in Sweeps, NEW y \in Sweeps, NEW o \in Orders, InHand(x, o)', InHand(y, o)'
      PROVE  x = y
  <2>1. CASE InHand(x, o) /\ InHand(y, o)
    BY <1>i, <2>1 DEF HandsApart
  <2>2. CASE SweepSelect(x) /\ SweepSelect(y)
    BY <1>i, <2>2 DEF SweepSelect, FlowTypeOK
  <2>3. CASE ~(InHand(x, o) /\ InHand(y, o)) /\ ~(SweepSelect(x) /\ SweepSelect(y))
    BY <1>c, <1>f, <2>3, SelectsApart
  <2> QED
    BY <2>1, <2>2, <2>3
<1>g. ASSUME NEW o \in Orders, status'[o] = "cancelled" PROVE ~InChain(o)'
  <2>1. status[o] # "none" /\ ~InChain(o)
    <3>1. CASE status[o] = "cancelled"
      BY <1>i, <3>1 DEF HandsApart
    <3>2. CASE \E x \in Sweeps : o \in treated[x]
      BY <1>i, <3>2 DEF HandsApart, InHand
    <3> QED
      BY <1>a, <1>g, <3>1, <3>2 DEF OrderMove
  <2> QED
    BY <1>b, <2>1
<1> QED
  BY <1>e, <1>f, <1>g DEF HandsApart

LEMMA PaidStep ==
  ASSUME Races = FALSE
  PROVE  ApartInv /\ FlowInv' /\ [FlowNext]_flowVars => PaidInv'
<1> SUFFICES ASSUME ApartInv, FlowInv', [FlowNext]_flowVars PROVE PaidInv'
  OBVIOUS
<1>i. /\ FlowInv /\ FlowTypeOK /\ Inv /\ CallInv /\ PlaceInv /\ WorkInv /\ SweepInv
      /\ HandsApart /\ PaidInv
  BY DEF FlowInv, ApartInv
<1>t. \A o \in Orders : status[o] \in Statuses
  BY <1>i DEF FlowTypeOK
<1> SUFFICES ASSUME NEW o \in Orders
    PROVE  /\ Captured(o)' \/ payment'[o] = "captured" => status'[o] \in {"paid", "fulfilling"}
           /\ resOf'[o] # Absent /\ sold'[resOf'[o]] # 0 => status'[o] \in {"paid", "fulfilling"}
           /\ status'[o] # "none" => payment'[o] \in {"initiated", "captured"}
  BY DEF PaidInv
<1>a. OrderMove(o)
  BY <1>i, OrderMoves
<1>1. status[o] \in {"paid", "fulfilling"} => status'[o] \in {"paid", "fulfilling"}
  <2>1. status[o] \in {"paid", "fulfilling"} => \A x \in Sweeps : o \notin treated[x]
    BY <1>i DEF HandsApart, InHand
  <2> QED
    BY <1>a, <2>1 DEF OrderMove
<1>2. Captured(o)' => status'[o] \in {"paid", "fulfilling"}
  <2>1. CASE Captured(o)
    BY <1>1, <1>i, <2>1 DEF PaidInv
  <2>2. CASE InChain(o) /\ status[o] # "pending" /\ status'[o] = status[o]
    <3>1. status[o] \notin {"none", "cancelled"}
      BY <1>i, <2>2 DEF HandsApart, PlaceInv
    <3> QED
      BY <1>t, <2>2, <3>1 DEF Statuses
  <2> QED
    BY <1>i, <2>1, <2>2, CapturedMoves
<1>3. payment'[o] = "captured" => status'[o] \in {"paid", "fulfilling"}
  BY <1>1, <1>a, <1>i DEF OrderMove, PaidInv
<1>4. status'[o] # "none" => payment'[o] \in {"initiated", "captured"}
  <2>1. InChain(o) \/ (\E x \in Sweeps : o \in treated[x]) => status[o] # "none"
    BY <1>i DEF PlaceInv, InHand
  <2> QED
    BY <1>a, <1>i, <2>1 DEF OrderMove, PaidInv
<1>5. ASSUME resOf'[o] # Absent, sold'[resOf'[o]] # 0 PROVE status'[o] \in {"paid", "fulfilling"}
  <2>1. CASE Place(o)
    <3>1. resOf'[o] \in ResIds \ issued /\ UNCHANGED sold
      BY <1>i, <2>1, PlaceFacts
    <3> QED
      BY <1>i, <1>5, <3>1 DEF CallInv
  <2>2. CASE resOf'[o] = resOf[o]
    <3>1. CASE sold'[resOf[o]] = sold[resOf[o]]
      BY <1>1, <1>5, <1>i, <2>2, <3>1 DEF PaidInv
    <3>2. CASE sold'[resOf[o]] # sold[resOf[o]]
      BY <1>1, <1>5, <1>i, <2>2, <3>2, SoldBy DEF PaidInv
    <3> QED
      BY <3>1, <3>2
  <2> QED
    BY <1>a, <2>1, <2>2 DEF OrderMove
<1> QED
  BY <1>2, <1>3, <1>4, <1>5

LEMMA ApartStep ==
  ASSUME Races = FALSE
  PROVE  ApartInv /\ [FlowNext]_flowVars => ApartInv'
<1> SUFFICES ASSUME ApartInv, [FlowNext]_flowVars PROVE ApartInv'
  OBVIOUS
<1>1. FlowInv'
  BY FlowInvStep DEF ApartInv
<1> QED
  BY <1>1, HandsStep, PaidStep DEF ApartInv

\* A refund is counted when a sweep's treatment of the order ends; what a sweep has
\* treated it cancels, or forgets when it dies.
LEMMA RefundMoves ==
  ASSUME FlowInv, [FlowNext]_flowVars, NEW o \in Orders
  PROVE  /\ \/ refunds'[o] = refunds[o]
            \/ \E x \in Sweeps : /\ SweepRefund(x) /\ current[x] = o /\ o \in treated'[x]
                                 /\ refunds'[o] = refunds[o] + 1
         /\ \/ lost' = lost
            \/ lost' = lost + 1 /\ refunds'[o] = refunds[o]
         /\ lost' = lost =>
              \A x \in Sweeps : o \in treated[x] => o \in treated'[x] \/ status'[o] = "cancelled"
<1>i. FlowTypeOK /\ Inv /\ SweepInv
  BY DEF FlowInv
<1>0. CASE UNCHANGED <<refunds, treated, lost>>
  BY <1>0
<1>1. ASSUME NEW w \in Workers, Work(w) \/ WorkerLost(w)
      PROVE  UNCHANGED <<refunds, treated>> /\ (lost' = lost \/ lost' = lost + 1)
  <2>1. UNCHANGED <<refunds, treated>>
    BY <1>1, <1>i, WorkerAlone
  <2> QED
    BY <1>1, <2>1 DEF Work, WorkerLost, Read, Write, CallCommit, Serve, CommitAnswered,
                      CommitFailed, TaskFails, Forward, Ack, chainVars
<1>2. ASSUME NEW x \in Sweeps, SweepRefund(x)
      PROVE  /\ refunds'[o] = refunds[o] \/ (current[x] = o /\ refunds'[o] = refunds[o] + 1)
             /\ current[x] \in treated'[x]
             /\ lost' = lost /\ \A y \in Sweeps : treated[y] \subseteq treated'[y]
  BY <1>2, <1>i DEF SweepRefund, chainVars, FlowTypeOK
<1>3. ASSUME NEW x \in Sweeps, SweepCommit(x)
      PROVE  /\ lost' = lost /\ UNCHANGED refunds
             /\ \A y \in Sweeps \ {x} : treated[y] = treated'[y]
             /\ \A p \in treated[x] : p \in Orders => status'[p] = "cancelled"
  BY <1>3, <1>i DEF SweepCommit, chainVars, FlowTypeOK
<1>4. ASSUME NEW x \in Sweeps, SweepLost(x)
      PROVE  lost' = lost + 1 /\ UNCHANGED refunds /\ lost' # lost
  BY <1>4, <1>i DEF SweepLost, FlowTypeOK
<1>5. ASSUME NEW x \in Sweeps, Sweep(x), ~SweepRefund(x), ~SweepCommit(x)
      PROVE  UNCHANGED <<refunds, treated, lost>>
  BY <1>5 DEF Sweep, SweepSelect, SweepRelease, Serve, ReleaseAnswered, chainVars, sweepVars
<1>6. CASE \E w \in Workers : Work(w) \/ WorkerLost(w)
  BY <1>1, <1>6
<1>7. CASE \E x \in Sweeps : Sweep(x) \/ SweepLost(x)
  BY <1>2, <1>3, <1>4, <1>5, <1>7
<1> QED
  BY <1>0, <1>6, <1>7
     DEF FlowNext, flowVars, sweepVars, chainVars, Place, Enqueue, EnqueueFails, Age, Expire, Take

LEMMA RefundStep == ApartInv /\ ApartInv' /\ RefundInv /\ [FlowNext]_flowVars => RefundInv'
<1> SUFFICES ASSUME ApartInv, ApartInv', RefundInv, [FlowNext]_flowVars, NEW o \in Orders
             PROVE  refunds'[o] <= lost' + IF status'[o] = "cancelled" \/ \E x \in Sweeps : o \in treated'[x]
                                           THEN 1 ELSE 0
  BY DEF RefundInv
<1>i. FlowInv /\ FlowTypeOK /\ SweepInv /\ HandsApart /\ PlaceInv
  BY DEF ApartInv, FlowInv
<1>t. refunds[o] \in Nat /\ lost \in Nat
  BY <1>i DEF FlowTypeOK
<1> DEFINE Void == status[o] = "cancelled" \/ \E x \in Sweeps : o \in treated[x]
<1>1. refunds[o] <= lost + (IF Void THEN 1 ELSE 0)
  BY DEF RefundInv
<1>2. status[o] = "cancelled" => status'[o] = "cancelled"
  <2>1. status[o] = "cancelled" => ~InChain(o) /\ \A x \in Sweeps : o \notin treated[x]
    BY <1>i DEF HandsApart, InHand
  <2> QED
    BY <1>i, <2>1, OrderMoves DEF OrderMove
<1>3. CASE lost' = lost /\ refunds'[o] = refunds[o]
  <2>1. Void => Void'
    BY <1>2, <1>3, <1>i, RefundMoves
  <2>2. refunds[o] <= lost + (IF Void' THEN 1 ELSE 0)
    BY <1>1, <1>t, <2>1
  <2> QED
    BY <1>3, <2>2
<1>4. CASE lost' = lost + 1 /\ refunds'[o] = refunds[o]
  BY <1>1, <1>4, <1>t
<1>5. ASSUME NEW x \in Sweeps, current[x] = o, o \in treated'[x], refunds'[o] = refunds[o] + 1,
             lost' = lost
      PROVE  refunds'[o] <= lost' + (IF Void' THEN 1 ELSE 0)
  <2>1. status[o] = "pending" /\ \A y \in Sweeps : o \notin treated[y]
    BY <1>5, <1>i DEF HandsApart, InHand, SweepInv
  <2>2. refunds[o] <= lost
    BY <1>1, <1>t, <2>1
  <2> QED
    BY <1>5, <1>t, <2>2
<1>6. refunds[o] + 1 # refunds[o]
  BY <1>t
<1> QED
  BY <1>3, <1>4, <1>5, <1>6, <1>i, RefundMoves

\* A cancelled order was never charged, no unit of it left the warehouse, and its
\* user's allowance was given back at most once more than sweeps died: no order of
\* steps of a sweep, of other sweeps and of a redelivered chain can undo that.
THEOREM CancelledOrdersAreVoid ==
  ASSUME Races = FALSE
  PROVE  FlowSpec => []CancelledIsVoid
<1>1. FlowInit => RefundInv
  BY DEF FlowInit, RefundInv
<1>2. ApartInv /\ RefundInv => CancelledIsVoid
  <2> SUFFICES ASSUME ApartInv, RefundInv, NEW o \in Orders, status[o] = "cancelled"
               PROVE  payment[o] = "initiated" /\ sold[resOf[o]] = 0 /\ refunds[o] <= 1 + lost
    BY DEF CancelledIsVoid
  <2>1. payment[o] = "initiated" /\ sold[resOf[o]] = 0
    BY DEF ApartInv, FlowInv, PaidInv, PlaceInv
  <2>2. refunds[o] <= lost + 1 /\ refunds[o] \in Nat /\ lost \in Nat
    BY DEF RefundInv, ApartInv, FlowInv, FlowTypeOK
  <2> QED
    BY <2>1, <2>2
<1>3. ApartInv /\ [FlowNext]_flowVars => ApartInv'
  BY ApartStep
<1> QED
  BY <1>1, <1>2, <1>3, ApartInit, RefundStep, PTL DEF FlowSpec

\* What was sold stays sold.
LEMMA SoldGrows ==
  ASSUME Inv, [Next]_vars, NEW r \in ResIds, sold[r] >= 1
  PROVE  sold'[r] >= 1
<1>1. sold[r] \in Nat
  BY DEF Inv, TypeOK
<1>2. ASSUME NEW h \in Handlers, CommitOnHand(h) PROVE sold'[r] \in {sold[r], sold[r] + 1}
  BY <1>1, <1>2 DEF Inv, TypeOK, CommitOnHand
<1>3. CASE \E h \in Handlers : CommitOnHand(h)
  BY <1>1, <1>2, <1>3
<1>4. CASE ~\E h \in Handlers : CommitOnHand(h)
  BY <1>4 DEF Next, vars, historyVars, ReserveStock, ReserveHit, ReserveReject, ReserveGrant,
     ReadHash, Handler, CommitRefused, ReleaseIncr, DelReservation, DelIdem, ExpireReservation,
     ExpireIdem, Crash
<1> QED
  BY <1>3, <1>4

\* The hash of an order is written when the order is placed; it goes by its TTL, or
\* because a call on it deletes it.
LEMMA HashMoves ==
  ASSUME FlowInv, [FlowNext]_flowVars, NEW o \in Orders, resOf[o] # Absent
  PROVE  \/ reservation'[resOf[o]] = reservation[resOf[o]]
         \/ Expire /\ ExpireReservation(resOf[o]) /\ (Races \/ ~InChain(o))
         \/ \E h \in Handlers : DelReservation(h) /\ rid[h] = resOf[o]
<1>i. FlowTypeOK /\ Inv /\ PlaceInv
  BY DEF FlowInv
<1>r. resOf[o] \in ResIds /\ resOf[o] \in issued
  BY <1>i DEF FlowTypeOK, PlaceInv
<1>0. CASE UNCHANGED reservation
  BY <1>0
<1>1. ASSUME NEW p \in Orders, Place(p) PROVE reservation'[resOf[o]] = reservation[resOf[o]]
  BY <1>1, <1>i, <1>r, PlaceFacts
<1>2. ASSUME NEW h \in Handlers, Serve(h)
      PROVE  \/ reservation'[resOf[o]] = reservation[resOf[o]]
             \/ DelReservation(h) /\ rid[h] = resOf[o]
  BY <1>2, <1>i, <1>r DEF Serve, CommitOnHand, ReleaseIncr, DelReservation, redisVars, Inv, TypeOK
<1>3. CASE Expire
  <2>1. CASE \E k \in Keys : ExpireIdem(k)
    BY <1>0, <2>1 DEF ExpireIdem
  <2>2. ASSUME NEW r \in ResIds, Races \/ \A q \in Orders : resOf[q] = r => ~InChain(q),
               ExpireReservation(r)
        PROVE  \/ reservation'[resOf[o]] = reservation[resOf[o]]
               \/ ExpireReservation(resOf[o]) /\ (Races \/ ~InChain(o))
    <3>1. CASE r = resOf[o]
      BY <2>2, <3>1
    <3>2. CASE r # resOf[o]
      BY <2>2, <3>2, <1>i, <1>r DEF ExpireReservation, Inv, TypeOK
    <3> QED
      BY <3>1, <3>2
  <2> QED
    BY <1>3, <2>1, <2>2 DEF Expire
<1>4. ASSUME NEW w \in Workers, Work(w) \/ WorkerLost(w), ~Serve(w) PROVE UNCHANGED reservation
  <2>1. CASE UNCHANGED vars
    BY <2>1 DEF vars, redisVars
  <2>2. CASE \E r : ReadHash(w, "commit", r)
    BY <1>i, <2>2, SlotOfReader, Slots
  <2>3. CASE DelIdem(w) \/ CommitRefused(w) \/ Crash(w)
    BY <1>i, <2>3, SlotOfEnded, Slots
  <2> QED
    BY <1>4, <2>1, <2>2, <2>3
       DEF Work, WorkerLost, Read, Write, CallCommit, CommitAnswered, CommitFailed, TaskFails, Forward, Ack
<1>5. ASSUME NEW x \in Sweeps, Sweep(x) \/ SweepLost(x), ~Serve(x) PROVE UNCHANGED reservation
  <2>1. CASE UNCHANGED vars
    BY <2>1 DEF vars, redisVars
  <2>2. CASE \E r : ReadHash(x, "release", r)
    BY <1>i, <2>2, SlotOfReader, Slots
  <2>3. CASE DelIdem(x) \/ Crash(x)
    BY <1>i, <2>3, SlotOfEnded, Slots
  <2> QED
    BY <1>5, <2>1, <2>2, <2>3
       DEF Sweep, SweepLost, SweepSelect, SweepRelease, ReleaseAnswered, SweepRefund, SweepCommit
<1>6. CASE \E w \in Workers : Work(w) \/ WorkerLost(w)
  BY <1>0, <1>2, <1>4, <1>6, Slots
<1>7. CASE \E x \in Sweeps : Sweep(x) \/ SweepLost(x)
  BY <1>0, <1>2, <1>5, <1>7, Slots
<1> QED
  BY <1>0, <1>1, <1>3, <1>6, <1>7
     DEF FlowNext, flowVars, vars, redisVars, Enqueue, EnqueueFails, Age, Take

\* The call that deletes an order's hash is the one its worker or its sweep waits for.
LEMMA CallerOf ==
  ASSUME FlowInv, NEW h \in Handlers, pc[h] # "idle", NEW o \in Orders, rid[h] = resOf[o],
         resOf[o] # Absent
  PROVE  \/ /\ h \in Workers /\ phase[h] = "rpc" /\ op[h] = "commit"
            /\ job[h].order = o /\ job[h].task = 2 /\ InChain(o)
         \/ /\ h \in Sweeps /\ sweepAt[h] = "rpc" /\ op[h] = "release"
            /\ current[h] = o /\ InHand(h, o)
<1>i. FlowTypeOK /\ WorkInv /\ SweepInv /\ PlaceInv
  BY DEF FlowInv
<1>1. CASE h \in Workers
  <2>1. /\ phase[h] = "rpc" /\ op[h] = "commit" /\ rid[h] = resOf[job[h].order]
        /\ job[h].task = 2
    BY <1>1, <1>i DEF WorkInv
  <2>2. job[h].order \in Orders /\ InChain(job[h].order)
    BY <1>1, <1>i, <2>1, Holding
  <2>3. job[h].order = o
    BY <1>i, <2>1, <2>2 DEF PlaceInv
  <2> QED
    BY <1>1, <2>1, <2>2, <2>3
<1>2. CASE h \in Sweeps
  <2>1. /\ sweepAt[h] = "rpc" /\ op[h] = "release" /\ rid[h] = resOf[current[h]]
        /\ current[h] \in Orders
    BY <1>2, <1>i DEF SweepInv
  <2>2. current[h] = o
    BY <1>i, <2>1 DEF PlaceInv
  <2> QED
    BY <1>2, <2>1, <2>2 DEF InHand
<1> QED
  BY <1>1, <1>2, Slots

\* The ways past the commit: the answer of the call, a hash that is gone, a gate that
\* is closed.
LEMMA CommittedMoves ==
  ASSUME FlowInv, [FlowNext]_flowVars, NEW o \in Orders, Committed(o)'
  PROVE  \/ Committed(o)
         \/ \E w \in Workers : job[w].order = o /\ CommitAnswered(w)
         \/ InChain(o) /\ resOf[o] # Absent /\ reservation[resOf[o]] = Absent
         \/ InChain(o) /\ status[o] \notin {"paid", "pending"}
<1>i. FlowTypeOK /\ Inv /\ PlaceInv /\ WorkInv /\ SweepInv
  BY DEF FlowInv
<1>a. NoJob.order # o
  BY Slots DEF NoJob
<1>s. status'[o] = "fulfilling" => Committed(o)
  <2>1. OrderMove(o)
    BY OrderMoves
  <2>2. ASSUME NEW w \in Workers, job[w].order = o, job[w].task = 5 PROVE Committed(o)
    BY <2>2 DEF Committed
  <2> QED
    BY <2>1, <2>2 DEF OrderMove, Committed
<1>0. CASE UNCHANGED <<queue, job, phase>>
  BY <1>0, <1>s DEF Committed
<1>1. ASSUME NEW p \in Orders, Place(p) \/ Enqueue(p) \/ EnqueueFails(p) \/ Age(p)
      PROVE  Committed(o)
  <2>1. CASE Enqueue(p)
    <3>1. \A t \in Task : t >= 3 => queue'[o][t] = queue[o][t]
      BY <1>i, <2>1 DEF Enqueue, FlowTypeOK
    <3> QED
      BY <1>s, <2>1, <3>1 DEF Enqueue, Committed
  <2> QED
    BY <1>s, <1>1, <2>1 DEF Place, EnqueueFails, Age, chainVars, Committed
<1>3. ASSUME NEW w \in Workers, Work(w) \/ WorkerLost(w)
      PROVE  \/ Committed(o)
             \/ \E u \in Workers : job[u].order = o /\ CommitAnswered(u)
             \/ InChain(o) /\ resOf[o] # Absent /\ reservation[resOf[o]] = Absent
             \/ InChain(o) /\ status[o] \notin {"paid", "pending"}
  <2>1. CASE Read(w)
    <3>0. /\ phase[w] = "read" /\ UNCHANGED <<queue, job>> /\ phase'[w] # "ack"
          /\ phase'[w] = "done" => ~Gate(job[w].task, job[w].order)
          /\ \A u \in Workers \ {w} : phase'[u] = phase[u]
      BY <1>i, <2>1 DEF Read, FlowTypeOK
    <3>1. CASE job[w].order = o /\ job[w].task = 2 /\ phase'[w] = "done"
      <4>1. InChain(o)
        BY <1>i, <3>0, <3>1, Holding
      <4>2. ~Gate(2, o)
        BY <3>0, <3>1
      <4>3. status[o] \notin {"paid", "pending"}
        BY <4>2, Tasks DEF Gate
      <4> QED
        BY <4>1, <4>3
    <3>2. CASE ~(job[w].order = o /\ job[w].task = 2 /\ phase'[w] = "done")
      BY <1>s, <3>0, <3>2 DEF Committed
    <3> QED
      BY <3>1, <3>2
  <2>2. CASE Write(w)
    <3>1. /\ job[w].task \in {1, 3, 4, 5} /\ \A u \in Workers \ {w} : phase'[u] = phase[u]
          /\ UNCHANGED <<queue, job>>
      BY <1>i, <2>2, WriteFacts
    <3> QED
      BY <1>s, <3>1 DEF Committed
  <2>3. CASE CallCommit(w)
    <3>1. /\ UNCHANGED <<queue, job>> /\ job[w].task = 2 /\ phase[w] # "idle"
          /\ phase'[w] = IF reservation[resOf[job[w].order]] = Absent THEN "done" ELSE "rpc"
          /\ \A u \in Workers \ {w} : phase'[u] = phase[u]
      BY <1>i, <2>3 DEF CallCommit, FlowTypeOK, WorkInv
    <3>2. CASE job[w].order = o /\ reservation[resOf[o]] = Absent
      <4>1. InChain(o)
        BY <1>i, <3>1, <3>2, Holding
      <4> QED
        BY <1>i, <3>2, <4>1 DEF PlaceInv
    <3>3. CASE ~(job[w].order = o /\ reservation[resOf[o]] = Absent)
      BY <1>s, <3>1, <3>3 DEF Committed
    <3> QED
      BY <3>2, <3>3
  <2>4. CASE Serve(w)
    BY <1>0, <2>4 DEF Serve, chainVars
  <2>5. CASE CommitFailed(w) \/ TaskFails(w) \/ WorkerLost(w)
    <3> DEFINE p == job[w].order
               t == job[w].task
    <3>1. phase[w] # "idle" /\ (CommitFailed(w) => t = 2)
      BY <1>i, <2>5 DEF CommitFailed, TaskFails, WorkerLost, WorkInv
    <3>2. p \in Orders /\ t \in Task /\ t \in 1 .. 5
      BY <1>i, <3>1, Holding
    <3>3. \A q \in Orders, s \in Task : (q # p \/ s # t) => queue'[q][s] = queue[q][s]
      BY <1>i, <2>5, <3>2 DEF CommitFailed, TaskFails, WorkerLost, FlowTypeOK
    <3>4. /\ job'[w] = NoJob /\ phase'[w] = "idle"
          /\ \A u \in Workers \ {w} : phase'[u] = phase[u] /\ job'[u] = job[u]
      BY <1>i, <2>5 DEF CommitFailed, TaskFails, WorkerLost, FlowTypeOK
    <3>5. \A s \in Task : s >= 3 /\ queue'[o][s] > 0 => queue[o][s] > 0 \/ (p = o /\ t >= 3)
      BY <3>2, <3>3
    <3> HIDE DEF p, t
    <3>6. p = o /\ t >= 3 => Committed(o)
      BY DEF Committed, p, t
    <3>7. ASSUME NEW u \in Workers, job'[u].order = o PROVE u # w
      BY <1>a, <3>4, <3>7
    <3> QED
      BY <1>s, <3>4, <3>5, <3>6, <3>7 DEF Committed
  <2>6. CASE Forward(w)
    <3> DEFINE p == job[w].order
               t == job[w].task
    <3>1. phase[w] = "done" /\ p \in Orders /\ t \in 1 .. 5
      BY <1>i, <2>6, Holding DEF Forward
    <3>2. \A q \in Orders, s \in Task : (q # p \/ s # t + 1) => queue'[q][s] = queue[q][s]
      BY <1>i, <2>6, <3>1 DEF Forward, FlowTypeOK
    <3>3. /\ UNCHANGED job /\ phase'[w] = "ack"
          /\ \A u \in Workers \ {w} : phase'[u] = phase[u]
      BY <1>i, <2>6 DEF Forward, FlowTypeOK
    <3>4. p = o /\ t >= 2 => Committed(o)
      BY <3>1 DEF Committed
    <3>5. \A s \in Task : s >= 3 /\ queue'[o][s] > 0 => queue[o][s] > 0 \/ (p = o /\ t >= 2)
      BY <3>1, <3>2
    <3> QED
      BY <1>s, <3>1, <3>3, <3>4, <3>5 DEF Committed
  <2>7. CASE Ack(w)
    <3>1. /\ UNCHANGED queue /\ job'[w] = NoJob
          /\ \A u \in Workers \ {w} : phase'[u] = phase[u] /\ job'[u] = job[u]
      BY <1>i, <2>7 DEF Ack, FlowTypeOK
    <3> QED
      BY <1>a, <1>s, <3>1 DEF Committed
  <2>8. CASE CommitAnswered(w)
    <3>1. CASE job[w].order = o
      BY <2>8, <3>1
    <3>2. CASE job[w].order # o
      <4>1. /\ UNCHANGED <<queue, job>>
            /\ \A u \in Workers \ {w} : phase'[u] = phase[u]
        BY <1>i, <2>8 DEF CommitAnswered, FlowTypeOK
      <4> QED
        BY <1>s, <3>2, <4>1 DEF Committed
    <3> QED
      BY <3>1, <3>2
  <2> QED
    BY <1>3, <2>1, <2>2, <2>3, <2>4, <2>5, <2>6, <2>7, <2>8 DEF Work
<1>4. ASSUME NEW w \in Workers, NEW p \in Orders, NEW t \in Task, Take(w, p, t)
      PROVE  Committed(o)
  <2>1. /\ queue[p][t] > 0 /\ job'[w] = [order |-> p, task |-> t] /\ phase'[w] = "read"
        /\ \A u \in Workers \ {w} : phase'[u] = phase[u] /\ job'[u] = job[u]
    BY <1>i, <1>4 DEF Take, FlowTypeOK
  <2>2. \A q \in Orders, s \in Task : queue[q][s] \in Nat
    BY <1>i DEF FlowTypeOK
  <2>3. \A q \in Orders, s \in Task : queue'[q][s] = queue[q][s] \/ (q = p /\ s = t)
    BY <1>i, <1>4 DEF Take, FlowTypeOK
  <2>4. \A s \in Task : queue'[o][s] > 0 => queue[o][s] > 0
    BY <2>1, <2>3
  <2>5. job'[w].order = p /\ job'[w].task = t
    BY <2>1
  <2> QED
    BY <1>s, <2>1, <2>4, <2>5 DEF Committed
<1>5. ASSUME NEW x \in Sweeps, Sweep(x) \/ SweepLost(x)
      PROVE  Committed(o)
  <2>1. UNCHANGED <<queue, job, phase>>
    BY <1>5, <1>i, SweepAlone
  <2> QED
    BY <1>s, <2>1 DEF Committed
<1>6. CASE Expire
  BY <1>0, <1>6 DEF Expire, chainVars
<1>7. CASE UNCHANGED flowVars
  BY <1>0, <1>7 DEF flowVars, chainVars
<1> QED
  BY <1>1, <1>3, <1>4, <1>5, <1>6, <1>7 DEF FlowNext

\* The statuses of orders in a chain.
LEMMA ChainStatus ==
  ASSUME ApartInv, NEW o \in Orders, InChain(o)
  PROVE  status[o] \in {"pending", "paid", "fulfilling"} /\ resOf[o] \in ResIds /\ resOf[o] # Absent
BY Slots DEF ApartInv, FlowInv, FlowTypeOK, Statuses, PlaceInv, HandsApart

LEMMA CommitStep ==
  ASSUME Races = FALSE
  PROVE  ApartInv /\ FlowInv' /\ CommitInv /\ [FlowNext]_flowVars => CommitInv'
<1> SUFFICES ASSUME ApartInv, FlowInv', CommitInv, [FlowNext]_flowVars, NEW o \in Orders
             PROVE  /\ Committed(o)' => sold'[resOf'[o]] >= 1
                    /\ InChain(o)' /\ reservation'[resOf'[o]] = Absent => sold'[resOf'[o]] >= 1
  BY DEF CommitInv
<1>i. /\ FlowInv /\ FlowTypeOK /\ Inv /\ CallInv /\ PlaceInv /\ WorkInv /\ SweepInv /\ HandsApart
  BY DEF ApartInv, FlowInv
<1>n. [Next]_vars
  BY <1>i, FlowServes
<1>1. CASE Place(o)
  <2>1. ~Committed(o)'
    <3>1. /\ ~InChain(o) /\ status'[o] = "pending" /\ UNCHANGED <<queue, job, phase>>
      BY <1>i, <1>1, PlaceFacts
    <3> QED
      BY <3>1 DEF InChain, Committed
  <2>2. reservation'[resOf'[o]] # Absent
    <3>1. reservation'[resOf'[o]] = [items |-> Basket[o], idem_key |-> KeyOf[o]]
      BY <1>i, <1>1, PlaceFacts
    <3>2. [items |-> Basket[o], idem_key |-> KeyOf[o]] \in Hash
      BY FulfilmentAssumption DEF Hash
    <3> QED
      BY <3>1, <3>2, VariantsAssumption
  <2> QED
    BY <2>1, <2>2
<1>2. CASE resOf'[o] = resOf[o]
  <2>1. ASSUME resOf[o] \in ResIds, sold[resOf[o]] >= 1 PROVE sold'[resOf[o]] >= 1
    BY <1>i, <1>n, <2>1, SoldGrows
  <2>2. Committed(o) \/ InChain(o) => resOf[o] \in ResIds /\ resOf[o] # Absent
    <3>1. Committed(o) => InChain(o) \/ status[o] = "fulfilling"
      <4>1. \A t \in Task : queue[o][t] \in Nat
        BY <1>i DEF FlowTypeOK
      <4> QED
        BY <4>1 DEF Committed, InChain
    <3>2. InChain(o) \/ status[o] = "fulfilling" => status[o] # "none"
      BY <1>i DEF PlaceInv
    <3> QED
      BY <1>i, <3>1, <3>2, Slots DEF PlaceInv, FlowTypeOK
  <2>3. ASSUME InChain(o), reservation[resOf[o]] = Absent PROVE sold[resOf[o]] >= 1
    BY <2>3 DEF CommitInv
  <2>4. ASSUME Committed(o) PROVE sold[resOf[o]] >= 1
    BY <2>4 DEF CommitInv
  <2>5. ASSUME Committed(o)' PROVE sold'[resOf[o]] >= 1
    <3>1. CASE Committed(o)
      BY <2>1, <2>2, <2>4, <3>1
    <3>2. ASSUME NEW w \in Workers, job[w].order = o, CommitAnswered(w)
          PROVE  sold'[resOf[o]] >= 1
      <4>1. phase[w] = "rpc" /\ pc[w] = "delIdem" /\ w \in Handlers
        BY <3>2, Slots DEF CommitAnswered, DelIdem
      <4>2. op[w] = "commit" /\ rid[w] = resOf[o]
        BY <1>i, <3>2, <4>1 DEF WorkInv
      <4>3. sold[resOf[o]] >= 1
        BY <1>i, <4>1, <4>2 DEF CallInv, Active
      <4>4. InChain(o)
        BY <3>2 DEF InChain
      <4> QED
        BY <2>1, <2>2, <4>3, <4>4
    <3>3. CASE InChain(o) /\ resOf[o] # Absent /\ reservation[resOf[o]] = Absent
      BY <2>1, <2>2, <2>3, <3>3
    <3>4. CASE InChain(o) /\ status[o] \notin {"paid", "pending"}
      <4>1. status[o] = "fulfilling"
        BY <3>4, ChainStatus
      <4> QED
        BY <2>1, <2>2, <2>4, <4>1 DEF Committed
    <3> QED
      BY <1>i, <2>5, <3>1, <3>2, <3>3, <3>4, CommittedMoves
  <2>6. ASSUME InChain(o)', reservation'[resOf[o]] = Absent PROVE sold'[resOf[o]] >= 1
    <3>1. InChain(o)
      <4>1. InChain(o) \/ status[o] = "none"
        BY <1>i, <2>6, ChainMoves
      <4>2. resOf'[o] # Absent
        BY <2>6 DEF FlowInv, PlaceInv
      <4> QED
        BY <1>2, <1>i, <4>1, <4>2 DEF PlaceInv
    <3>2. CASE reservation[resOf[o]] = Absent
      BY <2>1, <2>2, <2>3, <3>1, <3>2
    <3>3. CASE reservation[resOf[o]] # Absent
      <4>1. PICK h \in Handlers : DelReservation(h) /\ rid[h] = resOf[o]
        BY <1>i, <2>2, <2>6, <3>1, <3>3, HashMoves
      <4>2. pc[h] = "delReservation" /\ pc[h] # "idle"
        BY <4>1 DEF DelReservation
      <4>3. op[h] = "commit"
        BY <1>i, <2>2, <3>1, <4>1, <4>2, CallerOf DEF HandsApart
      <4>4. sold[resOf[o]] >= 1
        BY <1>i, <4>1, <4>2, <4>3 DEF CallInv, Active
      <4> QED
        BY <2>1, <2>2, <3>1, <4>4
    <3> QED
      BY <3>2, <3>3
  <2> QED
    BY <1>2, <2>5, <2>6
<1> QED
  BY <1>1, <1>2, <1>i, OrderMoves DEF OrderMove

\* No order reaches the warehouse before its units were taken from on hand: whatever
\* workers die, RPCs fail and messages are redelivered on however many workers.
THEOREM DispatchedOrdersAreSold ==
  ASSUME Races = FALSE
  PROVE  FlowSpec => []DispatchedIsSold
<1>1. FlowInit => CommitInv
  <2> SUFFICES ASSUME FlowInit, NEW o \in Orders PROVE ~Committed(o) /\ ~InChain(o)
    BY DEF CommitInv
  <2> QED
    BY Slots DEF FlowInit, Committed, InChain, NoJob
<1>2. CommitInv => DispatchedIsSold
  BY DEF CommitInv, Committed, DispatchedIsSold
<1>3. ApartInv /\ [FlowNext]_flowVars => ApartInv'
  BY ApartStep
<1>4. ApartInv /\ ApartInv' /\ CommitInv /\ [FlowNext]_flowVars => CommitInv'
  BY CommitStep DEF ApartInv
<1> QED
  BY <1>1, <1>2, <1>3, <1>4, ApartInit, PTL DEF FlowSpec

-----------------------------------------------------------------------------
(* Copies of a chain on any number of workers, whatever else happens.      *)

Total(q) == q[1] + q[2] + q[3] + q[4] + q[5]

\* The workers that hold a message of order o and have not passed it on.
Copying(o) == {w \in Workers : job[w].order = o /\ phase[w] # "ack"}

Copies(o) == Total(queue[o]) + Cardinality(Copying(o))

\* A chain starts once, and only the death of a process adds a copy.
CopiesInv == \A o \in Orders : Copies(o) <= lost + IF handoff[o] = "done" THEN 1 ELSE 0

\* The workers about to invoice order o, to sell its units, and to delete its hash.
Invoicing(o) == {w \in Workers : job[w].order = o /\ job[w].task = 3 /\ phase[w] = "write"}

Selling(o) == {w \in Workers : job[w].order = o /\ pc[w] = "apply"}

Dropping(o) == {w \in Workers : job[w].order = o /\ pc[w] = "delReservation"}

\* Who will invoice is counted with who did: as many as found no invoice.
InvoiceInv ==
  \A o \in Orders : /\ invoices[o] + Cardinality(Invoicing(o)) <= 1 + lost
                    /\ invoices[o] + Cardinality(Invoicing(o)) <= Cardinality(Workers)

\* So it is with sales; while the hash is there, whoever sold is about to delete it or
\* has died.
SaleInv ==
  \A o \in Orders : resOf[o] # Absent =>
    /\ reservation[resOf[o]] # Absent =>
         sold[resOf[o]] <= Cardinality(Dropping(o)) + crashed[resOf[o]]
    /\ sold[resOf[o]] + Cardinality(Selling(o)) <= 1 + lost + crashed[resOf[o]]
    /\ sold[resOf[o]] + Cardinality(Selling(o)) <= Cardinality(Workers) + crashed[resOf[o]]

\* Two sets that agree but for one member.
LEMMA OneMember ==
  ASSUME NEW S, NEW T, NEW w, IsFiniteSet(S), IsFiniteSet(T), T \ {w} = S \ {w}
  PROVE  /\ Cardinality(S) \in Nat /\ Cardinality(T) \in Nat
         /\ w \in S /\ w \in T => Cardinality(T) = Cardinality(S)
         /\ w \notin S /\ w \notin T => Cardinality(T) = Cardinality(S)
         /\ w \in S /\ w \notin T => Cardinality(T) = Cardinality(S) - 1
         /\ w \notin S /\ w \in T => Cardinality(T) = Cardinality(S) + 1
<1>1. Cardinality(S) \in Nat /\ Cardinality(T) \in Nat
  BY FS_CardinalityType
<1>2. /\ Cardinality(S \ {w}) = IF w \in S THEN Cardinality(S) - 1 ELSE Cardinality(S)
      /\ Cardinality(T \ {w}) = IF w \in T THEN Cardinality(T) - 1 ELSE Cardinality(T)
  BY FS_RemoveElement
<1> QED
  BY <1>1, <1>2

\* A part of a set of workers has no more members.
LEMMA Fewer ==
  ASSUME NEW T \in SUBSET Workers, NEW S \in SUBSET T
  PROVE  /\ IsFiniteSet(S) /\ IsFiniteSet(T)
         /\ Cardinality(S) \in Nat /\ Cardinality(T) \in Nat /\ Cardinality(Workers) \in Nat
         /\ Cardinality(S) <= Cardinality(T) /\ Cardinality(T) <= Cardinality(Workers)
<1>1. IsFiniteSet(T) /\ Cardinality(T) <= Cardinality(Workers)
  BY FulfilmentAssumption, FS_Subset
<1>2. IsFiniteSet(S) /\ Cardinality(S) <= Cardinality(T)
  BY <1>1, FS_Subset
<1> QED
  BY <1>1, <1>2, FulfilmentAssumption, FS_CardinalityType

\* Two parts of it with no member in common together have no more.
LEMMA Parts ==
  ASSUME NEW C \in SUBSET Workers, NEW S \in SUBSET C, NEW T \in SUBSET C,
         \A w \in S : w \notin T
  PROVE  Cardinality(S) + Cardinality(T) <= Cardinality(C)
<1>1. /\ IsFiniteSet(S) /\ IsFiniteSet(T) /\ Cardinality(S) \in Nat /\ Cardinality(T) \in Nat
      /\ Cardinality(C) \in Nat
  BY Fewer
<1>2. S \cap T = {}
  OBVIOUS
<1>3. Cardinality(S \cap T) = 0
  BY <1>2, FS_EmptySet
<1>4. Cardinality(S \cup T) = Cardinality(S) + Cardinality(T) - Cardinality(S \cap T)
  BY <1>1, FS_Union, Zenon
<1>5. S \cup T \in SUBSET C
  OBVIOUS
<1>6. Cardinality(S \cup T) <= Cardinality(C)
  BY <1>5, Fewer
<1> QED
  BY <1>1, <1>3, <1>4, <1>6

\* The messages of an order, and what they are after one is sent or taken.
LEMMA MessagesType ==
  ASSUME NEW q \in [Task -> Nat]
  PROVE  Total(q) \in Nat
<1>1. q[1] \in Nat /\ q[2] \in Nat /\ q[3] \in Nat /\ q[4] \in Nat /\ q[5] \in Nat
  BY Tasks
<1> QED
  BY <1>1 DEF Total

LEMMA MessagesMove ==
  ASSUME NEW q \in [Task -> Nat], NEW p \in [Task -> Nat], NEW t \in Task, NEW d \in Int,
         p[t] = q[t] + d, \A s \in Task \ {t} : p[s] = q[s]
  PROVE  Total(p) = Total(q) + d
<1>1. /\ t \in 1 .. 5 /\ \A s \in 1 .. 5 : q[s] \in Nat /\ p[s] \in Nat
      /\ \A s \in 1 .. 5 : p[s] = IF s = t THEN q[s] + d ELSE q[s]
  BY Tasks
<1>2. /\ q[1] \in Nat /\ q[2] \in Nat /\ q[3] \in Nat /\ q[4] \in Nat /\ q[5] \in Nat
      /\ p[1] = IF t = 1 THEN q[1] + d ELSE q[1]
      /\ p[2] = IF t = 2 THEN q[2] + d ELSE q[2]
      /\ p[3] = IF t = 3 THEN q[3] + d ELSE q[3]
      /\ p[4] = IF t = 4 THEN q[4] + d ELSE q[4]
      /\ p[5] = IF t = 5 THEN q[5] + d ELSE q[5]
  BY <1>1
<1> QED
  BY <1>1, <1>2 DEF Total

\* A message of task t of order o is sent, or taken.
LEMMA QueueMoves ==
  ASSUME FlowTypeOK, FlowTypeOK', NEW p \in Orders, NEW t \in Task, NEW d \in {1, -1},
         queue' = [queue EXCEPT ![p][t] = @ + d]
  PROVE  /\ \A o \in Orders \ {p} : queue'[o] = queue[o]
         /\ Total(queue'[p]) = Total(queue[p]) + d
<1>1. /\ queue[p] \in [Task -> Nat] /\ queue'[p] \in [Task -> Nat] /\ d \in Int
      /\ queue'[p] = [queue[p] EXCEPT ![t] = @ + d]
      /\ \A o \in Orders \ {p} : queue'[o] = queue[o]
  BY DEF FlowTypeOK
<1>2. queue'[p][t] = queue[p][t] + d /\ \A s \in Task \ {t} : queue'[p][s] = queue[p][s]
  BY <1>1
<1> HIDE DEF Total
<1>3. \A q, r \in [Task -> Nat] :
        r[t] = q[t] + d /\ (\A s \in Task \ {t} : r[s] = q[s]) => Total(r) = Total(q) + d
  BY <1>1, MessagesMove
<1> QED
  BY <1>1, <1>2, <1>3

\* What a worker's step does to the messages of the order it works on.
LEMMA WorkerPasses ==
  ASSUME FlowInv, FlowTypeOK', NEW w \in Workers, Work(w) \/ WorkerLost(w),
         ~UNCHANGED <<queue, job, phase>>
  PROVE  /\ job[w].order \in Orders
         /\ \A u \in Workers \ {w} : job'[u] = job[u] /\ phase'[u] = phase[u]
         /\ \A o \in Orders \ {job[w].order} : queue'[o] = queue[o]
         /\ \/ UNCHANGED <<queue, job>> /\ phase[w] # "ack" /\ phase'[w] # "ack"
            \/ /\ phase[w] # "ack" /\ (phase'[w] = "ack" \/ job'[w] = NoJob)
               /\ \/ UNCHANGED queue
                  \/ \E t \in Task : queue' = [queue EXCEPT ![job[w].order][t] = @ + 1]
            \/ phase[w] = "ack" /\ job'[w] = NoJob /\ UNCHANGED queue
            \/ /\ WorkerLost(w) /\ phase[w] = "ack" /\ job'[w] = NoJob
               /\ \E t \in Task : queue' = [queue EXCEPT ![job[w].order][t] = @ + 1]
<1>i. FlowTypeOK /\ WorkInv /\ Inv
  BY DEF FlowInv
<1>1. phase[w] # "idle"
  <2>1. pc[w] # "idle" => phase[w] = "rpc"
    BY <1>i DEF WorkInv
  <2> QED
    BY <2>1 DEF Work, WorkerLost, Read, Write, CallCommit, Serve, CommitAnswered, CommitFailed,
       TaskFails, Forward, Ack, chainVars
<1>2. job[w].order \in Orders /\ job[w].task \in Task /\ job[w].task \in 1 .. 5
  BY <1>i, <1>1, Holding
<1>3. CASE Read(w) \/ Write(w) \/ CallCommit(w) \/ CommitAnswered(w)
  <2>1. UNCHANGED <<queue, job>> /\ phase[w] # "ack" /\ phase'[w] # "ack"
    BY <1>3, <1>i DEF Read, Write, CallCommit, CommitAnswered, FlowTypeOK
  <2>2. \A u \in Workers \ {w} : phase'[u] = phase[u]
    BY <1>3, <1>i DEF Read, Write, CallCommit, CommitAnswered, FlowTypeOK
  <2> QED
    BY <1>2, <2>1, <2>2
<1>4. CASE CommitFailed(w)
  <2>1. /\ phase[w] # "ack" /\ job' = [job EXCEPT ![w] = NoJob]
        /\ phase' = [phase EXCEPT ![w] = "idle"]
        /\ UNCHANGED queue \/ queue' = [queue EXCEPT ![job[w].order][job[w].task] = @ + 1]
    BY <1>4 DEF CommitFailed
  <2>2. \A o \in Orders \ {job[w].order} : queue'[o] = queue[o]
    BY <1>i, <1>2, <2>1 DEF FlowTypeOK
  <2>3. job'[w] = NoJob /\ \A u \in Workers \ {w} : job'[u] = job[u] /\ phase'[u] = phase[u]
    BY <1>i, <2>1 DEF FlowTypeOK
  <2> QED
    BY <1>2, <2>1, <2>2, <2>3
<1>5. CASE TaskFails(w)
  <2>1. /\ phase[w] # "ack" /\ job' = [job EXCEPT ![w] = NoJob]
        /\ phase' = [phase EXCEPT ![w] = "idle"]
        /\ UNCHANGED queue \/ queue' = [queue EXCEPT ![job[w].order][job[w].task] = @ + 1]
    BY <1>5 DEF TaskFails
  <2>2. \A o \in Orders \ {job[w].order} : queue'[o] = queue[o]
    BY <1>i, <1>2, <2>1 DEF FlowTypeOK
  <2>3. job'[w] = NoJob /\ \A u \in Workers \ {w} : job'[u] = job[u] /\ phase'[u] = phase[u]
    BY <1>i, <2>1 DEF FlowTypeOK
  <2> QED
    BY <1>2, <2>1, <2>2, <2>3
<1>6. CASE Forward(w)
  <2>1. /\ phase[w] # "ack" /\ job' = job /\ phase' = [phase EXCEPT ![w] = "ack"]
        /\ \/ UNCHANGED queue
           \/ /\ job[w].task < 5
              /\ queue' = [queue EXCEPT ![job[w].order][job[w].task + 1] = @ + 1]
    BY <1>6, Tasks DEF Forward
  <2>2. job[w].task < 5 => job[w].task + 1 \in Task
    BY <1>2, Tasks
  <2>3. UNCHANGED queue \/ \E t \in Task : queue' = [queue EXCEPT ![job[w].order][t] = @ + 1]
    BY <2>1, <2>2
  <2>4. \A o \in Orders \ {job[w].order} : queue'[o] = queue[o]
    <3>1. ASSUME NEW t \in Task, queue' = [queue EXCEPT ![job[w].order][t] = @ + 1]
          PROVE  \A o \in Orders \ {job[w].order} : queue'[o] = queue[o]
      BY <1>i, <1>2, <3>1 DEF FlowTypeOK
    <3> QED
      BY <2>3, <3>1
  <2>5. phase'[w] = "ack" /\ \A u \in Workers \ {w} : job'[u] = job[u] /\ phase'[u] = phase[u]
    BY <1>i, <2>1 DEF FlowTypeOK
  <2> QED
    BY <1>2, <2>1, <2>3, <2>4, <2>5
<1>7. CASE Ack(w)
  BY <1>7, <1>i, <1>2 DEF Ack, FlowTypeOK
<1>8. CASE WorkerLost(w)
  <2>1. /\ job' = [job EXCEPT ![w] = NoJob] /\ phase' = [phase EXCEPT ![w] = "idle"]
        /\ queue' = [queue EXCEPT ![job[w].order][job[w].task] = @ + 1]
    BY <1>8 DEF WorkerLost
  <2>2. \A o \in Orders \ {job[w].order} : queue'[o] = queue[o]
    BY <1>i, <1>2, <2>1 DEF FlowTypeOK
  <2>3. job'[w] = NoJob /\ \A u \in Workers \ {w} : job'[u] = job[u] /\ phase'[u] = phase[u]
    BY <1>i, <2>1 DEF FlowTypeOK
  <2>4. \E t \in Task : queue' = [queue EXCEPT ![job[w].order][t] = @ + 1]
    BY <1>2, <2>1
  <2> QED
    BY <1>8, <1>2, <2>2, <2>3, <2>4
<1>9. CASE Serve(w)
  BY <1>9 DEF Serve, chainVars
<1> QED
  BY <1>3, <1>4, <1>5, <1>6, <1>7, <1>8, <1>9 DEF Work

\* The copies of an order's chain in one step.
LEMMA CopyMoves ==
  ASSUME FlowInv, FlowTypeOK', [FlowNext]_flowVars, NEW o \in Orders
  PROVE  /\ Copies(o) \in Nat /\ Copies(o)' \in Nat /\ lost' >= lost
         /\ \/ Copies(o)' <= Copies(o)
            \/ handoff[o] = "due" /\ handoff'[o] = "done" /\ Copies(o)' = Copies(o) + 1
            \/ lost' = lost + 1 /\ Copies(o)' = Copies(o) + 1
<1>i. FlowTypeOK /\ WorkInv /\ Inv /\ SweepInv
  BY DEF FlowInv
<1>a. NoJob.order # o
  BY Slots DEF NoJob
<1>t. queue[o] \in [Task -> Nat] /\ queue'[o] \in [Task -> Nat] /\ 1 \in Task
  BY <1>i, Tasks DEF FlowTypeOK
<1>f. /\ IsFiniteSet(Copying(o)) /\ IsFiniteSet(Copying(o)')
      /\ Cardinality(Copying(o)) \in Nat /\ Cardinality(Copying(o)') \in Nat
  <2>1. Copying(o) \in SUBSET Workers /\ Copying(o)' \in SUBSET Workers
    BY DEF Copying
  <2> QED
    BY <2>1, Fewer
<1>n. Total(queue[o]) \in Nat /\ Total(queue'[o]) \in Nat
  <2>1. \A q \in [Task -> Nat] : Total(q) \in Nat
    BY MessagesType
  <2> QED
    BY <1>t, <2>1
<1>c. Copies(o) \in Nat /\ Copies(o)' \in Nat
  BY <1>f, <1>n DEF Copies
<1>l. lost \in Nat
  BY <1>i DEF FlowTypeOK
<1>0. ASSUME UNCHANGED <<queue, job, phase>> PROVE Copies(o)' = Copies(o)
  BY <1>0 DEF Copies, Copying
<1>1. ASSUME NEW p \in Orders, Place(p) \/ EnqueueFails(p) \/ Age(p)
      PROVE  UNCHANGED <<queue, job, phase, lost>>
  BY <1>1 DEF Place, EnqueueFails, Age, chainVars
<1>2. ASSUME NEW p \in Orders, Enqueue(p)
      PROVE  /\ UNCHANGED lost
             /\ \/ Copies(o)' = Copies(o)
                \/ handoff[o] = "due" /\ handoff'[o] = "done" /\ Copies(o)' = Copies(o) + 1
  <2>1. Copying(o)' = Copying(o) /\ UNCHANGED lost
    BY <1>2 DEF Enqueue, Copying
  <2>2. CASE p = o
    <3>1. /\ queue' = [queue EXCEPT ![o][1] = @ + 1]
          /\ handoff[o] = "due" /\ handoff'[o] = "done"
      BY <1>2, <2>2, <1>i DEF Enqueue, FlowTypeOK
    <3>2. Total(queue'[o]) = Total(queue[o]) + 1
      BY <3>1, <1>i, <1>t, QueueMoves
    <3> QED
      BY <2>1, <3>1, <3>2, <1>f, <1>n DEF Copies
  <2>3. CASE p # o
    <3>1. queue'[o] = queue[o]
      BY <1>2, <2>3, <1>i DEF Enqueue, FlowTypeOK
    <3> QED
      BY <2>1, <3>1 DEF Copies
  <2> QED
    BY <2>1, <2>2, <2>3
<1>3. ASSUME NEW w \in Workers, Work(w) \/ WorkerLost(w)
      PROVE  /\ lost' >= lost
             /\ \/ Copies(o)' <= Copies(o)
                \/ lost' = lost + 1 /\ Copies(o)' = Copies(o) + 1
  <2>l. lost' >= lost /\ (WorkerLost(w) => lost' = lost + 1)
    BY <1>3, <1>l DEF Work, WorkerLost, Read, Write, CallCommit, Serve, CommitAnswered, CommitFailed,
       TaskFails, Forward, Ack, chainVars
  <2>1. CASE UNCHANGED <<queue, job, phase>>
    BY <1>0, <1>c, <2>1, <2>l
  <2>2. CASE ~UNCHANGED <<queue, job, phase>>
    <3>1. /\ job[w].order \in Orders
          /\ \A u \in Workers \ {w} : job'[u] = job[u] /\ phase'[u] = phase[u]
          /\ \A p \in Orders \ {job[w].order} : queue'[p] = queue[p]
      BY <1>3, <2>2, WorkerPasses
    <3>2. Copying(o)' \ {w} = Copying(o) \ {w}
      BY <3>1 DEF Copying
    <3>3. \A t \in Task : queue' = [queue EXCEPT ![o][t] = @ + 1] => Total(queue'[o]) = Total(queue[o]) + 1
      BY <1>i, QueueMoves
    <3>4. CASE job[w].order # o
      <4>1. queue'[o] = queue[o] /\ w \notin Copying(o)
        BY <3>1, <3>4 DEF Copying
      <4>2. w \notin Copying(o)'
        <5>1. job'[w].order # o
          <6>1. job' = job \/ job' = [job EXCEPT ![w] = NoJob]
            BY <1>3 DEF Work, WorkerLost, Read, Write, CallCommit, Serve, CommitAnswered,
                        CommitFailed, TaskFails, Forward, Ack, chainVars
          <6> QED
            BY <6>1, <3>4, <1>a, <1>i DEF FlowTypeOK
        <5> QED
          BY <5>1 DEF Copying
      <4>3. Cardinality(Copying(o)') = Cardinality(Copying(o))
        BY <3>2, <4>1, <4>2, <1>f, OneMember
      <4> QED
        BY <4>1, <4>3, <1>f, <1>n, <2>l DEF Copies
    <3>5. CASE job[w].order = o
      <4>1. w \in Copying(o) <=> phase[w] # "ack"
        BY <3>5 DEF Copying
      <4>2. (phase'[w] = "ack" \/ job'[w] = NoJob) => w \notin Copying(o)'
        BY <1>a DEF Copying
      <4>3. CASE UNCHANGED <<queue, job>> /\ phase[w] # "ack" /\ phase'[w] # "ack"
        <5>1. Copying(o)' = Copying(o)
          BY <3>1, <4>3 DEF Copying
        <5> QED
          BY <4>3, <5>1, <1>c, <2>l DEF Copies
      <4>4. CASE /\ phase[w] # "ack" /\ (phase'[w] = "ack" \/ job'[w] = NoJob)
                 /\ \/ UNCHANGED queue
                    \/ \E t \in Task : queue' = [queue EXCEPT ![o][t] = @ + 1]
        <5>1. w \in Copying(o) /\ w \notin Copying(o)'
          BY <4>1, <4>2, <4>4
        <5>3. Cardinality(Copying(o)') = Cardinality(Copying(o)) - 1
          BY <5>1, <3>2, <1>f, OneMember
        <5>2. Total(queue'[o]) = Total(queue[o]) \/ Total(queue'[o]) = Total(queue[o]) + 1
          BY <4>4, <3>3
        <5> QED
          BY <5>2, <5>3, <1>f, <1>n, <2>l DEF Copies
      <4>5. CASE phase[w] = "ack" /\ job'[w] = NoJob /\ UNCHANGED queue
        <5>1. Cardinality(Copying(o)') = Cardinality(Copying(o))
          BY <4>1, <4>2, <4>5, <3>2, <1>f, OneMember
        <5> QED
          BY <4>5, <5>1, <1>c, <2>l DEF Copies
      <4>6. CASE /\ WorkerLost(w) /\ phase[w] = "ack" /\ job'[w] = NoJob
                 /\ \E t \in Task : queue' = [queue EXCEPT ![o][t] = @ + 1]
        <5>1. Cardinality(Copying(o)') = Cardinality(Copying(o))
          BY <4>1, <4>2, <4>6, <3>2, <1>f, OneMember
        <5>2. Total(queue'[o]) = Total(queue[o]) + 1
          BY <4>6, <3>3
        <5> QED
          BY <4>6, <5>1, <5>2, <1>f, <1>n, <2>l DEF Copies
      <4> QED
        BY <1>3, <2>2, <3>5, <4>3, <4>4, <4>5, <4>6, WorkerPasses
    <3> QED
      BY <3>4, <3>5
  <2> QED
    BY <2>1, <2>2
<1>4. ASSUME NEW w \in Workers, NEW p \in Orders, NEW t \in Task, Take(w, p, t)
      PROVE  UNCHANGED lost /\ Copies(o)' <= Copies(o)
  <2>1. /\ queue' = [queue EXCEPT ![p][t] = @ - 1] /\ UNCHANGED lost
        /\ job'[w].order = p /\ phase[w] = "idle" /\ phase'[w] = "read"
        /\ \A u \in Workers \ {w} : job'[u] = job[u] /\ phase'[u] = phase[u]
    BY <1>4, <1>i DEF Take, FlowTypeOK
  <2>2. Copying(o)' \ {w} = Copying(o) \ {w}
    BY <2>1 DEF Copying
  <2>3. w \notin Copying(o)
    BY <1>a, <1>i, <2>1 DEF Copying, WorkInv
  <2>4. CASE p = o
    <3>1. queue' = [queue EXCEPT ![o][t] = @ + (-1)]
      <4>1. queue[o][t] - 1 = queue[o][t] + (-1)
        BY <1>t
      <4> QED
        BY <2>1, <2>4, <4>1, <1>i DEF FlowTypeOK
    <3>2. Total(queue'[o]) = Total(queue[o]) + (-1)
      BY <3>1, <1>i, QueueMoves
    <3>3. Cardinality(Copying(o)') = Cardinality(Copying(o)) + 1
      <4>1. w \in Copying(o)'
        BY <2>1, <2>4 DEF Copying
      <4> QED
        BY <4>1, <2>2, <2>3, <1>f, OneMember
    <3> QED
      BY <2>1, <3>2, <3>3, <1>f, <1>n DEF Copies
  <2>5. CASE p # o
    <3>1. queue'[o] = queue[o]
      BY <2>1, <2>5, <1>i DEF FlowTypeOK
    <3>2. Cardinality(Copying(o)') = Cardinality(Copying(o))
      <4>1. w \notin Copying(o)'
        BY <2>1, <2>5 DEF Copying
      <4> QED
        BY <4>1, <2>2, <2>3, <1>f, OneMember
    <3> QED
      BY <2>1, <3>1, <3>2, <1>c DEF Copies
  <2> QED
    BY <2>4, <2>5
<1>5. ASSUME NEW x \in Sweeps, Sweep(x) \/ SweepLost(x)
      PROVE  UNCHANGED <<queue, job, phase>> /\ lost' >= lost
  <2>1. UNCHANGED <<queue, job, phase>>
    BY <1>5, <1>i, SweepAlone
  <2>2. lost' = lost \/ lost' = lost + 1
    BY <1>5 DEF Sweep, SweepLost, SweepSelect, SweepRelease, Serve, ReleaseAnswered, SweepRefund,
       SweepCommit, chainVars
  <2> QED
    BY <2>1, <2>2, <1>l
<1>6. CASE Expire \/ UNCHANGED flowVars
  <2>1. UNCHANGED <<queue, job, phase, lost>>
    BY <1>6 DEF Expire, flowVars, chainVars
  <2> QED
    BY <2>1, <1>0, <1>c, <1>l
<1>7. CASE \E p \in Orders : Place(p) \/ Enqueue(p) \/ EnqueueFails(p) \/ Age(p)
  <2>1. CASE \E p \in Orders : Enqueue(p)
    BY <2>1, <1>2, <1>c, <1>l
  <2>2. CASE \E p \in Orders : Place(p) \/ EnqueueFails(p) \/ Age(p)
    <3>1. UNCHANGED <<queue, job, phase, lost>>
      BY <2>2, <1>1
    <3> QED
      BY <3>1, <1>0, <1>c, <1>l
  <2> QED
    BY <1>7, <2>1, <2>2
<1>8. CASE \E w \in Workers : Work(w) \/ WorkerLost(w)
  BY <1>8, <1>3, <1>c
<1>9. CASE \E w \in Workers, p \in Orders, t \in Task : Take(w, p, t)
  BY <1>9, <1>4, <1>c, <1>l
<1>10. CASE \E x \in Sweeps : Sweep(x) \/ SweepLost(x)
  BY <1>10, <1>5, <1>0, <1>c
<1> QED
  BY <1>6, <1>7, <1>8, <1>9, <1>10 DEF FlowNext

\* A task that is about to write has just read.
LEMMA WriteAfterRead ==
  ASSUME FlowInv, [FlowNext]_flowVars, NEW w \in Workers, phase'[w] = "write"
  PROVE  /\ job'[w] = job[w] /\ job[w].order \in Orders
         /\ \/ phase[w] = "write"
            \/ Read(w) /\ Gate(job[w].task, job[w].order)
<1>i. FlowTypeOK /\ Inv /\ WorkInv
  BY DEF FlowInv
<1>0. CASE UNCHANGED <<phase, job>>
  <2>1. phase[w] = "write" /\ phase[w] # "idle"
    BY <1>0
  <2> QED
    BY <1>0, <1>i, <2>1, Holding
<1>1. ASSUME NEW u \in Workers, Work(u) \/ WorkerLost(u)
      PROVE  /\ job'[w] = job[w] /\ job[w].order \in Orders
             /\ \/ phase[w] = "write"
                \/ Read(w) /\ Gate(job[w].task, job[w].order)
  <2>1. CASE u = w
    <3>1. CASE Read(w)
      <4>1. /\ UNCHANGED job /\ phase[w] # "idle" /\ Gate(job[w].task, job[w].order)
        BY <1>i, <3>1 DEF Read, FlowTypeOK
      <4> QED
        BY <1>i, <3>1, <4>1, Holding
    <3>2. CASE Serve(w)
      BY <1>0, <3>2 DEF Serve, chainVars
    <3>3. CASE ~Read(w) /\ ~Serve(w)
      BY <1>1, <1>i, <2>1, <3>3
         DEF Work, WorkerLost, Write, CallCommit, CommitAnswered, CommitFailed, TaskFails, Forward, Ack,
             FlowTypeOK
    <3> QED
      BY <3>1, <3>2, <3>3
  <2>2. CASE u # w
    <3>1. phase'[w] = phase[w] /\ job'[w] = job[w]
      BY <1>1, <1>i, <2>2
         DEF Work, WorkerLost, Read, Write, CallCommit, Serve, CommitAnswered, CommitFailed,
             TaskFails, Forward, Ack, FlowTypeOK, chainVars
    <3>2. phase[w] # "idle"
      BY <3>1
    <3> QED
      BY <1>i, <3>1, <3>2, Holding
  <2> QED
    BY <2>1, <2>2
<1>2. ASSUME NEW u \in Workers, NEW p \in Orders, NEW t \in Task, Take(u, p, t)
      PROVE  phase'[w] = phase[w] /\ job'[w] = job[w]
  BY <1>2, <1>i DEF Take, FlowTypeOK
<1>3. CASE \E u \in Workers, p \in Orders, t \in Task : Take(u, p, t)
  <2>1. phase'[w] = phase[w] /\ job'[w] = job[w] /\ phase[w] # "idle"
    BY <1>2, <1>3
  <2> QED
    BY <1>i, <2>1, Holding
<1>4. ASSUME NEW x \in Sweeps, Sweep(x) \/ SweepLost(x) PROVE UNCHANGED <<phase, job>>
  BY <1>4, <1>i, SweepAlone
<1> QED
  BY <1>0, <1>1, <1>3, <1>4
     DEF FlowNext, flowVars, chainVars, Place, Enqueue, EnqueueFails, Age, Expire

\* A call under way began by reading a hash, and keeps what it read.
LEMMA CallMoves ==
  ASSUME Inv, [Next]_vars, NEW h \in Handlers, Active(h)'
  PROVE  \/ \E o \in {"commit", "release"}, r \in ResIds :
              ReadHash(h, o, r) /\ reservation[r] # Absent
         \/ /\ Active(h) /\ op'[h] = op[h] /\ rid'[h] = rid[h] /\ got'[h] = got[h]
            /\ todo'[h] \subseteq todo[h] /\ (pc'[h] = "apply" => pc[h] = "apply")
<1> DEFINE Goes == /\ Active(h) /\ op'[h] = op[h] /\ rid'[h] = rid[h] /\ got'[h] = got[h]
                   /\ todo'[h] \subseteq todo[h] /\ (pc'[h] = "apply" => pc[h] = "apply")
<1>0. CASE UNCHANGED handlerVars
  BY <1>0 DEF handlerVars, Active
<1>1. ASSUME NEW g \in Handlers, NEW o \in {"commit", "release"}, NEW r \in ResIds,
             ReadHash(g, o, r), reservation[r] # Absent
      PROVE  g = h \/ Goes
  BY <1>1 DEF Inv, TypeOK, ReadHash, Active
<1>2. ASSUME NEW g \in Handlers, Handler(g) \/ Crash(g) PROVE Goes
  <2>1. CASE CommitOnHand(g)
    BY <2>1 DEF CommitOnHand, Inv, TypeOK, Active
  <2>2. ASSUME NEW v \in Variants, ReleaseIncr(g, v) PROVE Goes
    BY <2>2 DEF ReleaseIncr, Inv, TypeOK, Active
  <2>3. CASE DelReservation(g)
    BY <2>3 DEF DelReservation, Inv, TypeOK, Active
  <2>4. CASE CommitRefused(g) \/ DelIdem(g) \/ Crash(g)
    BY <2>4 DEF CommitRefused, DelIdem, Crash, Finish, Inv, TypeOK, Active
  <2> QED
    BY <1>2, <2>1, <2>2, <2>3, <2>4 DEF Handler
<1>3. ASSUME NEW g \in Handlers, NEW o \in {"commit", "release"}, NEW r \in ResIds,
             ReadHash(g, o, r), reservation[r] = Absent
      PROVE  UNCHANGED handlerVars
  BY <1>3 DEF ReadHash
<1> QED
  BY <1>0, <1>1, <1>2, <1>3
     DEF Next, vars, ReserveStock, ReserveHit, ReserveReject, ReserveGrant, ExpireReservation,
         ExpireIdem

LEMMA CopiesStep == FlowInv /\ FlowTypeOK' /\ CopiesInv /\ [FlowNext]_flowVars => CopiesInv'
<1> SUFFICES ASSUME FlowInv, FlowTypeOK', CopiesInv, [FlowNext]_flowVars, NEW o \in Orders
             PROVE  Copies(o)' <= lost' + IF handoff'[o] = "done" THEN 1 ELSE 0
  BY DEF CopiesInv
<1>1. lost \in Nat /\ lost' \in Nat
  BY DEF FlowInv, FlowTypeOK
<1>2. Copies(o) <= lost + IF handoff[o] = "done" THEN 1 ELSE 0
  BY DEF CopiesInv
<1>3. handoff[o] = "done" => handoff'[o] = "done"
  <2>1. Place(o) => handoff[o] = "none"
    BY DEF Place, FlowInv, PlaceInv
  <2> QED
    BY <2>1, OrderMoves DEF OrderMove
<1> QED
  BY <1>1, <1>2, <1>3, CopyMoves

\* Those who work on a copy of an order are no more than the copies.
LEMMA CopiesBound ==
  ASSUME FlowTypeOK, CopiesInv, NEW o \in Orders
  PROVE  /\ Cardinality(Copying(o)) \in Nat /\ Cardinality(Workers) \in Nat
         /\ Cardinality(Copying(o)) <= 1 + lost
         /\ Cardinality(Copying(o)) <= Cardinality(Workers)
<1>1. Copying(o) \in SUBSET Workers
  BY DEF Copying
<1>2. /\ Cardinality(Copying(o)) \in Nat /\ Cardinality(Workers) \in Nat
      /\ Cardinality(Copying(o)) <= Cardinality(Workers)
  BY <1>1, Fewer
<1>3. \A q \in [Task -> Nat] : Total(q) \in Nat
  BY MessagesType
<1>4. Total(queue[o]) \in Nat /\ lost \in Nat
  BY <1>3 DEF FlowTypeOK
<1> QED
  BY <1>2, <1>4 DEF CopiesInv, Copies

LEMMA InvoiceStep ==
  FlowInv /\ FlowTypeOK' /\ CopiesInv' /\ InvoiceInv /\ [FlowNext]_flowVars => InvoiceInv'
<1> SUFFICES ASSUME FlowInv, FlowTypeOK', CopiesInv', InvoiceInv, [FlowNext]_flowVars,
                    NEW o \in Orders
             PROVE  /\ invoices'[o] + Cardinality(Invoicing(o)') <= 1 + lost'
                    /\ invoices'[o] + Cardinality(Invoicing(o)') <= Cardinality(Workers)
  BY DEF InvoiceInv
<1>i. FlowTypeOK /\ Inv /\ WorkInv
  BY DEF FlowInv
<1>n. invoices[o] \in Nat /\ invoices'[o] \in Nat /\ lost \in Nat /\ lost' \in Nat /\ lost' >= lost
  BY <1>i, CopyMoves DEF FlowTypeOK
<1>f. /\ IsFiniteSet(Invoicing(o)) /\ IsFiniteSet(Invoicing(o)')
      /\ Cardinality(Invoicing(o)) \in Nat /\ Cardinality(Invoicing(o)') \in Nat
      /\ Cardinality(Workers) \in Nat
  <2>1. Invoicing(o) \in SUBSET Workers /\ Invoicing(o)' \in SUBSET Workers
    BY DEF Invoicing
  <2> QED
    BY <2>1, Fewer
<1>0. /\ invoices[o] + Cardinality(Invoicing(o)) <= 1 + lost
      /\ invoices[o] + Cardinality(Invoicing(o)) <= Cardinality(Workers)
  BY DEF InvoiceInv
<1>1. CASE invoices'[o] = 0
  <2>1. Invoicing(o)' \in SUBSET Copying(o)' /\ Copying(o)' \in SUBSET Workers
    BY DEF Invoicing, Copying
  <2>2. Cardinality(Invoicing(o)') <= Cardinality(Copying(o)')
    BY <2>1, Fewer
  <2>3. /\ Cardinality(Copying(o)') \in Nat /\ Cardinality(Copying(o)') <= 1 + lost'
        /\ Cardinality(Copying(o)') <= Cardinality(Workers)
    <3>1. \A q \in [Task -> Nat] : Total(q) \in Nat
      BY MessagesType
    <3>2. Total(queue'[o]) \in Nat
      BY <3>1 DEF FlowTypeOK
    <3>3. Copies(o)' <= 1 + lost'
      BY <1>n, CopyMoves DEF CopiesInv
    <3>4. Cardinality(Copying(o)') \in Nat /\ Cardinality(Copying(o)') <= Cardinality(Workers)
      BY <2>1, Fewer
    <3> QED
      BY <1>n, <3>2, <3>3, <3>4 DEF Copies
  <2> QED
    BY <1>1, <1>n, <1>f, <2>2, <2>3
<1>2. ASSUME NEW w \in Workers, Write(w), job[w].order = o, job[w].task = 3
      PROVE  invoices'[o] + Cardinality(Invoicing(o)') = invoices[o] + Cardinality(Invoicing(o))
  <2>1. /\ invoices'[o] = invoices[o] + 1 /\ phase'[w] = "done" /\ UNCHANGED job
        /\ \A u \in Workers \ {w} : phase'[u] = phase[u]
    BY <1>2, <1>i, WriteFacts
  <2>2. Invoicing(o)' \ {w} = Invoicing(o) \ {w} /\ w \in Invoicing(o) /\ w \notin Invoicing(o)'
    BY <1>2, <2>1 DEF Invoicing, Write
  <2>3. Cardinality(Invoicing(o)') = Cardinality(Invoicing(o)) - 1
    BY <2>2, <1>f, OneMember
  <2> QED
    BY <2>1, <2>3, <1>n, <1>f
<1>3. CASE invoices'[o] # 0 /\ ~\E w \in Workers : Write(w) /\ job[w].order = o /\ job[w].task = 3
  <2>1. invoices'[o] = invoices[o]
    <3>1. ASSUME NEW x \in Sweeps, Sweep(x) \/ SweepLost(x) PROVE UNCHANGED invoices
      BY <3>1, <1>i, SweepAlone
    <3>2. ASSUME NEW w \in Workers, Write(w) PROVE invoices'[o] = invoices[o]
      BY <3>2, <1>3, <1>i, <1>n, WriteFacts
    <3> QED
      BY <3>1, <3>2 DEF FlowNext, flowVars, chainVars, Place, Enqueue, EnqueueFails, Age, Expire,
         Take, Work, WorkerLost, Read, CallCommit, Serve, CommitAnswered, CommitFailed, TaskFails,
         Forward, Ack
  <2>2. ASSUME NEW w \in Workers, w \in Invoicing(o)' PROVE w \in Invoicing(o)
    <3>1. /\ phase'[w] = "write" /\ job'[w].order = o /\ job'[w].task = 3
      BY <2>2 DEF Invoicing
    <3>2. job'[w] = job[w]
      BY <3>1, WriteAfterRead
    <3>3. ~Gate(job[w].task, job[w].order)
      BY <1>3, <2>1, <3>1, <3>2, Tasks DEF Gate
    <3>4. phase[w] = "write"
      BY <3>1, <3>3, WriteAfterRead
    <3> QED
      BY <3>1, <3>2, <3>4 DEF Invoicing
  <2>3. Invoicing(o)' \in SUBSET Invoicing(o) /\ Invoicing(o) \in SUBSET Workers
    BY <2>2 DEF Invoicing
  <2>4. Cardinality(Invoicing(o)') <= Cardinality(Invoicing(o))
    BY <2>3, Fewer
  <2> QED
    BY <1>0, <1>n, <1>f, <2>1, <2>4
<1> QED
  BY <1>0, <1>1, <1>2, <1>3, <1>n, <1>f

\* A worker whose call is under way keeps its message.
LEMMA CallerKeeps ==
  ASSUME FlowInv, FlowInv', [FlowNext]_flowVars, NEW w \in Workers, pc'[w] # "idle"
  PROVE  job'[w] = job[w]
<1>i. FlowTypeOK /\ Inv
  BY DEF FlowInv
<1>1. phase'[w] = "rpc"
  BY DEF FlowInv, WorkInv
<1>2. ASSUME NEW u \in Workers, Work(u) \/ WorkerLost(u) PROVE job'[w] = job[w]
  BY <1>1, <1>2, <1>i
     DEF Work, WorkerLost, Read, Write, CallCommit, Serve, CommitAnswered, CommitFailed, TaskFails,
         Forward, Ack, chainVars, FlowTypeOK
<1>3. ASSUME NEW u \in Workers, NEW p \in Orders, NEW t \in Task, Take(u, p, t)
      PROVE  job'[w] = job[w]
  BY <1>1, <1>3, <1>i DEF Take, FlowTypeOK
<1>4. ASSUME NEW x \in Sweeps, Sweep(x) \/ SweepLost(x) PROVE UNCHANGED job
  BY <1>4, <1>i, SweepAlone
<1> QED
  BY <1>2, <1>3, <1>4
     DEF FlowNext, flowVars, chainVars, Place, Enqueue, EnqueueFails, Age, Expire

\* A worker turns to a sale only where the hash is there.
LEMMA SellMoves ==
  ASSUME FlowInv, FlowInv', [FlowNext]_flowVars, NEW o \in Orders, resOf[o] # Absent,
         NEW w \in Workers, w \in Selling(o)', w \notin Selling(o)
  PROVE  reservation'[resOf[o]] # Absent
<1>i. FlowTypeOK /\ Inv /\ WorkInv /\ Inv'
  BY DEF FlowInv
<1>1. /\ pc'[w] = "apply" /\ job'[w].order = o /\ w \in Handlers /\ Active(w)'
  BY Slots DEF Selling, Active
<1>2. job[w].order = o
  BY <1>1, CallerKeeps
<1>3. pc[w] # "apply"
  BY <1>2 DEF Selling
<1>4. [Next]_vars
  BY <1>i, FlowServes
<1>5. PICK d \in {"commit", "release"}, r \in ResIds : ReadHash(w, d, r) /\ reservation[r] # Absent
  BY <1>1, <1>3, <1>4, <1>i, CallMoves
<1>6. rid'[w] = r /\ reservation' = reservation
  BY <1>1, <1>5, <1>i, SlotOfReader
<1>7. rid'[w] = resOf'[o]
  BY <1>1 DEF FlowInv, WorkInv
<1>8. resOf'[o] = resOf[o]
  <2>1. ~Place(o)
    BY DEF Place, FlowInv, PlaceInv
  <2> QED
    BY <2>1, OrderMoves DEF OrderMove
<1> QED
  BY <1>5, <1>6, <1>7, <1>8

\* Whoever is about to delete the hash deletes it or dies.
LEMMA DropMoves ==
  ASSUME FlowInv, FlowInv', [FlowNext]_flowVars, NEW o \in Orders,
         NEW w \in Workers, w \in Dropping(o), w \notin Dropping(o)'
  PROVE  DelReservation(w) \/ Crash(w)
<1>i. FlowTypeOK /\ Inv /\ WorkInv
  BY DEF FlowInv
<1>1. pc[w] = "delReservation" /\ job[w].order = o /\ w \in Handlers
  BY Slots DEF Dropping
<1>2. pc'[w] # pc[w]
  <2>1. pc'[w] = pc[w] => job'[w] = job[w]
    BY <1>1, CallerKeeps
  <2> QED
    BY <1>1, <2>1 DEF Dropping
<1>3. [Next]_vars
  BY <1>i, FlowServes
<1>4. ASSUME NEW h \in Handlers, Handler(h) \/ Crash(h), h # w PROVE pc'[w] = pc[w]
  BY <1>4, <1>1, <1>i DEF Handler, CommitOnHand, CommitRefused, ReleaseIncr, DelReservation, DelIdem, Crash,
     Finish, Inv, TypeOK
<1>5. ASSUME NEW h \in Handlers, NEW d \in {"commit", "release"}, NEW r \in ResIds, ReadHash(h, d, r)
      PROVE  pc'[w] = pc[w]
  BY <1>5, <1>1, <1>i DEF ReadHash, handlerVars, Inv, TypeOK
<1>6. Handler(w) \/ Crash(w)
  BY <1>2, <1>3, <1>4, <1>5
     DEF Next, vars, handlerVars, ReserveStock, ReserveHit, ReserveReject, ReserveGrant,
         ExpireReservation, ExpireIdem
<1> QED
  BY <1>1, <1>6 DEF Handler, CommitOnHand, CommitRefused, ReleaseIncr, DelIdem

\* A death is counted against the reservation it befell.
LEMMA CrashCounts ==
  ASSUME FlowInv, FlowInv', [FlowNext]_flowVars, NEW r \in ResIds
  PROVE  /\ crashed[r] \in Nat /\ crashed'[r] \in Nat /\ crashed'[r] >= crashed[r]
         /\ \A h \in Handlers : Crash(h) /\ rid[h] = r =>
              crashed'[r] = crashed[r] + 1 /\ \A g \in Handlers \ {h} : pc'[g] = pc[g]
<1>i. Inv /\ Inv'
  BY DEF FlowInv
<1>1. crashed[r] \in Nat /\ crashed'[r] \in Nat
  BY <1>i DEF Inv, TypeOK
<1>2. [Next]_vars
  BY <1>i, FlowServes
<1>3. ASSUME NEW h \in Handlers, Crash(h)
      PROVE  /\ crashed'[r] = IF rid[h] = r THEN crashed[r] + 1 ELSE crashed[r]
             /\ \A g \in Handlers \ {h} : pc'[g] = pc[g]
  BY <1>3, <1>i DEF Crash, Finish, Inv, TypeOK
<1>4. CASE ~\E h \in Handlers : Crash(h)
  <2>1. UNCHANGED crashed
    BY <1>2, <1>4
       DEF Next, vars, historyVars, ReserveStock, ReserveHit, ReserveReject, ReserveGrant, ReadHash,
           Handler, CommitOnHand, CommitRefused, ReleaseIncr, DelReservation, DelIdem,
           ExpireReservation, ExpireIdem
  <2> QED
    BY <1>1, <1>4, <2>1
<1>5. CASE \E h \in Handlers : Crash(h)
  BY <1>1, <1>3, <1>5
<1> QED
  BY <1>1, <1>3, <1>4, <1>5

LEMMA SaleStep ==
  FlowInv /\ FlowInv' /\ CopiesInv' /\ SaleInv /\ [FlowNext]_flowVars => SaleInv'
<1> SUFFICES ASSUME FlowInv, FlowInv', CopiesInv', SaleInv, [FlowNext]_flowVars,
                    NEW o \in Orders, resOf'[o] # Absent
             PROVE  /\ reservation'[resOf'[o]] # Absent =>
                         sold'[resOf'[o]] <= Cardinality(Dropping(o)') + crashed'[resOf'[o]]
                    /\ sold'[resOf'[o]] + Cardinality(Selling(o)')
                         <= 1 + lost' + crashed'[resOf'[o]]
                    /\ sold'[resOf'[o]] + Cardinality(Selling(o)')
                         <= Cardinality(Workers) + crashed'[resOf'[o]]
  BY DEF SaleInv
<1>i. /\ FlowTypeOK /\ Inv /\ WorkInv /\ PlaceInv /\ CallInv
      /\ FlowTypeOK' /\ Inv' /\ WorkInv' /\ PlaceInv'
  BY DEF FlowInv
<1>s. /\ Selling(o) \in SUBSET Workers /\ Selling(o)' \in SUBSET Workers
      /\ Dropping(o) \in SUBSET Workers /\ Dropping(o)' \in SUBSET Workers
      /\ Copying(o)' \in SUBSET Workers
  BY DEF Selling, Dropping, Copying
<1>f. /\ IsFiniteSet(Selling(o)) /\ IsFiniteSet(Selling(o)')
      /\ IsFiniteSet(Dropping(o)) /\ IsFiniteSet(Dropping(o)')
      /\ Cardinality(Selling(o)) \in Nat /\ Cardinality(Selling(o)') \in Nat
      /\ Cardinality(Dropping(o)) \in Nat /\ Cardinality(Dropping(o)') \in Nat
      /\ Cardinality(Copying(o)') \in Nat /\ Cardinality(Workers) \in Nat
      /\ Cardinality(Copying(o)') <= Cardinality(Workers)
  BY <1>s, Fewer
<1>n. lost \in Nat /\ lost' \in Nat /\ lost' >= lost
  BY <1>i, CopyMoves DEF FlowTypeOK
<1>c. Cardinality(Copying(o)') <= 1 + lost'
  <2>1. \A q \in [Task -> Nat] : Total(q) \in Nat
    BY MessagesType
  <2>2. Total(queue'[o]) \in Nat
    BY <1>i, <2>1 DEF FlowTypeOK
  <2>3. Copies(o)' <= 1 + lost'
    BY <1>i, <1>n, CopyMoves DEF CopiesInv
  <2> QED
    BY <1>n, <1>f, <2>2, <2>3 DEF Copies
<1>1. CASE Place(o)
  <2>1. /\ resOf'[o] \in ResIds \ issued /\ ~InChain(o)
        /\ UNCHANGED <<sold, crashed, job, pc>>
    BY <1>1, <1>i, PlaceFacts
  <2>2. sold'[resOf'[o]] = 0 /\ crashed'[resOf'[o]] \in Nat
    BY <2>1, <1>i DEF CallInv, Inv, TypeOK
  <2>3. Selling(o)' = {}
    BY <2>1 DEF Selling, InChain
  <2>4. Cardinality(Selling(o)') = 0
    BY <2>3, FS_EmptySet
  <2> QED
    BY <2>2, <2>4, <1>f, <1>n
<1>2. CASE ~Place(o)
  <2> DEFINE r == resOf[o]
  <2>1. resOf'[o] = r /\ r # Absent /\ r \in ResIds
    BY <1>2, <1>i, OrderMoves DEF OrderMove, FlowTypeOK
  <2>0. /\ reservation[r] # Absent => sold[r] <= Cardinality(Dropping(o)) + crashed[r]
        /\ sold[r] + Cardinality(Selling(o)) <= 1 + lost + crashed[r]
        /\ sold[r] + Cardinality(Selling(o)) <= Cardinality(Workers) + crashed[r]
    BY <2>1 DEF SaleInv
  <2>n. /\ sold[r] \in Nat /\ sold'[r] \in Nat
        /\ crashed[r] \in Nat /\ crashed'[r] \in Nat /\ crashed'[r] >= crashed[r]
    BY <2>1, <1>i, CrashCounts DEF Inv, TypeOK
  \* The worker that sells moves on to delete the hash.
  <2>s. ASSUME sold'[r] # sold[r]
        PROVE  /\ sold'[r] = sold[r] + 1
               /\ Cardinality(Selling(o)') = Cardinality(Selling(o)) - 1
               /\ Cardinality(Dropping(o)') = Cardinality(Dropping(o)) + 1
    <3>1. PICK w \in Workers : CommitOnHand(w) /\ rid[w] = r /\ job[w].order = o
      BY <2>1, <2>s, SoldBy
    <3>2. /\ pc[w] = "apply" /\ pc'[w] = "delReservation" /\ sold'[r] = sold[r] + 1
          /\ \A g \in Handlers \ {w} : pc'[g] = pc[g]
      BY <3>1, <2>1, <1>i, Slots DEF CommitOnHand, Inv, TypeOK
    <3>3. \A u \in Workers \ {w} : pc'[u] = pc[u]
      BY <3>2, Slots
    <3>4. \A u \in Workers : pc[u] # "idle" \/ pc'[u] # "idle" => job'[u] = job[u]
      <4>1. job'[w] = job[w]
        BY <3>2, CallerKeeps
      <4>2. \A u \in Workers \ {w} : pc[u] # "idle" \/ pc'[u] # "idle" => job'[u] = job[u]
        BY <3>3, CallerKeeps
      <4> QED
        BY <4>1, <4>2
    <3>5. Selling(o)' \ {w} = Selling(o) \ {w} /\ Dropping(o)' \ {w} = Dropping(o) \ {w}
      BY <3>3, <3>4 DEF Selling, Dropping
    <3>6. w \in Selling(o) /\ w \notin Selling(o)' /\ w \notin Dropping(o) /\ w \in Dropping(o)'
      BY <3>1, <3>2, <3>4 DEF Selling, Dropping
    <3> QED
      BY <3>2, <3>5, <3>6, <1>f, OneMember
  <2>2. ASSUME reservation'[r] # Absent
        PROVE  sold'[r] <= Cardinality(Dropping(o)') + crashed'[r]
    <3>1. reservation[r] # Absent /\ ~\E h \in Handlers : DelReservation(h) /\ rid[h] = r
      <4>1. ASSUME NEW h \in Handlers, DelReservation(h), rid[h] = r PROVE FALSE
        BY <4>1, <2>1, <2>2, <1>i DEF DelReservation, Inv, TypeOK
      <4> QED
        BY <4>1, <2>1, <2>2, HashMoves DEF ExpireReservation
    <3>2. CASE sold'[r] # sold[r]
      BY <3>1, <3>2, <2>0, <2>n, <2>s, <1>f
    <3>3. CASE sold'[r] = sold[r] /\ Dropping(o) \subseteq Dropping(o)'
      <4>1. Cardinality(Dropping(o)) <= Cardinality(Dropping(o)')
        BY <3>3, <1>s, Fewer
      <4> QED
        BY <3>1, <3>3, <4>1, <2>0, <2>n, <1>f
    <3>4. ASSUME NEW w \in Workers, w \in Dropping(o), w \notin Dropping(o)', sold'[r] = sold[r]
          PROVE  sold'[r] <= Cardinality(Dropping(o)') + crashed'[r]
      <4>1. rid[w] = r /\ w \in Handlers /\ pc[w] # "idle"
        BY <3>4, <1>i, Slots DEF Dropping, WorkInv
      <4>2. Crash(w)
        BY <3>1, <3>4, <4>1, DropMoves
      <4>3. crashed'[r] = crashed[r] + 1 /\ \A g \in Handlers \ {w} : pc'[g] = pc[g]
        BY <4>1, <4>2, <2>1, CrashCounts
      <4>4. \A u \in Workers \ {w} : u \in Dropping(o) => u \in Dropping(o)'
        <5>1. \A u \in Workers \ {w} : pc'[u] = pc[u]
          BY <4>3, Slots
        <5>2. \A u \in Workers \ {w} : pc'[u] # "idle" => job'[u] = job[u]
          BY CallerKeeps
        <5> QED
          BY <5>1, <5>2 DEF Dropping
      <4>5. Dropping(o) \ {w} \in SUBSET Dropping(o)'
        BY <4>4, <1>s
      <4>6. Cardinality(Dropping(o) \ {w}) <= Cardinality(Dropping(o)')
        BY <4>5, <1>s, Fewer
      <4>7. Cardinality(Dropping(o) \ {w}) = Cardinality(Dropping(o)) - 1
        BY <3>4, <1>f, FS_RemoveElement
      <4> QED
        BY <3>1, <3>4, <4>3, <4>6, <4>7, <2>0, <2>n, <1>f
    <3> QED
      BY <3>2, <3>3, <3>4, <1>s
  <2>3. ASSUME reservation'[r] # Absent
        PROVE  /\ sold'[r] + Cardinality(Selling(o)') <= 1 + lost' + crashed'[r]
               /\ sold'[r] + Cardinality(Selling(o)') <= Cardinality(Workers) + crashed'[r]
    <3>1. Selling(o)' \in SUBSET Copying(o)' /\ Dropping(o)' \in SUBSET Copying(o)'
      <4>1. \A w \in Workers : pc'[w] # "idle" => phase'[w] = "rpc"
        BY <1>i DEF WorkInv
      <4> QED
        BY <4>1 DEF Selling, Dropping, Copying
    <3>2. \A w \in Selling(o)' : w \notin Dropping(o)'
      BY DEF Selling, Dropping
    <3>3. Cardinality(Selling(o)') + Cardinality(Dropping(o)') <= Cardinality(Copying(o)')
      BY <3>1, <3>2, <1>s, Parts
    <3> QED
      BY <2>2, <2>3, <2>n, <3>3, <1>c, <1>f, <1>n
  <2>4. ASSUME reservation'[r] = Absent
        PROVE  sold'[r] + Cardinality(Selling(o)') <= sold[r] + Cardinality(Selling(o))
    <3>1. CASE sold'[r] # sold[r]
      BY <3>1, <2>n, <2>s, <1>f
    <3>2. CASE sold'[r] = sold[r]
      <4>1. Selling(o)' \in SUBSET Selling(o)
        BY <2>1, <2>4, <1>s, SellMoves
      <4>2. Cardinality(Selling(o)') <= Cardinality(Selling(o))
        BY <4>1, <1>s, Fewer
      <4> QED
        BY <3>2, <4>2, <2>n, <1>f
    <3> QED
      BY <3>1, <3>2
  <2> HIDE DEF r
  <2>5. /\ reservation'[r] # Absent => sold'[r] <= Cardinality(Dropping(o)') + crashed'[r]
        /\ sold'[r] + Cardinality(Selling(o)') <= 1 + lost' + crashed'[r]
        /\ sold'[r] + Cardinality(Selling(o)') <= Cardinality(Workers) + crashed'[r]
    <3>1. CASE reservation'[r] # Absent
      BY <3>1, <2>2, <2>3
    <3>2. CASE reservation'[r] = Absent
      BY <3>2, <2>0, <2>4, <2>n, <1>f, <1>n
    <3> QED
      BY <3>1, <3>2
  <2> QED
    BY <2>1, <2>5
<1> QED
  BY <1>1, <1>2

CopyingInv == FlowInv /\ CopiesInv /\ InvoiceInv /\ SaleInv

LEMMA CopyingInit == FlowInit => CopyingInv
<1> SUFFICES ASSUME FlowInit, NEW o \in Orders
             PROVE  /\ Copies(o) <= lost + IF handoff[o] = "done" THEN 1 ELSE 0
                    /\ invoices[o] + Cardinality(Invoicing(o)) <= 1 + lost
                    /\ invoices[o] + Cardinality(Invoicing(o)) <= Cardinality(Workers)
                    /\ resOf[o] = Absent
  BY FlowInvInit DEF CopyingInv, CopiesInv, InvoiceInv, SaleInv
<1>1. /\ handoff[o] = "none" /\ lost = 0 /\ invoices[o] = 0 /\ resOf[o] = Absent
      /\ queue[o] = [t \in Task |-> 0]
  BY DEF FlowInit
<1>2. Copying(o) = {} /\ Invoicing(o) = {}
  BY Slots DEF FlowInit, Copying, Invoicing, NoJob
<1>3. Total(queue[o]) = 0
  BY <1>1, Tasks DEF Total
<1>4. Cardinality(Workers) \in Nat
  BY FulfilmentAssumption, FS_CardinalityType
<1>5. Cardinality(Copying(o)) = 0 /\ Cardinality(Invoicing(o)) = 0
  BY <1>2, FS_EmptySet
<1> QED
  BY <1>1, <1>3, <1>4, <1>5 DEF Copies

LEMMA CopyingStep == CopyingInv /\ [FlowNext]_flowVars => CopyingInv'
<1> SUFFICES ASSUME CopyingInv, [FlowNext]_flowVars PROVE CopyingInv'
  OBVIOUS
<1>1. FlowInv' /\ FlowTypeOK'
  BY FlowInvStep DEF CopyingInv, FlowInv
<1>2. CopiesInv'
  BY <1>1, CopiesStep DEF CopyingInv
<1> QED
  BY <1>1, <1>2, InvoiceStep, SaleStep DEF CopyingInv

\* However many workers serve the queue, and whatever sweeps, TTLs and failures do
\* meanwhile: an order is invoiced again, or its units leave the warehouse again, only
\* after a death, and no more often than there were deaths or than there are workers.
THEOREM DeathsBoundRepeats == FlowSpec => []RepeatsNeedDeaths
<1>1. CopyingInv => RepeatsNeedDeaths
  <2> SUFFICES ASSUME CopyingInv, NEW o \in Orders
               PROVE  /\ invoices[o] <= 1 + lost /\ invoices[o] <= Cardinality(Workers)
                      /\ resOf[o] # Absent =>
                           /\ sold[resOf[o]] <= 1 + lost + crashed[resOf[o]]
                           /\ sold[resOf[o]] <= Cardinality(Workers) + crashed[resOf[o]]
    BY DEF RepeatsNeedDeaths
  <2>1. Invoicing(o) \in SUBSET Workers /\ Selling(o) \in SUBSET Workers
    BY DEF Invoicing, Selling
  <2>2. /\ Cardinality(Invoicing(o)) \in Nat /\ Cardinality(Selling(o)) \in Nat
        /\ Cardinality(Workers) \in Nat
    BY <2>1, Fewer
  <2>3. /\ invoices[o] \in Nat /\ lost \in Nat
        /\ resOf[o] # Absent => sold[resOf[o]] \in Nat /\ crashed[resOf[o]] \in Nat
    BY DEF CopyingInv, FlowInv, FlowTypeOK, Inv, TypeOK
  <2>4. /\ invoices[o] <= 1 + lost /\ invoices[o] <= Cardinality(Workers)
    BY <2>2, <2>3 DEF CopyingInv, InvoiceInv
  <2>5. ASSUME resOf[o] # Absent
        PROVE  /\ sold[resOf[o]] <= 1 + lost + crashed[resOf[o]]
               /\ sold[resOf[o]] <= Cardinality(Workers) + crashed[resOf[o]]
    BY <2>2, <2>3, <2>5 DEF CopyingInv, SaleInv
  <2> QED
    BY <2>4, <2>5
<1> QED
  BY <1>1, CopyingInit, CopyingStep, PTL DEF FlowSpec

-----------------------------------------------------------------------------
(* Statuses, again with sweeps and TTLs away from chains under way.        *)

\* Where no copy runs beside another, what a task read is still so when its transaction
\* commits.
GateInv ==
  \/ CopiesOverlap
  \/ \A w \in Workers : phase[w] = "write" =>
       /\ job[w].task = 1 => status[job[w].order] = "pending"
       /\ job[w].task = 5 => status[job[w].order] = "paid"

\* Two workers with the same order mean that copies overlap.
LEMMA NotTwice ==
  ASSUME FlowTypeOK, CopiesInv, ~CopiesOverlap, NEW o \in Orders,
         NEW u \in Copying(o), NEW w \in Copying(o)
  PROVE  u = w
<1>1. /\ Cardinality(Copying(o)) \in Nat /\ Cardinality(Workers) \in Nat /\ lost \in Nat
      /\ Cardinality(Copying(o)) <= 1 + lost /\ Cardinality(Copying(o)) <= Cardinality(Workers)
  BY CopiesBound DEF FlowTypeOK
<1>2. Cardinality(Copying(o)) <= 1
  BY <1>1 DEF CopiesOverlap
<1>3. IsFiniteSet(Copying(o)) /\ Copying(o) \in SUBSET Workers
  <2>1. Copying(o) \in SUBSET Workers
    BY DEF Copying
  <2> QED
    BY <2>1, Fewer
<1>4. Cardinality(Copying(o) \ {u}) = Cardinality(Copying(o)) - 1 /\ IsFiniteSet(Copying(o) \ {u})
  BY <1>3, FS_RemoveElement
<1>5. Cardinality(Copying(o) \ {u}) \in Nat
  BY <1>4, FS_CardinalityType
<1>6. Cardinality(Copying(o) \ {u}) = 0
  BY <1>1, <1>2, <1>4, <1>5
<1>7. Copying(o) \ {u} = {}
  BY <1>4, <1>6, FS_EmptySet
<1> QED
  BY <1>7

LEMMA GateStep ==
  ApartInv /\ FlowInv' /\ CopiesInv /\ GateInv /\ [FlowNext]_flowVars => GateInv'
<1> SUFFICES ASSUME ApartInv, FlowInv', CopiesInv, GateInv, [FlowNext]_flowVars, ~CopiesOverlap',
                    NEW w \in Workers, phase'[w] = "write"
             PROVE  /\ job'[w].task = 1 => status'[job'[w].order] = "pending"
                    /\ job'[w].task = 5 => status'[job'[w].order] = "paid"
  BY DEF GateInv
<1>i. /\ FlowInv /\ FlowTypeOK /\ Inv /\ WorkInv /\ PlaceInv /\ HandsApart /\ FlowTypeOK'
  BY DEF ApartInv, FlowInv
<1>1. PICK o \in Orders : o = job[w].order
  BY <1>i, WriteAfterRead
<1>2. job'[w] = job[w] /\ phase[w] \in {"read", "write"}
  BY <1>i, WriteAfterRead DEF Read
<1>3. InChain(o) /\ status[o] # "none" /\ \A x \in Sweeps : o \notin treated[x]
  <2>1. InChain(o)
    BY <1>1 DEF InChain
  <2> QED
    BY <1>i, <2>1 DEF PlaceInv, HandsApart, InHand
<1>a. ~CopiesOverlap
  <2>1. lost' >= lost /\ lost \in Nat /\ lost' \in Nat
    BY <1>1, <1>i, CopyMoves DEF FlowTypeOK
  <2> QED
    BY <2>1 DEF CopiesOverlap
<1>4. status'[o] = status[o]
  <2>1. ~\E u \in Workers : Write(u) /\ job[u].order = o
    <3>1. ASSUME NEW u \in Workers, Write(u), job[u].order = o PROVE FALSE
      <4>1. u \in Copying(o) /\ w \in Copying(o)
        BY <1>1, <1>2, <3>1 DEF Copying, Write
      <4>2. u = w
        BY <4>1, <1>a, <1>i, NotTwice
      <4>3. phase'[u] = "done"
        BY <3>1, <1>i, WriteFacts
      <4> QED
        BY <4>2, <4>3
    <3> QED
      BY <3>1
  <2> QED
    BY <1>i, <1>3, <2>1, OrderMoves DEF OrderMove
<1>5. CASE phase[w] = "write"
  BY <1>1, <1>2, <1>4, <1>5, <1>a DEF GateInv
<1>6. CASE Read(w) /\ Gate(job[w].task, o)
  <2>1. /\ job[w].task = 1 => status[o] = "pending"
        /\ job[w].task = 5 => status[o] = "paid"
    BY <1>6, Tasks DEF Gate
  <2> QED
    BY <1>1, <1>2, <1>4, <2>1
<1> QED
  BY <1>1, <1>5, <1>6, <1>i, WriteAfterRead

\* No stale task and no sweep drags an order back to a status it has left, on any number
\* of workers, except that the capture of a second copy may reopen a dispatched order
\* where a process died.
THEOREM StatusesAdvance ==
  ASSUME Races = FALSE
  PROVE  FlowSpec => StatusAdvances
<1>1. FlowInit => GateInv
  BY DEF FlowInit, GateInv
<1>2. ApartInv /\ GateInv /\ [FlowNext]_flowVars =>
        [\A o \in Orders :
           \/ status'[o] = status[o]
           \/ <<status[o], status'[o]>> \in Moves
           \/ CopiesOverlap /\ status[o] = "fulfilling" /\ status'[o] = "paid"]_status
  <2> SUFFICES ASSUME ApartInv, GateInv, [FlowNext]_flowVars, NEW o \in Orders
               PROVE  \/ status'[o] = status[o]
                      \/ <<status[o], status'[o]>> \in Moves
                      \/ CopiesOverlap /\ status[o] = "fulfilling" /\ status'[o] = "paid"
    OBVIOUS
  <2>1. OrderMove(o)
    BY OrderMoves DEF ApartInv
  <2>2. ASSUME NEW x \in Sweeps, o \in treated[x], status'[o] = "cancelled"
        PROVE  status[o] = "pending"
    BY <2>2 DEF ApartInv, HandsApart, InHand
  <2>3. ASSUME NEW w \in Workers, Write(w), job[w].order = o
        PROVE  /\ job[w].task = 1 =>
                    status[o] = "pending" \/ (CopiesOverlap /\ status[o] \in {"paid", "fulfilling"})
               /\ job[w].task = 5 => status[o] \in {"paid", "fulfilling"}
    <3>1. phase[w] = "write" /\ InChain(o)
      BY <2>3 DEF Write, InChain
    <3>2. status[o] \in {"pending", "paid", "fulfilling"}
      BY <3>1, ChainStatus
    <3>3. job[w].task = 5 => Captured(o)
      BY <2>3 DEF Captured
    <3>4. job[w].task = 5 => status[o] \in {"paid", "fulfilling"}
      BY <3>3 DEF ApartInv, PaidInv
    <3>5. CopiesOverlap \/ (job[w].task = 1 => status[o] = "pending")
      BY <2>3, <3>1 DEF GateInv
    <3> QED
      BY <3>2, <3>4, <3>5
  <2> QED
    BY <2>1, <2>2, <2>3 DEF OrderMove, Moves
<1>3. ApartInv /\ [FlowNext]_flowVars => ApartInv'
  BY ApartStep
<1>4. ApartInv /\ ApartInv' /\ CopiesInv /\ GateInv /\ [FlowNext]_flowVars => GateInv'
  BY GateStep DEF ApartInv
<1>5. CopyingInv => CopiesInv
  BY DEF CopyingInv
<1> QED
  BY <1>1, <1>2, <1>3, <1>4, <1>5, ApartInit, CopyingInit, CopyingStep, PTL
     DEF FlowSpec, StatusAdvances
=============================================================================
