------------------------- MODULE TokenBucketProofs -------------------------
(***************************************************************************)
(* What holds of the limiter for every rule, any number of callers whose   *)
(* calls overtake each other, and any number of outages and idle expiries. *)
(***************************************************************************)
EXTENDS TokenBucket, TLAPS

Full == [tokens : 0 .. Capacity, last_refill : 0 .. MaxClock]

\* The earliest time stamp a call may still arrive with.
Earliest == Most(0, clock - Patience)

\* Stamps are recent, and the bucket's is not younger than its last use.
Timing ==
  /\ \A c \in Callers :
       stamp[c] # NoStamp => stamp[c] <= clock /\ Earliest <= stamp[c]
  /\ bucket # NoBucket => bucket.last_refill <= touched

\* The reference holds the same bucket; one that expired would be full by now.
RefInv ==
  /\ ref \in Full
  /\ bucket # NoBucket => bucket = ref
  /\ bucket = NoBucket => ref.tokens + (Earliest - ref.last_refill) * Rate >= Capacity

\* What flows in again because n calls came late.
Again(n) == n * (Rate * Patience)

\* What passed is covered by outages, late calls, the spent part of the bucket and the
\* inflow.
Budget ==
  passed <= Cost * outages + Again(late) +
    (IF bucket = NoBucket THEN Earliest * Rate
     ELSE Capacity - bucket.tokens + bucket.last_refill * Rate)

-----------------------------------------------------------------------------
(* Arithmetic: the only facts about products the proofs use.               *)

LEMMA ProductNat ==
  ASSUME NEW x \in Nat
  PROVE  x * Rate \in Nat
BY BucketAssumption

LEMMA ProductInt ==
  ASSUME NEW x \in Int
  PROVE  x * Rate \in Int
BY BucketAssumption

LEMMA ProductSum ==
  ASSUME NEW x \in Int, NEW y \in Int
  PROVE  /\ (x + y) * Rate = x * Rate + y * Rate
         /\ (x - y) * Rate = x * Rate - y * Rate
BY BucketAssumption

LEMMA ProductMono ==
  ASSUME NEW x \in Int, NEW y \in Int, x <= y
  PROVE  x * Rate <= y * Rate
<1>1. y - x \in Nat
  OBVIOUS
<1>2. (y - x) * Rate \in Nat
  BY <1>1, ProductNat
<1>3. (y - x) * Rate = y * Rate - x * Rate
  BY ProductSum
<1>4. x * Rate \in Int /\ y * Rate \in Int
  BY ProductInt
<1> QED
  BY <1>2, <1>3, <1>4

-----------------------------------------------------------------------------
(* The script                                                              *)

\* A refill keeps the tokens within the capacity.
LEMMA RefilledRange ==
  ASSUME NEW b, b = NoBucket \/ b \in Full, NEW now \in 0 .. MaxClock
  PROVE  Refilled(b, now) \in 0 .. Capacity
<1> DEFINE l == Loaded(b, now)
<1>1. l.tokens \in 0 .. Capacity /\ l.last_refill \in 0 .. MaxClock
  BY BucketAssumption DEF Loaded, Full
<1>2. Most(0, now - l.last_refill) \in Nat
  BY <1>1, BucketAssumption DEF Most
<1>3. Most(0, now - l.last_refill) * Rate \in Nat
  BY <1>2, ProductNat
<1> QED
  BY <1>1, <1>3, BucketAssumption DEF Refilled, Least

\* A bucket that is not there starts full.
LEMMA RefilledNew ==
  ASSUME NEW now \in 0 .. MaxClock
  PROVE  Refilled(NoBucket, now) = Capacity
<1>1. Loaded(NoBucket, now) = [tokens |-> Capacity, last_refill |-> now]
  BY DEF Loaded
<1>2. Most(0, now - now) = 0 /\ 0 * Rate = 0
  BY BucketAssumption DEF Most
<1> QED
  BY <1>1, <1>2, BucketAssumption DEF Refilled, Least

\* What the script stores is a bucket, stamped with the caller's clock.
LEMMA SpentFull ==
  ASSUME NEW b, b = NoBucket \/ b \in Full, NEW now \in 0 .. MaxClock
  PROVE  /\ Spent(b, now, Cost) \in Full
         /\ Spent(b, now, Cost) # NoBucket
         /\ Spent(b, now, Cost).last_refill = now
         /\ Spent(b, now, Cost).tokens =
              Refilled(b, now) - (IF Allows(b, now, Cost) THEN Cost ELSE 0)
<1>1. Refilled(b, now) \in 0 .. Capacity
  BY RefilledRange
<1>2. Refilled(b, now) - (IF Allows(b, now, Cost) THEN Cost ELSE 0) \in 0 .. Capacity
  BY <1>1, BucketAssumption DEF Allows
<1> HIDE DEF Refilled, Allows
<1> QED
  BY <1>2 DEF Spent, Full, NoBucket

LEMMA FullIsThere == ASSUME NEW b \in Full PROVE b # NoBucket
BY DEF Full, NoBucket

-----------------------------------------------------------------------------
(* Types and times                                                         *)

Inv == TypeOK /\ Timing

LEMMA InvInit == Init => Inv
BY BucketAssumption
   DEF Init, Inv, TypeOK, Timing, Earliest, Most, NoBucket, NoStamp

LEMMA InvTick == ASSUME Inv, Tick PROVE Inv'
BY BucketAssumption DEF Inv, TypeOK, Timing, Earliest, Most, Tick, NoStamp

LEMMA InvReadClock == ASSUME Inv, NEW c \in Callers, ReadClock(c) PROVE Inv'
BY BucketAssumption DEF Inv, TypeOK, Timing, Earliest, Most, ReadClock, NoStamp

\* The script runs, or does not, and the caller is done.
LEMMA InvScript ==
  ASSUME Inv, NEW c \in Callers, stamp[c] # NoStamp,
         stamp' = [stamp EXCEPT ![c] = NoStamp], clock' = clock,
         passed' \in Nat, outages' \in 0 .. MaxOutages, late' \in Nat,
         \/ bucket' = bucket /\ touched' = touched
         \/ bucket' = Spent(bucket, stamp[c], Cost) /\ touched' = clock
  PROVE  Inv'
<1>1. stamp[c] \in 0 .. MaxClock /\ stamp[c] <= clock
  BY DEF Inv, TypeOK, Timing
<1>2. bucket = NoBucket \/ bucket \in Full
  BY DEF Inv, TypeOK, Full
<1>3. /\ Spent(bucket, stamp[c], Cost) \in Full
      /\ Spent(bucket, stamp[c], Cost).last_refill = stamp[c]
  BY <1>1, <1>2, SpentFull
<1>4. bucket' = NoBucket \/ bucket' \in Full
  BY <1>2, <1>3
<1>5. bucket' # NoBucket => bucket'.last_refill <= touched'
  BY <1>1, <1>3 DEF Inv, Timing
<1>6. touched' \in 0 .. clock'
  BY DEF Inv, TypeOK
<1>7. stamp' \in [Callers -> (0 .. MaxClock) \cup {NoStamp}]
  BY DEF Inv, TypeOK
<1>8. \A d \in Callers : stamp'[d] # NoStamp => stamp'[d] = stamp[d]
  BY DEF Inv, TypeOK
<1>9. Timing'
  BY <1>5, <1>8 DEF Inv, Timing, Earliest
<1> QED
  BY <1>4, <1>6, <1>7, <1>9 DEF Inv, TypeOK, Full

LEMMA InvConsume == ASSUME Inv, NEW c \in Callers, Consume(c) PROVE Inv'
<1>1. passed' \in Nat /\ outages' \in 0 .. MaxOutages /\ late' \in Nat
  BY BucketAssumption DEF Consume, Inv, TypeOK
<1> QED
  BY <1>1, InvScript DEF Consume

LEMMA InvFailOpen ==
  ASSUME Inv, NEW c \in Callers, NEW ran \in BOOLEAN, FailOpen(c, ran)
  PROVE  Inv'
<1>1. passed' \in Nat /\ outages' \in 0 .. MaxOutages /\ late' \in Nat
  BY BucketAssumption DEF FailOpen, Inv, TypeOK
<1> QED
  BY <1>1, InvScript DEF FailOpen

LEMMA InvExpire == ASSUME Inv, Expire PROVE Inv'
BY DEF Inv, TypeOK, Timing, Earliest, Expire

LEMMA InvStep == Inv /\ [Next]_vars => Inv'
<1> SUFFICES ASSUME Inv, [Next]_vars PROVE Inv'
  OBVIOUS
<1>1. CASE UNCHANGED vars
  BY <1>1 DEF vars, Inv, TypeOK, Timing, Earliest
<1> QED
  BY <1>1, InvTick, InvReadClock, InvConsume, InvFailOpen, InvExpire DEF Next

\* The limiter keeps its types whatever overtakes whatever.
THEOREM TypeCorrect == Spec => []TypeOK
<1>1. Inv => TypeOK
  BY DEF Inv
<1> QED
  BY InvInit, InvStep, <1>1, PTL DEF Spec

-----------------------------------------------------------------------------
(* bucket.py                                                               *)

\* What the reference does with a bucket that was refilled to t tokens.
LEMMA ReferenceSpends ==
  ASSUME NEW b, NEW now, NEW t \in Int,
         PyRefill(b, now) = [tokens |-> t, last_refill |-> now]
  PROVE  PyTryConsume(b, Cost, now) =
           IF t >= Cost
           THEN [ok |-> TRUE, bucket |-> [tokens |-> t - Cost, last_refill |-> now]]
           ELSE [ok |-> FALSE, bucket |-> [tokens |-> t, last_refill |-> now]]
<1> DEFINE r == [tokens |-> t, last_refill |-> now]
<1>1. r.tokens = t
  OBVIOUS
<1>2. [r EXCEPT !.tokens = r.tokens - Cost] = [tokens |-> t - Cost, last_refill |-> now]
  OBVIOUS
<1>3. PyTryConsume(b, Cost, now) =
        IF r.tokens >= Cost
        THEN [ok |-> TRUE, bucket |-> [r EXCEPT !.tokens = r.tokens - Cost]]
        ELSE [ok |-> FALSE, bucket |-> r]
  BY Zenon DEF PyTryConsume
<1> HIDE DEF r
<1>4. r = [tokens |-> t, last_refill |-> now]
  BY DEF r
<1> QED
  BY <1>1, <1>2, <1>3, <1>4

\* On the same bucket the reference stores and answers what the script does.
LEMMA SameOnFull ==
  ASSUME NEW b \in Full, NEW now \in 0 .. MaxClock
  PROVE  /\ PyTryConsume(b, Cost, now).bucket = Spent(b, now, Cost)
         /\ PyTryConsume(b, Cost, now).ok = Allows(b, now, Cost)
<1>1. Loaded(b, now) = b
  BY FullIsThere DEF Loaded
<1>2. PyRefill(b, now) = [tokens |-> Refilled(b, now), last_refill |-> now]
  BY <1>1 DEF PyRefill, Refilled
<1>3. Refilled(b, now) \in Int
  BY RefilledRange
<1> DEFINE t == Refilled(b, now)
<1> HIDE DEF t
<1>4. PyTryConsume(b, Cost, now) =
        IF t >= Cost
        THEN [ok |-> TRUE, bucket |-> [tokens |-> t - Cost, last_refill |-> now]]
        ELSE [ok |-> FALSE, bucket |-> [tokens |-> t, last_refill |-> now]]
  BY <1>2, <1>3, ReferenceSpends DEF t
<1>5. /\ Spent(b, now, Cost) =
           [tokens |-> t - (IF t >= Cost THEN Cost ELSE 0), last_refill |-> now]
      /\ Allows(b, now, Cost) = (t >= Cost)
  BY DEF Spent, Allows, t
<1>6. CASE t >= Cost
  <2>1. Allows(b, now, Cost) = TRUE
    BY <1>5, <1>6
  <2>2. Spent(b, now, Cost) = [tokens |-> t - Cost, last_refill |-> now]
    BY <1>5, <1>6
  <2>3. PyTryConsume(b, Cost, now) =
          [ok |-> TRUE, bucket |-> [tokens |-> t - Cost, last_refill |-> now]]
    BY <1>4, <1>6
  <2> QED
    BY <2>1, <2>2, <2>3
<1>7. CASE ~(t >= Cost)
  <2>1. Allows(b, now, Cost) = FALSE
    BY <1>3, <1>7, BucketAssumption DEF Allows, t
  <2>2. t - 0 = t
    BY <1>3 DEF t
  <2>3. Spent(b, now, Cost) = [tokens |-> t, last_refill |-> now]
    BY <1>5, <1>7, <2>2
  <2>4. PyTryConsume(b, Cost, now) =
          [ok |-> FALSE, bucket |-> [tokens |-> t, last_refill |-> now]]
    BY <1>4, <1>7
  <2>5. PyTryConsume(b, Cost, now).ok = FALSE
    BY <2>4
  <2>6. PyTryConsume(b, Cost, now).bucket = Spent(b, now, Cost)
    BY <2>3, <2>4
  <2>7. PyTryConsume(b, Cost, now).ok = Allows(b, now, Cost)
    BY <2>1, <2>5, Zenon
  <2> QED
    BY <2>6, <2>7
<1> QED
  BY <1>6, <1>7

\* An expired bucket counts as full, and so does the one the reference kept.
LEMMA SameOnExpired ==
  ASSUME Inv, RefInv, bucket = NoBucket,
         NEW now \in 0 .. MaxClock, Earliest <= now
  PROVE  /\ PyTryConsume(ref, Cost, now).bucket = Spent(NoBucket, now, Cost)
         /\ PyTryConsume(ref, Cost, now).ok = Allows(NoBucket, now, Cost)
<1> DEFINE lr == ref.last_refill
           flow == Most(0, now - lr) * Rate
<1>1. ref.tokens \in 0 .. Capacity /\ lr \in 0 .. MaxClock /\ Earliest \in Int
  BY BucketAssumption DEF RefInv, Full, Earliest, Most, Inv, TypeOK
<1>2. (Earliest - lr) * Rate <= flow
  BY <1>1, ProductMono DEF Most
<1>3. flow \in Int /\ (Earliest - lr) * Rate \in Int
  BY <1>1, ProductInt DEF Most
<1>4. ref.tokens + flow >= Capacity
  BY <1>1, <1>2, <1>3, BucketAssumption DEF RefInv
<1>5. PyRefill(ref, now) = [tokens |-> Capacity, last_refill |-> now]
  BY <1>1, <1>3, <1>4, BucketAssumption DEF PyRefill, Least
<1>6. Refilled(NoBucket, now) = Capacity
  BY RefilledNew
<1>7. PyTryConsume(ref, Cost, now) =
        [ok |-> TRUE, bucket |-> [tokens |-> Capacity - Cost, last_refill |-> now]]
  BY <1>5, ReferenceSpends, BucketAssumption
<1>8. /\ Spent(NoBucket, now, Cost) = [tokens |-> Capacity - Cost, last_refill |-> now]
      /\ Allows(NoBucket, now, Cost) = TRUE
  BY <1>6, BucketAssumption DEF Spent, Allows
<1> QED
  BY <1>7, <1>8

LEMMA RefInit == Init => RefInv
BY BucketAssumption, ProductNat DEF Init, RefInv, Full, Earliest, Most, NoBucket

\* The script and the reference are fed with the same call.
LEMMA RefScript ==
  ASSUME Inv, RefInv, NEW c \in Callers, stamp[c] # NoStamp, clock' = clock,
         \/ bucket' = bucket /\ ref' = ref
         \/ /\ bucket' = Spent(bucket, stamp[c], Cost)
            /\ ref' = PyTryConsume(ref, Cost, stamp[c]).bucket
  PROVE  RefInv'
<1>1. stamp[c] \in 0 .. MaxClock /\ Earliest <= stamp[c]
  BY DEF Inv, TypeOK, Timing
<1>2. bucket = NoBucket \/ bucket \in Full
  BY DEF Inv, TypeOK, Full
<1>3. Spent(bucket, stamp[c], Cost) \in Full /\ Spent(bucket, stamp[c], Cost) # NoBucket
  BY <1>1, <1>2, SpentFull
<1>4. PyTryConsume(ref, Cost, stamp[c]).bucket = Spent(bucket, stamp[c], Cost)
  <2>1. CASE bucket = NoBucket
    BY <2>1, <1>1, SameOnExpired
  <2>2. CASE bucket # NoBucket
    BY <2>2, <1>1, <1>2, SameOnFull DEF RefInv
  <2> QED
    BY <2>1, <2>2
<1> QED
  BY <1>3, <1>4 DEF RefInv, Earliest

\* Time only adds to what an expired bucket would hold.
LEMMA RefTick == ASSUME Inv, RefInv, Tick PROVE RefInv'
<1>1. Earliest \in Int /\ Earliest' \in Int /\ Earliest <= Earliest'
  BY BucketAssumption DEF Earliest, Most, Inv, TypeOK, Tick
<1>2. ref \in Full /\ ref' = ref /\ ref.last_refill \in Int /\ ref.tokens \in Int
  BY DEF RefInv, Full, Tick
<1>3. (Earliest - ref.last_refill) * Rate <= (Earliest' - ref.last_refill) * Rate
  BY <1>1, <1>2, ProductMono
<1>4. /\ (Earliest - ref.last_refill) * Rate \in Int
      /\ (Earliest' - ref.last_refill) * Rate \in Int
  BY <1>1, <1>2, ProductInt
<1> QED
  BY <1>2, <1>3, <1>4, BucketAssumption DEF RefInv, Tick

\* A bucket is dropped only when it would be full for every call still to come.
LEMMA RefExpire == ASSUME Inv, RefInv, Expire PROVE RefInv'
<1>1. bucket = ref /\ ref \in Full /\ ref.last_refill <= touched /\ touched <= clock - Idle
  BY BucketAssumption DEF Inv, TypeOK, Timing, RefInv, Expire
<1>2. ref.last_refill \in Int /\ ref.tokens \in Nat /\ clock \in Nat /\ touched \in Nat
  BY <1>1 DEF Full, Inv, TypeOK
<1>3. Earliest \in Int /\ Idle - Patience <= Earliest - ref.last_refill
  BY <1>1, <1>2, BucketAssumption DEF Earliest, Most
<1>4. (Idle - Patience) * Rate <= (Earliest - ref.last_refill) * Rate
  BY <1>2, <1>3, ProductMono, BucketAssumption
<1>5. (Idle - Patience) * Rate = Rate * (Idle - Patience)
  BY BucketAssumption
<1>6. (Idle - Patience) * Rate \in Int /\ (Earliest - ref.last_refill) * Rate \in Int
  BY <1>2, <1>3, ProductInt, BucketAssumption
<1>7. ref.tokens + (Earliest - ref.last_refill) * Rate >= Capacity
  BY <1>2, <1>4, <1>5, <1>6, BucketAssumption
<1> QED
  BY <1>1, <1>7 DEF RefInv, Expire, Earliest

LEMMA RefStep == Inv /\ RefInv /\ [Next]_vars => RefInv'
<1> SUFFICES ASSUME Inv, RefInv, [Next]_vars PROVE RefInv'
  OBVIOUS
<1>1. CASE UNCHANGED vars
  BY <1>1 DEF vars, RefInv, Earliest
<1>2. ASSUME NEW c \in Callers, ReadClock(c) PROVE RefInv'
  BY <1>2 DEF ReadClock, RefInv, Earliest
<1>3. ASSUME NEW c \in Callers, Consume(c) PROVE RefInv'
  BY <1>3, RefScript DEF Consume
<1>4. ASSUME NEW c \in Callers, NEW ran \in BOOLEAN, FailOpen(c, ran) PROVE RefInv'
  BY <1>4, RefScript DEF FailOpen
<1> QED
  BY <1>1, <1>2, <1>3, <1>4, RefTick, RefExpire DEF Next

\* bucket.py and bucket.lua decide every next call alike, through outages, idle
\* expiry and calls that overtake each other.
THEOREM ReferenceAgrees == Spec => []AgreesWithReference
<1>1. Inv /\ RefInv => AgreesWithReference
  <2> SUFFICES ASSUME Inv, RefInv, NEW now \in clock .. MaxClock
               PROVE  /\ PyTryConsume(ref, Cost, now).ok = Allows(bucket, now, Cost)
                      /\ bucket # NoBucket => bucket = ref
    BY DEF AgreesWithReference
  <2>1. now \in 0 .. MaxClock /\ Earliest <= now
    BY BucketAssumption DEF Inv, TypeOK, Earliest, Most
  <2>2. CASE bucket = NoBucket
    BY <2>1, <2>2, SameOnExpired
  <2>3. CASE bucket # NoBucket
    BY <2>1, <2>3, SameOnFull DEF RefInv
  <2> QED
    BY <2>2, <2>3
<1> QED
  BY InvInit, InvStep, RefInit, RefStep, <1>1, PTL DEF Spec

-----------------------------------------------------------------------------
(* The rate                                                                *)

RateInv == Inv /\ Budget

\* One more late call adds what flows in during its flight.
LEMMA LateTerms ==
  ASSUME NEW n \in Nat
  PROVE  /\ Again(n) \in Nat /\ Rate * Patience \in Nat /\ Again(0) = 0
         /\ Again(n + 1) = Again(n) + Rate * Patience
         /\ Rate * Patience * n = Again(n)
<1> DEFINE k == Rate * Patience
<1>1. k \in Nat
  BY BucketAssumption
<1> HIDE DEF k
<1>2. /\ n * k \in Nat /\ (n + 1) * k = n * k + k /\ 0 * k = 0 /\ k * n = n * k
  BY <1>1
<1> QED
  BY <1>1, <1>2 DEF Again, k

\* The right-hand side of the bound, as the products the proofs reason about.
LEMMA BudgetTerms ==
  ASSUME Inv
  PROVE  /\ Earliest \in Nat /\ Earliest * Rate \in Nat /\ Earliest <= clock
         /\ Cost * outages \in Nat /\ Again(late) \in Nat /\ late \in Nat
         /\ bucket # NoBucket =>
              /\ bucket.tokens \in 0 .. Capacity /\ bucket.last_refill \in 0 .. MaxClock
              /\ bucket.last_refill * Rate \in Nat
              /\ bucket.last_refill <= clock
<1>1. Earliest \in Nat /\ Earliest <= clock
  BY BucketAssumption DEF Inv, TypeOK, Earliest, Most
<1>2. Earliest * Rate \in Nat
  BY <1>1, ProductNat
<1>3. Cost * outages \in Nat /\ Again(late) \in Nat /\ late \in Nat
  <2>1. late \in Nat
    BY DEF Inv, TypeOK
  <2>2. Again(late) \in Nat
    BY <2>1, LateTerms
  <2> QED
    BY <2>1, <2>2, BucketAssumption DEF Inv, TypeOK
<1>4. ASSUME bucket # NoBucket
      PROVE  /\ bucket.tokens \in 0 .. Capacity /\ bucket.last_refill \in 0 .. MaxClock
             /\ bucket.last_refill <= clock
  BY <1>4 DEF Inv, TypeOK, Timing
<1>5. ASSUME bucket # NoBucket
      PROVE  bucket.last_refill * Rate \in Nat
  BY <1>4, <1>5, ProductNat
<1> QED
  BY <1>1, <1>2, <1>3, <1>4, <1>5

\* The script pays for what it lets through out of the bucket and the inflow.
LEMMA BudgetScript ==
  ASSUME Inv, Budget, NEW c \in Callers, stamp[c] # NoStamp,
         NEW b, b = Spent(bucket, stamp[c], Cost)
  PROVE  passed + (IF Allows(bucket, stamp[c], Cost) THEN Cost ELSE 0)
           <= Cost * outages
                + Again(late + (IF Overtaken(bucket, stamp[c]) THEN 1 ELSE 0))
                + (Capacity - b.tokens + b.last_refill * Rate)
<1> DEFINE now == stamp[c]
           cost == IF Allows(bucket, now, Cost) THEN Cost ELSE 0
           filled == Refilled(bucket, now)
           again == Again(late + (IF Overtaken(bucket, now) THEN 1 ELSE 0))
<1>1. now \in 0 .. MaxClock /\ Earliest <= now
  BY DEF Inv, TypeOK, Timing
<1>2. bucket = NoBucket \/ bucket \in Full
  BY DEF Inv, TypeOK, Full
<1>3. b.last_refill = now /\ b.tokens = filled - cost /\ filled \in 0 .. Capacity
  BY <1>1, <1>2, SpentFull, RefilledRange
<1>4. now * Rate \in Nat
  BY <1>1, ProductNat
<1>a. again \in Nat /\ Again(late) \in Nat /\ again >= Again(late) /\ late \in Nat
  <2> DEFINE more == Overtaken(bucket, now)
  <2>1. late \in Nat /\ Again(late) \in Nat
    BY BudgetTerms
  <2>2. /\ Again(late + 1) = Again(late) + Rate * Patience
        /\ Rate * Patience \in Nat
    BY <2>1, LateTerms
  <2>3. CASE more
    <3>1. again = Again(late + 1)
      BY <2>3
    <3> HIDE DEF again
    <3> QED
      BY <2>1, <2>2, <3>1
  <2>4. CASE ~more
    <3>1. again = Again(late)
      <4>1. late + 0 = late
        BY <2>1
      <4> QED
        BY <2>4, <4>1
    <3> HIDE DEF again
    <3> QED
      BY <2>1, <3>1
  <2> QED
    BY <2>3, <2>4
<1>5. passed + filled <= Cost * outages + again + Capacity + now * Rate
  <2>1. CASE bucket = NoBucket
    <3>1. filled = Capacity
      BY <1>1, <2>1, RefilledNew
    <3>2. Earliest * Rate <= now * Rate
      BY <1>1, BudgetTerms, ProductMono
    <3> HIDE DEF filled, again
    <3> QED
      BY <1>1, <1>4, <1>a, <2>1, <3>1, <3>2, BudgetTerms, BucketAssumption
         DEF Budget, Inv, TypeOK
  <2>2. CASE bucket # NoBucket
    <3> DEFINE lr == bucket.last_refill
    <3>1. /\ lr \in Nat /\ lr <= clock /\ lr * Rate \in Nat
          /\ bucket.tokens \in Nat /\ bucket.tokens <= Capacity
      BY <2>2, BudgetTerms, BucketAssumption
    <3>2. Loaded(bucket, now) = bucket
      BY <2>2 DEF Loaded
    <3>3. passed + bucket.tokens <= Cost * outages + Again(late) + Capacity + lr * Rate
      BY <2>2, <3>1, BudgetTerms, BucketAssumption DEF Budget, Inv, TypeOK
    <3>4. CASE lr <= now
      <4>1. Most(0, now - lr) = now - lr
        BY <1>1, <3>1, <3>4 DEF Most
      <4>2. (now - lr) * Rate = now * Rate - lr * Rate
        <5> HIDE DEF now, lr
        <5>1. now \in Int /\ lr \in Int
          BY <1>1, <3>1
        <5> QED
          BY <5>1, ProductSum
      <4>3. filled <= bucket.tokens + (now * Rate - lr * Rate)
        BY <1>1, <1>4, <3>1, <3>2, <4>1, <4>2, BucketAssumption DEF Refilled, Least
      <4> HIDE DEF filled, again
      <4> QED
        BY <1>3, <1>4, <1>a, <3>1, <3>3, <4>3, BudgetTerms, BucketAssumption DEF Inv, TypeOK
    \* An overtaken call refills nothing and takes the bucket's clock back.
    <3>5. CASE ~(lr <= now)
      <4>1. Most(0, now - lr) = 0 /\ 0 * Rate = 0
        BY <1>1, <3>1, <3>5, BucketAssumption DEF Most
      <4>2. filled <= bucket.tokens
        BY <3>1, <3>2, <4>1, BucketAssumption DEF Refilled, Least
      <4>3. again = Again(late) + Rate * Patience /\ Rate * Patience \in Nat
        <5>1. Overtaken(bucket, now)
          BY <1>1, <2>2, <3>1, <3>5 DEF Overtaken
        <5> QED
          BY <5>1, <1>a, LateTerms
      <4>4. lr * Rate <= now * Rate + Rate * Patience
        <5>1. Patience \in Nat /\ lr <= now + Patience /\ now \in Nat
          BY <1>1, <3>1, BucketAssumption DEF Earliest, Most, Inv, TypeOK
        <5>2. lr * Rate <= (now + Patience) * Rate
          BY <3>1, <5>1, ProductMono
        <5>3. (now + Patience) * Rate = now * Rate + Patience * Rate
          <6> HIDE DEF now
          <6>1. now \in Int /\ Patience \in Int
            BY <5>1
          <6> QED
            BY <6>1, ProductSum
        <5>4. Patience * Rate = Rate * Patience
          BY <5>1, BucketAssumption
        <5> QED
          BY <5>2, <5>3, <5>4
      <4> HIDE DEF filled, again
      <4> QED
        BY <1>3, <1>4, <1>a, <3>1, <3>3, <4>2, <4>3, <4>4, BudgetTerms, BucketAssumption
           DEF Inv, TypeOK
    <3> QED
      BY <3>4, <3>5
  <2> QED
    BY <2>1, <2>2
<1>6. cost \in Nat
  BY BucketAssumption
<1> HIDE DEF filled, cost, again
<1>7. passed + cost <= Cost * outages + again + (Capacity - b.tokens + b.last_refill * Rate)
  BY <1>3, <1>4, <1>5, <1>6, <1>a, BudgetTerms, BucketAssumption DEF Inv, TypeOK
<1> QED
  BY <1>7 DEF cost, again

\* Time only adds to the inflow.
LEMMA BudgetTick == ASSUME Inv, Budget, Tick PROVE Budget'
<1>1. Earliest' \in Nat /\ Earliest <= Earliest'
  BY BucketAssumption DEF Earliest, Most, Inv, TypeOK, Tick
<1>2. Earliest * Rate <= Earliest' * Rate /\ Earliest' * Rate \in Nat
  BY <1>1, BudgetTerms, ProductMono, ProductNat
<1>3. CASE bucket = NoBucket
  BY <1>2, <1>3, BudgetTerms DEF Budget, Tick, Inv, TypeOK
<1>4. CASE bucket # NoBucket
  BY <1>4 DEF Budget, Tick
<1> QED
  BY <1>3, <1>4

LEMMA BudgetConsume ==
  ASSUME Inv, Budget, NEW c \in Callers, Consume(c)
  PROVE  Budget'
<1>1. stamp[c] \in 0 .. MaxClock /\ (bucket = NoBucket \/ bucket \in Full)
  BY DEF Inv, TypeOK, Full, Consume
<1>2. bucket' # NoBucket /\ bucket' = Spent(bucket, stamp[c], Cost)
  BY <1>1, SpentFull DEF Consume
<1>3. passed' <= Cost * outages + Again(late')
                   + (Capacity - bucket'.tokens + bucket'.last_refill * Rate)
  BY <1>2, BudgetScript DEF Consume
<1> QED
  BY <1>2, <1>3 DEF Budget, Consume

\* A call that Redis fails is paid for by the outages.
LEMMA BudgetFailOpen ==
  ASSUME Inv, Budget, NEW c \in Callers, NEW ran \in BOOLEAN, FailOpen(c, ran)
  PROVE  Budget'
<1>1. Cost * outages' = Cost * outages + Cost /\ Cost \in Nat /\ passed \in Nat
  BY BucketAssumption DEF FailOpen, Inv, TypeOK
<1>2. CASE ran
  <2>1. stamp[c] \in 0 .. MaxClock /\ (bucket = NoBucket \/ bucket \in Full)
    BY DEF Inv, TypeOK, Full, FailOpen
  <2>2. /\ bucket' # NoBucket /\ bucket' = Spent(bucket, stamp[c], Cost)
        /\ bucket'.tokens \in Int /\ bucket'.last_refill \in Nat
    <3>1. bucket' = Spent(bucket, stamp[c], Cost)
      BY <1>2 DEF FailOpen
    <3>2. Spent(bucket, stamp[c], Cost) \in Full /\ Spent(bucket, stamp[c], Cost) # NoBucket
      BY <2>1, SpentFull
    <3> QED
      BY <3>1, <3>2 DEF Full
  <2>3. passed + (IF Allows(bucket, stamp[c], Cost) THEN Cost ELSE 0)
          <= Cost * outages + Again(late')
               + (Capacity - bucket'.tokens + bucket'.last_refill * Rate)
    BY <1>2, <2>2, BudgetScript DEF FailOpen
  <2>a. Again(late') \in Nat
    <3>1. late' \in Nat
      BY BudgetTerms DEF FailOpen
    <3> QED
      BY <3>1, LateTerms
  <2>4. bucket'.last_refill * Rate \in Int
    BY <2>2, ProductInt
  <2>5. passed <= Cost * outages + Again(late')
                    + (Capacity - bucket'.tokens + bucket'.last_refill * Rate)
    <3> DEFINE cost == IF Allows(bucket, stamp[c], Cost) THEN Cost ELSE 0
    <3>1. cost \in Nat
      BY <1>1
    <3> HIDE DEF cost
    <3>2. passed + cost
            <= Cost * outages + Again(late')
                 + (Capacity - bucket'.tokens + bucket'.last_refill * Rate)
      BY <2>3 DEF cost
    <3> QED
      BY <1>1, <2>2, <2>4, <2>a, <3>1, <3>2, BudgetTerms, BucketAssumption
  <2>6. passed' = passed + Cost
    BY DEF FailOpen
  <2>7. passed' <= Cost * outages' + Again(late')
                     + (Capacity - bucket'.tokens + bucket'.last_refill * Rate)
    BY <1>1, <2>2, <2>4, <2>5, <2>6, <2>a, BudgetTerms, BucketAssumption
  <2> QED
    BY <2>2, <2>7 DEF Budget
<1>3. CASE ~ran
  <2>1. /\ bucket' = bucket /\ clock' = clock /\ passed' = passed + Cost /\ late' = late
    BY <1>3, BudgetTerms DEF FailOpen
  <2>2. CASE bucket = NoBucket
    BY <1>1, <2>1, <2>2, BudgetTerms DEF Budget, Earliest
  <2>3. CASE bucket # NoBucket
    BY <1>1, <2>1, <2>3, BudgetTerms, BucketAssumption DEF Budget
  <2> QED
    BY <2>2, <2>3
<1> QED
  BY <1>2, <1>3

\* The inflow of the idle time makes up for a bucket that starts full again.
LEMMA BudgetExpire == ASSUME Inv, Budget, Expire PROVE Budget'
<1> DEFINE lr == bucket.last_refill
<1>1. bucket # NoBucket /\ lr \in Nat /\ bucket.tokens \in Nat /\ lr * Rate \in Nat
  BY BudgetTerms DEF Expire
<1>2. (Idle - Patience) + lr <= Earliest /\ Idle - Patience \in Nat
  <2>1. lr <= touched /\ touched <= clock - Idle /\ touched \in Nat /\ clock \in Nat
    BY <1>1, BucketAssumption DEF Expire, Inv, TypeOK, Timing
  <2> QED
    BY <1>1, <2>1, BucketAssumption DEF Earliest, Most
<1>3. ((Idle - Patience) + lr) * Rate <= Earliest * Rate
  BY <1>1, <1>2, BudgetTerms, ProductMono
<1>4. /\ ((Idle - Patience) + lr) * Rate = (Idle - Patience) * Rate + lr * Rate
      /\ (Idle - Patience) * Rate \in Nat
  <2> DEFINE rest == Idle - Patience
  <2>1. rest \in Nat /\ rest \in Int /\ lr \in Int
    BY <1>1, <1>2
  <2> HIDE DEF rest
  <2>2. (rest + lr) * Rate = rest * Rate + lr * Rate
    BY <2>1, ProductSum
  <2>3. rest * Rate \in Nat
    BY <2>1, ProductNat
  <2> QED
    BY <2>2, <2>3 DEF rest
<1>5. Capacity <= (Idle - Patience) * Rate
  BY BucketAssumption
<1>6. passed <= Cost * outages + Again(late) + (Capacity - bucket.tokens + lr * Rate)
  BY <1>1 DEF Budget
<1>7. passed <= Cost * outages + Again(late) + Earliest * Rate
  BY <1>1, <1>3, <1>4, <1>5, <1>6, BudgetTerms, BucketAssumption DEF Inv, TypeOK
<1> QED
  BY <1>7 DEF Budget, Expire, Earliest

LEMMA RateInit == Init => Budget
<1> SUFFICES ASSUME Init PROVE Budget
  OBVIOUS
<1>1. Inv
  BY InvInit
<1> QED
  BY <1>1, BudgetTerms DEF Init, Budget

LEMMA RateStep == RateInv /\ [Next]_vars => RateInv'
<1> SUFFICES ASSUME RateInv, [Next]_vars PROVE RateInv'
  OBVIOUS
<1>1. Inv'
  BY InvStep DEF RateInv
<1>2. Budget'
  <2>1. CASE UNCHANGED vars
    BY <2>1 DEF vars, RateInv, Budget, Earliest
  <2>2. ASSUME NEW c \in Callers, ReadClock(c) PROVE Budget'
    BY <2>2 DEF ReadClock, RateInv, Budget, Earliest
  <2> QED
    BY <2>1, <2>2, BudgetTick, BudgetConsume, BudgetFailOpen, BudgetExpire DEF Next, RateInv
<1> QED
  BY <1>1, <1>2 DEF RateInv

\* Whatever the rule, however many processes share the bucket and however their calls
\* overtake each other: no more pass than a full bucket, the inflow since, the calls
\* that Redis failed, and for each call that came late the inflow during its flight.
THEOREM RateKept == Spec => []RateBound
<1>1. RateInv => RateBound
  <2> SUFFICES ASSUME RateInv PROVE RateBound
    OBVIOUS
  <2>1. passed \in Nat /\ clock \in Nat /\ Rate * clock = clock * Rate
    BY BucketAssumption DEF RateInv, Inv, TypeOK
  <2>a. Rate * Patience * late = Again(late)
    BY BudgetTerms, LateTerms DEF RateInv
  <2>2. Earliest * Rate <= clock * Rate /\ clock * Rate \in Nat
    BY <2>1, BudgetTerms, ProductMono, ProductNat DEF RateInv
  <2>3. CASE bucket = NoBucket
    BY <2>1, <2>2, <2>3, <2>a, BudgetTerms, BucketAssumption DEF RateInv, Budget, RateBound
  <2>4. CASE bucket # NoBucket
    <3>1. bucket.last_refill * Rate <= clock * Rate
      BY <2>1, <2>4, BudgetTerms, ProductMono DEF RateInv
    <3> QED
      BY <2>1, <2>2, <2>4, <2>a, <3>1, BudgetTerms, BucketAssumption DEF RateInv, Budget, RateBound
  <2> QED
    BY <2>3, <2>4
<1>2. Init => RateInv
  BY InvInit, RateInit DEF RateInv
<1>3. RateInv /\ [Next]_vars => RateInv'
  BY RateStep
<1> QED
  BY <1>1, <1>2, <1>3, PTL DEF Spec

-----------------------------------------------------------------------------
(* The wait                                                                *)

LEMMA Division ==
  ASSUME NEW x \in Nat, NEW y \in Nat \ {0}
  PROVE  /\ x \div y \in Nat
         /\ (x \div y) * y <= x
         /\ x < (x \div y) * y + y
BY SMT

\* What flows in during the wait makes up the missing part of a token, and what flows
\* in during one tick less does not.
LEMMA RetryAfterIsLeast ==
  ASSUME NEW b, NEW now \in Nat, Refilled(b, now) \in 0 .. Cost - 1
  PROVE  LET w == RetryAfter(b, now, Cost) IN
         /\ w \in Nat /\ w >= 1
         /\ Refilled(b, now) + w * Rate >= Cost
         /\ Refilled(b, now) + (w - 1) * Rate < Cost
<1> DEFINE short == Cost - Refilled(b, now)
           w == (short + Rate - 1) \div Rate
<1>1. short \in Nat /\ short >= 1 /\ Rate \in Nat \ {0} /\ short + Rate - 1 \in Nat
  BY BucketAssumption
<1>2. w \in Nat /\ w * Rate <= short + Rate - 1 /\ short + Rate - 1 < w * Rate + Rate
  <2> HIDE DEF short
  <2> QED
    BY <1>1, Division
<1>3. w # 0
  <2>1. 0 * Rate = 0
    BY <1>1
  <2> HIDE DEF short, w
  <2> QED
    BY <1>1, <1>2, <2>1
<1>4. w * Rate \in Nat /\ (w - 1) * Rate = w * Rate - Rate
  <2> HIDE DEF w
  <2>1. w \in Int /\ 1 \in Int /\ 1 * Rate = Rate
    BY <1>1, <1>2
  <2> QED
    BY <1>2, <2>1, ProductNat, ProductSum
<1>5. short = Cost - Refilled(b, now) /\ RetryAfter(b, now, Cost) = w /\ Refilled(b, now) \in Int
  BY DEF RetryAfter
<1> HIDE DEF short, w
<1>6. Refilled(b, now) + w * Rate >= Cost /\ Refilled(b, now) + (w - 1) * Rate < Cost
  BY <1>1, <1>2, <1>4, <1>5, BucketAssumption
<1> QED
  BY <1>2, <1>3, <1>5, <1>6

\* Tokens of a bucket that is there, at a time that is not before its stamp.
LEMMA RefilledLater ==
  ASSUME NEW b \in Full, NEW now \in Nat, b.last_refill <= now
  PROVE  /\ Refilled(b, now) = Least(Capacity, b.tokens + (now - b.last_refill) * Rate)
         /\ b.tokens \in Nat /\ (now - b.last_refill) * Rate \in Nat
<1>1. /\ b # NoBucket /\ b.last_refill \in Nat /\ b.tokens \in Nat
  BY FullIsThere DEF Full
<1>2. now - b.last_refill \in Nat
  BY <1>1
<1>3. Most(0, now - b.last_refill) = now - b.last_refill
  BY <1>2 DEF Most
<1> QED
  BY <1>1, <1>2, <1>3, ProductNat DEF Refilled, Loaded

\* The tick a rejected caller was told is the first with a token in the bucket as it is.
WaitInv ==
  told # NoWait =>
    /\ told \in Nat
    /\ bucket # NoBucket =>
         /\ bucket.last_refill <= told - 1
         /\ bucket.tokens + (told - bucket.last_refill) * Rate >= Cost
         /\ bucket.tokens + (told - 1 - bucket.last_refill) * Rate < Cost

LEMMA WaitStep == Inv /\ WaitInv /\ [Next]_vars => WaitInv'
<1> SUFFICES ASSUME Inv, WaitInv, [Next]_vars PROVE WaitInv'
  OBVIOUS
<1>1. CASE UNCHANGED <<bucket, told>>
  BY <1>1 DEF WaitInv
<1>2. ASSUME NEW c \in Callers, Consume(c) PROVE WaitInv'
  <2>1. PICK now \in 0 .. MaxClock : now = stamp[c]
    BY <1>2 DEF Consume, Inv, TypeOK
  <2>2. bucket = NoBucket \/ bucket \in Full
    BY DEF Inv, TypeOK, Full
  <2>3. CASE Allows(bucket, now, Cost)
    BY <1>2, <2>1, <2>3 DEF Consume, WaitInv
  <2>4. CASE ~Allows(bucket, now, Cost)
    <3> DEFINE w == RetryAfter(bucket, now, Cost)
    <3>1. Refilled(bucket, now) \in 0 .. Capacity /\ ~(Refilled(bucket, now) >= Cost)
      BY <2>2, <2>4, RefilledRange DEF Allows
    <3>2. Refilled(bucket, now) \in 0 .. Cost - 1 /\ now \in Nat
      BY <2>1, <3>1, BucketAssumption
    <3>3. /\ w \in Nat /\ w >= 1
          /\ Refilled(bucket, now) + w * Rate >= Cost
          /\ Refilled(bucket, now) + (w - 1) * Rate < Cost
      BY <3>2, RetryAfterIsLeast
    <3>4. told' = now + w
      BY <1>2, <2>1, <2>4 DEF Consume
    <3>5. bucket'.last_refill = now /\ bucket'.tokens = Refilled(bucket, now)
      <4>1. bucket' = Spent(bucket, now, Cost)
        BY <1>2, <2>1 DEF Consume
      <4>2. bucket'.last_refill = now /\ bucket'.tokens = Refilled(bucket, now) - 0
        BY <2>2, <2>4, <4>1, SpentFull
      <4> QED
        BY <3>1, <4>2
    <3> HIDE DEF w
    <3>6. told' - now = w /\ told' - 1 - now = w - 1 /\ told' \in Nat /\ now <= told' - 1
      BY <3>2, <3>3, <3>4
    <3> QED
      BY <3>3, <3>5, <3>6 DEF WaitInv
  <2> QED
    BY <2>3, <2>4
<1>3. ASSUME NEW c \in Callers, NEW ran \in BOOLEAN, FailOpen(c, ran) PROVE WaitInv'
  BY <1>1, <1>3 DEF FailOpen, WaitInv
<1>4. CASE Expire
  BY <1>4 DEF Expire, WaitInv
<1>5. CASE Tick \/ \E c \in Callers : ReadClock(c)
  BY <1>1, <1>5 DEF Tick, ReadClock
<1> QED
  BY <1>1, <1>2, <1>3, <1>4, <1>5 DEF Next, vars

\* A rejected caller finds a token when it comes back at the tick it was told, and would
\* not have found one the tick before, for every rule and any number of callers, unless
\* somebody else spends it first.
THEOREM WaitIsExact == Spec => []RetryAfterExact
<1>1. Init => WaitInv
  BY DEF Init, WaitInv
<1>2. Inv /\ WaitInv => RetryAfterExact
  <2> SUFFICES ASSUME Inv, WaitInv, told # NoWait
               PROVE  /\ Allows(bucket, told, Cost)
                      /\ bucket # NoBucket => ~Allows(bucket, told - 1, Cost)
    BY DEF RetryAfterExact
  <2>1. told \in Nat /\ Cost <= Capacity /\ Cost \in Nat /\ Capacity \in Nat
    BY BucketAssumption DEF WaitInv
  <2>2. CASE bucket = NoBucket
    <3>1. Loaded(bucket, told) = [tokens |-> Capacity, last_refill |-> told]
      BY <2>2 DEF Loaded
    <3>2. Most(0, told - told) = 0 /\ 0 * Rate = 0
      BY <2>1, BucketAssumption DEF Most
    <3> QED
      BY <2>1, <2>2, <3>1, <3>2 DEF Allows, Refilled, Least
  <2>3. CASE bucket # NoBucket
    <3>1. /\ bucket \in Full /\ bucket.last_refill \in Nat /\ bucket.last_refill <= told - 1
          /\ bucket.tokens + (told - bucket.last_refill) * Rate >= Cost
          /\ bucket.tokens + (told - 1 - bucket.last_refill) * Rate < Cost
      BY <2>3 DEF WaitInv, Inv, TypeOK, Full
    <3>2. told - 1 \in Nat /\ bucket.last_refill <= told
      BY <2>1, <3>1
    <3>3. Refilled(bucket, told) >= Cost
      BY <2>1, <3>1, <3>2, RefilledLater DEF Least
    <3>4. ~(Refilled(bucket, told - 1) >= Cost)
      BY <2>1, <3>1, <3>2, RefilledLater DEF Least
    <3> QED
      BY <3>3, <3>4 DEF Allows
  <2> QED
    BY <2>2, <2>3
<1> QED
  BY InvInit, InvStep, WaitStep, <1>1, <1>2, PTL DEF Spec
=============================================================================
