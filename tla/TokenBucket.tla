---------------------------- MODULE TokenBucket ----------------------------
(***************************************************************************)
(* The rate limiter: one bucket in Redis, refilled and spent by bucket.lua *)
(* in one atomic step, and callers in several processes that read their    *)
(* clock first (redis_backend.try_consume) and reach Redis later.          *)
(*                                                                         *)
(* Numbers are scaled to integers: the clock counts ticks, the bucket is   *)
(* measured in fractions of a token, Rate of which flow in per tick, and a *)
(* request costs Cost of them (one token).                                 *)
(***************************************************************************)
EXTENDS Integers

CONSTANTS
  Callers,     \* coroutines that call try_consume
  Capacity,    \* rule.capacity
  Rate,        \* rule.refill_rate
  Cost,        \* tokens (one)
  Idle,        \* EXPIRE of an unused bucket
  Patience,    \* ticks a call is in flight at most (a bound)
  MaxClock,    \* how long a run lasts (a bound)
  MaxOutages   \* calls Redis fails (a bound)

(* Every rule of config.py holds at least one token and is full again long *)
(* before the hour after which an unused bucket is dropped has passed.     *)
ASSUME BucketAssumption ==
  /\ Capacity \in Nat /\ Rate \in Nat \ {0} /\ Cost \in 1 .. Capacity
  /\ Idle \in Nat /\ Patience \in 0 .. Idle /\ Capacity <= Rate * (Idle - Patience)
  /\ MaxClock \in Nat /\ MaxOutages \in Nat

VARIABLES
  clock,    \* the time all callers read
  bucket,   \* the Redis hash, or NoBucket
  touched,  \* when the script last ran (EXPIRE counts from there)
  stamp,    \* the `now` a caller has read and not used yet, or NoStamp
  passed,   \* units the requests that were let through stand for
  outages,  \* calls that failed
  late,     \* history: calls that reached the script after one with a later clock
  told,     \* history: when the last call, if rejected, was told to retry
  ref       \* history: the pure-Python bucket fed with the same calls

vars == <<clock, bucket, touched, stamp, passed, outages, late, told, ref>>

NoBucket == [tokens |-> -1, last_refill |-> -1]
NoStamp == -1
NoWait == -1

Least(x, y) == IF x <= y THEN x ELSE y
Most(x, y) == IF x >= y THEN x ELSE y

-----------------------------------------------------------------------------
(* bucket.lua                                                              *)

\* Mutant: a bucket that is not there is taken to be empty.
LoadedEmpty(b, now) ==
  IF b = NoBucket THEN [tokens |-> 0, last_refill |-> now] ELSE b

\* A bucket that is not there is taken to be full.
Loaded(b, now) ==
  IF b = NoBucket THEN [tokens |-> Capacity, last_refill |-> now] ELSE b

\* Tokens at time `now`; a clock that went backwards refills nothing.
Refilled(b, now) ==
  LET l == Loaded(b, now)
  IN Least(Capacity, l.tokens + Most(0, now - l.last_refill) * Rate)

Allows(b, now, n) == Refilled(b, now) >= n

\* The bucket holds a later clock than the call's.
Overtaken(b, now) == b # NoBucket /\ now < b.last_refill

\* Mutant: last_refill is written when the bucket is created and never again.
SpentKeepsRefill(b, now, n) ==
  [tokens |-> Refilled(b, now) - (IF Allows(b, now, n) THEN n ELSE 0),
   last_refill |-> Loaded(b, now).last_refill]

\* What the script stores: last_refill is the caller's clock, whatever it was.
Spent(b, now, n) ==
  [tokens |-> Refilled(b, now) - (IF Allows(b, now, n) THEN n ELSE 0),
   last_refill |-> now]

\* Mutant: the wait is rounded down.
RetryAfterFloor(b, now, n) == (n - Refilled(b, now)) \div Rate

\* The wait a rejected caller is told, rounded up to the next tick.
RetryAfter(b, now, n) == (n - Refilled(b, now) + Rate - 1) \div Rate

-----------------------------------------------------------------------------
(* bucket.py                                                               *)

PyRefill(b, now) ==
  LET elapsed == Most(0, now - b.last_refill)
  IN [tokens |-> Least(Capacity, b.tokens + elapsed * Rate), last_refill |-> now]

PyTryConsume(b, n, now) ==
  LET r == PyRefill(b, now)
  IN IF r.tokens >= n THEN [ok |-> TRUE, bucket |-> [r EXCEPT !.tokens = @ - n]]
     ELSE [ok |-> FALSE, bucket |-> r]

-----------------------------------------------------------------------------
Init ==
  /\ clock = 0
  /\ bucket = NoBucket
  /\ touched = 0
  /\ stamp = [c \in Callers |-> NoStamp]
  /\ passed = 0
  /\ outages = 0
  /\ late = 0
  /\ told = NoWait
  /\ ref = [tokens |-> Capacity, last_refill |-> 0]

Tick ==
  /\ clock < MaxClock
  /\ \A c \in Callers : stamp[c] # NoStamp => clock - stamp[c] < Patience
  /\ clock' = clock + 1
  /\ UNCHANGED <<bucket, touched, stamp, passed, outages, late, told, ref>>

\* now = time.time(), before the EVALSHA is sent.
ReadClock(c) ==
  /\ stamp[c] = NoStamp
  /\ stamp' = [stamp EXCEPT ![c] = clock]
  /\ UNCHANGED <<clock, bucket, touched, passed, outages, late, told, ref>>

\* EVALSHA reaches Redis.
Consume(c) ==
  LET now == stamp[c]
  IN /\ now # NoStamp
     /\ bucket' = Spent(bucket, now, Cost)
     /\ touched' = clock
     /\ passed' = passed + (IF Allows(bucket, now, Cost) THEN Cost ELSE 0)
     /\ late' = late + (IF Overtaken(bucket, now) THEN 1 ELSE 0)
     /\ told' = IF Allows(bucket, now, Cost) THEN NoWait
                ELSE now + RetryAfter(bucket, now, Cost)
     /\ ref' = PyTryConsume(ref, Cost, now).bucket
     /\ stamp' = [stamp EXCEPT ![c] = NoStamp]
     /\ UNCHANGED <<clock, outages>>

\* Redis fails, before or after the script ran: the request is let through.
FailOpen(c, ran) ==
  LET now == stamp[c]
  IN /\ now # NoStamp
     /\ outages < MaxOutages
     /\ outages' = outages + 1
     /\ passed' = passed + Cost
     /\ bucket' = IF ran THEN Spent(bucket, now, Cost) ELSE bucket
     /\ touched' = IF ran THEN clock ELSE touched
     /\ late' = late + (IF ran /\ Overtaken(bucket, now) THEN 1 ELSE 0)
     /\ told' = IF ran THEN NoWait ELSE told
     /\ ref' = IF ran THEN PyTryConsume(ref, Cost, now).bucket ELSE ref
     /\ stamp' = [stamp EXCEPT ![c] = NoStamp]
     /\ UNCHANGED clock

\* A bucket nobody touched for Idle ticks expires.
Expire ==
  /\ bucket # NoBucket
  /\ clock - touched >= Idle
  /\ bucket' = NoBucket
  /\ UNCHANGED <<clock, touched, stamp, passed, outages, late, told, ref>>

Next ==
  \/ Tick
  \/ \E c \in Callers : ReadClock(c) \/ Consume(c)
  \/ \E c \in Callers, ran \in BOOLEAN : FailOpen(c, ran)
  \/ Expire

Spec == Init /\ [][Next]_vars

-----------------------------------------------------------------------------
\* Shape of the state.
TypeOK ==
  /\ clock \in 0 .. MaxClock /\ touched \in 0 .. clock
  /\ bucket = NoBucket
     \/ bucket \in [tokens : 0 .. Capacity, last_refill : 0 .. MaxClock]
  /\ stamp \in [Callers -> (0 .. MaxClock) \cup {NoStamp}]
  /\ passed \in Nat /\ outages \in 0 .. MaxOutages /\ late \in Nat

\* However the calls of any number of processes are delayed and overtake each other,
\* no more requests pass than a full bucket and what flowed in since, plus the calls
\* that Redis failed.  The script stores the clock of a call that was overtaken and
\* so refills that stretch of time again: each such call lets through what flows in
\* during its flight, and no more.
RateBound ==
  passed <= Capacity + Rate * clock + Cost * outages + Rate * Patience * late

\* A rejected caller that waits as long as it was told, and no tick less, finds
\* enough tokens unless somebody else spends them first.
RetryAfterExact ==
  told # NoWait =>
    Allows(bucket, told, Cost) /\ (bucket # NoBucket => ~Allows(bucket, told - 1, Cost))

\* bucket.py decides the next call, whenever it comes, as bucket.lua does.
AgreesWithReference ==
  \A now \in clock .. MaxClock :
    /\ PyTryConsume(ref, Cost, now).ok = Allows(bucket, now, Cost)
    /\ bucket # NoBucket => bucket = ref
=============================================================================
