------------------------------ MODULE FlashBuy ------------------------------
(***************************************************************************)
(* buy_flashsale: requests that run side by side in the API replicas, each *)
(* of them a sequence of awaited calls to Redis (the per-user purchase     *)
(* counter), to the inventory service of module Inventory and to Postgres. *)
(* One flash sale that stays active, one variant on sale.  The compensating*)
(* ReleaseReservation of a request runs in the coroutine slot of its name. *)
(* A request may break off at any of its calls: some of them are awaited   *)
(* outside every try, and a process may die.                               *)
(***************************************************************************)
EXTENDS Inventory

CONSTANTS
  Buys,         \* requests that passed validation
  Users,
  UserOf,       \* who sends each request
  QtyOf,        \* payload.quantity
  OnSale,       \* payload.variant_id
  Limit,        \* fs_item.per_user_limit
  MaxBreaks     \* how many requests may break off (a bound)

ASSUME BuyAssumption ==
  /\ Buys = Handlers /\ IsFiniteSet(Buys)
  /\ UserOf \in [Buys -> Users]
  /\ Limit \in Nat /\ MaxBreaks \in Nat /\ QtyOf \in [Buys -> 1 .. Limit]
  /\ OnSale \in Variants
  /\ Users \X (1 .. Limit) \subseteq Keys
  /\ \A q \in 1 .. Limit : [v \in {OnSale} |-> q] \in Requests

VARIABLES
  counter,   \* Redis fs_purchased:<sale>:<user>
  step,      \* how far each request is
  total,     \* the new_total its INCRBY returned
  answer,    \* the reservation_id ReserveStock answered with
  order,     \* the reservation_id of the Order row it persisted
  patient,   \* users whose client waits for an answer before the next request
  unanswered,\* history: reservations whose answer got lost
  disowned   \* history: requests whose COMMIT took place, but not its answer

buyVars == <<counter, step, total, answer, order, patient, unanswered, disowned>>
allVars == <<vars, buyVars>>

BuyInit ==
  /\ Init
  /\ counter = [u \in Users |-> 0]
  /\ step = [b \in Buys |-> "start"]
  /\ total = [b \in Buys |-> 0]
  /\ answer = [b \in Buys |-> Absent]
  /\ order = [b \in Buys |-> Absent]
  /\ patient \in SUBSET Users
  /\ unanswered = {}
  /\ disowned = {}

\* Requests that were cut short: before their count was taken back, or after it.
CutShort == {b \in Buys : step[b] \in {"broken", "unreleased"}}

Over == {"end", "broken", "unreleased"}

InFlight(u) == {b \in Buys : UserOf[b] = u /\ step[b] \notin Over \cup {"start"}}

Goto(b, s) == step' = [step EXCEPT ![b] = s]

\* Mutant: the limit is compared with the count before the increment.
CountChecksOldTotal(b) ==
  LET u == UserOf[b]
      sum == counter[u] + QtyOf[b]
  IN /\ step[b] = "start"
     /\ u \in patient => InFlight(u) = {}
     /\ counter' = [counter EXCEPT ![u] = sum]
     /\ total' = [total EXCEPT ![b] = sum]
     /\ \/ counter[u] < Limit /\ Goto(b, "reserve")
        \/ Goto(b, "uncount")
     /\ UNCHANGED <<vars, answer, order, patient, unanswered, disowned>>

\* INCRBY of the counter; a total beyond the limit is taken back, and so is
\* that of a user without an address.
Count(b) ==
  LET u == UserOf[b]
      sum == counter[u] + QtyOf[b]
  IN /\ step[b] = "start"
     /\ u \in patient => InFlight(u) = {}
     /\ counter' = [counter EXCEPT ![u] = sum]
     /\ total' = [total EXCEPT ![b] = sum]
     /\ \/ sum <= Limit /\ Goto(b, "reserve")
        \/ Goto(b, "uncount")
     /\ UNCHANGED <<vars, answer, order, patient, unanswered, disowned>>

\* Mutant: the release that should follow a failed transaction is missing.
UncountEnds(b) ==
  /\ step[b] \in {"uncount", "uncountThenRelease"}
  /\ counter' = [counter EXCEPT ![UserOf[b]] = @ - QtyOf[b]]
  /\ Goto(b, "end")
  /\ UNCHANGED <<vars, total, answer, order, patient, unanswered, disowned>>

\* DECRBY on the way to an error answer.
Uncount(b) ==
  /\ step[b] \in {"uncount", "uncountThenRelease"}
  /\ counter' = [counter EXCEPT ![UserOf[b]] = @ - QtyOf[b]]
  /\ Goto(b, IF step[b] = "uncount" THEN "end" ELSE "release")
  /\ UNCHANGED <<vars, total, answer, order, patient, unanswered, disowned>>

\* Mutant: the key holds the quantity, not the cumulative count.
IdemKeyOfQuantity(b) == <<UserOf[b], QtyOf[b]>>

\* The key holds the user and the cumulative count, not the quantity.
IdemKey(b) == <<UserOf[b], total[b]>>

Wanted(b) == [v \in {OnSale} |-> QtyOf[b]]

\* ReserveStock succeeds, with a new reservation or the one of the key.
Reserve(b) ==
  /\ step[b] = "reserve"
  /\ \/ /\ ReserveHit(IdemKey(b))
        /\ answer' = [answer EXCEPT ![b] = idem[IdemKey(b)]]
     \/ \E r \in ResIds :
          /\ ReserveGrant(IdemKey(b), Wanted(b), r)
          /\ answer' = [answer EXCEPT ![b] = r]
  /\ Goto(b, "persist")
  /\ UNCHANGED <<counter, total, order, patient, unanswered, disowned>>

\* Mutant: the error answer leaves the count as it is.
ReserveFailsCounted(b) ==
  /\ step[b] = "reserve"
  /\ \/ UNCHANGED vars
     \/ ReserveStock(IdemKey(b), Wanted(b))
  /\ unanswered' = unanswered \cup (issued' \ issued)
  /\ Goto(b, "end")
  /\ UNCHANGED <<counter, total, answer, order, patient, disowned>>

\* ReserveStock is refused for want of stock, or by the rate limiter, or does
\* not get through; or it does, and only the answer is lost.
ReserveFails(b) ==
  /\ step[b] = "reserve"
  /\ \/ UNCHANGED vars
     \/ ReserveStock(IdemKey(b), Wanted(b))
  /\ unanswered' = unanswered \cup (issued' \ issued)
  /\ Goto(b, "uncount")
  /\ UNCHANGED <<counter, total, answer, order, patient, disowned>>

\* Order and Payment are committed, or the transaction fails; or it is committed and
\* only the answer is lost, which the handler cannot tell from a failure.
Persist(b) ==
  /\ step[b] = "persist"
  /\ \/ /\ Goto(b, "end")
        /\ order' = [order EXCEPT ![b] = answer[b]] /\ UNCHANGED disowned
     \/ Goto(b, "uncountThenRelease") /\ UNCHANGED <<order, disowned>>
     \/ /\ Goto(b, "uncountThenRelease")
        /\ order' = [order EXCEPT ![b] = answer[b]] /\ disowned' = disowned \cup {b}
  /\ UNCHANGED <<vars, counter, total, answer, patient, unanswered>>

\* The compensating ReleaseReservation, step by step.
Release(b) ==
  /\ step[b] = "release"
  /\ ReadHash(b, "release", answer[b])
  /\ Goto(b, IF reservation[answer[b]] = Absent THEN "end" ELSE "releasing")
  /\ UNCHANGED <<counter, total, answer, order, patient, unanswered, disowned>>

Releasing(b) ==
  /\ step[b] = "releasing"
  /\ \/ /\ (\E v \in Variants : ReleaseIncr(b, v)) \/ DelReservation(b)
        /\ UNCHANGED step
     \/ DelIdem(b) /\ Goto(b, "end")
  /\ UNCHANGED <<counter, total, answer, order, patient, unanswered, disowned>>

\* A call that no handler catches raises, or the process dies.  Nothing is undone: the
\* EXPIRE, the SELECT of the address and every DECRBY leave the count as it is, and
\* a ReleaseReservation that fails comes after the count was taken back.
BreaksOff(b) ==
  /\ Cardinality(CutShort) < MaxBreaks
  /\ \/ /\ step[b] \in {"reserve", "persist", "uncount", "uncountThenRelease"}
        /\ Goto(b, "broken")
     \/ step[b] = "release" /\ Goto(b, "unreleased")
  /\ UNCHANGED <<vars, counter, total, answer, order, patient, unanswered, disowned>>

\* The release dies half way in the inventory service, and the call with it.
ReleaseDies(b) ==
  /\ Cardinality(CutShort) < MaxBreaks
  /\ step[b] = "releasing" /\ Crash(b)
  /\ Goto(b, "unreleased")
  /\ UNCHANGED <<counter, total, answer, order, patient, unanswered, disowned>>

BuyNext ==
  \E b \in Buys :
    \/ Count(b) \/ Uncount(b) \/ Reserve(b) \/ ReserveFails(b)
    \/ Persist(b) \/ Release(b) \/ Releasing(b)
    \/ BreaksOff(b) \/ ReleaseDies(b)

BuySpec == BuyInit /\ [][BuyNext]_allVars

-----------------------------------------------------------------------------
\* Requests of u that were answered with an order.
Ordered(u) == {b \in Buys : UserOf[b] = u /\ order[b] # Absent /\ b \notin disowned}

\* Requests of u that broke off before they took their count back.
Uncompensated(u) == {b \in Buys : UserOf[b] = u /\ step[b] = "broken"}

\* Units a user has bought in the sale, each one as a request and a number.
Units(S) == {n \in S \X (1 .. Limit) : n[2] <= QtyOf[n[1]]}

Bought(u) == Cardinality(Units(Ordered(u)))

\* What the counter of u says when none of the user's requests is on its way.
Standing(u) == Cardinality(Units(Ordered(u) \cup Uncompensated(u)))

\* However many requests a user sends at once, and wherever some of them break off,
\* the orders they were answered with stay within per_user_limit.  An order whose
\* COMMIT was not answered comes on top: its count is taken back all the same.
PerUserLimit == \A u \in Users : Bought(u) <= Limit

\* Failed requests leave the allowance as they found it: once a user's requests are
\* over, the counter is what the user was told to have bought, and the quantity of
\* each request that broke off before its DECRBY, and nothing else.
AllowanceExact ==
  \A u \in Users : InFlight(u) = {} => counter[u] = Standing(u)

\* However requests fail, break off and lose answers, the orders that a user who
\* waits for each answer was told of have reservations that exist, hold at least what
\* was ordered (more, if the key names one whose answer was lost) and are shared
\* with disowned orders only.  A release that died half way may have taken the hash.
PatientOrdersAreBacked ==
  \A b \in Buys \ disowned :
    (UserOf[b] \in patient /\ order[b] # Absent) =>
      /\ \A c \in Buys \ {b} : order[c] = order[b] => c \in disowned
      /\ \/ crashed[order[b]] > 0
         \/ /\ reservation[order[b]] # Absent
            /\ reservation[order[b]].items[OnSale] >= QtyOf[b]

\* Units that are held once every request is over are held by an order, unless the
\* answer that named their reservation got lost or their request was cut short.
NoStrandedStock ==
  (\A b \in Buys : step[b] \in Over \cup {"start"})
    => \A r \in ResIds : reservation[r] # Absent =>
         \/ r \in unanswered
         \/ \E b \in Buys : order[b] = r
         \/ \E b \in CutShort : answer[b] = r
=============================================================================
