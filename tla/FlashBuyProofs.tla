--------------------------- MODULE FlashBuyProofs ---------------------------
(***************************************************************************)
(* What holds of the flash-sale buy for any number of requests and users,  *)
(* any quantities and limit, and any failures on the way.                  *)
(***************************************************************************)
EXTENDS FlashBuy, InventoryProofs, FiniteSetTheorems

Steps == {"start", "reserve", "persist", "uncount", "uncountThenRelease",
          "release", "releasing"} \cup Over

\* Requests that hold a reservation id and have not been answered.
Named == {"persist", "uncountThenRelease", "release", "releasing"}

\* Requests whose INCRBY stands, and those among them that passed the limit.
Told(b) == order[b] # Absent /\ b \notin disowned
Counts(b) ==
  \/ Told(b)
  \/ step[b] \in {"reserve", "persist", "uncount", "uncountThenRelease", "broken"}
Passes(b) == Told(b) \/ step[b] \in {"reserve", "persist"}
Counted(u) == {b \in Buys : UserOf[b] = u /\ Counts(b)}
Passed(u) == {b \in Buys : UserOf[b] = u /\ Passes(b)}

BuyTypeOK ==
  /\ counter \in [Users -> Int]
  /\ step \in [Buys -> Steps]
  /\ total \in [Buys -> Int]
  /\ answer \in [Buys -> ResIds \cup {Absent}]
  /\ order \in [Buys -> ResIds \cup {Absent}]
  /\ patient \in SUBSET Users
  /\ unanswered \in SUBSET ResIds
  /\ disowned \in SUBSET Buys

\* A step of request b.
BuyStep(b) ==
  \/ Count(b) \/ Uncount(b) \/ Reserve(b) \/ ReserveFails(b)
  \/ Persist(b) \/ Release(b) \/ Releasing(b)
  \/ BreaksOff(b) \/ ReleaseDies(b)

\* What a request knows at each step, and what its order stands on.
Consistent(b) ==
  /\ order[b] # Absent => /\ order[b] = answer[b]
                          /\ step[b] \notin {"start", "reserve", "persist", "uncount"}
  /\ b \in disowned => order[b] # Absent
  /\ Told(b) => step[b] = "end"
  /\ step[b] \in Named => answer[b] \in ResIds
  /\ step[b] \in Named \cup {"reserve"} => total[b] \in 1 .. Limit
  /\ step[b] \in {"start", "reserve"} => answer[b] = Absent

\* The counter is the sum of the requests it counts, those that passed the limit
\* stay within it, and so a request that goes on has a key of the service.
CountInv ==
  /\ Inv
  /\ BuyTypeOK
  /\ \A b \in Buys : Consistent(b)
  /\ \A u \in Users : /\ counter[u] = Cardinality(Units(Counted(u)))
                      /\ Cardinality(Units(Passed(u))) <= Limit

-----------------------------------------------------------------------------
(* Units as a measure of sets of requests                                  *)

LEMMA QtyFacts ==
  /\ Limit \in Nat
  /\ \A b \in Buys : UserOf[b] \in Users /\ QtyOf[b] \in 1 .. Limit
BY BuyAssumption

LEMMA UnitsFinite ==
  ASSUME NEW S, S \subseteq Buys
  PROVE  IsFiniteSet(Units(S)) /\ Cardinality(Units(S)) \in Nat
<1>1. IsFiniteSet(S) /\ IsFiniteSet(1 .. Limit)
  BY FS_Subset, FS_Interval, BuyAssumption
<1>2. IsFiniteSet(S \X (1 .. Limit))
  BY <1>1, FS_Product
<1>3. Units(S) \in SUBSET (S \X (1 .. Limit))
  BY DEF Units
<1>4. IsFiniteSet(Units(S))
  BY <1>2, <1>3, FS_Subset
<1> QED
  BY <1>4, FS_CardinalityType

LEMMA UnitsOfNone == Cardinality(Units({})) = 0
<1>1. Units({}) = {}
  BY DEF Units
<1> QED
  BY <1>1, FS_EmptySet

LEMMA UnitsOfOne ==
  ASSUME NEW b \in Buys
  PROVE  Cardinality(Units({b})) = QtyOf[b]
<1>1. QtyOf[b] \in 1 .. Limit /\ Limit \in Nat
  BY QtyFacts
<1>2. Units({b}) = {b} \X (1 .. QtyOf[b])
  BY <1>1 DEF Units
<1>3. IsFiniteSet({b}) /\ Cardinality({b}) = 1
  BY FS_Singleton
<1>4. IsFiniteSet(1 .. QtyOf[b]) /\ Cardinality(1 .. QtyOf[b]) = QtyOf[b]
  <2>1. 1 \in Int /\ QtyOf[b] \in Int /\ ~(1 > QtyOf[b]) /\ QtyOf[b] - 1 + 1 = QtyOf[b]
    BY <1>1
  <2> QED
    BY <2>1, FS_Interval
<1>5. Cardinality({b} \X (1 .. QtyOf[b])) = 1 * QtyOf[b]
  <2>1. Cardinality({b} \X (1 .. QtyOf[b])) = Cardinality({b}) * Cardinality(1 .. QtyOf[b])
    BY <1>3, <1>4, FS_Product, Zenon
  <2> QED
    BY <2>1, <1>3, <1>4, Zenon
<1>6. 1 * QtyOf[b] = QtyOf[b]
  BY <1>1
<1> QED
  BY <1>2, <1>5, <1>6

\* A request adds its quantity.
LEMMA UnitsAdd ==
  ASSUME NEW S, S \subseteq Buys, NEW b \in Buys, b \notin S
  PROVE  Cardinality(Units(S \cup {b})) = Cardinality(Units(S)) + QtyOf[b]
<1>1. Units(S \cup {b}) = Units(S) \cup Units({b})
  BY DEF Units
<1>2. Units(S) \cap Units({b}) = {}
  BY DEF Units
<1>3. /\ IsFiniteSet(Units(S)) /\ Cardinality(Units(S)) \in Nat
      /\ IsFiniteSet(Units({b}))
  BY UnitsFinite
<1>4. Cardinality(Units(S \cup {b}))
        = Cardinality(Units(S)) + Cardinality(Units({b})) - Cardinality({})
  BY <1>1, <1>2, <1>3, FS_Union, ZenonT(40)
<1> QED
  BY <1>3, <1>4, UnitsOfOne, FS_EmptySet, QtyFacts

LEMMA UnitsSub ==
  ASSUME NEW S, S \subseteq Buys, NEW T, T \subseteq S
  PROVE  Cardinality(Units(T)) <= Cardinality(Units(S))
<1>1. Units(T) \in SUBSET Units(S)
  BY DEF BuyStep, Units
<1> QED
  BY <1>1, UnitsFinite, FS_Subset

-----------------------------------------------------------------------------
(* The counter                                                             *)

LEMMA CountInvInit == BuyInit => CountInv
<1> SUFFICES ASSUME BuyInit PROVE CountInv
  OBVIOUS
<1>1. Inv
  BY InvInit DEF BuyInit
<1>2. BuyTypeOK
  BY DEF BuyInit, BuyTypeOK, Steps, Over
<1>3. \A u \in Users : Counted(u) = {} /\ Passed(u) = {}
  BY DEF BuyInit, Counted, Passed, Counts, Passes, Told
<1>4. \A u \in Users : /\ counter[u] = Cardinality(Units(Counted(u)))
                        /\ Cardinality(Units(Passed(u))) <= Limit
  BY <1>3, UnitsOfNone, QtyFacts DEF BuyInit
<1> QED
  BY <1>1, <1>2, <1>4 DEF BuyInit, CountInv, Named, Consistent, Told

\* A request that got past the limit sends a request and a key the service knows.
LEMMA KeyFacts ==
  ASSUME CountInv, NEW b \in Buys, step[b] \in Named \cup {"reserve"}
  PROVE  IdemKey(b) \in Keys /\ Wanted(b) \in Requests /\ b \in Handlers
<1>1. total[b] \in 1 .. Limit /\ UserOf[b] \in Users /\ QtyOf[b] \in 1 .. Limit
  BY QtyFacts DEF CountInv, Consistent
<1> QED
  BY <1>1, BuyAssumption DEF IdemKey, Wanted

\* Whatever a request does, it is a step of the inventory service or none.
LEMMA BuyKeepsInv == ASSUME CountInv, BuyNext PROVE Inv'
<1>1. PICK b \in Buys : BuyStep(b)
  BY DEF BuyStep, BuyNext
<1>2. CASE UNCHANGED vars
  BY <1>2, InvStep DEF CountInv
<1>3. CASE Reserve(b) \/ ReserveFails(b)
  <2>1. step[b] = "reserve"
    BY <1>3 DEF Reserve, ReserveFails
  <2>2. IdemKey(b) \in Keys /\ Wanted(b) \in Requests
    BY <2>1, KeyFacts
  <2>3. ReserveStock(IdemKey(b), Wanted(b)) \/ UNCHANGED vars
    BY <1>3 DEF Reserve, ReserveFails, ReserveStock
  <2> QED
    BY <1>2, <2>2, <2>3, InvReserve DEF CountInv
<1>4. CASE Release(b) \/ Releasing(b) \/ ReleaseDies(b)
  <2>1. step[b] \in Named
    BY <1>4 DEF Release, Releasing, ReleaseDies, Named
  <2>2. answer[b] \in ResIds /\ b \in Handlers
    BY <2>1, BuyAssumption DEF CountInv, Consistent
  <2>3. Next
    BY <1>4, <2>2 DEF Release, Releasing, ReleaseDies, Next, Handler
  <2> QED
    BY <2>3, InvStep DEF CountInv
<1> QED
  BY <1>1, <1>2, <1>3, <1>4 DEF BuyStep, Count, Uncount, Persist, BreaksOff

\* A step of one request leaves the others where they are.
LEMMA OthersStand ==
  ASSUME CountInv, NEW b \in Buys,
         BuyStep(b)
  PROVE  /\ \A c \in Buys \ {b} : /\ step'[c] = step[c] /\ total'[c] = total[c]
                                   /\ answer'[c] = answer[c] /\ order'[c] = order[c]
         /\ disowned' \ {b} = disowned \ {b}
         /\ \A u \in Users \ {UserOf[b]} : counter'[u] = counter[u]
         /\ patient' = patient
<1> USE QtyFacts DEF CountInv, BuyTypeOK, Goto
<1>1. CASE Count(b)
  BY <1>1 DEF Count
<1>2. CASE Uncount(b)
  BY <1>2 DEF Uncount
<1>3. CASE Reserve(b)
  BY <1>3 DEF Reserve
<1>4. CASE ReserveFails(b)
  BY <1>4 DEF ReserveFails
<1>5. CASE Persist(b)
  BY <1>5 DEF Persist
<1>6. CASE Release(b) \/ Releasing(b)
  BY <1>6 DEF Release, Releasing
<1>7. CASE BreaksOff(b) \/ ReleaseDies(b)
  BY <1>7 DEF BreaksOff, ReleaseDies
<1> QED
  BY <1>1, <1>2, <1>3, <1>4, <1>5, <1>6, <1>7 DEF BuyStep

LEMMA OthersCount ==
  ASSUME CountInv, NEW b \in Buys, BuyStep(b), NEW c \in Buys, c # b
  PROVE  /\ Told(c)' <=> Told(c)
         /\ Counts(c)' <=> Counts(c)
         /\ Passes(c)' <=> Passes(c)
         /\ Consistent(c)'
<1>1. /\ step'[c] = step[c] /\ total'[c] = total[c] /\ answer'[c] = answer[c]
      /\ order'[c] = order[c] /\ (c \in disowned' <=> c \in disowned)
  BY OthersStand
<1>2. Told(c)' <=> Told(c)
  BY <1>1 DEF Told
<1>3. Consistent(c)
  BY DEF CountInv
<1>4. (Counts(c)' <=> Counts(c)) /\ (Passes(c)' <=> Passes(c))
  <2>1. (Counts(c)' <=> Counts(c))
    BY <1>1 DEF Counts, Told
  <2>2. (Passes(c)' <=> Passes(c))
    BY <1>1 DEF Passes, Told
  <2> QED
    BY <2>1, <2>2
<1>5. Consistent(c)'
  BY <1>1, <1>3 DEF Consistent, Told
<1> QED
  BY <1>2, <1>4, <1>5

\* Counting follows from what the step does to the sets of its user.
LEMMA Recount ==
  ASSUME CountInv, NEW b \in Buys,
         BuyStep(b),
         counter'[UserOf[b]] = Cardinality(Units(Counted(UserOf[b])')),
         \/ Passed(UserOf[b])' \subseteq Passed(UserOf[b])
         \/ Cardinality(Units(Passed(UserOf[b])')) <= Limit
  PROVE  \A u \in Users : /\ counter'[u] = Cardinality(Units(Counted(u)'))
                           /\ Cardinality(Units(Passed(u)')) <= Limit
<1> TAKE u \in Users
<1>1. CASE u # UserOf[b]
  <2>1. Counted(u)' = Counted(u) /\ Passed(u)' = Passed(u)
    BY <1>1, OthersCount DEF Counted, Passed
  <2>2. counter'[u] = counter[u]
    BY <1>1, OthersStand
  <2> QED
    BY <2>1, <2>2 DEF CountInv
<1>2. CASE u = UserOf[b]
  <2>1. Passed(u) \subseteq Buys
    BY DEF Passed
  <2>2. CASE Passed(u)' \subseteq Passed(u)
    <3>1. Passed(u)' \subseteq Buys
      BY <2>1, <2>2
    <3>2. Cardinality(Units(Passed(u)')) <= Cardinality(Units(Passed(u)))
      BY <2>1, <2>2, UnitsSub
    <3>3. Cardinality(Units(Passed(u)')) \in Nat /\ Cardinality(Units(Passed(u))) \in Nat
      BY <2>1, <3>1, UnitsFinite
    <3> QED
      BY <1>2, <3>2, <3>3, QtyFacts DEF CountInv
  <2> QED
    BY <1>2, <2>2
<1> QED
  BY <1>1, <1>2

LEMMA CountInvCount ==
  ASSUME CountInv, NEW b \in Buys, Count(b)
  PROVE  CountInv'
<1> DEFINE u == UserOf[b]
<1>1. u \in Users /\ QtyOf[b] \in 1 .. Limit /\ Limit \in Nat
  BY QtyFacts
<1>2. /\ step[b] = "start" /\ order[b] = Absent /\ answer[b] = Absent
      /\ b \notin disowned /\ disowned' = disowned
      /\ counter'[u] = counter[u] + QtyOf[b] /\ total'[b] = counter'[u]
      /\ order' = order /\ answer' = answer
      /\ step'[b] \in {"reserve", "uncount"}
      /\ step'[b] = "reserve" => counter'[u] <= Limit
  BY <1>1 DEF Count, Goto, CountInv, BuyTypeOK, Named, Consistent
<1>3. Inv'
  BY BuyKeepsInv DEF BuyNext
<1>4. BuyTypeOK'
  BY <1>1 DEF CountInv, BuyTypeOK, Count, Goto, Steps, Over
<1>5. b \notin Counted(u) /\ b \notin Passed(u) /\ Counted(u) \subseteq Buys
  BY <1>2 DEF Counted, Passed, Counts, Passes, Told
<1>6. Counted(u)' = Counted(u) \cup {b}
  <2>1. Counts(b)'
    BY <1>2 DEF Counts
  <2> QED
    BY <2>1, OthersCount DEF BuyStep, Counted
<1>7. Passed(u)' \subseteq Passed(u) \cup {b}
  BY OthersCount DEF BuyStep, Passed
<1>8. counter[u] = Cardinality(Units(Counted(u))) /\ counter[u] \in Nat
  BY <1>1, <1>5, UnitsFinite DEF CountInv
<1>9. counter'[u] = Cardinality(Units(Counted(u)'))
  BY <1>2, <1>5, <1>6, <1>8, UnitsAdd
<1>10. \/ Passed(u)' \subseteq Passed(u)
       \/ Cardinality(Units(Passed(u)')) <= Limit
  <2>1. CASE step'[b] = "uncount"
    <3>1. b \notin Passed(u)'
      BY <1>2, <2>1 DEF Passed, Passes, Told
    <3> QED
      BY <1>7, <3>1
  <2>2. CASE step'[b] = "reserve"
    <3>1. Passed(u)' \subseteq Counted(u)'
      BY DEF BuyStep, Passed, Passes, Counted, Counts, Told
    <3>2. Counted(u)' \subseteq Buys
      BY <1>5, <1>6
    <3>3. Cardinality(Units(Passed(u)')) <= Cardinality(Units(Counted(u)'))
      BY <3>1, <3>2, UnitsSub
    <3>4. Passed(u)' \subseteq Buys
      BY <3>1, <3>2
    <3>5. Cardinality(Units(Passed(u)')) \in Nat /\ Cardinality(Units(Counted(u)')) \in Nat
      BY <3>2, <3>4, UnitsFinite
    <3> QED
      BY <1>1, <1>2, <1>9, <2>2, <3>3, <3>5
  <2> QED
    BY <1>2, <2>1, <2>2
<1>11. \A v \in Users : /\ counter'[v] = Cardinality(Units(Counted(v)'))
                         /\ Cardinality(Units(Passed(v)')) <= Limit
  BY <1>9, <1>10, Recount DEF BuyStep
<1>12. step'[b] = "reserve" => total'[b] \in 1 .. Limit
  BY <1>1, <1>2, <1>8
<1>13. \A c \in Buys : Consistent(c)'
  <2> TAKE c \in Buys
  <2>1. CASE c = b
    BY <1>2, <1>12, <2>1 DEF Named, Consistent, Told
  <2>2. CASE c # b
    BY <2>2, OthersCount DEF BuyStep
  <2> QED
    BY <2>1, <2>2
<1> QED
  BY <1>3, <1>4, <1>11, <1>13 DEF CountInv

LEMMA CountInvUncount ==
  ASSUME CountInv, NEW b \in Buys, Uncount(b)
  PROVE  CountInv'
<1> DEFINE u == UserOf[b]
<1>1. u \in Users /\ QtyOf[b] \in 1 .. Limit /\ Limit \in Nat
  BY QtyFacts
<1>2. /\ step[b] \in {"uncount", "uncountThenRelease"} 
      /\ b \notin Counted(u)' /\ ~Told(b) /\ ~Told(b)'
      /\ counter'[u] = counter[u] - QtyOf[b]
      /\ order' = order /\ answer' = answer /\ total' = total
      /\ step'[b] = IF step[b] = "uncount" THEN "end" ELSE "release"
  BY <1>1 DEF Uncount, Goto, CountInv, BuyTypeOK, Counted, Counts, Consistent, Told
<1>3. Inv'
  BY BuyKeepsInv DEF BuyNext
<1>4. BuyTypeOK'
  BY <1>1 DEF CountInv, BuyTypeOK, Uncount, Goto, Steps, Over
<1>5. b \in Counted(u) /\ b \notin Counted(u)' /\ Counted(u) \subseteq Buys
  BY <1>2 DEF Counted, Counts
<1>6. Counted(u) = Counted(u)' \cup {b} /\ Counted(u)' \subseteq Buys
  BY <1>5, OthersCount DEF BuyStep, Counted
<1>7. Passed(u)' \subseteq Passed(u)
  <2>1. ~Passes(b)'
    BY <1>2 DEF Passes
  <2> QED
    BY <2>1, OthersCount DEF BuyStep, Passed
<1>8. counter[u] = Cardinality(Units(Counted(u))) /\ Cardinality(Units(Counted(u)')) \in Nat
  BY <1>1, <1>6, UnitsFinite DEF CountInv
<1>9. Cardinality(Units(Counted(u))) = Cardinality(Units(Counted(u)')) + QtyOf[b]
  BY <1>5, <1>6, UnitsAdd
<1>10. counter'[u] = Cardinality(Units(Counted(u)'))
  BY <1>1, <1>2, <1>8, <1>9
<1>11. \A v \in Users : /\ counter'[v] = Cardinality(Units(Counted(v)'))
                         /\ Cardinality(Units(Passed(v)')) <= Limit
  BY <1>7, <1>10, Recount DEF BuyStep
<1>12. \A c \in Buys : Consistent(c)'
  <2> TAKE c \in Buys
  <2>1. CASE c = b
    <3>1. Consistent(b) /\ disowned' = disowned
      BY DEF CountInv, Uncount
    <3> QED
      BY <1>2, <2>1, <3>1 DEF Named, Consistent, Told
  <2>2. CASE c # b
    BY <2>2, OthersCount DEF BuyStep
  <2> QED
    BY <2>1, <2>2
<1> QED
  BY <1>3, <1>4, <1>11, <1>12 DEF CountInv

\* All other steps leave the counter and what it counts alone.
LEMMA CountInvElse ==
  ASSUME CountInv, NEW b \in Buys, BuyStep(b), ~Count(b), ~Uncount(b)
  PROVE  CountInv'
<1> DEFINE u == UserOf[b]
<1>0. b \in Handlers /\ Consistent(b)
  BY BuyAssumption DEF CountInv
<1>1. counter' = counter /\ total' = total /\ u \in Users
  BY QtyFacts DEF BuyStep, Reserve, ReserveFails, Persist, Release, Releasing, BreaksOff,
                  ReleaseDies
<1>2. Inv'
  BY BuyKeepsInv DEF BuyNext, BuyStep
<1>3. BuyTypeOK' /\ Consistent(b)' /\ Counts(b)' = Counts(b) /\ (Passes(b)' => Passes(b))
  <2> USE DEF BuyTypeOK, Goto, Steps, Over, Named, Told, Consistent
  <2>1. idem \in [Keys -> ResIds \cup {Absent}] /\ issued' \in SUBSET ResIds /\ BuyTypeOK
    BY <1>2 DEF CountInv, Inv, TypeOK
  <2>2. CASE Reserve(b)
    <3>1. IdemKey(b) \in Keys
      BY <2>2, KeyFacts DEF Reserve
    <3>2. PICK r \in ResIds : answer' = [answer EXCEPT ![b] = r]
      BY <2>1, <2>2, <3>1 DEF Reserve, ReserveHit
    <3>3. step[b] = "reserve" /\ step' = [step EXCEPT ![b] = "persist"]
          /\ UNCHANGED <<order, total, disowned, counter, patient, unanswered>>
      BY <2>2 DEF Reserve
    <3> QED
      BY <1>0, <2>1, <3>2, <3>3 DEF Counts, Passes
  <2>3. CASE ReserveFails(b)
    BY <1>0, <2>1, <2>3 DEF ReserveFails, Counts, Passes
  <2>4. CASE Persist(b)
    BY <1>0, <2>1, <2>4, VariantsAssumption DEF Persist, Counts, Passes
  <2>5. CASE Release(b) \/ Releasing(b)
    BY <1>0, <2>1, <2>5 DEF Release, Releasing, Counts, Passes
  <2>6. CASE BreaksOff(b) \/ ReleaseDies(b)
    BY <1>0, <2>1, <2>6 DEF BreaksOff, ReleaseDies, Counts, Passes
  <2> QED
    BY <2>2, <2>3, <2>4, <2>5, <2>6 DEF BuyStep
<1>4. Counted(u)' = Counted(u) /\ Passed(u)' \subseteq Passed(u)
  BY <1>3, OthersCount DEF Counted, Passed
<1>5. \A v \in Users : /\ counter'[v] = Cardinality(Units(Counted(v)'))
                        /\ Cardinality(Units(Passed(v)')) <= Limit
  <2>1. counter'[u] = Cardinality(Units(Counted(u)'))
    BY <1>1, <1>4 DEF CountInv
  <2> QED
    BY <1>4, <2>1, Recount
<1>6. \A c \in Buys : Consistent(c)'
  BY <1>3, OthersCount
<1> QED
  BY <1>2, <1>3, <1>5, <1>6 DEF CountInv

LEMMA CountInvStep == CountInv /\ [BuyNext]_allVars => CountInv'
<1>1. ASSUME CountInv, UNCHANGED allVars PROVE CountInv'
  <2>1. Inv'
    BY <1>1, InvStep DEF CountInv, allVars
  <2>2. \A u \in Users : Counted(u)' = Counted(u) /\ Passed(u)' = Passed(u)
    BY <1>1 DEF allVars, buyVars, Counted, Passed, Counts, Passes, Told
  <2> QED
    BY <1>1, <2>1, <2>2 DEF CountInv, BuyTypeOK, allVars, buyVars, Consistent, Told
<1> QED
  BY <1>1, CountInvCount, CountInvUncount, CountInvElse DEF BuyNext, BuyStep

LEMMA CountAlways == BuySpec => []CountInv
BY CountInvInit, CountInvStep, PTL DEF BuySpec

\* However many requests overlap and wherever they fail, a user's orders of one sale
\* stay within per_user_limit.
THEOREM LimitHolds == BuySpec => []PerUserLimit
<1>1. CountInv => PerUserLimit
  <2> SUFFICES ASSUME CountInv, NEW u \in Users PROVE Bought(u) <= Limit
    BY DEF PerUserLimit
  <2>1. Ordered(u) \subseteq Passed(u) /\ Passed(u) \subseteq Buys /\ Ordered(u) \subseteq Buys
    BY DEF Ordered, Passed, Passes, Told
  <2>2. Bought(u) <= Cardinality(Units(Passed(u)))
    BY <2>1, UnitsSub DEF Bought
  <2>3. Bought(u) \in Nat /\ Cardinality(Units(Passed(u))) \in Nat
    BY <2>1, UnitsFinite DEF Bought
  <2> QED
    BY <2>2, <2>3, QtyFacts DEF CountInv
<1> QED
  BY CountAlways, <1>1, PTL

\* The counter of a user with no request in flight is what the user was told to have
\* bought and the requests cut short with their count standing, however many requests
\* were refused or failed before.
THEOREM AllowanceKept == BuySpec => []AllowanceExact
<1>1. CountInv => AllowanceExact
  <2> SUFFICES ASSUME CountInv, NEW u \in Users, InFlight(u) = {}
               PROVE  counter[u] = Standing(u)
    BY DEF AllowanceExact
  <2>1. Counted(u) = Ordered(u) \cup Uncompensated(u)
    BY DEF InFlight, Counted, Counts, Ordered, Uncompensated, Told, Over
  <2> QED
    BY <2>1 DEF CountInv, Standing
<1> QED
  BY CountAlways, <1>1, PTL

-----------------------------------------------------------------------------
(* Reservations have holders                                               *)

\* Request b answers for reservation r: its order stands on it, or b will persist
\* or release it, or is at releasing it, or was cut short on the way.
Holds(b, r) ==
  \/ order[b] = r
  \/ answer[b] = r /\ step[b] \in {"persist", "uncountThenRelease", "release"}
  \/ answer[b] = r /\ step[b] \in {"broken", "unreleased"}
  \/ answer[b] = r /\ step[b] = "releasing" /\ pc[b] \in {"apply", "delReservation"}

\* Every reservation that exists has a holder, unless its answer got lost.
HoldInv ==
  /\ \A r \in ResIds : reservation[r] # Absent => r \in issued
  /\ \A b \in Buys : step[b] = "releasing" => rid[b] = answer[b]
  /\ \A r \in ResIds :
       reservation[r] # Absent => r \in unanswered \/ \E b \in Buys : Holds(b, r)

\* The coroutine slots of other requests stand still too.
LEMMA SlotsStand ==
  ASSUME CountInv, NEW b \in Buys,
         BuyStep(b)
  PROVE  \A c \in Buys \ {b} : pc'[c] = pc[c] /\ rid'[c] = rid[c] /\ got'[c] = got[c]
<1>1. Buys = Handlers
  BY BuyAssumption
<1>2. CASE UNCHANGED handlerVars
  BY <1>2 DEF handlerVars
<1>3. CASE Reserve(b) \/ ReserveFails(b)
  <2>1. UNCHANGED handlerVars
    BY <1>3 DEF Reserve, ReserveFails, ReserveStock, ReserveHit, ReserveReject, ReserveGrant, vars
  <2> QED
    BY <1>2, <2>1
<1>4. CASE Release(b) \/ Releasing(b) \/ ReleaseDies(b)
  BY <1>1, <1>4 DEF Release, Releasing, ReleaseDies, ReadHash, ReleaseIncr, DelReservation,
                    DelIdem, Crash, Finish, handlerVars, CountInv, Inv, TypeOK
<1> QED
  BY <1>2, <1>3, <1>4 DEF BuyStep, Count, Uncount, Persist, BreaksOff, vars

\* What a step does to the reservations.
LEMMA ReservationMoves ==
  ASSUME CountInv, NEW b \in Buys,
         BuyStep(b)
  PROVE  \/ UNCHANGED <<reservation, issued, idem>>
         \/ \E r \in ResIds :
              /\ r \notin issued
              /\ (Reserve(b) /\ answer'[b] = r) \/ ReserveFails(b)
              /\ ReserveGrant(IdemKey(b), Wanted(b), r)
              /\ issued' = issued \cup {r}
              /\ reservation'[r] = [items |-> Wanted(b), idem_key |-> IdemKey(b)]
              /\ \A q \in ResIds \ {r} : reservation'[q] = reservation[q]
         \/ /\ Releasing(b) /\ pc[b] = "delReservation" /\ rid[b] \in ResIds
            /\ issued' = issued /\ idem' = idem
            /\ reservation'[rid[b]] = Absent
            /\ \A q \in ResIds \ {rid[b]} : reservation'[q] = reservation[q]
         \/ /\ Releasing(b) /\ step'[b] = "end"
            /\ UNCHANGED <<reservation, issued>>
            /\ idem' = [idem EXCEPT ![got[b].idem_key] = Absent]
<1> USE DEF CountInv, Inv, TypeOK
<1>1. CASE Reserve(b)
  <2>1. CASE ReserveHit(IdemKey(b))
    BY <2>1 DEF ReserveHit, vars, redisVars, historyVars
  <2>2. ASSUME NEW r \in ResIds, ReserveGrant(IdemKey(b), Wanted(b), r),
               answer' = [answer EXCEPT ![b] = r]
        PROVE  /\ r \notin issued /\ answer'[b] = r /\ issued' = issued \cup {r}
               /\ reservation'[r] = [items |-> Wanted(b), idem_key |-> IdemKey(b)]
               /\ \A q \in ResIds \ {r} : reservation'[q] = reservation[q]
    BY <2>2 DEF ReserveGrant, BuyTypeOK
  <2> QED
    BY <1>1, <2>1, <2>2 DEF Reserve
<1>2. CASE ReserveFails(b)
  <2>1. ASSUME NEW r \in ResIds, ReserveGrant(IdemKey(b), Wanted(b), r)
        PROVE  /\ r \notin issued /\ issued' = issued \cup {r}
               /\ reservation'[r] = [items |-> Wanted(b), idem_key |-> IdemKey(b)]
               /\ \A q \in ResIds \ {r} : reservation'[q] = reservation[q]
    BY <2>1 DEF ReserveGrant
  <2>2. \/ UNCHANGED vars
        \/ \E r \in ResIds : ReserveGrant(IdemKey(b), Wanted(b), r)
    BY <1>2 DEF ReserveFails, ReserveStock, ReserveHit, ReserveReject
  <2> QED
    BY <1>2, <2>1, <2>2 DEF vars, redisVars, historyVars
<1>3. CASE Release(b)
  BY <1>3 DEF Release, ReadHash, redisVars, historyVars
<1>4. CASE Releasing(b)
  <2>1. CASE DelReservation(b)
    <3>1. rid[b] \in ResIds
      BY <2>1, BuyAssumption DEF DelReservation
    <3> QED
      BY <1>4, <2>1, <3>1 DEF DelReservation, historyVars
  <2>2. CASE \E v \in Variants : ReleaseIncr(b, v)
    BY <2>2 DEF ReleaseIncr
  <2>3. CASE DelIdem(b) /\ Goto(b, "end")
    BY <1>4, <2>3 DEF DelIdem, Goto, BuyTypeOK, historyVars
  <2> QED
    BY <1>4, <2>1, <2>2, <2>3 DEF Releasing
<1>5. CASE ReleaseDies(b)
  BY <1>5 DEF ReleaseDies, Crash, redisVars
<1> QED
  BY <1>1, <1>2, <1>3, <1>4, <1>5
  DEF BuyStep, Count, Uncount, Persist, BreaksOff, vars, redisVars, historyVars

\* A request keeps holding a reservation until it is gone.
LEMMA HolderGoesOn ==
  ASSUME CountInv, CountInv', HoldInv, NEW b \in Buys,
         BuyStep(b),
         NEW r \in ResIds, Holds(b, r), reservation'[r] # Absent
  PROVE  Holds(b, r)'
<1>1. r # Absent /\ b \in Handlers
  BY VariantsAssumption, BuyAssumption
<1>2. CASE order[b] = r
  BY <1>1, <1>2 DEF BuyStep, CountInv, BuyTypeOK, Count, Uncount, Reserve, ReserveFails, Persist,
                    Release, Releasing, Holds, BreaksOff, ReleaseDies, Consistent
<1>3. CASE answer[b] = r /\ step[b] \in {"persist", "uncountThenRelease", "release"}
  <2>1. CASE Persist(b) \/ Uncount(b) \/ BreaksOff(b)
    BY <1>3, <2>1 DEF CountInv, BuyTypeOK, Persist, Uncount, BreaksOff, Goto, Holds
  <2>2. CASE Release(b)
    <3>1. reservation[r] # Absent
      BY <1>3, <2>2 DEF Release, ReadHash, redisVars
    <3>2. pc' = [pc EXCEPT ![b] = "apply"] /\ step' = [step EXCEPT ![b] = "releasing"]
          /\ answer' = answer
      BY <1>3, <2>2, <3>1 DEF Release, ReadHash, Goto
    <3> QED
      BY <1>1, <1>3, <3>2 DEF CountInv, BuyTypeOK, Inv, TypeOK, Holds
  <2> QED
    BY <1>3, <2>1, <2>2 DEF BuyStep, Count, Reserve, ReserveFails, Releasing, ReleaseDies
<1>4. CASE answer[b] = r /\ step[b] = "releasing" /\ pc[b] \in {"apply", "delReservation"}
  <2>1. Releasing(b) \/ ReleaseDies(b)
    BY <1>4 DEF BuyStep, Count, Uncount, Reserve, ReserveFails, Persist, Release, BreaksOff
  <2>2. CASE \E v \in Variants : ReleaseIncr(b, v)
    <3>1. UNCHANGED <<step, answer>> \/ ReleaseDies(b)
      BY <2>1, <2>2 DEF Releasing, ReleaseIncr, DelIdem
    <3>2. pc'[b] \in {"apply", "delReservation"}
      BY <1>1, <2>2 DEF ReleaseIncr, CountInv, Inv, TypeOK
    <3>3. CASE ReleaseDies(b)
      BY <1>4, <3>3 DEF ReleaseDies, Goto, CountInv, BuyTypeOK, Holds
    <3> QED
      BY <1>4, <3>1, <3>2, <3>3 DEF Holds
  <2>3. CASE DelReservation(b)
    <3>1. reservation'[r] = Absent
      BY <1>4, <2>3 DEF DelReservation, HoldInv, CountInv, Inv, TypeOK
    <3> QED
      BY <3>1
  <2>4. CASE ReleaseDies(b)
    BY <1>4, <2>4 DEF ReleaseDies, Goto, CountInv, BuyTypeOK, Holds
  <2> QED
    BY <1>4, <2>1, <2>2, <2>3, <2>4 DEF Releasing, DelIdem
<1>5. CASE answer[b] = r /\ step[b] \in {"broken", "unreleased"}
  BY <1>5 DEF BuyStep, Count, Uncount, Reserve, ReserveFails, Persist, Release, Releasing,
              BreaksOff, ReleaseDies
<1> QED
  BY <1>2, <1>3, <1>4, <1>5 DEF Holds

LEMMA HoldInvStep == CountInv /\ CountInv' /\ HoldInv /\ [BuyNext]_allVars => HoldInv'
<1>1. ASSUME HoldInv, UNCHANGED allVars PROVE HoldInv'
  BY <1>1 DEF HoldInv, Holds, allVars, buyVars, vars, redisVars, handlerVars, historyVars
<1>2. ASSUME CountInv, CountInv', HoldInv, NEW b \in Buys,
             BuyStep(b)
      PROVE  HoldInv'
  <2>1. \A r \in ResIds : reservation'[r] # Absent => r \in issued'
    BY <1>2, ReservationMoves DEF HoldInv
  <2>2. \A c \in Buys : step'[c] = "releasing" => rid'[c] = answer'[c]
    <3>1. step'[b] = "releasing" => rid'[b] = answer'[b]
      BY <1>2, BuyAssumption
      DEF BuyStep, CountInv, BuyTypeOK, Inv, TypeOK, HoldInv, Goto, Count, Uncount, Reserve,
          ReserveFails, Persist, Release, Releasing, ReadHash, ReleaseIncr, DelReservation,
          DelIdem, BreaksOff, ReleaseDies, Over
    <3> QED
      BY <1>2, <3>1, OthersStand, SlotsStand DEF HoldInv
  <2>3. ASSUME NEW r \in ResIds, reservation'[r] # Absent
        PROVE  r \in unanswered' \/ \E c \in Buys : Holds(c, r)'
    <3>1. CASE reservation[r] # Absent /\ r \in unanswered
      BY <1>2, <3>1 DEF BuyStep, Count, Uncount, Reserve, ReserveFails, Persist, Release,
                        Releasing, BreaksOff, ReleaseDies
    <3>2. ASSUME NEW c \in Buys, Holds(c, r) PROVE Holds(c, r)'
      <4>1. CASE c = b
        BY <1>2, <2>3, <3>2, <4>1, HolderGoesOn
      <4>2. CASE c # b
        BY <1>2, <3>2, <4>2, OthersStand, SlotsStand DEF Holds
      <4> QED
        BY <4>1, <4>2
    <3>3. CASE reservation[r] = Absent
      <4>1. /\ r \notin issued /\ r \in issued'
            /\ (Reserve(b) /\ answer'[b] = r) \/ ReserveFails(b)
        BY <1>2, <2>3, <3>3, ReservationMoves
      <4>2. CASE Reserve(b) /\ answer'[b] = r
        <5>1. step'[b] = "persist"
          BY <1>2, <4>2 DEF Reserve, Goto, CountInv, BuyTypeOK
        <5> QED
          BY <4>2, <5>1 DEF Holds
      <4>3. CASE ReserveFails(b)
        BY <4>1, <4>3 DEF ReserveFails
      <4> QED
        BY <4>1, <4>2, <4>3
    <3> QED
      BY <1>2, <2>3, <3>1, <3>2, <3>3 DEF HoldInv
  <2> QED
    BY <2>1, <2>2, <2>3 DEF HoldInv
<1> QED
  BY <1>1, <1>2 DEF BuyStep, BuyNext

LEMMA HoldInvInit == BuyInit => HoldInv
BY DEF BuyInit, Init, HoldInv

\* Once all requests are over, units are held for orders only, or by reservations whose
\* answer got lost or whose request was cut short.
THEOREM NothingStranded == BuySpec => []NoStrandedStock
<1>1. HoldInv => NoStrandedStock
  <2> SUFFICES ASSUME HoldInv, \A b \in Buys : step[b] \in Over \cup {"start"},
                      NEW r \in ResIds, reservation[r] # Absent, r \notin unanswered
               PROVE  \/ \E b \in Buys : order[b] = r
                      \/ \E b \in CutShort : answer[b] = r
    BY DEF NoStrandedStock
  <2>1. PICK b \in Buys : Holds(b, r)
    BY DEF HoldInv
  <2>2. order[b] = r \/ (answer[b] = r /\ step[b] \in {"broken", "unreleased"})
    BY <2>1 DEF Holds, Over
  <2> QED
    BY <2>2 DEF CutShort
<1> QED
  BY CountInvInit, CountInvStep, HoldInvInit, HoldInvStep, <1>1, PTL DEF BuySpec

-----------------------------------------------------------------------------
(* Patient users                                                           *)

\* Reservation r was made under key k: the record of k, a request of that key or the
\* hash of r says so.
Names(k, r) ==
  \/ k \in Keys /\ idem[k] = r
  \/ \E b \in Buys : answer[b] = r /\ IdemKey(b) = k
  \/ reservation[r] # Absent /\ reservation[r].idem_key = k

\* Records, answers, hashes and the copies of them agree about the key of a reservation.
KeyInv ==
  /\ \A r \in ResIds : \A k : Names(k, r) => r \in issued
  /\ \A r \in ResIds : \A k, l : Names(k, r) /\ Names(l, r) => k = l
  /\ \A b \in Buys : step[b] = "releasing" => got[b].idem_key = IdemKey(b)

\* The reservation request b was answered with exists and covers it, or was let go by
\* a release that died half way.
Backed(b) ==
  \/ crashed[answer[b]] > 0
  \/ /\ reservation[answer[b]] # Absent
     /\ reservation[answer[b]].items[OnSale] >= QtyOf[b]

\* The requests whose count stands when the user has none on its way.
Kept(u) == Ordered(u) \cup Uncompensated(u)

\* The reservation that key k names is there, or is just being released under that key,
\* or its release died.
Alive(k) ==
  \/ reservation[idem[k]] # Absent
  \/ crashed[idem[k]] > 0
  \/ \E b \in Buys : step[b] = "releasing" /\ IdemKey(b) = k /\ answer[b] = idem[k]

\* One request of u at a time: each counts on from what stands, so it has a key that no
\* order has, and a reservation under that key covers what is new in it.
PatientInv(u) ==
  /\ \A b, c \in InFlight(u) : b = c
  /\ \A b \in InFlight(u) : total[b] = Standing(u) + QtyOf[b]
  /\ \A b \in Ordered(u) : total[b] \in 1 .. Standing(u) /\ Backed(b)
  /\ \A b, c \in Ordered(u) : b # c => total[b] # total[c]
  /\ \A b \in InFlight(u) : step[b] = "persist" => Backed(b)
  /\ \A r \in ResIds, t \in 1 .. Limit :
       (reservation[r] # Absent /\ reservation[r].idem_key = <<u, t>>)
         => /\ reservation[r].items[OnSale] \in Nat
            /\ reservation[r].items[OnSale] >= t - Standing(u)
  /\ \A t \in 1 .. Limit : idem[<<u, t>>] # Absent => Alive(<<u, t>>)

PatienceInv == KeyInv /\ \A u \in patient : PatientInv(u)

LEMMA KeyInvInit == BuyInit => KeyInv
<1> SUFFICES ASSUME BuyInit PROVE KeyInv
  OBVIOUS
<1>1. \A r \in ResIds : \A k : ~Names(k, r)
  BY VariantsAssumption DEF BuyInit, Init, Names
<1> QED
  BY <1>1 DEF BuyInit, KeyInv

\* What the agreement says of a record, of an answer and of two answers.
LEMMA KeysAgree ==
  ASSUME CountInv, KeyInv
  PROVE  /\ \A k \in Keys :
              idem[k] # Absent =>
                /\ idem[k] \in issued
                /\ reservation[idem[k]] # Absent => reservation[idem[k]].idem_key = k
         /\ \A b \in Buys :
              answer[b] # Absent =>
                /\ answer[b] \in issued
                /\ reservation[answer[b]] # Absent => reservation[answer[b]].idem_key = IdemKey(b)
         /\ \A b, c \in Buys :
              answer[b] # Absent /\ answer[b] = answer[c] => IdemKey(b) = IdemKey(c)
         /\ \A b \in Buys, k \in Keys :
              answer[b] # Absent /\ answer[b] = idem[k] => IdemKey(b) = k
<1>1. /\ \A k \in Keys : idem[k] # Absent => idem[k] \in ResIds
      /\ \A b \in Buys : answer[b] # Absent => answer[b] \in ResIds
  BY DEF CountInv, BuyTypeOK, Inv, TypeOK
<1>2. /\ \A k \in Keys : Names(k, idem[k])
      /\ \A b \in Buys : Names(IdemKey(b), answer[b])
      /\ \A r \in ResIds : reservation[r] # Absent => Names(reservation[r].idem_key, r)
  BY DEF Names
<1> QED
  BY <1>1, <1>2 DEF KeyInv

\* An id that was handed out keeps its hash or loses it for good.
LEMMA ReservationStands ==
  ASSUME CountInv, NEW b \in Buys,
         BuyStep(b)
  PROVE  /\ issued \subseteq issued'
         /\ \A r \in ResIds : r \in issued =>
              reservation'[r] = Absent \/ reservation'[r] = reservation[r]
BY ReservationMoves

LEMMA KeyStands ==
  ASSUME CountInv, NEW b \in Buys, step[b] # "start",
         BuyStep(b)
  PROVE  total'[b] = total[b] /\ IdemKey(b)' = IdemKey(b)
BY DEF BuyStep, Count, Uncount, Reserve, ReserveFails, Persist, Release, Releasing, IdemKey,
       BreaksOff, ReleaseDies

LEMMA FreshReservation ==
  ASSUME CountInv, NEW b \in Buys, BuyStep(b),
         NEW r \in ResIds, reservation'[r] # Absent, reservation'[r] # reservation[r]
  PROVE  /\ Reserve(b) \/ ReserveFails(b)
         /\ reservation'[r] = [items |-> Wanted(b), idem_key |-> IdemKey(b)]
         /\ r \notin issued /\ r \in issued'
BY ReservationMoves DEF BuyStep

LEMMA CrashedStands ==
  ASSUME CountInv, NEW b \in Buys, BuyStep(b), NEW r \in ResIds, crashed[r] > 0
  PROVE  crashed'[r] > 0
<1>1. CASE ReleaseDies(b)
  BY <1>1 DEF ReleaseDies, Crash, CountInv, Inv, TypeOK
<1>2. CASE ~ReleaseDies(b)
  <2>1. crashed' = crashed
    BY <1>2 DEF BuyStep, Count, Uncount, Reserve, ReserveFails, Persist, Release, Releasing,
                BreaksOff, ReserveStock, ReserveHit, ReserveReject, ReserveGrant, ReadHash,
                ReleaseIncr, DelReservation, DelIdem, vars, historyVars
  <2> QED
    BY <2>1
<1> QED
  BY <1>1, <1>2

LEMMA KeyInvStep ==
  ASSUME CountInv, CountInv', HoldInv, KeyInv, NEW b \in Buys,
         BuyStep(b)
  PROVE  KeyInv'
<1>0. b \in Handlers
  BY BuyAssumption
<1>1. ASSUME NEW r \in ResIds, NEW k, Names(k, r)'
      PROVE  Names(k, r) \/ (r \notin issued /\ r \in issued' /\ k = IdemKey(b))
  <2>1. CASE k \in Keys /\ idem'[k] = r
    <3>1. CASE idem'[k] = idem[k]
      BY <2>1, <3>1 DEF Names
    <3>2. CASE idem'[k] # idem[k]
      <4>1. idem # idem' /\ idem' # [idem EXCEPT ![got[b].idem_key] = Absent]
        BY <2>1, <3>2, VariantsAssumption DEF CountInv, Inv, TypeOK
      <4>2. PICK q \in ResIds : /\ q \notin issued /\ issued' = issued \cup {q}
                                /\ ReserveGrant(IdemKey(b), Wanted(b), q)
        BY <4>1, ReservationMoves
      <4> QED
        BY <2>1, <3>2, <4>2 DEF ReserveGrant, CountInv, Inv, TypeOK
    <3> QED
      BY <3>1, <3>2
  <2>2. ASSUME NEW c \in Buys, answer'[c] = r, IdemKey(c)' = k
        PROVE  Names(k, r) \/ (r \notin issued /\ r \in issued' /\ k = IdemKey(b))
    <3>1. CASE answer[c] = r
      <4>1. step[c] # "start"
        BY <3>1, VariantsAssumption DEF CountInv, Consistent
      <4>2. IdemKey(c)' = IdemKey(c)
        BY <4>1, KeyStands, OthersStand DEF IdemKey
      <4> QED
        BY <2>2, <3>1, <4>2 DEF Names
    <3>2. CASE answer[c] # r
      <4>1. Reserve(b) /\ c = b
        BY <2>2, <3>2, OthersStand
        DEF BuyStep, Count, Uncount, ReserveFails, Persist, Release, Releasing, BreaksOff,
            ReleaseDies
      <4>2. k = IdemKey(b) /\ k \in Keys
        BY <2>2, <4>1, KeyStands, KeyFacts DEF Reserve
      <4>3. CASE ReserveHit(IdemKey(b)) /\ answer' = [answer EXCEPT ![b] = idem[IdemKey(b)]]
        BY <2>2, <4>1, <4>2, <4>3 DEF CountInv, BuyTypeOK, Names
      <4>4. ASSUME NEW q \in ResIds, ReserveGrant(IdemKey(b), Wanted(b), q),
                   answer' = [answer EXCEPT ![b] = q]
            PROVE  r \notin issued /\ r \in issued'
        BY <2>2, <4>1, <4>4 DEF ReserveGrant, CountInv, BuyTypeOK
      <4> QED
        BY <4>1, <4>2, <4>3, <4>4 DEF Reserve
    <3> QED
      BY <3>1, <3>2
  <2>3. CASE reservation'[r] # Absent /\ reservation'[r].idem_key = k
    <3>1. CASE reservation'[r] = reservation[r]
      BY <2>3, <3>1 DEF Names
    <3>2. CASE reservation'[r] # reservation[r]
      <4>1. /\ reservation'[r] = [items |-> Wanted(b), idem_key |-> IdemKey(b)]
            /\ r \notin issued /\ r \in issued'
        BY <2>3, <3>2, FreshReservation
      <4>2. reservation'[r].idem_key = IdemKey(b)
        BY <4>1
      <4> QED
        BY <2>3, <4>1, <4>2
    <3> QED
      BY <3>1, <3>2
  <2> QED
    BY <1>1, <2>1, <2>2, <2>3 DEF Names
<1>2. /\ \A r \in ResIds : \A k : Names(k, r)' => r \in issued'
      /\ \A r \in ResIds : \A k, l : Names(k, r)' /\ Names(l, r)' => k = l
  <2>1. \A r \in ResIds : \A k : Names(k, r) => r \in issued
    BY DEF KeyInv
  <2>2. \A r \in ResIds : \A k, l : Names(k, r) /\ Names(l, r) => k = l
    BY DEF KeyInv
  <2>3. issued \subseteq issued'
    BY ReservationStands
  <2>4. ASSUME NEW r \in ResIds, NEW k, NEW l, Names(k, r)', Names(l, r)' PROVE k = l
    BY <1>1, <2>1, <2>2, <2>4
  <2>5. ASSUME NEW r \in ResIds, NEW k, Names(k, r)' PROVE r \in issued'
    BY <1>1, <2>1, <2>3, <2>5
  <2> QED
    BY <2>4, <2>5
<1>3. ASSUME NEW c \in Buys, step'[c] = "releasing"
      PROVE  got'[c].idem_key = IdemKey(c)'
  <2>1. CASE c # b
    BY <1>3, <2>1, OthersStand, SlotsStand DEF KeyInv, IdemKey
  <2>2. CASE c = b
    <3>1. Release(b) \/ Releasing(b)
      BY <1>3, <2>2
      DEF BuyStep, CountInv, BuyTypeOK, Goto, Count, Uncount, Reserve, ReserveFails, Persist,
          BreaksOff, ReleaseDies, Over
    <3>2. IdemKey(b)' = IdemKey(b)
      BY <3>1, KeyStands DEF Release, Releasing
    <3>3. CASE Release(b)
      <4>1. reservation[answer[b]] # Absent /\ answer[b] \in ResIds
        BY <1>3, <2>2, <3>3 DEF Release, CountInv, BuyTypeOK, Goto, Named, Consistent
      <4>2. got'[b] = reservation[answer[b]]
        BY <1>0, <3>3, <4>1 DEF Release, ReadHash, CountInv, Inv, TypeOK
      <4> QED
        BY <2>2, <3>2, <4>1, <4>2, KeysAgree, VariantsAssumption
    <3>4. CASE Releasing(b)
      <4>1. ~DelIdem(b) \/ ~Goto(b, "end")
        BY <1>3, <2>2 DEF CountInv, BuyTypeOK, Goto
      <4>2. got' = got /\ step[b] = "releasing"
        BY <3>4, <4>1 DEF Releasing, ReleaseIncr, DelReservation
      <4> QED
        BY <2>2, <3>2, <4>2 DEF KeyInv
    <3> QED
      BY <3>1, <3>3, <3>4
  <2> QED
    BY <2>1, <2>2
<1> QED
  BY <1>1, <1>2, <1>3 DEF KeyInv

\* A request touches the reservation and the record of its own key only.
LEMMA KeyUntouched ==
  ASSUME CountInv, HoldInv, KeyInv, NEW b \in Buys, BuyStep(b),
         NEW r \in ResIds, reservation[r] # Absent, reservation[r].idem_key # IdemKey(b)
  PROVE  reservation'[r] = reservation[r]
<1>1. r \in issued
  BY DEF HoldInv
<1>2. Releasing(b) /\ rid[b] \in ResIds => rid[b] # r
  BY KeysAgree, VariantsAssumption DEF Releasing, HoldInv
<1> QED
  BY <1>1, <1>2, ReservationMoves DEF BuyStep

LEMMA IdemUntouched ==
  ASSUME CountInv, KeyInv, NEW b \in Buys, BuyStep(b), NEW k \in Keys, k # IdemKey(b)
  PROVE  idem'[k] = idem[k]
<1>1. Releasing(b) => got[b].idem_key = IdemKey(b)
  BY DEF Releasing, KeyInv
<1>2. \A r \in ResIds : ReserveGrant(IdemKey(b), Wanted(b), r) => idem'[k] = idem[k]
  BY DEF ReserveGrant, CountInv, Inv, TypeOK
<1>3. idem' = [idem EXCEPT ![IdemKey(b)] = Absent] => idem'[k] = idem[k]
  BY DEF CountInv, Inv, TypeOK
<1> QED
  BY <1>1, <1>2, <1>3, ReservationMoves DEF BuyStep

LEMMA StandingFacts ==
  ASSUME NEW u \in Users
  PROVE  /\ Ordered(u) \subseteq Kept(u) /\ Kept(u) \subseteq Buys
         /\ Standing(u) = Cardinality(Units(Kept(u))) /\ Standing(u) \in Nat
BY UnitsFinite DEF Ordered, Uncompensated, Kept, Standing

\* The keys of a user's requests that can be granted.
LEMMA UserKeys == \A u \in Users, t \in 1 .. Limit : <<u, t>> \in Keys
BY BuyAssumption

\* Nothing another user does disturbs a patient user.
LEMMA PatientOther ==
  ASSUME CountInv, HoldInv, KeyInv, NEW b \in Buys, BuyStep(b),
         NEW u \in Users, u # UserOf[b], PatientInv(u)
  PROVE  PatientInv(u)'
<1>1. \A c \in Buys : UserOf[c] = u =>
        /\ c # b /\ step'[c] = step[c] /\ total'[c] = total[c]
        /\ answer'[c] = answer[c] /\ order'[c] = order[c]
        /\ (c \in disowned' <=> c \in disowned)
  BY OthersStand
<1>2. /\ InFlight(u)' = InFlight(u) /\ Ordered(u)' = Ordered(u)
      /\ Uncompensated(u)' = Uncompensated(u)
  BY <1>1 DEF InFlight, Ordered, Uncompensated
<1>3. Standing(u)' = Standing(u)
  BY <1>2 DEF Standing
<1>4. \A t : <<u, t>> # IdemKey(b)
  BY DEF IdemKey
<1>5. ASSUME NEW c \in Buys, UserOf[c] = u, answer[c] # Absent, Backed(c)
      PROVE  Backed(c)'
  <2>1. answer[c] \in ResIds
    BY <1>5 DEF CountInv, BuyTypeOK
  <2>2. CASE reservation[answer[c]] # Absent
    <3>1. reservation[answer[c]].idem_key = <<u, total[c]>>
      BY <1>5, <2>2, KeysAgree DEF IdemKey
    <3>2. reservation'[answer[c]] = reservation[answer[c]]
      BY <1>4, <2>1, <2>2, <3>1, KeyUntouched
    <3> QED
      BY <1>1, <1>5, <2>1, <3>2, CrashedStands DEF Backed
  <2>3. CASE reservation[answer[c]] = Absent
    <3>1. crashed'[answer[c]] > 0
      BY <1>5, <2>1, <2>3, CrashedStands DEF Backed
    <3> QED
      BY <1>1, <1>5, <3>1 DEF Backed
  <2> QED
    BY <2>2, <2>3
<1>6. \A c \in Ordered(u)' : total'[c] \in 1 .. Standing(u)' /\ Backed(c)'
  <2> TAKE c \in Ordered(u)'
  <2>1. c \in Ordered(u) /\ c \in Buys /\ UserOf[c] = u /\ answer[c] # Absent
    BY <1>2 DEF Ordered, CountInv, Consistent
  <2> QED
    BY <1>1, <1>3, <1>5, <2>1 DEF PatientInv
<1>7. \A c \in InFlight(u)' : step'[c] = "persist" => Backed(c)'
  <2> TAKE c \in InFlight(u)'
  <2> HAVE step'[c] = "persist"
  <2>1. c \in InFlight(u) /\ c \in Buys /\ UserOf[c] = u /\ step[c] = "persist"
    BY <1>1, <1>2 DEF InFlight
  <2>2. answer[c] # Absent
    BY <2>1, VariantsAssumption DEF CountInv, Named, Consistent
  <2> QED
    BY <1>5, <2>1, <2>2 DEF PatientInv
<1>8. \A r \in ResIds, t \in 1 .. Limit :
        (reservation'[r] # Absent /\ reservation'[r].idem_key = <<u, t>>)
          => /\ reservation'[r].items[OnSale] \in Nat
             /\ reservation'[r].items[OnSale] >= t - Standing(u)'
  <2> SUFFICES ASSUME NEW r \in ResIds, NEW t \in 1 .. Limit,
                      reservation'[r] # Absent, reservation'[r].idem_key = <<u, t>>
               PROVE  /\ reservation'[r].items[OnSale] \in Nat
                      /\ reservation'[r].items[OnSale] >= t - Standing(u)'
    OBVIOUS
  <2>1. ASSUME reservation'[r] # reservation[r] PROVE FALSE
    <3>1. reservation'[r] = [items |-> Wanted(b), idem_key |-> IdemKey(b)]
      BY <2>1, FreshReservation
    <3>2. reservation'[r].idem_key = IdemKey(b)
      BY <3>1
    <3> QED
      BY <1>4, <3>2
  <2> QED
    BY <1>3, <2>1 DEF PatientInv
<1>9. ASSUME NEW t \in 1 .. Limit, idem'[<<u, t>>] # Absent
      PROVE  Alive(<<u, t>>)'
  <2> DEFINE k == <<u, t>>
  <2>1. k \in Keys /\ idem'[k] = idem[k] /\ k # IdemKey(b)
    BY <1>4, IdemUntouched, UserKeys
  <2>2. idem[k] \in ResIds /\ Alive(k)
    BY <1>9, <2>1 DEF PatientInv, CountInv, Inv, TypeOK
  <2>3. CASE reservation[idem[k]] # Absent
    <3>1. reservation[idem[k]].idem_key = k
      BY <1>9, <2>1, <2>3, KeysAgree
    <3> QED
      BY <2>1, <2>2, <2>3, <3>1, KeyUntouched DEF Alive
  <2>4. CASE crashed[idem[k]] > 0
    BY <2>1, <2>2, <2>4, CrashedStands DEF Alive
  <2>5. ASSUME NEW c \in Buys, step[c] = "releasing", IdemKey(c) = k, answer[c] = idem[k]
        PROVE  Alive(k)'
    <3>1. c # b
      BY <2>1, <2>5
    <3>2. step'[c] = "releasing" /\ IdemKey(c)' = k /\ answer'[c] = answer[c]
      BY <2>5, <3>1, OthersStand DEF IdemKey
    <3> QED
      BY <2>1, <2>5, <3>2 DEF Alive
  <2> QED
    BY <2>2, <2>3, <2>4, <2>5 DEF Alive
<1>10. /\ \A c, d \in InFlight(u)' : c = d
       /\ \A c \in InFlight(u)' : total'[c] = Standing(u)' + QtyOf[c]
       /\ \A c, d \in Ordered(u)' : c # d => total'[c] # total'[d]
  BY <1>1, <1>2, <1>3 DEF PatientInv, InFlight, Ordered
<1> QED
  BY <1>6, <1>7, <1>8, <1>9, <1>10 DEF PatientInv

\* The orders of a patient user stand while a request of the user goes on.
LEMMA OrdersStand ==
  ASSUME CountInv, HoldInv, KeyInv, NEW b \in Buys, BuyStep(b),
         NEW u \in Users, u = UserOf[b], PatientInv(u), b \in InFlight(u) \/ Count(b),
         NEW c \in Ordered(u)
  PROVE  /\ c # b /\ total'[c] = total[c] /\ total[c] \in 1 .. Standing(u)
         /\ answer'[c] = answer[c] /\ Backed(c)'
<1>1. c \in Buys /\ order[c] # Absent /\ step[c] = "end" /\ answer[c] # Absent /\ UserOf[c] = u
      /\ answer[c] \in ResIds
  BY DEF Ordered, CountInv, BuyTypeOK, Consistent, Told
<1>2. c # b
  BY <1>1 DEF InFlight, Count, Over
<1>3. total'[c] = total[c] /\ answer'[c] = answer[c]
  BY <1>1, <1>2, OthersStand
<1>4. total[c] \in 1 .. Standing(u) /\ Backed(c)
  BY DEF PatientInv
<1>5. CASE crashed[answer[c]] > 0
  <2>1. Backed(c)'
    BY <1>1, <1>3, <1>5, CrashedStands DEF Backed
  <2> QED
    BY <1>2, <1>3, <1>4, <2>1
<1>6. CASE ~(crashed[answer[c]] > 0)
  <2>1. reservation[answer[c]] # Absent /\ reservation[answer[c]].items[OnSale] >= QtyOf[c]
    BY <1>4, <1>6 DEF Backed
  <2>2. reservation'[answer[c]] = reservation[answer[c]]
    <3>1. CASE Count(b)
      BY <3>1 DEF Count, vars, redisVars
    <3>2. CASE b \in InFlight(u)
      <4>1. total[b] = Standing(u) + QtyOf[b] /\ QtyOf[b] \in 1 .. Limit /\ Standing(u) \in Nat
        BY <3>2, QtyFacts, StandingFacts DEF PatientInv, InFlight
      <4>2. IdemKey(c) # IdemKey(b)
        BY <1>4, <4>1, QtyFacts DEF IdemKey
      <4>3. reservation[answer[c]].idem_key = IdemKey(c)
        BY <1>1, <2>1, KeysAgree
      <4> QED
        BY <1>1, <2>1, <4>2, <4>3, KeyUntouched
    <3> QED
      BY <3>1, <3>2
  <2> QED
    BY <1>2, <1>3, <1>4, <2>1, <2>2 DEF Backed
<1> QED
  BY <1>5, <1>6

\* A request of a patient user is answered with a reservation that covers it.
LEMMA AnswerCovers ==
  ASSUME CountInv, KeyInv, NEW b \in Buys, Reserve(b),
         NEW u \in Users, u = UserOf[b], PatientInv(u)
  PROVE  Backed(b)'
<1>1. /\ step[b] = "reserve" /\ b \in InFlight(u) /\ total[b] \in 1 .. Limit
      /\ IdemKey(b) = <<u, total[b]>> /\ IdemKey(b) \in Keys /\ Wanted(b) \in Requests
  BY KeyFacts DEF Reserve, InFlight, CountInv, Consistent, IdemKey, Over
<1>2. total[b] = Standing(u) + QtyOf[b] /\ QtyOf[b] \in 1 .. Limit /\ Standing(u) \in Nat
  BY <1>1, QtyFacts, StandingFacts DEF PatientInv
<1>3. CASE ReserveHit(IdemKey(b)) /\ answer' = [answer EXCEPT ![b] = idem[IdemKey(b)]]
  <2> DEFINE r == idem[IdemKey(b)]
  <2>1. r # Absent /\ r \in ResIds /\ answer'[b] = r /\ reservation' = reservation
    BY <1>1, <1>3 DEF ReserveHit, vars, redisVars, CountInv, BuyTypeOK, Inv, TypeOK
  <2>2. \A c \in Buys : ~(step[c] = "releasing" /\ IdemKey(c) = <<u, total[b]>>)
    <3> SUFFICES ASSUME NEW c \in Buys, step[c] = "releasing", IdemKey(c) = <<u, total[b]>>
                 PROVE  FALSE
      OBVIOUS
    <3>1. c \in InFlight(u)
      BY DEF IdemKey, InFlight, Over
    <3> QED
      BY <1>1, <3>1 DEF PatientInv
  <2>3. reservation[r] # Absent \/ crashed[r] > 0
    BY <1>1, <2>1, <2>2 DEF PatientInv, Alive
  <2>4. CASE crashed[r] > 0
    BY <2>1, <2>4, CrashedStands DEF Backed, BuyStep
  <2>5. CASE reservation[r] # Absent
    <3>1. reservation[r].idem_key = <<u, total[b]>>
      BY <1>1, <2>1, <2>5, KeysAgree
    <3>2. /\ reservation[r].items[OnSale] \in Nat
          /\ reservation[r].items[OnSale] >= total[b] - Standing(u)
      BY <1>1, <2>1, <2>5, <3>1 DEF PatientInv
    <3> QED
      BY <1>2, <2>1, <2>5, <3>2 DEF Backed
  <2> QED
    BY <2>3, <2>4, <2>5
<1>4. ASSUME NEW r \in ResIds, ReserveGrant(IdemKey(b), Wanted(b), r),
             answer' = [answer EXCEPT ![b] = r]
      PROVE  Backed(b)'
  <2>1. answer'[b] = r /\ reservation'[r] = [items |-> Wanted(b), idem_key |-> IdemKey(b)]
    BY <1>4 DEF ReserveGrant, CountInv, BuyTypeOK, Inv, TypeOK
  <2>2. reservation'[r] # Absent
    <3>1. [items |-> Wanted(b), idem_key |-> IdemKey(b)] \in Hash
      BY <1>1 DEF Hash
    <3> QED
      BY <2>1, <3>1, VariantsAssumption
  <2> QED
    BY <1>2, <2>1, <2>2 DEF Backed, Wanted
<1> QED
  BY <1>3, <1>4 DEF Reserve

\* The steps of a patient user's own request.
LEMMA PatientOwn ==
  ASSUME CountInv, CountInv', HoldInv, KeyInv, KeyInv', NEW b \in Buys, BuyStep(b),
         NEW u \in patient, u \in Users, u = UserOf[b], PatientInv(u)
  PROVE  PatientInv(u)'
<1>0. /\ QtyOf[b] \in 1 .. Limit /\ Limit \in Nat
      /\ Standing(u) \in Nat /\ Standing(u)' \in Nat
      /\ Standing(u) = Cardinality(Units(Kept(u))) /\ Kept(u) \subseteq Buys
      /\ Standing(u)' = Cardinality(Units(Kept(u)'))
  <2>1. Kept(u)' \subseteq Buys /\ Standing(u)' = Cardinality(Units(Kept(u)'))
    BY DEF Ordered, Uncompensated, Kept, Standing
  <2> QED
    BY <2>1, QtyFacts, StandingFacts, UnitsFinite
<1>1. /\ b \in InFlight(u) \/ Count(b)
      /\ Count(b) => InFlight(u) = {}
      /\ InFlight(u) \subseteq {b}
      /\ \A c \in InFlight(u)' : c = b
      /\ b \notin Kept(u)
  <2>1. (b \in InFlight(u) \/ Count(b)) /\ b \notin Kept(u)
    BY DEF BuyStep, InFlight, Count, Uncount, Reserve, ReserveFails, Persist, Release, Releasing,
           BreaksOff, ReleaseDies, Over, Kept, Ordered, Uncompensated, CountInv, Consistent, Told
  <2>2. Count(b) => InFlight(u) = {}
    BY DEF Count
  <2>3. InFlight(u) \subseteq {b}
    BY <2>1, <2>2 DEF PatientInv
  <2>4. \A c \in InFlight(u)' : c = b
    BY <2>3, OthersStand DEF InFlight
  <2> QED
    BY <2>1, <2>2, <2>3, <2>4
<1>2. b \in InFlight(u)' => total'[b] = Standing(u) + QtyOf[b]
  <2>1. CASE Count(b)
    <3>1. Counted(u) = Kept(u)
      BY <1>1, <2>1 DEF InFlight, Counted, Counts, Told, Kept, Ordered, Uncompensated, Over
    <3>2. counter[u] = Standing(u)
      BY <1>0, <3>1 DEF CountInv
    <3> QED
      BY <2>1, <3>2 DEF Count, CountInv, BuyTypeOK
  <2>2. CASE b \in InFlight(u)
    <3>1. total'[b] = total[b]
      BY <2>2, KeyStands DEF InFlight
    <3> QED
      BY <2>2, <3>1 DEF PatientInv
  <2> QED
    BY <1>1, <2>1, <2>2
<1>3. \A c \in InFlight(u)' : step'[c] = "persist" => Backed(c)'
  <2> SUFFICES ASSUME b \in InFlight(u)', step'[b] = "persist" PROVE Backed(b)'
    BY <1>1
  <2>1. Reserve(b)
    BY DEF BuyStep, Count, Uncount, ReserveFails, Persist, Release, Releasing, BreaksOff,
           ReleaseDies, Goto, CountInv, BuyTypeOK
  <2> QED
    BY <2>1, AnswerCovers
\* The request stands from now on, as an order or cut short, or all stands as it was.
<1>4. \/ /\ Persist(b) /\ step'[b] = "end"
         /\ Ordered(u)' = Ordered(u) \cup {b} /\ Kept(u)' = Kept(u) \cup {b}
      \/ /\ step'[b] = "broken"
         /\ Ordered(u)' = Ordered(u) /\ Kept(u)' = Kept(u) \cup {b}
      \/ Ordered(u)' = Ordered(u) /\ Kept(u)' = Kept(u)
  <2>1. /\ Ordered(u)' \ {b} = Ordered(u)
        /\ Uncompensated(u)' \ {b} = Uncompensated(u)
    BY <1>1, OthersStand DEF Kept, Ordered, Uncompensated
  <2>2. b \in Ordered(u)' => Persist(b) /\ step'[b] = "end"
    BY <1>1 DEF BuyStep, Count, Uncount, Reserve, ReserveFails, Persist, Release, Releasing,
                BreaksOff, ReleaseDies, Goto, CountInv, BuyTypeOK, Kept, Ordered
  <2>3. b \in Uncompensated(u)' <=> step'[b] = "broken"
    BY DEF Uncompensated
  <2> QED
    BY <2>1, <2>2, <2>3 DEF Kept
<1>5. /\ Standing(u)' >= Standing(u)
      /\ b \in InFlight(u)' => Standing(u)' = Standing(u)
  <2>1. CASE Kept(u)' = Kept(u) \cup {b}
    <3>1. Standing(u)' = Standing(u) + QtyOf[b]
      BY <1>0, <1>1, <2>1, UnitsAdd
    <3>2. Kept(u) # Kept(u)'
      BY <1>1, <2>1
    <3>3. step'[b] \in Over
      BY <1>4, <3>2 DEF Over
    <3> QED
      BY <1>0, <3>1, <3>3 DEF InFlight
  <2>2. CASE Kept(u)' = Kept(u)
    BY <1>0, <2>2
  <2> QED
    BY <1>4, <2>1, <2>2
<1>6. \A c \in Ordered(u) : /\ total'[c] = total[c] /\ total[c] \in 1 .. Standing(u)
                            /\ Backed(c)'
  BY <1>1, OrdersStand
<1>7. ASSUME Persist(b), step'[b] = "end", Ordered(u)' = Ordered(u) \cup {b},
             Kept(u)' = Kept(u) \cup {b}
      PROVE  total'[b] = Standing(u)' /\ Standing(u)' > Standing(u) /\ Backed(b)'
  <2>1. b \in InFlight(u) /\ step[b] = "persist" /\ UNCHANGED <<vars, total, answer>>
    BY <1>1, <1>7 DEF Persist, Count
  <2>2. Standing(u)' = Standing(u) + QtyOf[b]
    BY <1>0, <1>1, <1>7, UnitsAdd
  <2>3. total[b] = Standing(u) + QtyOf[b] /\ Backed(b)
    BY <2>1 DEF PatientInv
  <2> QED
    BY <1>0, <2>1, <2>2, <2>3 DEF Backed, vars, redisVars, historyVars
<1>8. \A c \in Ordered(u)' : total'[c] \in 1 .. Standing(u)' /\ Backed(c)'
  <2>1. CASE Ordered(u)' = Ordered(u)
    BY <1>0, <1>5, <1>6, <2>1
  <2>2. CASE Ordered(u)' # Ordered(u)
    BY <1>0, <1>4, <1>5, <1>6, <1>7, <2>2
  <2> QED
    BY <2>1, <2>2
<1>9. \A c, d \in Ordered(u)' : c # d => total'[c] # total'[d]
  <2>1. CASE Ordered(u)' = Ordered(u)
    BY <1>6, <2>1 DEF PatientInv
  <2>2. CASE Ordered(u)' # Ordered(u)
    <3>1. /\ total'[b] = Standing(u)' /\ Standing(u)' > Standing(u)
          /\ Ordered(u)' = Ordered(u) \cup {b}
      BY <1>4, <1>7, <2>2
    <3>2. \A c, d \in Ordered(u) : c # d => total'[c] # total'[d]
      BY <1>6 DEF PatientInv
    <3> QED
      BY <1>0, <1>6, <3>1, <3>2
  <2> QED
    BY <2>1, <2>2
<1>10. ASSUME NEW r \in ResIds, NEW t \in 1 .. Limit,
              reservation'[r] # Absent, reservation'[r].idem_key = <<u, t>>
       PROVE  /\ reservation'[r].items[OnSale] \in Nat
              /\ reservation'[r].items[OnSale] >= t - Standing(u)'
  <2>1. CASE reservation'[r] = reservation[r]
    <3>1. /\ reservation[r].items[OnSale] \in Nat
          /\ reservation[r].items[OnSale] >= t - Standing(u)
      BY <1>10, <2>1 DEF PatientInv
    <3> QED
      BY <1>0, <1>5, <2>1, <3>1
  <2>2. CASE reservation'[r] # reservation[r]
    <3>1. /\ Reserve(b) \/ ReserveFails(b)
          /\ reservation'[r] = [items |-> Wanted(b), idem_key |-> IdemKey(b)]
      BY <1>10, <2>2, FreshReservation
    <3>2. total[b] = Standing(u) + QtyOf[b]
      BY <3>1 DEF Reserve, ReserveFails, InFlight, PatientInv, Over
    <3>3. t = total[b] /\ reservation'[r].items[OnSale] = QtyOf[b]
      BY <1>10, <3>1 DEF IdemKey, Wanted
    <3> QED
      BY <1>0, <1>5, <3>2, <3>3
  <2> QED
    BY <2>1, <2>2
<1>11. ASSUME NEW t \in 1 .. Limit, idem'[<<u, t>>] # Absent
       PROVE  Alive(<<u, t>>)'
  <2> DEFINE k == <<u, t>>
  <2>1. k \in Keys
    BY UserKeys
  <2>2. CASE idem'[k] = idem[k]
    <3>1. idem[k] \in ResIds /\ Alive(k)
      BY <1>11, <2>1, <2>2 DEF PatientInv, CountInv, Inv, TypeOK
    <3>2. CASE crashed[idem[k]] > 0
      BY <2>2, <3>1, <3>2, CrashedStands DEF Alive
    <3>3. CASE reservation'[idem[k]] # Absent
      BY <2>2, <3>3 DEF Alive
    <3>4. ASSUME reservation[idem[k]] # Absent, reservation'[idem[k]] = Absent
          PROVE  Alive(k)'
      <4>1. idem[k] \in issued
        BY <2>1, <3>1, <3>4, KeysAgree, VariantsAssumption
      <4>2. Releasing(b) /\ pc[b] = "delReservation" /\ rid[b] = idem[k] /\ idem' = idem
        BY <3>1, <3>4, <4>1, ReservationMoves
      <4>3. step[b] = "releasing" /\ answer[b] = idem[k] /\ answer[b] # Absent
        BY <3>1, <4>2, VariantsAssumption DEF Releasing, HoldInv
      <4>4. IdemKey(b) = k
        BY <2>1, <4>3, KeysAgree
      <4>5. step'[b] = "releasing" /\ answer'[b] = answer[b] /\ IdemKey(b)' = k
        BY <4>2, <4>3, <4>4, KeyStands DEF Releasing, DelIdem
      <4> QED
        BY <2>2, <4>3, <4>5 DEF Alive
    <3>5. ASSUME NEW c \in Buys, step[c] = "releasing", IdemKey(c) = k, answer[c] = idem[k]
          PROVE  Alive(k)'
      <4>1. c = b
        BY <1>1, <3>5 DEF IdemKey, InFlight, Over
      <4>2. CASE Releasing(b) /\ step' = step
        <5>1. answer'[b] = answer[b] /\ IdemKey(b)' = k
          BY <3>5, <4>1, <4>2, KeyStands DEF Releasing
        <5> QED
          BY <2>2, <3>5, <4>1, <4>2, <5>1 DEF Alive
      <4>3. CASE Releasing(b) /\ DelIdem(b)
        <5>1. got[b].idem_key = k
          BY <3>5, <4>1 DEF KeyInv
        <5>2. idem'[k] = Absent
          BY <2>1, <4>3, <5>1 DEF DelIdem, CountInv, Inv, TypeOK
        <5> QED
          BY <1>11, <5>2
      <4>4. CASE ReleaseDies(b)
        <5>1. rid[b] = idem[k] /\ idem[k] \in ResIds
          BY <3>1, <3>5, <4>1 DEF HoldInv
        <5>2. crashed'[idem[k]] > 0
          BY <4>4, <5>1 DEF ReleaseDies, Crash, CountInv, Inv, TypeOK
        <5> QED
          BY <2>2, <5>2 DEF Alive
      <4>5. Releasing(b) \/ ReleaseDies(b)
        BY <3>5, <4>1 DEF BuyStep, Count, Uncount, Reserve, ReserveFails, Persist, Release,
                          BreaksOff
      <4> QED
        BY <4>2, <4>3, <4>4, <4>5 DEF Releasing
    <3> QED
      BY <3>1, <3>2, <3>3, <3>4, <3>5 DEF Alive
  <2>3. CASE idem'[k] # idem[k]
    <3>1. idem # idem' /\ idem' # [idem EXCEPT ![got[b].idem_key] = Absent]
      BY <1>11, <2>1, <2>3 DEF CountInv, Inv, TypeOK
    <3>2. PICK r \in ResIds :
            /\ Reserve(b) \/ ReserveFails(b)
            /\ ReserveGrant(IdemKey(b), Wanted(b), r)
            /\ reservation'[r] = [items |-> Wanted(b), idem_key |-> IdemKey(b)]
      BY <3>1, ReservationMoves
    <3>3. idem'[k] = r /\ k = IdemKey(b)
      BY <2>1, <2>3, <3>2 DEF ReserveGrant, CountInv, Inv, TypeOK
    <3>4. Wanted(b) \in Requests
      BY <3>2, KeyFacts DEF Reserve, ReserveFails
    <3>5. [items |-> Wanted(b), idem_key |-> IdemKey(b)] \in Hash
      BY <2>1, <3>3, <3>4 DEF Hash
    <3> QED
      BY <3>2, <3>3, <3>5, VariantsAssumption DEF Alive
  <2> QED
    BY <2>2, <2>3
<1>12. /\ \A c, d \in InFlight(u)' : c = d
       /\ \A c \in InFlight(u)' : total'[c] = Standing(u)' + QtyOf[c]
  BY <1>1, <1>2, <1>5
<1> QED
  BY <1>3, <1>8, <1>9, <1>10, <1>11, <1>12 DEF PatientInv

LEMMA PatienceInit == BuyInit => PatienceInv
<1> SUFFICES ASSUME BuyInit PROVE PatienceInv
  OBVIOUS
<1>1. \A u \in Users : InFlight(u) = {} /\ Ordered(u) = {}
  BY DEF BuyInit, InFlight, Ordered
<1>2. /\ \A k \in Keys : idem[k] = Absent
      /\ \A r \in ResIds : reservation[r] = Absent
      /\ patient \subseteq Users
  BY DEF BuyInit, Init
<1>3. \A u \in patient : PatientInv(u)
  BY <1>1, <1>2, UserKeys DEF PatientInv
<1> QED
  BY <1>3, KeyInvInit DEF PatienceInv

LEMMA PatienceStep ==
  CountInv /\ CountInv' /\ HoldInv /\ PatienceInv /\ [BuyNext]_allVars => PatienceInv'
<1>1. ASSUME PatienceInv, UNCHANGED allVars PROVE PatienceInv'
  <2>1. UNCHANGED <<reservation, idem, issued, crashed, got, step, total, answer, order, patient,
                    disowned>>
    BY <1>1 DEF allVars, buyVars, vars, redisVars, handlerVars, historyVars
  <2>2. \A u : /\ InFlight(u)' = InFlight(u) /\ Ordered(u)' = Ordered(u)
               /\ Uncompensated(u)' = Uncompensated(u)
    BY <2>1 DEF InFlight, Ordered, Uncompensated
  <2>3. \A u : Standing(u)' = Standing(u)
    BY <2>2 DEF Standing
  <2>4. KeyInv'
    <3>1. \A k, r : Names(k, r)' <=> Names(k, r)
      BY <2>1 DEF Names, IdemKey
    <3> QED
      BY <1>1, <2>1, <3>1 DEF PatienceInv, KeyInv, IdemKey
  <2>5. \A u \in patient : PatientInv(u)'
    <3>1. \A k : Alive(k)' <=> Alive(k)
      BY <2>1 DEF Alive, IdemKey
    <3>2. \A b : Backed(b)' <=> Backed(b)
      BY <2>1 DEF Backed
    <3> QED
      BY <1>1, <2>1, <2>2, <2>3, <3>1, <3>2 DEF PatienceInv, PatientInv
  <2> QED
    BY <2>1, <2>4, <2>5 DEF PatienceInv
<1>2. ASSUME CountInv, CountInv', HoldInv, PatienceInv, NEW b \in Buys, BuyStep(b)
      PROVE  PatienceInv'
  <2>1. KeyInv'
    BY <1>2, KeyInvStep DEF PatienceInv, BuyStep
  <2>2. patient' = patient /\ patient \subseteq Users
    BY <1>2, OthersStand DEF BuyStep, CountInv, BuyTypeOK
  <2>3. ASSUME NEW u \in patient PROVE PatientInv(u)'
    BY <1>2, <2>1, <2>2, <2>3, PatientOther, PatientOwn DEF PatienceInv
  <2> QED
    BY <2>1, <2>2, <2>3 DEF PatienceInv
<1> QED
  BY <1>1, <1>2 DEF BuyNext, BuyStep

\* Whatever other users do, whichever calls fail and whichever answers get lost, the
\* orders of a user who waits for answers stand on reservations of their own that cover
\* them.
THEOREM PatientAreBacked == BuySpec => []PatientOrdersAreBacked
<1>1. CountInv /\ PatienceInv => PatientOrdersAreBacked
  <2> SUFFICES ASSUME CountInv, PatienceInv, NEW b \in Buys \ disowned,
                      UserOf[b] \in patient, order[b] # Absent
               PROVE  /\ \A c \in Buys \ {b} : order[c] = order[b] => c \in disowned
                      /\ \/ crashed[order[b]] > 0
                         \/ /\ reservation[order[b]] # Absent
                            /\ reservation[order[b]].items[OnSale] >= QtyOf[b]
    BY DEF PatientOrdersAreBacked
  <2>1. order[b] = answer[b] /\ b \in Ordered(UserOf[b])
    BY DEF CountInv, Consistent, Ordered
  <2>2. Backed(b)
    BY <2>1 DEF PatienceInv, PatientInv
  <2>3. ASSUME NEW c \in Buys \ {b}, order[c] = order[b], c \notin disowned PROVE FALSE
    <3>1. answer[c] = answer[b] /\ answer[b] # Absent
      BY <2>1, <2>3 DEF CountInv, Consistent
    <3>2. IdemKey(c) = IdemKey(b)
      BY <3>1, KeysAgree DEF PatienceInv
    <3>3. c \in Ordered(UserOf[b]) /\ total[c] = total[b]
      BY <2>3, <3>2 DEF IdemKey, Ordered
    <3> QED
      BY <2>1, <2>3, <3>3 DEF PatienceInv, PatientInv
  <2> QED
    BY <2>1, <2>2, <2>3 DEF Backed
<1> QED
  BY CountInvInit, CountInvStep, HoldInvInit, HoldInvStep, PatienceInit, PatienceStep, <1>1,
     PTL DEF BuySpec
=============================================================================
