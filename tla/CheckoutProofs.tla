--------------------------- MODULE CheckoutProofs ---------------------------
(***************************************************************************)
(* What holds of carts and checkouts for any number of users, variants,    *)
(* requests and adds, any cap and quantities, and failures at every step.  *)
(***************************************************************************)
EXTENDS Checkout, InventoryProofs

-----------------------------------------------------------------------------
(* The cart                                                                *)

CartTypeOK ==
  /\ cart \in [Users -> [Variants -> Int]]
  /\ rollback \in
       [Adds -> [user : Users, variant : Variants, qty : 1 .. MaxQty] \cup {NoRollback}]

\* What each add still has to take back from a line.
Owed(u, v) ==
  [a \in Adds |-> IF rollback[a].user = u /\ rollback[a].variant = v
                  THEN rollback[a].qty ELSE 0]

CartInv == CartTypeOK /\ CartWithinCap

LEMMA CapFacts == Cap \in Nat /\ MaxQty \in Nat /\ MaxQty <= Cap /\ IsFiniteSet(Adds)
BY CheckoutAssumption

\* Pending leaves out entries of 0 only.
OwedFact ==
  \A u \in Users, v \in Variants :
    Owed(u, v) \in [Adds -> Nat] /\ Pending(u, v) = UnitsIn(Owed(u, v))

LEMMA PendingIsOwed == CartTypeOK => OwedFact
<1> SUFFICES ASSUME CartTypeOK, NEW u \in Users, NEW v \in Variants
             PROVE  Owed(u, v) \in [Adds -> Nat] /\ Pending(u, v) = UnitsIn(Owed(u, v))
  BY DEF OwedFact
<1> DEFINE S == {b \in Adds : rollback[b].user = u /\ rollback[b].variant = v}
           f == [a \in S |-> rollback[a].qty]
           g == Owed(u, v)
<1>1. \A a \in Adds : rollback[a].qty \in Nat
  BY CapFacts DEF CartTypeOK, NoRollback
<1>2. /\ DOMAIN f = S /\ DOMAIN g = Adds /\ S \subseteq Adds
      /\ \A a \in S : f[a] = g[a]
      /\ \A a \in Adds \ S : g[a] = 0
  BY DEF Owed
<1>3. g \in [Adds -> Nat]
  BY <1>1 DEF Owed
<1>4. \A a \in Adds \ S : {a} \X (1 .. g[a]) = {}
  BY <1>2
<1>5. UNION {{a} \X (1 .. f[a]) : a \in DOMAIN f} = UNION {{a} \X (1 .. g[a]) : a \in DOMAIN g}
  <2> HIDE DEF f, g, S
  <2>1. \A a \in S : {a} \X (1 .. f[a]) = {a} \X (1 .. g[a])
    BY <1>2
  <2>2. UNION {{a} \X (1 .. f[a]) : a \in S} = UNION {{a} \X (1 .. g[a]) : a \in Adds}
    BY <1>2, <1>4, <2>1
  <2> QED
    BY <1>2, <2>2
<1>6. UnitsIn(f) = UnitsIn(g)
  BY <1>5 DEF UnitsIn
<1> QED
  BY <1>3, <1>6 DEF Pending

\* No add has more than MaxQty to take back.
LEMMA PendingBound ==
  ASSUME CartTypeOK, NEW u \in Users, NEW v \in Variants
  PROVE  Pending(u, v) \in Nat /\ Pending(u, v) <= Cardinality(Adds) * MaxQty
<1> DEFINE g == Owed(u, v)
           All == Adds \X (1 .. MaxQty)
<1>1. g \in [Adds -> Nat] /\ Pending(u, v) = UnitsIn(g)
  BY PendingIsOwed DEF OwedFact
<1>2. \A a \in Adds : g[a] <= MaxQty
  BY CapFacts DEF CartTypeOK, Owed, NoRollback
<1>3. UNION {{a} \X (1 .. g[a]) : a \in DOMAIN g} \subseteq All
  <2> HIDE DEF g
  <2>1. DOMAIN g = Adds /\ \A a \in Adds : g[a] \in Nat
    BY <1>1
  <2>2. \A a \in Adds : 1 .. g[a] \subseteq 1 .. MaxQty
    BY <1>2, <2>1, CapFacts
  <2> QED
    BY <2>1, <2>2
<1>4. IsFiniteSet(1 .. MaxQty) /\ Cardinality(1 .. MaxQty) = MaxQty
  <2>1. 1 \in Int /\ MaxQty \in Int /\ (1 > MaxQty => MaxQty = 0) /\ MaxQty - 1 + 1 = MaxQty
    BY CapFacts
  <2> QED
    BY <2>1, FS_Interval
<1>5. IsFiniteSet(All) /\ Cardinality(All) = Cardinality(Adds) * MaxQty
  BY <1>4, CapFacts, FS_Product, Zenon
<1>6. Cardinality(UNION {{a} \X (1 .. g[a]) : a \in DOMAIN g}) <= Cardinality(All)
  <2> HIDE DEF All, g
  <2> QED
    BY <1>3, <1>5, FS_Subset
<1>7. UnitsIn(g) \in Nat
  BY <1>1, CapFacts, UnitsFact
<1> QED
  BY <1>1, <1>5, <1>6, <1>7 DEF UnitsIn

\* One add changes what is owed of a line.
LEMMA PendingMoves ==
  ASSUME OwedFact, OwedFact', NEW a \in Adds, NEW u \in Users, NEW v \in Variants,
         \A b \in Adds \ {a} : rollback'[b] = rollback[b]
  PROVE  /\ Pending(u, v) \in Nat /\ Pending(u, v)' \in Nat
         /\ Owed(u, v)[a] \in Nat /\ Owed(u, v)'[a] \in Nat
         /\ Pending(u, v)' + Owed(u, v)[a] = Pending(u, v) + Owed(u, v)'[a]
<1>1. /\ Owed(u, v) \in [Adds -> Nat] /\ Pending(u, v) = UnitsIn(Owed(u, v))
      /\ Owed(u, v)' \in [Adds -> Nat] /\ Pending(u, v)' = UnitsIn(Owed(u, v)')
  BY DEF OwedFact
<1>2. PICK f \in [Adds -> Nat], g \in [Adds -> Nat] : f = Owed(u, v) /\ g = Owed(u, v)'
  BY <1>1
<1>3. \A b \in Adds \ {a} : g[b] = f[b]
  BY <1>2 DEF Owed
<1>4. UnitsIn(g) + f[a] = UnitsIn(f) + g[a] /\ UnitsIn(g) \in Nat /\ UnitsIn(f) \in Nat
  BY <1>3, UnitsMoved, UnitsFact, CapFacts
<1> QED
  BY <1>1, <1>2, <1>4

LEMMA CartTypeInit == CheckoutInit => CartTypeOK
BY DEF CheckoutInit, CartTypeOK

\* Whatever is not a cart request or the end of a checkout leaves the carts alone.
LEMMA CartMoves ==
  ASSUME [CheckoutNext]_allVars
  PROVE  \/ UNCHANGED <<cart, rollback>>
         \/ CartRequest
         \/ \E u \in Users : EmptyCart(u) /\ UNCHANGED rollback
<1>1. ASSUME NEW c \in Posts, CheckoutStep(c), ~Clear(c) PROVE UNCHANGED <<cart, rollback>>
  BY <1>1 DEF CheckoutStep, ReadCart, Reserve, ReserveFails, Resolve, Abandon, Persist, Release,
     ReleaseFails, Releasing, BreakOff, Fulfil, Selling, cartVars
<1>2. ASSUME NEW c \in Posts, Clear(c) PROVE \E u \in Users : EmptyCart(u) /\ UNCHANGED rollback
  BY <1>2, CheckoutAssumption DEF Clear
<1> QED
  BY <1>1, <1>2 DEF CheckoutNext, RemoveVariant, allVars, cartVars

LEMMA CartTypeStep == CartTypeOK /\ [CheckoutNext]_allVars => CartTypeOK'
<1> SUFFICES ASSUME CartTypeOK, [CheckoutNext]_allVars PROVE CartTypeOK'
  OBVIOUS
<1>q. \A q \in 1 .. Cap : q \in Int
  OBVIOUS
<1>1. ASSUME NEW a \in Adds, NEW u \in Users, NEW v \in Variants, NEW q \in 1 .. MaxQty,
             AddLine(a, u, v, q)
      PROVE  CartTypeOK'
  <2>1. cart[u][v] + q \in Int
    BY CapFacts DEF CartTypeOK
  <2>2. cart' \in [Users -> [Variants -> Int]]
    BY <1>1, <2>1 DEF AddLine, CartTypeOK
  <2>3. [user |-> u, variant |-> v, qty |-> q] \in [user : Users, variant : Variants, qty : 1 .. MaxQty]
    OBVIOUS
  <2> QED
    BY <1>1, <2>2, <2>3 DEF AddLine, CartTypeOK
<1>2. ASSUME NEW a \in Adds, RollbackLine(a) PROVE CartTypeOK'
  <2>1. rollback[a] \in [user : Users, variant : Variants, qty : 1 .. MaxQty]
    BY <1>2 DEF RollbackLine, CartTypeOK
  <2>2. PICK u \in Users, v \in Variants, q \in 1 .. MaxQty :
          u = rollback[a].user /\ v = rollback[a].variant /\ q = rollback[a].qty
    BY <2>1
  <2>3. cart[u][v] - q \in Int
    BY CapFacts DEF CartTypeOK
  <2>4. cart' = [cart EXCEPT ![u][v] = cart[u][v] - q]
    BY <1>2, <2>2 DEF RollbackLine
  <2> QED
    BY <1>2, <2>3, <2>4 DEF RollbackLine, CartTypeOK
<1>3. ASSUME NEW u \in Users, NEW v \in Variants, NEW q \in 1 .. Cap, SetLine(u, v, q)
      PROVE  CartTypeOK'
  BY <1>3, <1>q DEF SetLine, CartTypeOK
<1>4. ASSUME NEW u \in Users, NEW v \in Variants, RemoveLine(u, v) PROVE CartTypeOK'
  BY <1>4 DEF RemoveLine, CartTypeOK
<1>5. ASSUME NEW u \in Users, EmptyCart(u), UNCHANGED rollback PROVE CartTypeOK'
  BY <1>5 DEF EmptyCart, CartTypeOK
<1>6. CASE UNCHANGED <<cart, rollback>>
  BY <1>6 DEF CartTypeOK
<1>7. CASE CartRequest
  BY <1>7, <1>1, <1>2, <1>3, <1>4, <1>5 DEF CartRequest, ClearCart
<1> QED
  BY <1>5, <1>6, <1>7, CartMoves

\* What requests of the cart do to one line and to what is owed of it.
LEMMA CartStep ==
  CartTypeOK /\ OwedFact /\ OwedFact' /\ CartWithinCap /\ [CheckoutNext]_allVars => CartWithinCap'
<1> SUFFICES ASSUME CartTypeOK, OwedFact, OwedFact', CartWithinCap, [CheckoutNext]_allVars,
                    NEW u \in Users, NEW v \in Variants
             PROVE  cart'[u][v] <= Cap + Pending(u, v)'
  BY DEF CartWithinCap
<1>c. Cap \in Nat /\ cart[u][v] \in Int
  BY CapFacts DEF CartTypeOK
<1>w. cart[u][v] <= Cap + Pending(u, v)
  BY DEF CartWithinCap
<1>p. Pending(u, v) \in Nat /\ Pending(u, v)' \in Nat
  <2>1. /\ Owed(u, v) \in [Adds -> Nat] /\ Pending(u, v) = UnitsIn(Owed(u, v))
        /\ Owed(u, v)' \in [Adds -> Nat] /\ Pending(u, v)' = UnitsIn(Owed(u, v)')
    BY DEF OwedFact
  <2>2. \A f \in [Adds -> Nat] : UnitsIn(f) \in Nat
    BY CapFacts, UnitsFact
  <2> QED
    BY <2>1, <2>2
<1>s. rollback' = rollback => Pending(u, v)' = Pending(u, v)
  BY DEF Pending
<1>1. ASSUME NEW a \in Adds, NEW x \in Users, NEW y \in Variants, NEW q \in 1 .. MaxQty,
             AddLine(a, x, y, q)
      PROVE  cart'[u][v] <= Cap + Pending(u, v)'
  <2>0. rollback[a].qty = 0 /\ q \in Nat
    BY <1>1, CapFacts DEF AddLine, NoRollback
  <2>1. Owed(u, v)[a] = 0
    BY <2>0 DEF Owed
  <2>2. /\ \A b \in Adds \ {a} : rollback'[b] = rollback[b]
        /\ cart'[u][v] = IF u = x /\ v = y THEN cart[u][v] + q ELSE cart[u][v]
    BY <1>1 DEF AddLine, CartTypeOK
  <2>3. /\ Owed(u, v)'[a] \in Nat
        /\ Pending(u, v)' + Owed(u, v)[a] = Pending(u, v) + Owed(u, v)'[a]
    BY <2>2, PendingMoves
  <2>4. CASE u = x /\ v = y /\ cart[u][v] + q > Cap
    <3>1. rollback'[a] = [user |-> u, variant |-> v, qty |-> q]
      BY <1>1, <2>4 DEF AddLine, CartTypeOK
    <3>2. Owed(u, v)'[a] = q
      BY <3>1 DEF Owed
    <3> QED
      BY <2>0, <2>1, <2>2, <2>3, <2>4, <3>2, <1>c, <1>w, <1>p
  <2>5. CASE u = x /\ v = y /\ ~(cart[u][v] + q > Cap)
    BY <2>0, <2>2, <2>5, <1>c, <1>p
  <2>6. CASE ~(u = x /\ v = y)
    BY <2>1, <2>2, <2>3, <2>6, <1>c, <1>w, <1>p
  <2> QED
    BY <2>4, <2>5, <2>6
<1>2. ASSUME NEW a \in Adds, RollbackLine(a) PROVE cart'[u][v] <= Cap + Pending(u, v)'
  <2>1. rollback[a] \in [user : Users, variant : Variants, qty : 1 .. MaxQty]
    BY <1>2 DEF RollbackLine, CartTypeOK
  <2>2. PICK x \in Users, y \in Variants, q \in 1 .. MaxQty :
          x = rollback[a].user /\ y = rollback[a].variant /\ q = rollback[a].qty
    BY <2>1
  <2>3. /\ \A b \in Adds \ {a} : rollback'[b] = rollback[b]
        /\ rollback'[a] = NoRollback
        /\ cart'[u][v] = IF u = x /\ v = y THEN cart[u][v] - q ELSE cart[u][v]
    BY <1>2, <2>2 DEF RollbackLine, CartTypeOK
  <2>4. /\ Owed(u, v)'[a] = 0
        /\ Owed(u, v)[a] = IF u = x /\ v = y THEN q ELSE 0
    BY <2>2, <2>3 DEF Owed, NoRollback
  <2>5. Pending(u, v)' + Owed(u, v)[a] = Pending(u, v) + Owed(u, v)'[a]
    BY <2>3, PendingMoves
  <2>6. q \in Nat
    BY CapFacts
  <2> QED
    BY <2>3, <2>4, <2>5, <2>6, <1>c, <1>w, <1>p
<1>3. ASSUME NEW x \in Users, NEW y \in Variants, NEW q \in 1 .. Cap, SetLine(x, y, q)
      PROVE  cart'[u][v] <= Cap + Pending(u, v)'
  <2>1. rollback' = rollback /\ (cart'[u][v] = cart[u][v] \/ cart'[u][v] = q)
    BY <1>3 DEF SetLine, CartTypeOK
  <2>2. q \in Int /\ q <= Cap
    BY <1>c
  <2> QED
    BY <2>1, <2>2, <1>c, <1>p, <1>s, <1>w
<1>4. ASSUME NEW x \in Users, NEW y \in Variants, RemoveLine(x, y)
      PROVE  cart'[u][v] <= Cap + Pending(u, v)'
  <2>1. rollback' = rollback /\ (cart'[u][v] = cart[u][v] \/ cart'[u][v] = 0)
    BY <1>4 DEF RemoveLine, CartTypeOK
  <2> QED
    BY <2>1, <1>c, <1>p, <1>s, <1>w
<1>5. ASSUME NEW x \in Users, EmptyCart(x), UNCHANGED rollback
      PROVE  cart'[u][v] <= Cap + Pending(u, v)'
  <2>1. cart'[u][v] = cart[u][v] \/ cart'[u][v] = 0
    BY <1>5 DEF EmptyCart, CartTypeOK
  <2> QED
    BY <2>1, <1>5, <1>c, <1>p, <1>s, <1>w
<1>6. CASE UNCHANGED <<cart, rollback>>
  BY <1>6, <1>s, <1>w
<1>7. CASE CartRequest
  BY <1>7, <1>1, <1>2, <1>3, <1>4, <1>5 DEF CartRequest, ClearCart
<1> QED
  BY <1>5, <1>6, <1>7, CartMoves

LEMMA CartAlways == CheckoutSpec => []CartInv
<1>1. CheckoutInit /\ OwedFact => CartWithinCap
  <2> SUFFICES ASSUME CheckoutInit, OwedFact, NEW u \in Users, NEW v \in Variants
               PROVE  cart[u][v] <= Cap + Pending(u, v)
    BY DEF CartWithinCap
  <2>1. cart[u][v] = 0
    BY DEF CheckoutInit
  <2>2. Pending(u, v) \in Nat
    BY CapFacts, UnitsFact DEF OwedFact
  <2> QED
    BY <2>1, <2>2, CapFacts
<1>2. CartInv <=> CartTypeOK /\ CartWithinCap
  BY DEF CartInv
<1> QED
  BY <1>1, <1>2, CartTypeInit, CartTypeStep, CartStep, PendingIsOwed, PTL DEF CheckoutSpec

\* However adds, sets, removals and checkouts of a user overlap, a line goes beyond the
\* cap by no more than requests in flight will take back: for any users, variants, cap,
\* quantities and number of adds.
THEOREM CapKept == CheckoutSpec => []CartWithinCap
<1>1. CartInv => CartWithinCap
  BY DEF CartInv
<1> QED
  BY <1>1, CartAlways, PTL

-----------------------------------------------------------------------------
(* Checkouts and their reservations                                        *)

Steps == {"start", "reserve", "resolve", "persist", "release", "releasing",
          "clear", "placed", "selling", "end", "abandoned"}

\* Where a checkout works on the reservation it was answered with.
Named == Steps \ {"start", "reserve", "end"}

CartLines == UNION {[vs -> Nat] : vs \in SUBSET Variants}

PostTypeOK ==
  /\ step \in [Posts -> Steps]
  /\ snap \in [Posts -> CartLines \cup {Absent}]
  /\ answer \in [Posts -> ResIds \cup {Absent}]
  /\ order \in [Posts -> ResIds \cup {Absent}]
  /\ patient \in SUBSET Users
  /\ unanswered \in SUBSET ResIds
  /\ died \in SUBSET Posts

\* A checkout knows its lines, its reservation and its order, in this order, and its
\* coroutine slot is busy only with the call it waits for.
PostFits(c) ==
  /\ Open(c) \/ answer[c] # Absent => snap[c] \in Requests
  /\ answer[c] # Absent => answer[c] \in issued /\ step[c] \notin {"start", "reserve"}
  /\ step[c] \in Named => answer[c] # Absent
  /\ order[c] # Absent =>
       order[c] = answer[c] /\ step[c] \notin {"start", "reserve", "resolve", "persist", "abandoned"}
  /\ step[c] \in {"release", "releasing"} /\ order[c] # Absent => c \in died
  /\ step[c] \in {"clear", "placed", "selling"} => order[c] # Absent
  /\ pc[c] # "idle" =>
       /\ rid[c] = answer[c]
       /\ (step[c] = "releasing" /\ op[c] = "release") \/ (step[c] = "selling" /\ op[c] = "commit")

\* A record names a reservation that was made.
KeyIssued == \A k \in Keys : idem[k] # Absent => idem[k] \in issued

PostInv == Inv /\ CallInv /\ KeyIssued /\ PostTypeOK /\ \A c \in Posts : PostFits(c)

LEMMA PostFacts ==
  /\ Posts = Handlers /\ Absent \notin ResIds
  /\ \A c \in Posts : PostOf[c] \in Users
  /\ \A c \in Posts : snap[c] \in Requests => IdemKey(c) \in Keys
BY CheckoutAssumption, VariantsAssumption DEF IdemKey

\* What a checkout reads of a cart is a request of the inventory service.
LEMMA LinesFacts ==
  ASSUME CartInv, NEW u \in Users
  PROVE  /\ Lines(u) \in CartLines
         /\ DOMAIN Lines(u) # {} => Lines(u) \in Requests
<1> DEFINE vs == {v \in Variants : cart[u][v] > 0}
           top == Cap + Cardinality(Adds) * MaxQty
<1>1. /\ vs \in SUBSET Variants /\ DOMAIN Lines(u) = vs
      /\ Lines(u) = [v \in vs |-> cart[u][v]]
  BY DEF Lines
<1>2. Cardinality(Adds) \in Nat
  BY CapFacts, FS_CardinalityType
<1>3. Cardinality(Adds) * MaxQty \in Nat
  BY <1>2, CapFacts
<1>4. ASSUME NEW v \in vs PROVE cart[u][v] \in 1 .. top /\ cart[u][v] \in Nat
  <2>1. cart[u][v] \in Int /\ cart[u][v] > 0
    BY DEF CartInv, CartTypeOK
  <2>2. cart[u][v] <= Cap + Pending(u, v)
    BY DEF CartInv, CartWithinCap
  <2>3. Pending(u, v) \in Nat /\ Pending(u, v) <= Cardinality(Adds) * MaxQty
    BY PendingBound DEF CartInv
  <2> HIDE DEF vs
  <2> QED
    BY <1>3, <2>1, <2>2, <2>3, CapFacts
<1>5. Lines(u) \in [vs -> 1 .. top] /\ Lines(u) \in [vs -> Nat]
  BY <1>1, <1>4
<1>6. vs # {} => [vs -> 1 .. top] \subseteq Requests
  <2> SUFFICES ASSUME vs # {} PROVE [vs -> 1 .. top] \subseteq Requests
    OBVIOUS
  <2>1. vs \in (SUBSET Variants) \ {{}}
    BY <1>1
  <2> HIDE DEF vs
  <2> QED
    BY <2>1, CheckoutAssumption, Zenon
<1> QED
  <2> HIDE DEF vs, top
  <2> QED
    BY <1>1, <1>5, <1>6 DEF CartLines

\* Whatever a checkout does is a step of the inventory service or none.
LEMMA CheckoutServes == PostInv /\ [CheckoutNext]_allVars => [Next]_vars
<1> SUFFICES ASSUME PostInv, [CheckoutNext]_allVars PROVE [Next]_vars
  OBVIOUS
<1>1. ASSUME NEW c \in Posts, CheckoutStep(c) PROVE [Next]_vars
  <2>i. PostFits(c) /\ c \in Handlers
    BY PostFacts DEF PostInv
  <2>1. CASE Reserve(c) \/ ReserveFails(c)
    <3>1. snap[c] \in Requests
      BY <2>i, <2>1 DEF PostFits, Open, Reserve, ReserveFails
    <3>2. IdemKey(c) \in Keys
      BY <3>1, PostFacts
    <3>3. ReserveStock(IdemKey(c), snap[c]) \/ UNCHANGED vars
      BY <2>1 DEF Reserve, ReserveFails, ReserveStock
    <3> QED
      BY <3>1, <3>2, <3>3 DEF Next
  <2>2. CASE Release(c) \/ Fulfil(c)
    <3>1. /\ answer[c] # Absent /\ answer[c] \in ResIds
          /\ step[c] = "placed" => order[c] = answer[c]
      BY <2>i, <2>2 DEF PostFits, Release, Fulfil, Named, Steps, PostInv, PostTypeOK
    <3> QED
      BY <2>i, <2>2, <3>1 DEF Release, Fulfil, Next
  <2>3. CASE Releasing(c) \/ Selling(c)
    BY <2>i, <2>3 DEF Releasing, Selling, Next, Handler
  <2>4. CASE UNCHANGED vars
    BY <2>4
  <2> QED
    BY <1>1, <2>1, <2>2, <2>3, <2>4
       DEF CheckoutStep, ReadCart, Resolve, Abandon, Persist, ReleaseFails, Clear, BreakOff
<1>2. CASE CartRequest
  BY <1>2 DEF CartRequest, AddLine, RollbackLine, SetLine, RemoveLine, ClearCart
<1> QED
  BY <1>1, <1>2 DEF CheckoutNext, RemoveVariant, allVars

\* A step of one checkout leaves the others where they are, and their calls.
LEMMA OthersStand ==
  ASSUME PostInv, NEW c \in Posts, CheckoutStep(c)
  PROVE  /\ \A d \in Posts \ {c} : /\ step'[d] = step[d] /\ snap'[d] = snap[d]
                                   /\ answer'[d] = answer[d] /\ order'[d] = order[d]
                                   /\ pc'[d] = pc[d] /\ op'[d] = op[d] /\ rid'[d] = rid[d]
                                   /\ got'[d] = got[d] /\ (d \in died' <=> d \in died)
         /\ patient' = patient /\ died \subseteq died' /\ unanswered \subseteq unanswered'
         /\ issued \subseteq issued'
<1>i. Posts = Handlers /\ Inv /\ TypeOK /\ PostTypeOK
  BY PostFacts DEF PostInv, Inv
<1>1. \A d \in Posts \ {c} : /\ step'[d] = step[d] /\ snap'[d] = snap[d]
                             /\ answer'[d] = answer[d] /\ order'[d] = order[d]
  BY <1>i DEF PostTypeOK, CheckoutStep, ReadCart, Reserve, ReserveFails, Resolve, Abandon, Persist, Release,
     ReleaseFails, Releasing, Clear, BreakOff, Fulfil, Selling, Goto
<1>2. /\ patient' = patient /\ died \subseteq died' /\ unanswered \subseteq unanswered'
      /\ \A d \in Posts \ {c} : d \in died' <=> d \in died
  BY DEF CheckoutStep, ReadCart, Reserve, ReserveFails, Resolve, Abandon, Persist, Release,
     ReleaseFails, Releasing, Clear, BreakOff, Fulfil, Selling
<1>3. /\ \A d \in Posts \ {c} : pc'[d] = pc[d] /\ op'[d] = op[d] /\ rid'[d] = rid[d] /\ got'[d] = got[d]
      /\ issued \subseteq issued'
  <2>1. CASE UNCHANGED vars
    BY <2>1 DEF vars, handlerVars, historyVars
  <2>2. CASE Reserve(c) \/ ReserveFails(c)
    <3>1. UNCHANGED handlerVars /\ issued \subseteq issued'
      BY <2>2 DEF Reserve, ReserveFails, ReserveStock, ReserveHit, ReserveReject, ReserveGrant,
         vars, historyVars
    <3> QED
      BY <3>1 DEF handlerVars
  <2>3. CASE Release(c) \/ Fulfil(c)
    BY <1>i, <2>3 DEF Release, Fulfil, ReadHash, handlerVars, historyVars, TypeOK
  <2>4. CASE Releasing(c) \/ Selling(c)
    BY <1>i, <2>4 DEF Releasing, Selling, ReleaseIncr, DelReservation, DelIdem, CommitOnHand,
       CommitRefused, Finish, historyVars, TypeOK
  <2> QED
    BY <2>1, <2>2, <2>3, <2>4
       DEF CheckoutStep, ReadCart, Resolve, Abandon, Persist, ReleaseFails, Clear, BreakOff
<1> QED
  BY <1>1, <1>2, <1>3

\* Requests of the cart and the table of variants are not about checkouts.
LEMMA CartAside ==
  ASSUME [CheckoutNext]_allVars, ~\E c \in Posts : CheckoutStep(c)
  PROVE  UNCHANGED <<vars, postVars, patient, unanswered, died>>
BY DEF CheckoutNext, CartRequest, AddLine, RollbackLine, SetLine, RemoveLine, ClearCart,
       RemoveVariant, allVars

LEMMA PostTypeStep ==
  ASSUME CartInv, PostInv, Inv', NEW c \in Posts, CheckoutStep(c)
  PROVE  PostTypeOK'
<1>i. PostTypeOK /\ PostFits(c) /\ TypeOK /\ TypeOK'
  BY DEF PostInv, Inv
<1>1. step' \in [Posts -> Steps]
  BY <1>i DEF PostTypeOK, CheckoutStep, ReadCart, Reserve, ReserveFails, Resolve, Abandon, Persist, Release,
     ReleaseFails, Releasing, Clear, BreakOff, Fulfil, Selling, Goto, Steps
<1>2. snap' \in [Posts -> CartLines \cup {Absent}]
  <2>1. ReadCart(c) => snap' \in [Posts -> CartLines \cup {Absent}]
    BY <1>i, PostFacts, LinesFacts DEF PostTypeOK, ReadCart
  <2> QED
    BY <1>i, <2>1 DEF PostTypeOK, CheckoutStep, Reserve, ReserveFails, Resolve, Abandon, Persist, Release,
       ReleaseFails, Releasing, Clear, BreakOff, Fulfil, Selling
<1>3. answer' \in [Posts -> ResIds \cup {Absent}]
  <2>1. Reserve(c) => answer' \in [Posts -> ResIds \cup {Absent}]
    <3>1. step[c] = "reserve" => IdemKey(c) \in Keys
      BY <1>i, PostFacts DEF PostFits, Open
    <3>2. step[c] = "reserve" => idem[IdemKey(c)] \in ResIds \cup {Absent}
      BY <1>i, <3>1 DEF TypeOK
    <3>3. ASSUME NEW r \in ResIds \cup {Absent}, answer' = [answer EXCEPT ![c] = r]
          PROVE  answer' \in [Posts -> ResIds \cup {Absent}]
      BY <1>i, <3>3 DEF PostTypeOK
    <3> QED
      BY <3>2, <3>3 DEF Reserve
  <2> QED
    BY <1>i, <2>1 DEF PostTypeOK, CheckoutStep, ReadCart, ReserveFails, Resolve, Abandon, Persist, Release,
       ReleaseFails, Releasing, Clear, BreakOff, Fulfil, Selling
<1>4. order' \in [Posts -> ResIds \cup {Absent}]
  BY <1>i DEF PostTypeOK, CheckoutStep, ReadCart, Reserve, ReserveFails, Resolve, Abandon, Persist, Release,
     ReleaseFails, Releasing, Clear, BreakOff, Fulfil, Selling
<1>5. unanswered' \in SUBSET ResIds
  BY <1>i DEF PostTypeOK, TypeOK, CheckoutStep, ReadCart, Reserve, ReserveFails, Resolve, Abandon, Persist, Release,
     ReleaseFails, Releasing, Clear, BreakOff, Fulfil, Selling, PostFits, Named, Steps
<1>6. died' \in SUBSET Posts /\ patient' \in SUBSET Users
  BY <1>i DEF PostTypeOK, CheckoutStep, ReadCart, Reserve, ReserveFails, Resolve, Abandon, Persist, Release,
     ReleaseFails, Releasing, Clear, BreakOff, Fulfil, Selling
<1> QED
  BY <1>1, <1>2, <1>3, <1>4, <1>5, <1>6 DEF PostTypeOK

LEMMA PostFitsStep ==
  ASSUME CartInv, PostInv, PostTypeOK', CallInv', Inv', NEW c \in Posts, CheckoutStep(c)
  PROVE  \A d \in Posts : PostFits(d)'
<1>i. PostTypeOK /\ PostFits(c) /\ KeyIssued /\ TypeOK /\ Inv /\ c \in Handlers
  BY PostFacts DEF PostInv, Inv
<1>s. Absent \notin ResIds
  BY PostFacts
<1>1. ASSUME NEW d \in Posts \ {c} PROVE PostFits(d)'
  <2>1. PostFits(d)
    BY DEF PostInv
  <2> QED
    BY <2>1, OthersStand DEF PostFits, Open
<1>2. PostFits(c)'
  <2> USE DEF PostFits, Open, Named, Steps
  <2>1. CASE ReadCart(c)
    <3>1. DOMAIN Lines(PostOf[c]) # {} => Lines(PostOf[c]) \in Requests
      BY PostFacts, LinesFacts
    <3>2. /\ snap'[c] = Lines(PostOf[c]) /\ answer'[c] = Absent /\ order'[c] = Absent
          /\ step'[c] = (IF DOMAIN Lines(PostOf[c]) = {} THEN "end" ELSE "reserve")
          /\ pc'[c] = "idle" /\ pc[c] = "idle"
      BY <1>i, <2>1 DEF ReadCart, Goto, PostTypeOK, vars, handlerVars
    <3> QED
      BY <3>1, <3>2
  <2>2. CASE Reserve(c)
    <3>1. /\ step'[c] = "resolve" /\ snap'[c] = snap[c] /\ snap[c] \in Requests
          /\ order'[c] = Absent /\ pc'[c] = "idle"
      BY <1>i, <2>2 DEF Reserve, Goto, PostTypeOK, ReserveHit, ReserveGrant, vars, handlerVars
    <3>2. CASE ReserveHit(IdemKey(c)) /\ answer' = [answer EXCEPT ![c] = idem[IdemKey(c)]]
      <4>1. answer'[c] = idem[IdemKey(c)] /\ answer'[c] # Absent
        BY <1>i, <3>2 DEF ReserveHit, PostTypeOK
      <4>2. IdemKey(c) \in Keys
        BY <3>1, PostFacts
      <4>3. idem[IdemKey(c)] \in issued
        BY <1>i, <4>1, <4>2 DEF KeyIssued
      <4> QED
        BY <3>1, <3>2, <4>1, <4>3 DEF ReserveHit, vars, historyVars
    <3>3. ASSUME NEW r \in ResIds, ReserveGrant(IdemKey(c), snap[c], r),
                 answer' = [answer EXCEPT ![c] = r]
          PROVE  PostFits(c)'
      BY <1>i, <1>s, <3>1, <3>3 DEF ReserveGrant, PostTypeOK
    <3> QED
      BY <2>2, <3>2, <3>3 DEF Reserve
  <2>3. CASE ReserveFails(c)
    <3>1. UNCHANGED handlerVars
      BY <2>3 DEF ReserveFails, ReserveStock, ReserveHit, ReserveReject, ReserveGrant, vars
    <3>2. pc'[c] = "idle" /\ step'[c] = "end" /\ answer'[c] = Absent /\ order'[c] = Absent
      BY <1>i, <2>3, <3>1 DEF ReserveFails, Goto, PostTypeOK, handlerVars
    <3> QED
      BY <3>2
  <2>4. CASE Resolve(c) \/ Abandon(c) \/ Persist(c) \/ ReleaseFails(c) \/ Clear(c) \/ BreakOff(c)
    BY <1>i, <2>4 DEF Resolve, Abandon, Persist, ReleaseFails, Clear, BreakOff, Goto, PostTypeOK, vars,
       handlerVars, historyVars
  <2>5. CASE Release(c)
    BY <1>i, <2>5 DEF Release, ReadHash, Goto, PostTypeOK, handlerVars, historyVars, TypeOK, redisVars
  <2>6. CASE Fulfil(c)
    BY <1>i, <2>6 DEF Fulfil, ReadHash, Goto, PostTypeOK, handlerVars, historyVars, TypeOK, redisVars
  <2>7. CASE Releasing(c)
    BY <1>i, <2>7 DEF Releasing, ReleaseIncr, DelReservation, DelIdem, Finish, Goto, PostTypeOK,
       historyVars, TypeOK
  <2>8. CASE Selling(c)
    BY <1>i, <2>8 DEF Selling, CommitOnHand, CommitRefused, DelReservation, DelIdem, Finish, Goto,
       PostTypeOK, historyVars, TypeOK
  <2> QED
    BY <2>1, <2>2, <2>3, <2>4, <2>5, <2>6, <2>7, <2>8 DEF CheckoutStep
<1> QED
  BY <1>1, <1>2

LEMMA KeyIssuedStep ==
  ASSUME PostInv, NEW c \in Posts, CheckoutStep(c)
  PROVE  KeyIssued'
<1>i. PostTypeOK /\ PostFits(c) /\ TypeOK /\ KeyIssued
  BY DEF PostInv, Inv
<1>1. CASE UNCHANGED <<idem, issued>>
  BY <1>1, <1>i DEF KeyIssued
<1>2. ASSUME NEW r \in ResIds, step[c] = "reserve", ReserveGrant(IdemKey(c), snap[c], r)
      PROVE  KeyIssued'
  BY <1>2, <1>i DEF KeyIssued, ReserveGrant, TypeOK
<1>3. CASE DelIdem(c)
  BY <1>3, <1>i DEF KeyIssued, DelIdem, TypeOK, historyVars
<1>4. CASE Reserve(c) \/ ReserveFails(c)
  BY <1>1, <1>2, <1>4 DEF Reserve, ReserveFails, ReserveStock, ReserveHit, ReserveReject, vars,
     redisVars, historyVars
<1>5. CASE ~(Reserve(c) \/ ReserveFails(c)) /\ ~DelIdem(c)
  BY <1>1, <1>5 DEF CheckoutStep, ReadCart, Resolve, Abandon, Persist, Release,
     ReleaseFails, Releasing, Clear, BreakOff, Fulfil, Selling, vars, redisVars, historyVars,
     ReadHash, ReleaseIncr, DelReservation, CommitOnHand, CommitRefused
<1> QED
  BY <1>3, <1>4, <1>5

LEMMA PostInvInit == CheckoutInit => PostInv
<1>1. CheckoutInit => PostTypeOK /\ KeyIssued /\ \A c \in Posts : PostFits(c)
  <2> SUFFICES ASSUME CheckoutInit PROVE PostTypeOK /\ KeyIssued /\ \A c \in Posts : PostFits(c)
    OBVIOUS
  <2>1. \A c \in Posts : PostFits(c)
    BY PostFacts DEF CheckoutInit, Init, PostFits, Open, Named, Steps
  <2>2. PostTypeOK /\ KeyIssued
    BY DEF CheckoutInit, Init, PostTypeOK, Steps, KeyIssued
  <2> QED
    BY <2>1, <2>2
<1> QED
  BY <1>1, InvInit, CallInvInit DEF CheckoutInit, PostInv

LEMMA PostInvStep == CartInv /\ PostInv /\ [CheckoutNext]_allVars => PostInv'
<1> SUFFICES ASSUME CartInv, PostInv, [CheckoutNext]_allVars PROVE PostInv'
  OBVIOUS
<1>1. Inv' /\ CallInv'
  BY CheckoutServes, InvStep, CallInvStep DEF PostInv
<1>2. CASE UNCHANGED <<vars, postVars, patient, unanswered, died>>
  <2>1. UNCHANGED <<pc, op, rid, issued, idem, step, snap, answer, order>>
    BY <1>2 DEF vars, handlerVars, historyVars, redisVars, postVars
  <2>2. \A c \in Posts : PostFits(c)'
    BY <1>2, <2>1 DEF PostInv, PostFits, Open
  <2>3. PostTypeOK' /\ KeyIssued'
    BY <1>2, <2>1 DEF PostInv, PostTypeOK, KeyIssued
  <2> QED
    BY <1>1, <2>2, <2>3 DEF PostInv
<1>3. ASSUME NEW c \in Posts, CheckoutStep(c) PROVE PostInv'
  <2>1. PostTypeOK' /\ KeyIssued'
    BY <1>1, <1>3, PostTypeStep, KeyIssuedStep
  <2>2. \A d \in Posts : PostFits(d)'
    BY <1>1, <1>3, <2>1, PostFitsStep
  <2> QED
    BY <1>1, <2>1, <2>2 DEF PostInv
<1> QED
  BY <1>2, <1>3, CartAside

\* Reservations, records, copies and checkouts agree about the key, and so the lines,
\* a reservation was made for.
KeyInv ==
  /\ \A k \in Keys : idem[k] # Absent /\ reservation[idem[k]] # Absent
       => reservation[idem[k]].idem_key = k
  /\ \A j, k \in Keys : idem[j] # Absent /\ idem[j] = idem[k] => j = k
  /\ \A c \in Posts, k \in Keys : answer[c] # Absent /\ idem[k] = answer[c] => k = IdemKey(c)
  /\ \A c, d \in Posts : answer[c] # Absent /\ answer[c] = answer[d] => IdemKey(c) = IdemKey(d)
  /\ \A c \in Posts : answer[c] # Absent /\ reservation[answer[c]] # Absent
       => reservation[answer[c]] = [items |-> snap[c], idem_key |-> IdemKey(c)]
  /\ \A r \in ResIds : reservation[r] # Absent
       => \E u \in Users : reservation[r] = [items |-> reservation[r].items,
                                             idem_key |-> <<u, reservation[r].items>>]
  /\ \A c \in Posts : pc[c] # "idle" => got[c].idem_key = IdemKey(c)

\* What a step of a checkout does to the reservations: nothing; it finds one; it makes
\* one; or it deletes the hash of its own, or its record.
Unmoved(c) == UNCHANGED <<reservation, issued, idem>> /\ answer'[c] = answer[c]

Finds(c) ==
  /\ Reserve(c) /\ UNCHANGED vars
  /\ idem[IdemKey(c)] # Absent /\ answer'[c] = idem[IdemKey(c)]

Makes(c, r) ==
  /\ step[c] = "reserve" /\ r \notin issued /\ idem[IdemKey(c)] = Absent
  /\ reservation' = [reservation EXCEPT ![r] = [items |-> snap[c], idem_key |-> IdemKey(c)]]
  /\ idem' = [idem EXCEPT ![IdemKey(c)] = r]
  /\ issued' = issued \cup {r}
  /\ UNCHANGED <<handlerVars, sold, snap, order, died>>
  /\ \/ Reserve(c) /\ answer'[c] = r
     \/ ReserveFails(c) /\ answer'[c] = answer[c] /\ r \in unanswered'

Deletes(c) ==
  /\ pc[c] = "delReservation" /\ pc'[c] = "delIdem" /\ step[c] \in {"releasing", "selling"}
  /\ reservation' = [reservation EXCEPT ![answer[c]] = Absent]
  /\ UNCHANGED <<issued, idem, sold, rid, got, step, snap, answer, order, died, unanswered>>

Ends(c) ==
  /\ pc[c] = "delIdem" /\ step[c] \in {"releasing", "selling"} /\ step'[c] = "end"
  /\ idem' = [idem EXCEPT ![got[c].idem_key] = Absent]
  /\ UNCHANGED <<issued, reservation, sold, snap, answer, order, died, unanswered>>

LEMMA ReservationMoves ==
  ASSUME PostInv, NEW c \in Posts, CheckoutStep(c)
  PROVE  Unmoved(c) \/ Finds(c) \/ (\E r \in ResIds : Makes(c, r)) \/ Deletes(c) \/ Ends(c)
<1>i. PostTypeOK /\ PostFits(c) /\ TypeOK
  BY DEF PostInv, Inv
<1>1. CASE UNCHANGED <<vars, answer>>
  BY <1>1 DEF Unmoved, vars, redisVars, historyVars
<1>2. CASE Reserve(c)
  <2>1. CASE ReserveHit(IdemKey(c)) /\ answer' = [answer EXCEPT ![c] = idem[IdemKey(c)]]
    BY <1>i, <1>2, <2>1 DEF ReserveHit, Finds, PostTypeOK
  <2>2. ASSUME NEW r \in ResIds, ReserveGrant(IdemKey(c), snap[c], r),
               answer' = [answer EXCEPT ![c] = r]
        PROVE  Makes(c, r)
    BY <1>i, <1>2, <2>2 DEF ReserveGrant, Reserve, Makes, PostTypeOK
  <2> QED
    BY <1>2, <2>1, <2>2 DEF Reserve
<1>3. CASE ReserveFails(c)
  <2>1. ASSUME NEW r \in ResIds, ReserveGrant(IdemKey(c), snap[c], r) PROVE Makes(c, r)
    BY <1>i, <1>3, <2>1 DEF ReserveGrant, ReserveFails, Makes, PostTypeOK
  <2> QED
    BY <1>1, <1>3, <2>1 DEF ReserveFails, ReserveStock, ReserveHit, ReserveReject
<1>4. CASE DelReservation(c)
  <2>1. rid[c] = answer[c] /\ step[c] \in {"releasing", "selling"} /\ answer[c] \in ResIds
    BY <1>i, <1>4 DEF PostFits, DelReservation, PostTypeOK, Named, Steps
  <2>2. UNCHANGED <<step, snap, answer, order, died, unanswered>>
    BY <1>4, <2>1 DEF CheckoutStep, ReadCart, Reserve, ReserveFails, Resolve, Abandon, Persist, Release,
       ReleaseFails, Releasing, Clear, BreakOff, Fulfil, Selling, DelReservation, DelIdem, CommitRefused
  <2> QED
    BY <1>i, <1>4, <2>1, <2>2, PostFacts DEF DelReservation, historyVars, Deletes, TypeOK
<1>5. CASE DelIdem(c)
  <2>1. step[c] \in {"releasing", "selling"}
    BY <1>i, <1>5 DEF PostFits, DelIdem
  <2>2. step'[c] = "end" /\ UNCHANGED <<snap, answer, order, died, unanswered>>
    BY <1>i, <1>5, <2>1 DEF CheckoutStep, ReadCart, Reserve, ReserveFails, Resolve, Abandon, Persist, Release,
       ReleaseFails, Releasing, Clear, BreakOff, Fulfil, Selling, DelReservation, DelIdem,
       CommitRefused, CommitOnHand, ReleaseIncr, Goto, PostTypeOK
  <2> QED
    BY <1>5, <2>1, <2>2 DEF DelIdem, historyVars, Ends
<1>6. CASE ~Reserve(c) /\ ~ReserveFails(c) /\ ~DelReservation(c) /\ ~DelIdem(c)
  BY <1>1, <1>6 DEF CheckoutStep, ReadCart, Resolve, Abandon, Persist, Release,
     ReleaseFails, Releasing, Clear, BreakOff, Fulfil, Selling, vars, redisVars, historyVars,
     ReadHash, ReleaseIncr, CommitOnHand, CommitRefused, Unmoved
<1> QED
  BY <1>2, <1>3, <1>4, <1>5, <1>6

\* The lines of a checkout that has a reservation stay, and so does its key.
LEMMA LinesStay ==
  ASSUME PostInv, NEW c \in Posts, CheckoutStep(c), NEW d \in Posts,
         answer[d] # Absent \/ d # c \/ step[c] # "start"
  PROVE  snap'[d] = snap[d] /\ IdemKey(d)' = IdemKey(d)
<1>1. snap'[d] = snap[d]
  <2>1. CASE d # c
    BY <2>1, OthersStand
  <2>2. CASE d = c
    <3>1. ~ReadCart(c)
      BY <2>2 DEF ReadCart, PostInv, PostFits
    <3> QED
      BY <2>2, <3>1 DEF CheckoutStep, Reserve, ReserveFails, Resolve, Abandon, Persist, Release,
         ReleaseFails, Releasing, Clear, BreakOff, Fulfil, Selling
  <2> QED
    BY <2>1, <2>2
<1> QED
  BY <1>1 DEF IdemKey

LEMMA AnswersStay ==
  ASSUME PostInv, NEW c \in Posts, CheckoutStep(c), NEW d \in Posts, answer[d] # Absent
  PROVE  answer'[d] = answer[d] /\ answer[d] \in issued /\ answer[d] \in ResIds
<1>i. PostTypeOK /\ PostFits(d) /\ PostFits(c)
  BY DEF PostInv
<1>1. CASE d = c
  BY <1>1, <1>i DEF PostFits, PostTypeOK, CheckoutStep, ReadCart, Reserve, ReserveFails, Resolve, Abandon,
     Persist, Release, ReleaseFails, Releasing, Clear, BreakOff, Fulfil, Selling
<1>2. CASE d # c
  BY <1>2, <1>i, OthersStand DEF PostFits, PostTypeOK
<1> QED
  BY <1>1, <1>2

\* A call under way keeps the copy it read, and it read the hash of its reservation.
LEMMA CopiesStay ==
  ASSUME PostInv, NEW c \in Posts, CheckoutStep(c), NEW d \in Posts, pc'[d] # "idle"
  PROVE  \/ pc[d] # "idle" /\ got'[d] = got[d]
         \/ /\ d = c /\ answer[c] # Absent /\ reservation[answer[c]] # Absent
            /\ got'[c] = reservation[answer[c]] /\ Unmoved(c)
            /\ (Release(c) /\ step'[c] = "releasing") \/ (Fulfil(c) /\ step'[c] = "selling")
<1>i. PostTypeOK /\ PostFits(c) /\ TypeOK /\ c \in Handlers
  BY PostFacts DEF PostInv, Inv
<1>1. CASE d # c
  BY <1>1, OthersStand
<1>2. CASE d = c /\ (Release(c) \/ Fulfil(c))
  <2>1. answer[c] # Absent /\ (Fulfil(c) => order[c] = answer[c])
    BY <1>i, <1>2 DEF Release, Fulfil, PostFits, Named, Steps
  <2>2. ReadHash(c, IF Release(c) THEN "release" ELSE "commit", answer[c])
    BY <1>2, <2>1 DEF Release, Fulfil
  <2>3. CASE reservation[answer[c]] = Absent
    BY <1>2, <2>2, <2>3 DEF ReadHash, handlerVars
  <2>4. CASE reservation[answer[c]] # Absent
    BY <1>i, <1>2, <2>1, <2>2, <2>4
       DEF ReadHash, TypeOK, Unmoved, Release, Fulfil, Goto, PostTypeOK, redisVars, historyVars
  <2> QED
    BY <2>3, <2>4
<1>3. CASE d = c /\ ~Release(c) /\ ~Fulfil(c)
  <2>1. CASE UNCHANGED handlerVars
    BY <1>3, <2>1 DEF handlerVars
  <2>2. CASE Releasing(c) \/ Selling(c)
    BY <1>i, <1>3, <2>2 DEF Releasing, Selling, ReleaseIncr, DelReservation, DelIdem, CommitOnHand,
       CommitRefused, Finish, TypeOK
  <2> QED
    BY <1>3, <2>1, <2>2 DEF CheckoutStep, ReadCart, Reserve, ReserveFails, ReserveStock, ReserveHit,
       ReserveReject, ReserveGrant, Resolve, Abandon, Persist, ReleaseFails, Clear, BreakOff, vars
<1> QED
  BY <1>1, <1>2, <1>3

LEMMA KeyInvStep ==
  ASSUME PostInv, KeyInv, NEW c \in Posts, CheckoutStep(c)
  PROVE  KeyInv'
<1>i. PostTypeOK /\ PostFits(c) /\ TypeOK /\ KeyIssued
  BY DEF PostInv, Inv
<1>a. Absent \notin ResIds /\ \A d \in Posts : PostOf[d] \in Users
  BY PostFacts
<1>k. \A d \in Posts : answer[d] # Absent =>
        /\ answer'[d] = answer[d] /\ answer[d] \in issued /\ answer[d] \in ResIds
        /\ snap'[d] = snap[d] /\ IdemKey(d)' = IdemKey(d)
  BY AnswersStay, LinesStay
<1>o. \A d \in Posts \ {c} : answer'[d] = answer[d]
  BY OthersStand
<1>7. \A d \in Posts : pc'[d] # "idle" => got'[d].idem_key = IdemKey(d)'
  <2> SUFFICES ASSUME NEW d \in Posts, pc'[d] # "idle" PROVE got'[d].idem_key = IdemKey(d)'
    OBVIOUS
  <2>1. CASE pc[d] # "idle" /\ got'[d] = got[d]
    <3>1. got[d].idem_key = IdemKey(d)
      BY <2>1 DEF KeyInv
    <3>2. answer[d] # Absent
      BY <2>1, PostFacts DEF PostInv, PostFits, Named, Steps
    <3> QED
      BY <2>1, <3>1, <3>2, <1>k
  <2>2. CASE d = c /\ answer[c] # Absent /\ reservation[answer[c]] # Absent /\ got'[c] = reservation[answer[c]]
    <3>1. reservation[answer[c]] = [items |-> snap[c], idem_key |-> IdemKey(c)]
      BY <2>2 DEF KeyInv
    <3> QED
      BY <2>2, <3>1, <1>k
  <2> QED
    BY <2>1, <2>2, CopiesStay
<1>8. ASSUME \A k \in Keys : idem'[k] \in {idem[k], Absent},
             \A q \in ResIds : reservation'[q] \in {reservation[q], Absent},
             \A d \in Posts : answer'[d] = answer[d]
      PROVE  KeyInv'
  <2>1. \A k \in Keys : idem[k] # Absent => idem[k] \in ResIds
    BY <1>i DEF TypeOK
  <2>2. \A k \in Keys : idem'[k] # Absent /\ reservation'[idem'[k]] # Absent
          => reservation'[idem'[k]].idem_key = k
    <3> SUFFICES ASSUME NEW k \in Keys, idem'[k] # Absent, reservation'[idem'[k]] # Absent
                 PROVE  reservation'[idem'[k]].idem_key = k
      OBVIOUS
    <3>1. idem'[k] = idem[k] /\ reservation'[idem[k]] = reservation[idem[k]]
      BY <1>8, <2>1
    <3> QED
      BY <3>1 DEF KeyInv
  <2>3. \A j, k \in Keys : idem'[j] # Absent /\ idem'[j] = idem'[k] => j = k
    BY <1>8 DEF KeyInv
  <2>4. \A d \in Posts, k \in Keys : answer'[d] # Absent /\ idem'[k] = answer'[d] => k = IdemKey(d)'
    BY <1>8, <1>k DEF KeyInv
  <2>5. \A d, e \in Posts : answer'[d] # Absent /\ answer'[d] = answer'[e] => IdemKey(d)' = IdemKey(e)'
    BY <1>8, <1>k DEF KeyInv
  <2>6. \A d \in Posts : answer'[d] # Absent /\ reservation'[answer'[d]] # Absent
           => reservation'[answer'[d]] = [items |-> snap'[d], idem_key |-> IdemKey(d)']
    <3> SUFFICES ASSUME NEW d \in Posts, answer'[d] # Absent, reservation'[answer'[d]] # Absent
                 PROVE  reservation'[answer'[d]] = [items |-> snap'[d], idem_key |-> IdemKey(d)']
      OBVIOUS
    <3>1. answer'[d] = answer[d] /\ reservation'[answer[d]] = reservation[answer[d]]
      BY <1>8, <1>k
    <3>2. reservation[answer[d]] = [items |-> snap[d], idem_key |-> IdemKey(d)]
      BY <3>1 DEF KeyInv
    <3> QED
      BY <3>1, <3>2, <1>k
  <2>7. \A q \in ResIds : reservation'[q] # Absent
           => \E u \in Users : reservation'[q] = [items |-> reservation'[q].items,
                                                  idem_key |-> <<u, reservation'[q].items>>]
    <3> SUFFICES ASSUME NEW q \in ResIds, reservation'[q] # Absent
                 PROVE  \E u \in Users : reservation'[q] = [items |-> reservation'[q].items,
                                                  idem_key |-> <<u, reservation'[q].items>>]
      OBVIOUS
    <3>1. reservation'[q] = reservation[q]
      BY <1>8
    <3> QED
      BY <3>1 DEF KeyInv
  <2> QED
    BY <1>7, <2>2, <2>3, <2>4, <2>5, <2>6, <2>7 DEF KeyInv
<1>1. CASE Unmoved(c)
  <2>1. \A d \in Posts : answer'[d] = answer[d]
    BY <1>1, <1>o DEF Unmoved
  <2> QED
    BY <1>1, <1>8, <2>1 DEF Unmoved
<1>2. CASE Finds(c)
  <2>0. UNCHANGED <<reservation, idem>> /\ answer'[c] = idem[IdemKey(c)]
    BY <1>2 DEF Finds, vars, redisVars
  <2>1. step[c] = "reserve" /\ snap[c] \in Requests
    BY <1>2, <1>i DEF Finds, Reserve, PostFits, Open
  <2>2. IdemKey(c) \in Keys /\ snap'[c] = snap[c] /\ IdemKey(c)' = IdemKey(c)
    BY <2>1, PostFacts, LinesStay
  <2>3. PICK r \in ResIds : r = idem[IdemKey(c)]
    BY <1>2, <2>2, <1>i DEF Finds, TypeOK
  <2>4. answer'[c] = r /\ r # Absent
    BY <2>0, <2>3, <1>a
  <2>5. \A k \in Keys : idem[k] = r => k = IdemKey(c)
    BY <2>2, <2>3, <2>4 DEF KeyInv
  <2>6. \A d \in Posts \ {c} : answer[d] = r => IdemKey(d) = IdemKey(c)
    BY <2>2, <2>3, <2>4 DEF KeyInv
  <2>7. reservation[r] # Absent => reservation[r] = [items |-> snap[c], idem_key |-> IdemKey(c)]
    <3> SUFFICES ASSUME reservation[r] # Absent
                 PROVE  reservation[r] = [items |-> snap[c], idem_key |-> IdemKey(c)]
      OBVIOUS
    <3>1. reservation[r].idem_key = IdemKey(c)
      BY <2>2, <2>3, <2>4 DEF KeyInv
    <3>2. PICK u \in Users : reservation[r] = [items |-> reservation[r].items,
                                               idem_key |-> <<u, reservation[r].items>>]
      BY DEF KeyInv
    <3>3. reservation[r].idem_key = <<u, reservation[r].items>>
      BY <3>2
    <3>4. <<u, reservation[r].items>> = <<PostOf[c], snap[c]>>
      BY <3>1, <3>3 DEF IdemKey
    <3>5. reservation[r].items = snap[c]
      BY <3>4
    <3> QED
      BY <3>1, <3>2, <3>5
  <2>8. /\ \A k \in Keys : idem'[k] # Absent /\ reservation'[idem'[k]] # Absent
             => reservation'[idem'[k]].idem_key = k
        /\ \A j, k \in Keys : idem'[j] # Absent /\ idem'[j] = idem'[k] => j = k
        /\ \A q \in ResIds : reservation'[q] # Absent
             => \E u \in Users : reservation'[q] = [items |-> reservation'[q].items,
                                                    idem_key |-> <<u, reservation'[q].items>>]
    BY <2>0 DEF KeyInv
  <2>9. \A d \in Posts, k \in Keys : answer'[d] # Absent /\ idem'[k] = answer'[d] => k = IdemKey(d)'
    BY <2>0, <2>2, <2>4, <2>5, <1>k, <1>o DEF KeyInv
  <2>10. \A d, e \in Posts : answer'[d] # Absent /\ answer'[d] = answer'[e] => IdemKey(d)' = IdemKey(e)'
    BY <2>2, <2>4, <2>6, <1>k, <1>o DEF KeyInv
  <2>11. \A d \in Posts : answer'[d] # Absent /\ reservation'[answer'[d]] # Absent
           => reservation'[answer'[d]] = [items |-> snap'[d], idem_key |-> IdemKey(d)']
    BY <2>0, <2>2, <2>4, <2>7, <1>k, <1>o DEF KeyInv
  <2> QED
    BY <1>7, <2>8, <2>9, <2>10, <2>11 DEF KeyInv
<1>3. ASSUME NEW r \in ResIds, Makes(c, r) PROVE KeyInv'
  <2>1. step[c] = "reserve" /\ snap[c] \in Requests /\ answer[c] = Absent
    BY <1>3, <1>i DEF Makes, PostFits, Open
  <2>2. IdemKey(c) \in Keys /\ snap'[c] = snap[c] /\ IdemKey(c)' = IdemKey(c)
    BY <2>1, PostFacts, LinesStay
  <2>3. /\ r \notin issued /\ r # Absent
        /\ reservation'[r] = [items |-> snap[c], idem_key |-> IdemKey(c)]
        /\ \A q \in ResIds \ {r} : reservation'[q] = reservation[q]
        /\ idem'[IdemKey(c)] = r /\ \A k \in Keys \ {IdemKey(c)} : idem'[k] = idem[k]
        /\ answer'[c] = r \/ answer'[c] = Absent
    BY <1>3, <1>i, <1>a, <2>1, <2>2 DEF Makes, TypeOK
  <2>4. \A k \in Keys : idem[k] # Absent => idem[k] \in issued /\ idem[k] # r /\ idem[k] \in ResIds
    BY <1>i, <2>3 DEF KeyIssued, TypeOK
  <2>5. \A d \in Posts : answer[d] # r
    BY <1>k, <2>3
  <2>6. \A k \in Keys : idem'[k] # Absent /\ reservation'[idem'[k]] # Absent
          => reservation'[idem'[k]].idem_key = k
    BY <2>3, <2>4 DEF KeyInv
  <2>7. \A j, k \in Keys : idem'[j] # Absent /\ idem'[j] = idem'[k] => j = k
    BY <2>3, <2>4 DEF KeyInv
  <2>8. \A d \in Posts, k \in Keys : answer'[d] # Absent /\ idem'[k] = answer'[d] => k = IdemKey(d)'
    BY <2>2, <2>3, <2>4, <2>5, <1>k, <1>o DEF KeyInv
  <2>9. \A d, e \in Posts : answer'[d] # Absent /\ answer'[d] = answer'[e] => IdemKey(d)' = IdemKey(e)'
    BY <2>3, <2>5, <1>k, <1>o DEF KeyInv
  <2>10. \A d \in Posts : answer'[d] # Absent /\ reservation'[answer'[d]] # Absent
           => reservation'[answer'[d]] = [items |-> snap'[d], idem_key |-> IdemKey(d)']
    BY <2>2, <2>3, <2>5, <1>k, <1>o DEF KeyInv
  <2>11. \A q \in ResIds : reservation'[q] # Absent
           => \E u \in Users : reservation'[q] = [items |-> reservation'[q].items,
                                                  idem_key |-> <<u, reservation'[q].items>>]
    <3> SUFFICES ASSUME NEW q \in ResIds, reservation'[q] # Absent
                 PROVE  \E u \in Users : reservation'[q] = [items |-> reservation'[q].items,
                                                  idem_key |-> <<u, reservation'[q].items>>]
      OBVIOUS
    <3>1. CASE q = r
      BY <2>3, <3>1, <1>a DEF IdemKey
    <3>2. CASE q # r
      <4>1. reservation'[q] = reservation[q]
        BY <2>3, <3>2
      <4> QED
        BY <4>1 DEF KeyInv
    <3> QED
      BY <3>1, <3>2
  <2> QED
    BY <1>7, <2>6, <2>7, <2>8, <2>9, <2>10, <2>11 DEF KeyInv
<1>4. CASE Deletes(c)
  <2>1. /\ \A q \in ResIds : reservation'[q] \in {reservation[q], Absent}
        /\ UNCHANGED <<idem, answer, snap>>
    BY <1>4, <1>i DEF Deletes, TypeOK
  <2> QED
    BY <1>8, <2>1
<1>5. CASE Ends(c)
  <2>1. /\ \A k \in Keys : idem'[k] \in {idem[k], Absent}
        /\ UNCHANGED <<reservation, answer, snap>>
    BY <1>5, <1>i DEF Ends, TypeOK
  <2> QED
    BY <1>8, <2>1
<1> QED
  BY <1>1, <1>2, <1>3, <1>4, <1>5, ReservationMoves

\* What the invariants so far are about.
checkVars == <<vars, postVars, patient, unanswered, died>>

LEMMA KeyAlways == CheckoutSpec => [](CartInv /\ PostInv /\ KeyInv)
<1>1. CheckoutInit => KeyInv
  <2> SUFFICES ASSUME CheckoutInit PROVE KeyInv
    OBVIOUS
  <2>1. /\ \A c \in Posts : answer[c] = Absent /\ pc[c] = "idle"
        /\ \A k \in Keys : idem[k] = Absent
        /\ \A r \in ResIds : reservation[r] = Absent
    BY PostFacts DEF CheckoutInit, Init
  <2> QED
    BY <2>1 DEF KeyInv
<1>2. PostInv /\ KeyInv /\ [CheckoutNext]_allVars => KeyInv'
  <2> SUFFICES ASSUME PostInv, KeyInv, [CheckoutNext]_allVars PROVE KeyInv'
    OBVIOUS
  <2>1. CASE UNCHANGED checkVars
    <3>1. UNCHANGED <<reservation, idem, pc, got, snap, answer>>
      BY <2>1 DEF checkVars, vars, redisVars, handlerVars, postVars
    <3>2. \A c \in Posts : IdemKey(c)' = IdemKey(c)
      BY <3>1 DEF IdemKey
    <3> QED
      BY <3>1, <3>2 DEF KeyInv
  <2> QED
    BY <2>1, KeyInvStep, CartAside DEF checkVars
<1> QED
  BY <1>1, <1>2, CartAlways, PostInvInit, PostInvStep, PTL DEF CheckoutSpec

\* Whichever retry, twin or lost answer a reservation came from, an order placed on it is
\* an order of exactly its lines.
THEOREM OrdersMatch == CheckoutSpec => []OrderMatchesReservation
<1>1. PostInv /\ KeyInv => OrderMatchesReservation
  <2> SUFFICES ASSUME PostInv, KeyInv, NEW c \in Posts,
                      order[c] # Absent, reservation[order[c]] # Absent
               PROVE  reservation[order[c]].items = snap[c]
    BY DEF OrderMatchesReservation
  <2>1. answer[c] = order[c]
    BY DEF PostInv, PostFits
  <2>2. reservation[answer[c]] = [items |-> snap[c], idem_key |-> IdemKey(c)]
    BY <2>1 DEF KeyInv
  <2> QED
    BY <2>1, <2>2
<1> QED
  BY <1>1, KeyAlways, PTL

-----------------------------------------------------------------------------
(* Reservations have holders                                               *)

\* Checkout c answers for reservation r: its order stands on it, or c will persist or
\* release it, or is at releasing it, or broke off before it could do either.
Holds(c, r) ==
  \/ order[c] = r
  \/ answer[c] = r /\ step[c] \in {"resolve", "persist", "release", "abandoned"}
  \/ answer[c] = r /\ step[c] = "releasing" /\ pc[c] \in {"apply", "delReservation"}

HoldInv ==
  \A r \in ResIds : reservation[r] # Absent => r \in unanswered \/ \E c \in Posts : Holds(c, r)

\* A checkout keeps holding a reservation until it is gone, or known to be lost.
LEMMA HolderGoesOn ==
  ASSUME PostInv, NEW c \in Posts, CheckoutStep(c), NEW r \in ResIds, Holds(c, r),
         reservation'[r] # Absent
  PROVE  Holds(c, r)' \/ r \in unanswered'
<1>i. PostTypeOK /\ PostFits(c) /\ TypeOK /\ r # Absent /\ c \in Handlers
  BY PostFacts DEF PostInv, Inv
<1>1. CASE order[c] = r
  <2>1. step[c] \notin {"start", "reserve", "resolve", "persist"}
    BY <1>1, <1>i DEF PostFits
  <2> QED
    BY <1>1, <2>1 DEF CheckoutStep, ReadCart, Reserve, ReserveFails, Resolve, Abandon, Persist, Release,
       ReleaseFails, Releasing, Clear, BreakOff, Fulfil, Selling, Holds
<1>2. CASE answer[c] = r /\ step[c] \in {"resolve", "persist", "abandoned"}
  BY <1>2, <1>i DEF PostTypeOK, CheckoutStep, ReadCart, Reserve, ReserveFails, Resolve, Abandon, Persist,
     Release, ReleaseFails, Releasing, Clear, BreakOff, Fulfil, Selling, Goto, Holds
<1>3. CASE answer[c] = r /\ step[c] = "release"
  <2>1. CASE Release(c)
    <3>1. reservation[r] # Absent /\ answer' = answer
      BY <1>3, <2>1 DEF Release, ReadHash, redisVars
    <3>2. pc'[c] = "apply" /\ step'[c] = "releasing"
      BY <1>3, <2>1, <3>1, <1>i DEF Release, ReadHash, Goto, PostTypeOK, TypeOK
    <3> QED
      BY <1>3, <3>1, <3>2 DEF Holds
  <2>2. CASE ReleaseFails(c)
    BY <1>3, <2>2 DEF ReleaseFails
  <2> QED
    BY <1>3, <2>1, <2>2 DEF CheckoutStep, ReadCart, Reserve, ReserveFails, Resolve, Abandon, Persist,
       Releasing, Clear, BreakOff, Fulfil, Selling
<1>4. CASE answer[c] = r /\ step[c] = "releasing" /\ pc[c] \in {"apply", "delReservation"}
  <2>1. Releasing(c)
    BY <1>4 DEF CheckoutStep, ReadCart, Reserve, ReserveFails, Resolve, Abandon, Persist, Release,
       ReleaseFails, Clear, BreakOff, Fulfil, Selling
  <2>2. CASE \E v \in Variants : ReleaseIncr(c, v)
    BY <1>4, <1>i, <2>1, <2>2 DEF Releasing, ReleaseIncr, DelIdem, TypeOK, Holds
  <2>3. CASE DelReservation(c)
    <3>1. rid[c] = r
      BY <1>4, <1>i, <2>3 DEF PostFits, DelReservation
    <3> QED
      BY <2>3, <3>1, <1>i DEF DelReservation, TypeOK
  <2> QED
    BY <1>4, <2>1, <2>2, <2>3 DEF Releasing, DelIdem
<1> QED
  BY <1>1, <1>2, <1>3, <1>4 DEF Holds

LEMMA HoldInvStep == PostInv /\ HoldInv /\ [CheckoutNext]_allVars => HoldInv'
<1>1. ASSUME HoldInv, UNCHANGED checkVars PROVE HoldInv'
  <2>1. UNCHANGED <<reservation, pc, step, answer, order, unanswered>>
    BY <1>1 DEF checkVars, vars, redisVars, handlerVars, postVars
  <2> QED
    BY <1>1, <2>1 DEF HoldInv, Holds
<1>2. ASSUME PostInv, HoldInv, NEW c \in Posts, CheckoutStep(c),
             NEW r \in ResIds, reservation'[r] # Absent
      PROVE  r \in unanswered' \/ \E d \in Posts : Holds(d, r)'
  <2>i. PostTypeOK /\ TypeOK
    BY <1>2 DEF PostInv, Inv
  <2>1. CASE reservation[r] # Absent /\ r \in unanswered
    BY <1>2, <2>1, OthersStand
  <2>2. ASSUME NEW d \in Posts, Holds(d, r) PROVE Holds(d, r)' \/ r \in unanswered'
    <3>1. CASE d = c
      BY <1>2, <2>2, <3>1, HolderGoesOn
    <3>2. CASE d # c
      BY <1>2, <2>2, <3>2, OthersStand DEF Holds
    <3> QED
      BY <3>1, <3>2
  <2>3. CASE reservation[r] = Absent
    <3>1. Makes(c, r)
      <4>1. ~Unmoved(c) /\ ~Finds(c) /\ ~Deletes(c) /\ ~Ends(c)
        BY <1>2, <2>3, <2>i DEF Unmoved, Finds, Deletes, Ends, TypeOK, vars, redisVars
      <4>2. PICK q \in ResIds : Makes(c, q)
        BY <1>2, <4>1, ReservationMoves
      <4>3. q = r
        BY <1>2, <2>3, <2>i, <4>2 DEF Makes, TypeOK
      <4> QED
        BY <4>2, <4>3
    <3>2. CASE Reserve(c) /\ answer'[c] = r
      <4>1. step'[c] = "resolve"
        BY <2>i, <3>2 DEF Reserve, Goto, PostTypeOK
      <4> QED
        BY <3>2, <4>1 DEF Holds
    <3> QED
      BY <3>1, <3>2 DEF Makes
  <2> QED
    BY <1>2, <2>1, <2>2, <2>3 DEF HoldInv
<1>3. ASSUME PostInv, HoldInv, NEW c \in Posts, CheckoutStep(c) PROVE HoldInv'
  BY <1>2, <1>3 DEF HoldInv
<1> QED
  BY <1>1, <1>3, CartAside DEF checkVars

\* Once every checkout is answered, units are held by orders, by reservations whose
\* answer or release got lost, by those of checkouts that were abandoned before their
\* order with no release of it, and by no others.
THEOREM NothingStranded == CheckoutSpec => []NoStrandedReservation
<1>1. CheckoutInit => HoldInv
  BY DEF CheckoutInit, Init, HoldInv
<1>2. HoldInv => NoStrandedReservation
  BY DEF HoldInv, NoStrandedReservation, Holds, Open, Abandoned
<1>3. CartInv /\ PostInv /\ KeyInv => PostInv
  OBVIOUS
<1> QED
  BY <1>1, <1>2, <1>3, KeyAlways, HoldInvStep, PTL DEF CheckoutSpec

-----------------------------------------------------------------------------
(* The orders of patient users                                             *)

Patient(c) == PostOf[c] \in patient

\* An order stands on r whose checkout broke off after it was persisted.
Taint(r) == \E d \in died : order[d] = r

\* Reservation r is as ReserveStock made it.
Fresh(r) == reservation[r] # Absent /\ sold[r] = 0 /\ \A d \in Posts : order[d] # r

\* What a patient checkout whose order stands on r relies on.
OrderBacked(c, r) ==
  /\ \A d \in Posts \ {c} : order[d] # r
  /\ step[c] \in {"clear", "placed"} => reservation[r] # Absent /\ sold[r] = 0
  /\ step[c] = "selling" /\ pc[c] = "apply" => reservation[r] # Absent /\ sold[r] = 0
  /\ step[c] = "selling" /\ pc[c] \in {"delReservation", "delIdem"} => sold[r] = 1
  /\ step[c] = "end" => sold[r] = 1 /\ \A k \in Keys : idem[k] # r

\* What patient users rely on, of a reservation that is not tainted: their orders are
\* backed; a checkout that is about to persist or release it, or that may find it under
\* its key, finds it as it was made.
Good(r) ==
  /\ \A c \in Posts : Patient(c) /\ order[c] = r => OrderBacked(c, r)
  /\ \A c \in Posts : Patient(c) /\ answer[c] = r /\ step[c] \in {"resolve", "persist", "release"}
       => Fresh(r)
  /\ \A u \in patient, s \in Requests : idem[<<u, s>>] = r
       => Fresh(r) \/ \E c \in Posts : PostOf[c] = u /\ Open(c) /\ answer[c] = r

PatientInv ==
  /\ \A c, d \in Posts : Patient(c) /\ PostOf[c] = PostOf[d] /\ Open(c) /\ Open(d) => c = d
  /\ \A r \in ResIds : Taint(r) \/ Good(r)

\* A reservation is of one user: of the checkouts that were answered with it, and of the
\* record that names it.
OneUser ==
  /\ \A c, d \in Posts : answer[c] # Absent /\ answer[c] = answer[d] => PostOf[c] = PostOf[d]
  /\ \A c \in Posts, u \in Users, s \in Requests :
       answer[c] # Absent /\ idem[<<u, s>>] = answer[c] => PostOf[c] = u
  /\ \A c \in Posts : order[c] # Absent => order[c] = answer[c]

LEMMA ReservationOfOneUser == PostInv /\ KeyInv => OneUser
<1> SUFFICES ASSUME PostInv, KeyInv PROVE OneUser
  OBVIOUS
<1>1. \A c, d \in Posts : answer[c] # Absent /\ answer[c] = answer[d] => PostOf[c] = PostOf[d]
  BY DEF KeyInv, IdemKey
<1>2. ASSUME NEW c \in Posts, NEW u \in Users, NEW s \in Requests, answer[c] # Absent,
             idem[<<u, s>>] = answer[c]
      PROVE  PostOf[c] = u
  <2>1. <<u, s>> \in Keys
    BY CheckoutAssumption
  <2>2. <<u, s>> = IdemKey(c)
    BY <1>2, <2>1 DEF KeyInv
  <2> QED
    BY <2>2 DEF IdemKey
<1> QED
  BY <1>1, <1>2 DEF PostInv, PostFits, OneUser

\* What patient users rely on is not about the reservations of others.
StrangersFact ==
  \A c \in Posts : answer[c] # Absent /\ ~Patient(c) => Good(answer[c])

LEMMA Strangers == PostInv /\ OneUser => StrangersFact
<1> SUFFICES ASSUME PostInv, OneUser, NEW c \in Posts, answer[c] # Absent, ~Patient(c)
             PROVE  Good(answer[c])
  BY DEF StrangersFact
<1>1. \A d \in Posts : answer[d] = answer[c] \/ order[d] = answer[c] => ~Patient(d)
  BY DEF OneUser, Patient
<1>2. \A u \in patient, s \in Requests : idem[<<u, s>>] # answer[c]
  BY DEF OneUser, Patient, PostInv, PostTypeOK
<1> QED
  BY <1>1, <1>2 DEF Good

\* A step that is neither by a checkout with reservation r nor gives or makes one.
LEMMA GoodAside ==
  ASSUME PostInv, PostInv', NEW c \in Posts, CheckoutStep(c), NEW r \in ResIds,
         answer[c] # r, answer'[c] # r, ~Makes(c, r), Good(r)
  PROVE  Good(r)'
<1>i. PostTypeOK /\ PostFits(c) /\ TypeOK /\ PostInv /\ PostFits(c)'
  BY DEF PostInv, Inv
<1>a. r # Absent
  BY PostFacts
<1>1. \A d \in Posts : /\ order'[d] = r <=> order[d] = r
                       /\ answer'[d] = r <=> answer[d] = r
  BY <1>i, <1>a, OthersStand DEF PostFits
<1>2. \A d \in Posts : order[d] = r \/ answer[d] = r => step'[d] = step[d] /\ pc'[d] = pc[d]
  BY <1>i, <1>a, OthersStand DEF PostFits
<1>3. reservation'[r] = reservation[r] /\ \A k \in Keys : idem'[k] = r => idem[k] = r
  <2>1. CASE Unmoved(c) \/ Finds(c)
    BY <2>1 DEF Unmoved, Finds, vars, redisVars
  <2>2. ASSUME NEW q \in ResIds, Makes(c, q) PROVE <1>3
    <3>1. q # r
      BY <2>2
    <3> QED
      BY <2>2, <3>1, <1>i DEF Makes, TypeOK
  <2>3. CASE Deletes(c)
    BY <2>3, <1>i DEF Deletes, TypeOK
  <2>4. CASE Ends(c)
    BY <2>4, <1>i, <1>a DEF Ends, TypeOK
  <2> QED
    BY <2>1, <2>2, <2>3, <2>4, ReservationMoves
<1>4. sold'[r] = sold[r]
  <2>1. CASE CommitOnHand(c)
    <3>1. rid[c] = answer[c]
      BY <1>i, <2>1 DEF PostFits, CommitOnHand
    <3> QED
      BY <2>1, <3>1, <1>i DEF CommitOnHand, TypeOK
  <2>2. CASE ~CommitOnHand(c)
    BY <2>2, <1>i DEF CheckoutStep, ReadCart, Reserve, ReserveFails, ReserveStock, ReserveHit,
       ReserveReject, ReserveGrant, Resolve, Abandon, Persist, Release, ReleaseFails, Releasing, Clear,
       BreakOff, Fulfil, Selling, ReadHash, ReleaseIncr, DelReservation, DelIdem, CommitRefused,
       vars, historyVars
  <2> QED
    BY <2>1, <2>2
<1>5. patient' = patient /\ \A u \in Users, s \in Requests : <<u, s>> \in Keys
  BY OthersStand, CheckoutAssumption
<1>6. Fresh(r) => Fresh(r)'
  BY <1>1, <1>3, <1>4 DEF Fresh
<1>7. ASSUME NEW d \in Posts, Patient(d)', order'[d] = r PROVE OrderBacked(d, r)'
  <2>1. Patient(d) /\ order[d] = r
    BY <1>1, <1>5, <1>7 DEF Patient
  <2>2. OrderBacked(d, r)
    BY <2>1 DEF Good
  <2>3. step'[d] = step[d] /\ pc'[d] = pc[d]
    BY <1>2, <2>1
  <2> QED
    BY <1>1, <1>3, <1>4, <2>2, <2>3 DEF OrderBacked
<1>8. ASSUME NEW d \in Posts, Patient(d)', answer'[d] = r, step'[d] \in {"resolve", "persist", "release"}
      PROVE  Fresh(r)'
  BY <1>1, <1>2, <1>5, <1>6, <1>8 DEF Good, Patient
<1>9. ASSUME NEW u \in patient', NEW s \in Requests, idem'[<<u, s>>] = r
      PROVE  Fresh(r)' \/ \E d \in Posts : PostOf[d] = u /\ Open(d)' /\ answer'[d] = r
  <2>1. u \in patient /\ idem[<<u, s>>] = r
    BY <1>3, <1>5, <1>9, <1>i DEF PostTypeOK
  <2>2. CASE Fresh(r)
    BY <1>6, <2>2
  <2>3. ASSUME NEW d \in Posts, PostOf[d] = u, Open(d), answer[d] = r
        PROVE  Open(d)' /\ answer'[d] = r
    BY <1>1, <1>2, <2>3 DEF Open
  <2> QED
    BY <2>1, <2>2, <2>3 DEF Good
<1> QED
  BY <1>7, <1>8, <1>9 DEF Good

\* ReserveStock makes a reservation: nobody else has it.
LEMMA GoodMade ==
  ASSUME PostInv, NEW c \in Posts, CheckoutStep(c), NEW r \in ResIds, Makes(c, r)
  PROVE  Good(r)'
<1>i. PostTypeOK /\ TypeOK /\ CallInv /\ r # Absent /\ \A d \in Posts : PostFits(d)
  BY PostFacts DEF PostInv, Inv
<1>1. \A d \in Posts : order'[d] # r
  BY <1>i DEF Makes, PostFits
<1>2. reservation'[r] # Absent
  <2>1. reservation'[r] = [items |-> snap[c], idem_key |-> IdemKey(c)]
    BY <1>i DEF Makes, TypeOK
  <2>2. snap[c] \in Requests
    BY <1>i DEF Makes, PostFits, Open
  <2>3. IdemKey(c) \in Keys
    BY <2>2, PostFacts
  <2>4. [items |-> snap[c], idem_key |-> IdemKey(c)] \in Hash
    BY <2>2, <2>3 DEF Hash
  <2> QED
    BY <2>1, <2>4, VariantsAssumption
<1>3. sold'[r] = 0
  BY <1>i DEF Makes, CallInv
<1> QED
  BY <1>1, <1>2, <1>3 DEF Good, Fresh

\* ReserveStock finds a reservation under the key of the lines.
LEMMA GoodFound ==
  ASSUME PostInv, OneUser, PatientInv, NEW c \in Posts, CheckoutStep(c), Finds(c), Patient(c),
         NEW r \in ResIds, answer'[c] = r, ~Taint(r)
  PROVE  Good(r)'
<1>i. PostTypeOK /\ TypeOK /\ PostFits(c) /\ r # Absent /\ Posts = Handlers
  BY PostFacts DEF PostInv, Inv
<1>1. step[c] = "reserve" /\ snap[c] \in Requests /\ answer[c] = Absent
  BY <1>i DEF Finds, Reserve, PostFits, Open
<1>2. idem[<<PostOf[c], snap[c]>>] = r
  BY DEF Finds, IdemKey
<1>3. PostOf[c] \in patient /\ Good(r)
  BY DEF Patient, PatientInv
<1>4. Fresh(r)
  <2>1. ASSUME NEW d \in Posts, PostOf[d] = PostOf[c], Open(d), answer[d] = r PROVE FALSE
    <3>1. Open(c) /\ Patient(d)
      BY <1>1, <1>3, <2>1 DEF Open, Patient
    <3>2. c = d
      BY <2>1, <3>1 DEF PatientInv
    <3> QED
      BY <1>1, <1>i, <2>1, <3>2
  <2> QED
    BY <1>1, <1>2, <1>3, <2>1 DEF Good
<1>5. UNCHANGED <<reservation, sold, order>>
  BY DEF Finds, Reserve, vars, redisVars, historyVars
<1> QED
  BY <1>4, <1>5 DEF Good, Fresh

\* A checkout of a patient user works on its own reservation.
LEMMA GoodOwn ==
  ASSUME PostInv, KeyInv, OneUser, OneUser', PatientInv, NEW c \in Posts, CheckoutStep(c), Patient(c),
         NEW r \in ResIds, answer[c] = r, ~Taint(r), ~Taint(r)'
  PROVE  Good(r)'
<1>i. PostTypeOK /\ TypeOK /\ PostFits(c) /\ r # Absent /\ Posts = Handlers /\ Good(r)
  BY PostFacts DEF PostInv, Inv, PatientInv
<1>s. step[c] \notin {"start", "reserve", "end", "abandoned"} /\ Open(c)
  <2>1. step[c] \notin {"end", "abandoned"}
    BY DEF CheckoutStep, ReadCart, Reserve, ReserveFails, Resolve, Abandon, Persist, Release,
       ReleaseFails, Releasing, Clear, BreakOff, Fulfil, Selling
  <2> QED
    BY <1>i, <2>1 DEF PostFits, Open
<1>p. patient' = patient /\ \A d \in Posts : Patient(d)' <=> Patient(d)
  BY OthersStand DEF Patient
<1>a. \A d \in Posts : answer'[d] = answer[d]
  BY <1>i, <1>s DEF CheckoutStep, ReadCart, Reserve, ReserveFails, Resolve, Abandon, Persist, Release,
     ReleaseFails, Releasing, Clear, BreakOff, Fulfil, Selling
\* The others that have r are over.
<1>o. \A d \in Posts \ {c} : answer[d] = r \/ order[d] = r
        => /\ answer[d] = r /\ step[d] \in {"end", "abandoned"}
           /\ step'[d] = step[d] /\ order'[d] = order[d]
           /\ order[d] = r => step[d] = "end"
  <2> SUFFICES ASSUME NEW d \in Posts \ {c}, answer[d] = r \/ order[d] = r
               PROVE  /\ answer[d] = r /\ step[d] \in {"end", "abandoned"}
                      /\ step'[d] = step[d] /\ order'[d] = order[d]
                      /\ order[d] = r => step[d] = "end"
    OBVIOUS
  <2>1. answer[d] = r
    BY <1>i DEF OneUser
  <2>2. PostOf[d] = PostOf[c]
    BY <1>i, <2>1 DEF OneUser
  <2>3. ~Open(d)
    BY <1>s, <2>2 DEF PatientInv
  <2>4. PostFits(d) /\ step[d] # "start"
    BY <1>i, <2>1 DEF PostInv, PostFits
  <2>5. order[d] = r => step[d] # "abandoned"
    BY <1>i, <2>4 DEF PostFits
  <2> QED
    BY <2>1, <2>3, <2>4, <2>5, OthersStand DEF Open
<1>k. \A k \in Keys : idem'[k] = r => idem[k] = r
  <2>1. CASE Unmoved(c) \/ Finds(c) \/ Deletes(c)
    BY <2>1 DEF Unmoved, Finds, vars, redisVars, Deletes
  <2>2. CASE Ends(c)
    BY <1>i, <2>2 DEF Ends, TypeOK
  <2> QED
    BY <1>s, <2>1, <2>2, ReservationMoves DEF Makes
\* What is left to show, once the step is known.
<1>g. ASSUME order'[c] = r => OrderBacked(c, r)',
             \A d \in Posts \ {c} : order[d] = r => OrderBacked(d, r)',
             step'[c] \in {"resolve", "persist", "release"} => Fresh(r)',
             Open(c)' \/ Fresh(r)' \/ \A k \in Keys : idem'[k] # r
      PROVE  Good(r)'
  <2>1. \A d \in Posts : order'[d] = r => OrderBacked(d, r)'
    BY <1>g, OthersStand
  <2>2. \A d \in Posts : answer'[d] = r /\ step'[d] \in {"resolve", "persist", "release"} => Fresh(r)'
    BY <1>g, <1>a, <1>o
  <2>3. ASSUME NEW u \in patient', NEW s \in Requests, idem'[<<u, s>>] = r
        PROVE  Fresh(r)' \/ \E d \in Posts : PostOf[d] = u /\ Open(d)' /\ answer'[d] = r
    <3>1. <<u, s>> \in Keys /\ u \in Users
      BY <1>i, <1>p, CheckoutAssumption DEF PostTypeOK
    <3>2. PostOf[c] = u
      BY <1>a, <1>i, <2>3, <3>1 DEF OneUser
    <3> QED
      BY <1>a, <1>g, <2>3, <3>1, <3>2
  <2> QED
    BY <2>1, <2>2, <2>3 DEF Good
\* Orders of others on r were sold.
<1>e. ASSUME sold'[r] = sold[r],
             \A d \in Posts \ {c} : order[d] = r => order'[c] # r
      PROVE  \A d \in Posts \ {c} : order[d] = r => OrderBacked(d, r)'
  <2> SUFFICES ASSUME NEW d \in Posts \ {c}, order[d] = r PROVE OrderBacked(d, r)'
    OBVIOUS
  <2>1. PostOf[d] = PostOf[c] /\ Patient(d)
    BY <1>i, <1>o DEF OneUser, Patient
  <2>2. OrderBacked(d, r) /\ step'[d] = "end" /\ step[d] = "end"
    BY <1>i, <1>o, <2>1 DEF Good
  <2>3. \A e \in Posts \ {d} : order'[e] # r
    BY <1>e, <2>2, OthersStand DEF OrderBacked
  <2>4. sold'[r] = 1 /\ \A k \in Keys : idem'[k] # r
    BY <1>e, <1>k, <2>2 DEF OrderBacked
  <2> QED
    BY <2>2, <2>3, <2>4 DEF OrderBacked
<1>1. CASE step[c] \in {"resolve", "persist", "release"}
  <2>f. Fresh(r) /\ \A d \in Posts : order[d] # r
    BY <1>1, <1>i DEF Good, Fresh
  <2>1. CASE Resolve(c) \/ Abandon(c) \/ ReleaseFails(c)
    <3>1. Fresh(r)' /\ order'[c] # r /\ sold'[r] = sold[r]
      BY <2>1, <2>f DEF Resolve, Abandon, ReleaseFails, Fresh, vars, redisVars, historyVars
    <3> QED
      BY <2>f, <3>1, <1>g
  <2>2. CASE Persist(c)
    <3>1. UNCHANGED <<reservation, sold>>
      BY <2>2 DEF Persist, vars, redisVars, historyVars
    <3>2. CASE step' = [step EXCEPT ![c] = "release"] /\ order' = order
      <4>1. Fresh(r)'
        BY <2>f, <3>1, <3>2 DEF Fresh
      <4> QED
        BY <2>f, <3>2, <4>1, <1>g
    <3>3. CASE step' = [step EXCEPT ![c] = "clear"] /\ order' = [order EXCEPT ![c] = r]
      <4>1. step'[c] = "clear" /\ \A d \in Posts \ {c} : order'[d] # r
        BY <2>f, <3>3, <1>i DEF PostTypeOK
      <4>2. OrderBacked(c, r)' /\ Open(c)'
        BY <2>f, <3>1, <4>1 DEF OrderBacked, Fresh, Open
      <4> QED
        BY <2>f, <4>1, <4>2, <1>g
    <3>4. CASE order' = [order EXCEPT ![c] = r] /\ died' = died \cup {c}
      BY <3>4, <1>i DEF Taint, PostTypeOK
    <3> QED
      BY <2>2, <3>2, <3>3, <3>4 DEF Persist, Goto
  <2>3. CASE Release(c)
    <3>1. step'[c] = "releasing" /\ UNCHANGED order
      BY <2>3, <2>f, <1>i DEF Release, Goto, PostTypeOK, Fresh
    <3> QED
      BY <2>f, <3>1, <1>g DEF Open
  <2> QED
    BY <1>1, <2>1, <2>2, <2>3 DEF CheckoutStep, ReadCart, Reserve, ReserveFails, Releasing, Clear,
       BreakOff, Fulfil, Selling
<1>2. CASE step[c] = "releasing"
  <2>1. Releasing(c)
    BY <1>2 DEF CheckoutStep, ReadCart, Reserve, ReserveFails, Resolve, Abandon, Persist, Release,
       ReleaseFails, Clear, BreakOff, Fulfil, Selling
  <2>2. order[c] # r /\ order' = order /\ sold' = sold
    <3>1. order[c] # r
      BY <1>2, <1>i DEF PostFits, Taint
    <3> QED
      BY <2>1, <3>1 DEF Releasing, ReleaseIncr, DelReservation, DelIdem, historyVars
  <2>3. \A d \in Posts \ {c} : order[d] = r => OrderBacked(d, r)'
    BY <1>e, <2>2
  <2>4. CASE ~DelIdem(c)
    <3>1. step'[c] = "releasing"
      BY <1>2, <2>1, <2>4 DEF Releasing
    <3> QED
      BY <2>2, <2>3, <3>1, <1>g DEF Open
  <2>5. CASE DelIdem(c)
    <3>1. step'[c] = "end"
      BY <2>1, <2>5, <1>i DEF Releasing, ReleaseIncr, DelReservation, DelIdem, Goto, PostTypeOK
    <3>2. \A k \in Keys : idem'[k] # r
      BY <1>i, <1>k, <2>5 DEF DelIdem, KeyInv, TypeOK
    <3> QED
      BY <2>2, <2>3, <3>1, <3>2, <1>g
  <2> QED
    BY <2>4, <2>5
<1>3. CASE step[c] \in {"clear", "placed", "selling"}
  <2>f. OrderBacked(c, r) /\ order[c] = r /\ order'[c] = r /\ \A d \in Posts \ {c} : order[d] # r
    <3>1. order[c] = r
      BY <1>3, <1>i DEF PostFits
    <3>2. OrderBacked(c, r)
      BY <1>i, <3>1 DEF Good
    <3>3. order' = order
      BY <1>3 DEF CheckoutStep, ReadCart, Reserve, ReserveFails, Resolve, Abandon, Persist, Release,
         ReleaseFails, Releasing, Clear, BreakOff, Fulfil, Selling
    <3> QED
      BY <3>1, <3>2, <3>3 DEF OrderBacked
  <2>g. ASSUME OrderBacked(c, r)', step'[c] \in {"clear", "placed", "selling", "end"},
               step'[c] = "end" => \A k \in Keys : idem'[k] # r
        PROVE  Good(r)'
    BY <2>f, <2>g, <1>g DEF Open
  <2>o. \A d \in Posts \ {c} : order'[d] # r
    BY <2>f, OthersStand
  <2>1. CASE Clear(c)
    <3>1. step'[c] = "placed" /\ UNCHANGED <<reservation, sold>>
      BY <2>1, <1>i DEF Clear, Goto, PostTypeOK, vars, redisVars, historyVars
    <3>2. reservation[r] # Absent /\ sold[r] = 0
      BY <2>1, <2>f DEF Clear, OrderBacked
    <3>3. OrderBacked(c, r)'
      BY <2>o, <3>1, <3>2 DEF OrderBacked
    <3> QED
      BY <3>1, <3>3, <2>g
  <2>2. CASE BreakOff(c)
    BY <2>2, <2>f DEF BreakOff, Taint
  <2>3. CASE Fulfil(c)
    <3>1. reservation[r] # Absent /\ sold[r] = 0
      BY <2>3, <2>f DEF Fulfil, OrderBacked
    <3>2. step'[c] = "selling" /\ pc'[c] = "apply" /\ UNCHANGED <<reservation, sold>>
      BY <2>3, <2>f, <3>1, <1>i DEF Fulfil, ReadHash, Goto, PostTypeOK, TypeOK, redisVars, historyVars
    <3>3. OrderBacked(c, r)'
      BY <2>o, <3>1, <3>2 DEF OrderBacked
    <3> QED
      BY <3>2, <3>3, <2>g
  <2>4. CASE Selling(c)
    <3>r. rid[c] = r /\ step[c] = "selling" /\ pc[c] # "idle"
      BY <2>4, <1>i DEF Selling, CommitOnHand, CommitRefused, DelReservation, DelIdem, PostFits
    <3>1. CASE CommitOnHand(c) /\ UNCHANGED step
      <4>1. sold[r] = 0
        BY <2>f, <3>1, <3>r DEF CommitOnHand, OrderBacked
      <4>2. sold'[r] = 1 /\ pc'[c] = "delReservation" /\ step'[c] = "selling"
        BY <3>1, <3>r, <4>1, <1>i DEF CommitOnHand, TypeOK
      <4>3. OrderBacked(c, r)'
        BY <2>o, <4>2 DEF OrderBacked
      <4> QED
        BY <4>2, <4>3, <2>g
    <3>2. CASE DelReservation(c) /\ UNCHANGED step
      <4>1. sold[r] = 1
        BY <2>f, <3>2, <3>r DEF DelReservation, OrderBacked
      <4>2. sold'[r] = 1 /\ pc'[c] = "delIdem" /\ step'[c] = "selling"
        BY <3>2, <3>r, <4>1, <1>i DEF DelReservation, TypeOK, historyVars
      <4>3. OrderBacked(c, r)'
        BY <2>o, <4>2 DEF OrderBacked
      <4> QED
        BY <4>2, <4>3, <2>g
    <3>3. CASE CommitRefused(c) /\ Goto(c, "placed")
      <4>1. reservation[r] # Absent /\ sold[r] = 0
        BY <2>f, <3>3, <3>r DEF CommitRefused, OrderBacked
      <4>2. step'[c] = "placed" /\ UNCHANGED <<reservation, sold>>
        BY <3>3, <1>i DEF CommitRefused, Goto, PostTypeOK, redisVars, historyVars
      <4>3. OrderBacked(c, r)'
        BY <2>o, <4>1, <4>2 DEF OrderBacked
      <4> QED
        BY <4>2, <4>3, <2>g
    <3>4. CASE DelIdem(c) /\ Goto(c, "end")
      <4>1. sold[r] = 1
        BY <2>f, <3>4, <3>r DEF DelIdem, OrderBacked
      <4>2. step'[c] = "end" /\ sold'[r] = 1
        BY <3>4, <4>1, <1>i DEF DelIdem, Goto, PostTypeOK, historyVars
      <4>3. \A k \in Keys : idem'[k] # r
        BY <1>i, <1>k, <3>4 DEF DelIdem, KeyInv, TypeOK
      <4>4. OrderBacked(c, r)'
        BY <2>o, <4>2, <4>3 DEF OrderBacked
      <4> QED
        BY <4>2, <4>3, <4>4, <2>g
    <3> QED
      BY <2>4, <3>1, <3>2, <3>3, <3>4 DEF Selling
  <2> QED
    BY <1>3, <2>1, <2>2, <2>3, <2>4 DEF CheckoutStep, ReadCart, Reserve, ReserveFails, Resolve, Abandon,
       Persist, Release, ReleaseFails, Releasing
<1> QED
  BY <1>i, <1>s, <1>1, <1>2, <1>3 DEF PostTypeOK, Steps

LEMMA PatientInvStep ==
  ASSUME PostInv, PostInv', KeyInv, OneUser, OneUser', StrangersFact', PatientInv,
         NEW c \in Posts, CheckoutStep(c)
  PROVE  PatientInv'
<1>i. PostTypeOK /\ TypeOK /\ PostFits(c) /\ Posts = Handlers /\ Absent \notin ResIds
  BY PostFacts DEF PostInv, Inv
<1>p. patient' = patient /\ \A d \in Posts : Patient(d)' <=> Patient(d)
  BY OthersStand DEF Patient
<1>1. ASSUME NEW d \in Posts, NEW e \in Posts, Patient(d)', PostOf[d] = PostOf[e],
             Open(d)', Open(e)'
      PROVE  d = e
  <2>1. CASE ReadCart(c) /\ (d = c \/ e = c)
    <3>1. Patient(c) /\ \A f \in Posts : PostOf[f] = PostOf[c] => ~Open(f)
      BY <1>1, <1>p, <2>1 DEF ReadCart, Patient
    <3> QED
      BY <1>1, <2>1, <3>1, OthersStand DEF Open
  <2>2. CASE ~ReadCart(c) \/ (d # c /\ e # c)
    <3>1. Open(c)' /\ ~ReadCart(c) => Open(c)
      BY DEF Open, CheckoutStep, Reserve, ReserveFails, Resolve, Abandon, Persist, Release,
         ReleaseFails, Releasing, Clear, BreakOff, Fulfil, Selling
    <3>2. \A f \in Posts \ {c} : Open(f)' => Open(f)
      BY OthersStand DEF Open
    <3>3. Open(d) /\ Open(e) /\ Patient(d)
      BY <1>1, <1>p, <2>2, <3>1, <3>2
    <3> QED
      BY <1>1, <3>3 DEF PatientInv
  <2> QED
    BY <2>1, <2>2
<1>2. ASSUME NEW r \in ResIds PROVE Taint(r)' \/ Good(r)'
  <2>1. Taint(r) => Taint(r)'
    <3>1. ASSUME NEW d \in died, order[d] = r PROVE d \in died' /\ order'[d] = r
      <4>1. d \in Posts /\ d \in died' /\ r # Absent
        BY <1>i, <3>1, OthersStand DEF PostTypeOK
      <4>2. CASE d = c
        BY <1>i, <3>1, <4>1, <4>2 DEF PostFits, PostTypeOK, CheckoutStep, ReadCart, Reserve,
           ReserveFails, Resolve, Abandon, Persist, Release, ReleaseFails, Releasing, Clear, BreakOff, Fulfil, Selling
      <4> QED
        BY <3>1, <4>1, <4>2, OthersStand
    <3> QED
      BY <3>1 DEF Taint
  <2>2. ASSUME ~Taint(r)' PROVE Good(r)'
    <3>1. ~Taint(r) /\ Good(r) /\ r # Absent
      BY <1>i, <2>1, <2>2 DEF PatientInv
    <3>2. CASE answer'[c] = r /\ ~Patient(c)
      BY <1>p, <3>1, <3>2 DEF StrangersFact
    <3>3. CASE Makes(c, r)
      BY <3>3, GoodMade
    <3>4. CASE answer[c] = r /\ Patient(c)
      BY <2>2, <3>1, <3>4, GoodOwn
    <3>5. CASE answer[c] # r /\ answer'[c] = r /\ ~Makes(c, r) /\ Patient(c)
      <4>1. Finds(c)
        <5>1. ~Deletes(c) /\ ~Ends(c) /\ ~Unmoved(c)
          BY <3>5 DEF Deletes, Ends, Unmoved
        <5>2. ASSUME NEW q \in ResIds, Makes(c, q) PROVE FALSE
          BY <3>5, <5>2 DEF Makes
        <5> QED
          BY <5>1, <5>2, ReservationMoves
      <4> QED
        BY <3>1, <3>5, <4>1, GoodFound
    <3>6. CASE answer[c] # r /\ answer'[c] # r /\ ~Makes(c, r)
      BY <3>1, <3>6, GoodAside
    <3>7. answer[c] = r => answer'[c] = r
      BY <3>1, AnswersStay
    <3> QED
      BY <3>2, <3>3, <3>4, <3>5, <3>6, <3>7
  <2> QED
    BY <2>2
<1> QED
  BY <1>1, <1>2 DEF PatientInv

\* Who checks out again only when the last order is sold has orders that stand on
\* reservations of their own, kept until they are sold, unless a checkout of the same lines
\* broke off after its order was persisted.
THEOREM PatientUsersAreBacked == CheckoutSpec => []PatientCheckoutsAreBacked
<1>1. CheckoutInit => PatientInv
  <2> SUFFICES ASSUME CheckoutInit PROVE PatientInv
    OBVIOUS
  <2>1. \A c \in Posts : ~Open(c) /\ order[c] = Absent /\ answer[c] = Absent
    BY DEF CheckoutInit, Open
  <2>2. \A u \in patient, s \in Requests : idem[<<u, s>>] = Absent
    BY CheckoutAssumption DEF CheckoutInit, Init
  <2>3. \A r \in ResIds : Good(r)
    BY <2>1, <2>2, PostFacts DEF Good
  <2> QED
    BY <2>1, <2>3 DEF PatientInv
<1>2. /\ PostInv /\ PostInv' /\ KeyInv /\ OneUser /\ OneUser' /\ StrangersFact' /\ PatientInv
      /\ [CheckoutNext]_allVars
      => PatientInv'
  <2> SUFFICES ASSUME PostInv, PostInv', KeyInv, OneUser, OneUser', StrangersFact', PatientInv,
                      [CheckoutNext]_allVars
               PROVE  PatientInv'
    OBVIOUS
  <2>1. CASE UNCHANGED checkVars
    <3>1. UNCHANGED <<reservation, idem, pc, sold, step, snap, answer, order, patient, died>>
      BY <2>1 DEF checkVars, vars, redisVars, handlerVars, historyVars, postVars
    <3> QED
      BY <3>1 DEF PatientInv, Taint, Good, Fresh, OrderBacked, Open, Patient
  <2> QED
    BY <2>1, PatientInvStep, CartAside DEF checkVars
<1>3. PostInv /\ OneUser /\ PatientInv => PatientCheckoutsAreBacked
  <2> SUFFICES ASSUME PostInv, OneUser, PatientInv, NEW c \in Posts, Patient(c), order[c] # Absent,
                      ~\E d \in Posts : Broken(d) /\ order[d] = order[c]
               PROVE  /\ \A d \in Posts \ {c} : order[d] # order[c]
                      /\ step[c] \in {"clear", "placed"} => reservation[order[c]] # Absent
                      /\ step[c] = "end" => sold[order[c]] = 1
    BY DEF PatientCheckoutsAreBacked, Patient
  <2>1. PICK r \in ResIds : r = order[c]
    BY DEF PostInv, PostTypeOK
  <2>2. ~Taint(r)
    BY <2>1 DEF Taint, Broken, PostInv, PostTypeOK
  <2>3. OrderBacked(c, r)
    BY <2>1, <2>2 DEF PatientInv, Good
  <2> QED
    BY <2>1, <2>3 DEF OrderBacked
<1> QED
  BY <1>1, <1>2, <1>3, KeyAlways, ReservationOfOneUser, Strangers, PTL DEF CheckoutSpec
=============================================================================
