------------------------------ MODULE Checkout ------------------------------
(***************************************************************************)
(* The live cart and POST /checkout.  A cart is a Redis hash of the user;  *)
(* its endpoints and the checkouts of the user run side by side, each of   *)
(* them a sequence of awaited calls: to Redis, to the inventory service of *)
(* module Inventory, and to Postgres.  The ReleaseReservation a failing    *)
(* checkout sends, and later the CommitReservation of its order's chain,   *)
(* run in the coroutine slot of the checkout's name.                       *)
(*                                                                         *)
(* A line that is not in the hash is a line of 0: whoever reads the hash   *)
(* skips lines that are not positive.                                      *)
(***************************************************************************)
EXTENDS Inventory

CONSTANTS
  Posts,        \* POSTs to /checkout with a valid address
  Adds,         \* slots for POSTs to /cart/items that went beyond the cap
  Users,
  PostOf,       \* who sends each checkout
  MaxQty,       \* the largest quantity of one POST to /cart/items
  Cap,          \* MAX_QUANTITY_PER_LINE
  MaxDeaths     \* how many checkouts may die half way (a bound)

ASSUME CheckoutAssumption ==
  /\ Posts = Handlers
  /\ PostOf \in [Posts -> Users]
  /\ Cap \in Nat \ {0} /\ MaxQty \in 1 .. Cap /\ MaxDeaths \in Nat
  /\ IsFiniteSet(Adds)
  /\ Users \X Requests \subseteq Keys
  /\ \A vs \in (SUBSET Variants) \ {{}} :  \* what a cart can hold
       [vs -> 1 .. Cap + Cardinality(Adds) * MaxQty] \subseteq Requests

VARIABLES
  cart,        \* Redis cart:<user>
  rollback,    \* the increment each add has still to take back
  known,       \* variants that have a row in Postgres
  step,        \* how far each checkout is
  snap,        \* the lines its HGETALL returned
  answer,      \* the reservation_id ReserveStock answered with
  order,       \* the reservation_id of the Order row it persisted
  patient,     \* users who check out again only when their last order is sold
  unanswered,  \* history: reservations whose answer, or release, got lost
  died         \* history: checkouts that broke off after the order was persisted

postVars == <<step, snap, answer, order>>
cartVars == <<cart, rollback, known>>
allVars == <<vars, cartVars, postVars, patient, unanswered, died>>

NoRollback == [user |-> Absent, variant |-> Absent, qty |-> 0]

CheckoutInit ==
  /\ Init
  /\ cart = [u \in Users |-> [v \in Variants |-> 0]]
  /\ rollback = [a \in Adds |-> NoRollback]
  /\ known = Variants
  /\ step = [c \in Posts |-> "start"]
  /\ snap = [c \in Posts |-> Absent]
  /\ answer = [c \in Posts |-> Absent]
  /\ order = [c \in Posts |-> Absent]
  /\ patient \in SUBSET Users
  /\ unanswered = {} /\ died = {}

-----------------------------------------------------------------------------
(* The cart                                                                *)

\* _load_active_variant: only variants that are there go into a cart.
LoadActiveVariant(v) == v \in known

\* POST /cart/items: HINCRBY; beyond the cap the increment will be taken back.
AddLine(a, u, v, q) ==
  /\ rollback[a] = NoRollback
  /\ LoadActiveVariant(v)
  /\ cart' = [cart EXCEPT ![u][v] = @ + q]
  /\ rollback' = IF cart[u][v] + q > Cap
                 THEN [rollback EXCEPT ![a] = [user |-> u, variant |-> v, qty |-> q]]
                 ELSE rollback
  /\ UNCHANGED <<vars, known, postVars, patient, unanswered, died>>

\* Mutant: the error is answered without taking the increment back.
ForgetRollback(a) ==
  /\ rollback[a] # NoRollback
  /\ rollback' = [rollback EXCEPT ![a] = NoRollback]
  /\ UNCHANGED <<vars, cart, known, postVars, patient, unanswered, died>>

\* The HINCRBY of the negative quantity, whatever became of the line meanwhile.  It
\* may never come: where it fails, or the API dies before it, the entry stays.
RollbackLine(a) ==
  /\ rollback[a] # NoRollback
  /\ LET x == rollback[a] IN cart' = [cart EXCEPT ![x.user][x.variant] = @ - x.qty]
  /\ rollback' = [rollback EXCEPT ![a] = NoRollback]
  /\ UNCHANGED <<vars, known, postVars, patient, unanswered, died>>

\* PATCH with a quantity sets the line.
SetLine(u, v, q) ==
  /\ LoadActiveVariant(v)
  /\ cart' = [cart EXCEPT ![u][v] = q]
  /\ UNCHANGED <<vars, rollback, known, postVars, patient, unanswered, died>>

\* PATCH with 0 and DELETE of a line.
RemoveLine(u, v) ==
  /\ cart' = [cart EXCEPT ![u][v] = 0]
  /\ UNCHANGED <<vars, rollback, known, postVars, patient, unanswered, died>>

EmptyCart(u) == cart' = [cart EXCEPT ![u] = [v \in Variants |-> 0]]

\* DELETE /cart, or the TTL of a cart nobody touches.
ClearCart(u) ==
  /\ EmptyCart(u)
  /\ UNCHANGED <<vars, rollback, known, postVars, patient, unanswered, died>>

\* The row of a variant disappears while carts still name it.
RemoveVariant(v) ==
  /\ known' = known \ {v}
  /\ UNCHANGED <<vars, cart, rollback, postVars, patient, unanswered, died>>

CartRequest ==
  \/ \E a \in Adds, u \in Users, v \in Variants, q \in 1 .. MaxQty : AddLine(a, u, v, q)
  \/ \E a \in Adds : RollbackLine(a)
  \/ \E u \in Users, v \in Variants, q \in 1 .. Cap : SetLine(u, v, q)
  \/ \E u \in Users, v \in Variants : RemoveLine(u, v)
  \/ \E u \in Users : ClearCart(u)

-----------------------------------------------------------------------------
(* POST /checkout                                                          *)

Goto(c, s) == step' = [step EXCEPT ![c] = s]

\* Lines a reader of the hash takes into account.
Lines(u) ==
  LET vs == {v \in Variants : cart[u][v] > 0} IN [v \in vs |-> cart[u][v]]

\* Orders that are on their way, by a checkout or by the chain.
Open(c) == step[c] \notin {"start", "end", "abandoned"}

\* HGETALL of the cart; an empty one is refused.
ReadCart(c) ==
  LET u == PostOf[c] IN
  /\ step[c] = "start"
  /\ u \in patient => \A d \in Posts : PostOf[d] = u => ~Open(d)
  /\ snap' = [snap EXCEPT ![c] = Lines(u)]
  /\ Goto(c, IF DOMAIN Lines(u) = {} THEN "end" ELSE "reserve")
  /\ UNCHANGED <<vars, cartVars, answer, order, patient, unanswered, died>>

\* Mutant: the digest covers the variants but not the quantities.
IdemKeyOfVariants(c) == <<PostOf[c], [v \in DOMAIN snap[c] |-> 1]>>

\* _cart_idempotency_key: the user and the sorted lines.
IdemKey(c) == <<PostOf[c], snap[c]>>

\* ReserveStock succeeds, with a new reservation or the one of the key.
Reserve(c) ==
  /\ step[c] = "reserve"
  /\ \/ /\ ReserveHit(IdemKey(c))
        /\ answer' = [answer EXCEPT ![c] = idem[IdemKey(c)]]
     \/ \E r \in ResIds :
          /\ ReserveGrant(IdemKey(c), snap[c], r)
          /\ answer' = [answer EXCEPT ![c] = r]
  /\ Goto(c, "resolve")
  /\ UNCHANGED <<cartVars, snap, order, patient, unanswered, died>>

\* It is refused for want of stock or by the rate limiter, or does not get through;
\* or it does, and only the answer is lost.
ReserveFails(c) ==
  /\ step[c] = "reserve"
  /\ \/ UNCHANGED vars
     \/ ReserveStock(IdemKey(c), snap[c])
  /\ unanswered' = unanswered \cup (issued' \ issued)
  /\ Goto(c, "end")
  /\ UNCHANGED <<cartVars, snap, answer, order, patient, died>>

\* Mutant: the error is answered without ReleaseReservation.
ResolveWithoutRelease(c) ==
  /\ step[c] = "resolve"
  /\ Goto(c, IF DOMAIN snap[c] \subseteq known THEN "persist" ELSE "end")
  /\ UNCHANGED <<vars, cartVars, snap, answer, order, patient, unanswered, died>>

\* SELECT of the variants: all of them are there, or the reservation is released.
Resolve(c) ==
  /\ step[c] = "resolve"
  /\ Goto(c, IF DOMAIN snap[c] \subseteq known THEN "persist" ELSE "release")
  /\ UNCHANGED <<vars, cartVars, snap, answer, order, patient, unanswered, died>>

\* What ends a checkout between its reservation and its order with no release of it:
\* the SELECT of the variants raises, outside every try; the rollback of the failed
\* transaction raises inside the handler; or the API dies.
Abandon(c) ==
  /\ step[c] \in {"resolve", "persist"}
  /\ Goto(c, "abandoned")
  /\ UNCHANGED <<vars, cartVars, snap, answer, order, patient, unanswered, died>>

\* Order, items and Payment in one transaction: it commits; or it fails; or it
\* commits and only the answer is lost, which the handler takes for a failure.
Persist(c) ==
  /\ step[c] = "persist"
  /\ \/ Goto(c, "clear") /\ order' = [order EXCEPT ![c] = answer[c]] /\ UNCHANGED died
     \/ Goto(c, "release") /\ UNCHANGED <<order, died>>
     \/ /\ Cardinality(died) < MaxDeaths
        /\ Goto(c, "release") /\ order' = [order EXCEPT ![c] = answer[c]]
        /\ died' = died \cup {c}
  /\ UNCHANGED <<vars, cartVars, snap, answer, patient, unanswered>>

\* The compensating ReleaseReservation, step by step, or its failure.
Release(c) ==
  /\ step[c] = "release"
  /\ ReadHash(c, "release", answer[c])
  /\ Goto(c, IF reservation[answer[c]] = Absent THEN "end" ELSE "releasing")
  /\ UNCHANGED <<cartVars, snap, answer, order, patient, unanswered, died>>

ReleaseFails(c) ==
  /\ step[c] = "release"
  /\ unanswered' = unanswered \cup {answer[c]}
  /\ Goto(c, "end")
  /\ UNCHANGED <<vars, cartVars, snap, answer, order, patient, died>>

Releasing(c) ==
  /\ step[c] = "releasing"
  /\ \/ ((\E v \in Variants : ReleaseIncr(c, v)) \/ DelReservation(c)) /\ UNCHANGED step
     \/ DelIdem(c) /\ Goto(c, "end")
  /\ UNCHANGED <<cartVars, snap, answer, order, patient, unanswered, died>>

\* DEL of the cart, lines that were added since the HGETALL included.
Clear(c) ==
  /\ step[c] = "clear"
  /\ EmptyCart(PostOf[c])
  /\ Goto(c, "placed")
  /\ UNCHANGED <<vars, rollback, known, snap, answer, order, patient, unanswered, died>>

\* The API dies, or Redis or the broker fails, after the order was persisted.
BreakOff(c) ==
  /\ step[c] \in {"clear", "placed"}
  /\ Cardinality(died) < MaxDeaths
  /\ died' = died \cup {c}
  /\ Goto(c, "end")
  /\ UNCHANGED <<vars, cartVars, snap, answer, order, patient, unanswered>>

\* process_order hands the order to the chain, which commits the reservation; a
\* commit that Postgres refuses is tried again.
Fulfil(c) ==
  /\ step[c] = "placed"
  /\ ReadHash(c, "commit", order[c])
  /\ Goto(c, IF reservation[order[c]] = Absent THEN "end" ELSE "selling")
  /\ UNCHANGED <<cartVars, snap, answer, order, patient, unanswered, died>>

Selling(c) ==
  /\ step[c] = "selling"
  /\ \/ (CommitOnHand(c) \/ DelReservation(c)) /\ UNCHANGED step
     \/ CommitRefused(c) /\ Goto(c, "placed")
     \/ DelIdem(c) /\ Goto(c, "end")
  /\ UNCHANGED <<cartVars, snap, answer, order, patient, unanswered, died>>

CheckoutStep(c) ==
  \/ ReadCart(c) \/ Reserve(c) \/ ReserveFails(c) \/ Resolve(c) \/ Abandon(c) \/ Persist(c)
  \/ Release(c) \/ ReleaseFails(c) \/ Releasing(c)
  \/ Clear(c) \/ BreakOff(c) \/ Fulfil(c) \/ Selling(c)

CheckoutNext ==
  \/ CartRequest
  \/ \E v \in Variants : RemoveVariant(v)
  \/ \E c \in Posts : CheckoutStep(c)

CheckoutSpec == CheckoutInit /\ [][CheckoutNext]_allVars

-----------------------------------------------------------------------------
(* Properties                                                              *)

\* Units of a line that adds beyond the cap have still to take back.
Pending(u, v) ==
  UnitsIn([a \in {b \in Adds : rollback[b].user = u /\ rollback[b].variant = v}
             |-> rollback[a].qty])

\* However adds, sets, removals and checkouts of one user overlap, a line exceeds
\* the cap by no more than what requests in flight are about to take back, or what
\* requests that broke off before their second HINCRBY never took back.
CartWithinCap ==
  \A u \in Users, v \in Variants : cart[u][v] <= Cap + Pending(u, v)

\* An order is placed on a reservation of exactly its lines, whoever made it and
\* whichever retry, twin or lost answer it came from: the key tells carts apart.
OrderMatchesReservation ==
  \A c \in Posts :
    order[c] # Absent /\ reservation[order[c]] # Absent
      => reservation[order[c]].items = snap[c]

\* A checkout that broke off after its order was persisted.
Broken(c) == c \in died

\* The orders of a user who checks out again only when the last order is sold
\* stand on reservations of their own, and keep them until they are sold, unless a
\* checkout of the same lines broke off before it had emptied the cart.
PatientCheckoutsAreBacked ==
  \A c \in Posts :
    (PostOf[c] \in patient /\ order[c] # Absent) =>
      \/ \E d \in Posts : Broken(d) /\ order[d] = order[c]
      \/ /\ \A d \in Posts \ {c} : order[d] # order[c]
         /\ step[c] \in {"clear", "placed"} => reservation[order[c]] # Absent
         /\ step[c] = "end" => sold[order[c]] = 1

\* Checkouts that broke off holding a reservation, with no order and no release.
Abandoned(r) == \E c \in Posts : step[c] = "abandoned" /\ answer[c] = r

\* Units that are held once every checkout is answered are held by an order, unless
\* the answer or the release of their reservation got lost, or the checkout was
\* abandoned where the code sends no release at all.
NoStrandedReservation ==
  (\A c \in Posts : ~Open(c))
    => \A r \in ResIds : reservation[r] # Absent =>
         \/ r \in unanswered \/ Abandoned(r)
         \/ \E c \in Posts : order[c] = r
=============================================================================
