------------------------------- MODULE CartPage -------------------------------
(***************************************************************************)
(* The cart page, which is the checkout too: quantities, the coupon that   *)
(* is checked again when the subtotal changes, and the order.  Requests    *)
(* carry no number: an answer is shown when it comes.  Sources:            *)
(* apps/frontend/src/context/CartContext.tsx and                           *)
(* apps/frontend/src/app/[locale]/cart/.                                   *)
(*                                                                         *)
(* One product is in the cart; the coupon takes half off from MinOrder on. *)
(* What checkout() does statement by statement is in module Checkout; here *)
(* the backend answers in one step, and an answer may be lost on its way.  *)
(***************************************************************************)
EXTENDS Integers, Sequences, FiniteSets

CONSTANTS Shelf,            \* units of the product
          MinOrder,         \* Coupon.minOrderTotal
          MaxClicks,        \* bound: quantities, coupons and orders sent
          MaxElsewhere,     \* bound: changes by another tab or an admin
          MaxMissed         \* bound: answers that never come

ASSUME CartPageAssumption == {Shelf, MinOrder, MaxClicks, MaxElsewhere, MaxMissed} \subseteq Nat

VARIABLES cart,             \* backend: quantity of the line, price, coupon active, orders' totals
          shown,            \* CartContext: quantity, subtotal
          cartLoading,
          edits,            \* handlers of a quantity: sent, or served
          refreshes,        \* GET /cart on its way, read or not
          coupon,           \* discount shown, or none
          checks,           \* POST /coupons/validate on its way, answered or not
          order,            \* submit(): where it is, the total and the coupon it was sent with
          clicks, elsewhere, missed,
          crossings         \* what the properties remember: how an answer went astray

cartPageVars == <<cart, shown, cartLoading, edits, refreshes, coupon, checks, order, clicks, elsewhere, missed, crossings>>

NoCoupon == -1
Refused == -1
NoAnswerYet == -2
Subtotal(c) == c.quantity * c.price
checkAndComputeDiscount(sub) == IF cart.active /\ sub >= MinOrder THEN sub \div 2 ELSE Refused
total(sub, discount) == IF discount = NoCoupon THEN sub ELSE sub - discount
OrderTotal(withCoupon) == total(Subtotal(cart), IF withCoupon THEN checkAndComputeDiscount(Subtotal(cart)) ELSE NoCoupon)

NoOrder == [pc |-> "idle", total |-> 0, coupon |-> FALSE, settled |-> FALSE]
CartPageInit ==
    /\ cart = [quantity |-> 1, price |-> 2, active |-> TRUE, charged |-> <<>>]
    /\ shown = [quantity |-> 1, subtotal |-> 2] /\ cartLoading = FALSE
    /\ edits = {} /\ refreshes = {} /\ coupon = NoCoupon /\ checks = {} /\ order = NoOrder
    /\ clicks = 0 /\ elsewhere = 0 /\ missed = 0 /\ crossings = {}

click == clicks < MaxClicks /\ clicks' = clicks + 1
miss == missed < MaxMissed /\ missed' = missed + 1
CanPress == ~cartLoading /\ order.pc = "idle" /\ shown.quantity > 0

refresh(n) == refreshes' = refreshes \cup {[n |-> n, answer |-> cart, read |-> FALSE]} /\ cartLoading' = TRUE
OfOrder == MaxClicks        \* the number of submit()'s own refresh; the others have their handler's
validateCoupon(n, sub, why) == [n |-> n, sub |-> sub, why |-> why, answer |-> NoAnswerYet]
-------------------------------------------------------------------------------
(* The cart.                                                               *)
CartLine ==                 \* - and + send what is shown plus or minus one; Remove sends 0
    /\ CanPress /\ click
    /\ \E q \in {0, shown.quantity - 1, shown.quantity + 1} :
         edits' = edits \cup {[n |-> clicks, quantity |-> q, served |-> FALSE]}
    /\ UNCHANGED <<cart, shown, cartLoading, refreshes, coupon, checks, order, elsewhere, missed, crossings>>

fits(e) == e.quantity <= Shelf
updateItem(e) ==            \* refused past the stock, or when the line is gone
    /\ ~e.served
    /\ cart' = IF fits(e) /\ cart.quantity > 0 THEN [cart EXCEPT !.quantity = e.quantity] ELSE cart
    /\ edits' = (edits \ {e}) \cup {[e EXCEPT !.served = TRUE]}
    /\ UNCHANGED <<shown, cartLoading, refreshes, coupon, checks, order, clicks, elsewhere, missed, crossings>>

updateQuantity(e) ==        \* done or refused, the cart is read again
    /\ e.served /\ edits' = edits \ {e} /\ refresh(e.n)
    /\ UNCHANGED <<cart, shown, coupon, checks, order, clicks, elsewhere, missed, crossings>>

getCart(r) ==
    /\ ~r.read /\ refreshes' = (refreshes \ {r}) \cup {[r EXCEPT !.answer = cart, !.read = TRUE]}
    /\ UNCHANGED <<cart, shown, cartLoading, edits, coupon, checks, order, clicks, elsewhere, missed, crossings>>

\* mutant: a code applied once is not looked at again.
recheckNever(sub) == FALSE
\* Is the coupon checked again for this subtotal?
recheck(sub) == coupon # NoCoupon /\ sub > 0 /\ order.pc = "idle"

refreshed(r) ==
    LET sub == Subtotal(r.answer) IN
    /\ r.read /\ refreshes' = refreshes \ {r} /\ cartLoading' = FALSE
    /\ shown' = [quantity |-> r.answer.quantity, subtotal |-> sub]
    /\ checks' = IF sub # shown.subtotal /\ recheck(sub) THEN checks \cup {validateCoupon(r.n, sub, "again")} ELSE checks
    /\ crossings' = crossings \cup (IF refreshes # {r} \/ edits # {} THEN {"cart"} ELSE {})
                              \cup (IF sub # shown.subtotal /\ coupon # NoCoupon /\ order.pc # "idle" THEN {"skipped"} ELSE {})
                              \cup (IF sub # shown.subtotal /\ checks # {} THEN {"coupon"} ELSE {})
    /\ order' = IF r.n = OfOrder THEN [order EXCEPT !.pc = "paying"] ELSE order
    /\ UNCHANGED <<cart, edits, coupon, clicks, elsewhere, missed>>

refreshLost(r) ==           \* an error status, or no answer: then the page waits until it is reloaded
    /\ miss /\ refreshes' = refreshes \ {r}
    /\ \E waits \in BOOLEAN :
         /\ cartLoading' = (waits /\ cartLoading)
         /\ order' = IF r.n = OfOrder THEN [order EXCEPT !.pc = IF waits THEN "stuck" ELSE "paying"] ELSE order
    /\ UNCHANGED <<cart, shown, edits, coupon, checks, clicks, elsewhere, crossings>>
-------------------------------------------------------------------------------
(* The coupon.                                                             *)
applyCoupon ==
    /\ CanPress /\ coupon = NoCoupon /\ click /\ (\A c \in checks : c.why # "apply")
    /\ checks' = checks \cup {validateCoupon(clicks, shown.subtotal, "apply")}
    /\ UNCHANGED <<cart, shown, cartLoading, edits, refreshes, coupon, order, elsewhere, missed, crossings>>

removeCoupon ==
    /\ CanPress /\ coupon # NoCoupon /\ coupon' = NoCoupon /\ click
    /\ crossings' = IF checks = {} THEN crossings ELSE crossings \cup {"removed"}
    /\ UNCHANGED <<cart, shown, cartLoading, edits, refreshes, checks, order, elsewhere, missed>>

validate(c) ==
    /\ c.answer = NoAnswerYet
    /\ checks' = (checks \ {c}) \cup {[c EXCEPT !.answer = checkAndComputeDiscount(c.sub)]}
    /\ UNCHANGED <<cart, shown, cartLoading, edits, refreshes, coupon, order, clicks, elsewhere, missed, crossings>>

validated(c) ==             \* an apply answered after the subtotal changed is not checked again
    /\ c.answer # NoAnswerYet /\ checks' = checks \ {c} /\ coupon' = c.answer
    /\ crossings' = IF c.sub = shown.subtotal THEN crossings ELSE crossings \cup {"coupon"}
    /\ UNCHANGED <<cart, shown, cartLoading, edits, refreshes, order, clicks, elsewhere, missed>>

validateLost(c) ==
    /\ miss /\ checks' = checks \ {c}
    /\ UNCHANGED <<cart, shown, cartLoading, edits, refreshes, coupon, order, clicks, elsewhere, crossings>>
-------------------------------------------------------------------------------
(* The order.                                                              *)
Settled == edits = {} /\ refreshes = {} /\ checks = {} /\ crossings = {} /\ elsewhere = 0 /\ missed = 0

submit ==
    /\ CanPress /\ click
    /\ order' = [pc |-> "sent", total |-> total(shown.subtotal, coupon), coupon |-> coupon # NoCoupon, settled |-> Settled]
    /\ UNCHANGED <<cart, shown, cartLoading, edits, refreshes, coupon, checks, elsewhere, missed, crossings>>

checkout ==
    /\ order.pc = "sent"
    /\ IF cart.quantity > 0 /\ (order.coupon => checkAndComputeDiscount(Subtotal(cart)) # Refused)
       THEN /\ cart' = [cart EXCEPT !.quantity = 0, !.charged = Append(@, OrderTotal(order.coupon))]
            /\ order' = [order EXCEPT !.pc = "created"]
       ELSE cart' = cart /\ order' = [order EXCEPT !.pc = "refused"]
    /\ UNCHANGED <<shown, cartLoading, edits, refreshes, coupon, checks, clicks, elsewhere, missed, crossings>>

ordered ==                  \* placed: read the emptied cart before going on
    /\ order.pc = "created" /\ order' = [order EXCEPT !.pc = "placed"] /\ refresh(OfOrder)
    /\ UNCHANGED <<cart, shown, edits, coupon, checks, clicks, elsewhere, missed, crossings>>

afterRefusal == NoOrder
failed ==
    /\ order.pc = "refused" /\ order' = afterRefusal
    /\ UNCHANGED <<cart, shown, cartLoading, edits, refreshes, coupon, checks, clicks, elsewhere, missed, crossings>>

\* Paid or not, the customer leaves for the provider or the order's page.
payOrder ==
    /\ order.pc = "paying" /\ order' = [order EXCEPT !.pc = "left"]
    /\ UNCHANGED <<cart, shown, cartLoading, edits, refreshes, coupon, checks, clicks, elsewhere, missed, crossings>>

submitLost ==               \* submitting stays on
    /\ order.pc \in {"created", "refused", "paying"} /\ miss /\ order' = [order EXCEPT !.pc = "stuck"]
    /\ UNCHANGED <<cart, shown, cartLoading, edits, refreshes, coupon, checks, clicks, elsewhere, crossings>>

changeElsewhere ==
    /\ elsewhere < MaxElsewhere /\ elsewhere' = elsewhere + 1
    /\ \/ cart' = [cart EXCEPT !.price = 3]
       \/ cart' = [cart EXCEPT !.active = FALSE]
       \/ \E q \in 0 .. Shelf : cart' = [cart EXCEPT !.quantity = q]
    /\ UNCHANGED <<shown, cartLoading, edits, refreshes, coupon, checks, order, clicks, missed, crossings>>
-------------------------------------------------------------------------------
Answers ==
    \/ \E e \in edits : updateItem(e) \/ updateQuantity(e)
    \/ \E r \in refreshes : getCart(r) \/ refreshed(r)
    \/ \E c \in checks : validate(c) \/ validated(c)
    \/ checkout \/ ordered \/ failed \/ payOrder

CartPageNext ==
    \/ CartLine \/ applyCoupon \/ removeCoupon \/ submit \/ changeElsewhere \/ Answers \/ submitLost
    \/ \E r \in refreshes : refreshLost(r)
    \/ \E c \in checks : validateLost(c)

\* A request that is not lost is served and answered.
CartPageFairness == WF_cartPageVars(Answers)
CartPageSpec == CartPageInit /\ [][CartPageNext]_cartPageVars /\ CartPageFairness
-------------------------------------------------------------------------------
\* Once every answer is there, the total on the button is that of the cart and
\* the coupon in the database, unless answers crossed or someone else acted
\* (use-checkout.ts:69 "this keeps the total shown honest"), and an order sent
\* from such a page charges the total that was on its button.
ShownIsCharged ==
    /\ Settled /\ order.pc = "idle" =>
        /\ shown = [quantity |-> cart.quantity, subtotal |-> Subtotal(cart)]
        /\ shown.quantity > 0 => coupon \in {NoCoupon, checkAndComputeDiscount(shown.subtotal)}
    /\ order.pc \in {"created", "placed", "paying", "left"} /\ order.settled /\ elsewhere = 0 => cart.charged = <<order.total>>

\* Whatever is pressed meanwhile, an order sent ends with an error shown or
\* with the customer on her way, when no answer is lost.
SubmitSettles == order.pc # "idle" ~> order.pc \in {"idle", "left"} \/ missed > 0
===============================================================================
