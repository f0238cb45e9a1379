---------------------------- MODULE PurchaseProofs ----------------------------
(***************************************************************************)
(* The total on the button is the total charged, cash is chosen once, and  *)
(* the tracker never goes back, for any shelf, coupon and number of polls, *)
(* clicks and failures.  Each page is reasoned about by its own            *)
(* specification: while the customer is on the other page, it stutters.    *)
(***************************************************************************)
EXTENDS Purchase, TLAPS

LEMMA StepsOfPages ==
    ASSUME [PurchaseNext]_purchaseVars
    PROVE  [CartPageNext]_cartPageVars /\ [OrderPageNext]_orderPageVars
BY DEF PurchaseNext, OnCart, OnOrder, purchaseVars

-----------------------------------------------------------------------------
(* The order page                                                          *)

\* The furthest step an order in this status may have been shown on: moves
\* never lower it, and a status on the way shows exactly this step.
Reach(status) ==
    CASE status \in {"PAYMENT_PENDING", "PAYMENT_FAILED", "EXPIRED", "CANCELLED"} -> 1
      [] status \in {"PAID", "PROCESSING"} -> 2
      [] status = "SHIPPED" -> 3
      [] OTHER -> 4

OrderPageTyped ==
    /\ purchase \in [status : OrderStatuses, pending : SUBSET {"online", "cash"}]
    /\ payment \in [method : {"none", "online", "cash"}, answer : {"none", "ok", "refused", "lost"}]
    /\ cashChosen \in Nat /\ lostReads \in Nat /\ asks \in Nat
    /\ passedBy \in BOOLEAN /\ furthest \in 0 .. 4

Wants(o) == o.status = "PAYMENT_PENDING" /\ "cash" \notin o.pending

\* Without an answer overtaken, what was shown is no further than the order got.
TrackerInv == ~passedBy => furthest <= Reach(purchase.status) /\ trackerStep(view.status) \in {0, furthest}

\* Once cash is recorded the order no longer asks for it, nor does the page, save
\* between the answer and the read that follows.
CashInv ==
    ~passedBy /\ lostReads = 0 =>
        /\ cashChosen \in {0, 1}
        /\ cashChosen = 1 =>
             /\ ~Wants(purchase)
             /\ payment.method # "none" => payment.answer # "none"
             /\ payment = [method |-> "cash", answer |-> "ok"] \/ pageLoading \/ ~Wants(view)

OrderPageInv == OrderPageTyped /\ TrackerInv /\ CashInv

-----------------------------------------------------------------------------
(* The cart page                                                           *)

Carts == [quantity : Nat, price : {2, 3}, active : BOOLEAN, charged : Seq(Int)]
Edits == [n : Nat, quantity : Nat, served : BOOLEAN]
Refreshes == [n : Nat, answer : Carts, read : BOOLEAN]
Checks == [n : Nat, sub : Nat, why : {"apply", "again"}, answer : Int]
Sendings == [pc : {"idle", "sent", "created", "refused", "placed", "paying", "left", "stuck"},
             total : Int, coupon : BOOLEAN, settled : BOOLEAN]

CartPageTyped ==
    /\ cart \in Carts /\ shown \in [quantity : Nat, subtotal : Nat] /\ cartLoading \in BOOLEAN
    /\ edits \in SUBSET Edits /\ refreshes \in SUBSET Refreshes /\ checks \in SUBSET Checks
    /\ coupon \in Int /\ order \in Sendings
    /\ clicks \in Nat /\ elsewhere \in Nat /\ missed \in Nat

Straight == crossings = {} /\ elsewhere = 0 /\ missed = 0
Unsold == order.pc \in {"idle", "sent", "refused"}
Discount(sub) == IF sub >= MinOrder THEN sub \div 2 ELSE Refused

\* submit()'s own refresh is the only one with its number, and there is none
\* before the order is placed or after it was answered.
OneOfOrder ==
    /\ \A e \in edits : e.n < MaxClicks
    /\ \A r \in refreshes : r.n < MaxClicks \/ (r.n = MaxClicks /\ order.pc = "placed")
    /\ \A r, s \in refreshes : r.n = MaxClicks /\ s.n = MaxClicks => r = s

\* Nobody else changed the price or the coupon.
AsItWas == elsewhere = 0 => cart.price = 2 /\ cart.active

\* With nothing on its way the page shows the cart, and a refresh that was read
\* and has nothing on its way beside it brings the cart.
UpToDate ==
    Straight /\ Unsold =>
        /\ refreshes # {} => cartLoading
        /\ (\A e \in edits : ~e.served) /\ refreshes = {} =>
             shown.quantity = cart.quantity /\ shown.subtotal = Subtotal(cart)
        /\ \A r \in refreshes : (\A e \in edits : ~e.served) /\ refreshes = {r} /\ r.read =>
             r.answer.quantity = cart.quantity /\ Subtotal(r.answer) = Subtotal(cart)

\* The discount is the one for the subtotal shown, or a check of it is on its way.
CouponFits ==
    Straight =>
        /\ \A c \in checks : c.answer \in {NoAnswerYet, Discount(c.sub)}
        /\ \/ coupon = NoCoupon \/ shown.subtotal = 0 \/ coupon = Discount(shown.subtotal)
           \/ \E c \in checks : c.sub = shown.subtotal

\* An order sent from a settled page is for what the database holds.
SentIsKept ==
    /\ order.pc = "idle" => ~order.settled
    /\ Unsold => cart.charged = <<>>
    /\ order.pc = "sent" /\ order.settled /\ elsewhere = 0 =>
         /\ edits = {} /\ refreshes = {} /\ checks = {}
         /\ order.total = total(Subtotal(cart), IF order.coupon THEN Discount(Subtotal(cart)) ELSE NoCoupon)
    /\ order.pc \in {"created", "placed", "paying", "left"} /\ order.settled /\ elsewhere = 0 => cart.charged = <<order.total>>

CartPageInv == CartPageTyped /\ OneOfOrder /\ AsItWas /\ UpToDate /\ CouponFits /\ SentIsKept
-----------------------------------------------------------------------------

LEMMA Steps ==
    ASSUME NEW status
    PROVE  trackerStep(status) \in {0, Reach(status)}
BY DEF trackerStep, STEP, Reach

LEMMA StepsOfStatuses ==
    ASSUME NEW status
    PROVE  trackerStep(status) \in 0 .. 4 /\ Reach(status) \in 1 .. 4
BY DEF trackerStep, STEP, Reach

\* A move of the state machine never takes an order out of reach of what was shown.
LEMMA MovesReach ==
    ASSUME NEW actor \in Actors, NEW from \in OrderStatuses, NEW to \in OrderStatuses, canTransition(actor, from, to)
    PROVE  Reach(from) <= Reach(to) /\ to # "PAYMENT_PENDING"
<1>1. <<from, to>> \in AllowedSystem \cup AllowedAdmin
  BY DEF canTransition
<1>2. \A p \in AllowedSystem \cup AllowedAdmin : Reach(p[1]) <= Reach(p[2]) /\ p[2] # "PAYMENT_PENDING"
  BY DEF AllowedSystem, AllowedAdmin, Moves, Reach
<1> QED
  BY <1>1, <1>2

LEMMA InitOrderPage == OrderPageInit \/ OrderPageNotOpened => OrderPageInv
<1> SUFFICES ASSUME OrderPageInit \/ OrderPageNotOpened PROVE OrderPageInv
  OBVIOUS
<1>1. /\ purchase.status = "PAYMENT_PENDING" /\ purchase \in [status : OrderStatuses, pending : SUBSET {"online", "cash"}]
      /\ view = Unknown /\ payment = NotPaying /\ cashChosen = 0 /\ lostReads = 0 /\ asks = 0 /\ furthest = 0
  BY DEF OrderPageInit, OrderPageNotOpened, OrderStatuses
<1>2. passedBy = FALSE
  BY Zenon DEF OrderPageInit, OrderPageNotOpened
<1>3. trackerStep(view.status) = 0 /\ Reach(purchase.status) = 1
  BY <1>1 DEF trackerStep, STEP, Reach, Unknown
<1>4. OrderPageTyped
  <2>1. passedBy \in BOOLEAN
    BY <1>2, Zenon
  <2> QED
    BY <1>1, <2>1 DEF OrderPageTyped, NotPaying
<1>5. TrackerInv /\ CashInv
  BY <1>1, <1>3 DEF TrackerInv, CashInv
<1> QED
  BY <1>4, <1>5 DEF OrderPageInv

\* A step that leaves the order, the payment, the counters and what the
\* properties remember alone only has to keep the page from asking again.
LEMMA OrderPageAside ==
    ASSUME OrderPageInv, UNCHANGED <<purchase, passedBy, furthest, cashChosen>>,
           asks' \in Nat, lostReads' \in Nat, lostReads' >= lostReads,
           payment' \in {payment, NotPaying},
           view' \in {view, Unknown},
           \/ lostReads' > 0 \/ pageLoading' \/ view' = Unknown
           \/ UNCHANGED <<view, payment, pageLoading>>
           \/ payment.answer = "refused" /\ UNCHANGED <<view, pageLoading>>
    PROVE  OrderPageInv'
<1> USE DEF OrderPageInv
<1>1. OrderPageTyped'
  BY DEF OrderPageTyped, NotPaying
<1>2. trackerStep(Unknown.status) = 0 /\ ~Wants(Unknown) /\ NotPaying.method = "none"
  BY DEF trackerStep, STEP, Unknown, Wants, NotPaying
<1>3. TrackerInv'
  BY <1>2 DEF TrackerInv
<1>4. CashInv'
  <2> SUFFICES ASSUME ~passedBy, lostReads' = 0, cashChosen = 1
               PROVE  /\ payment'.method # "none" => payment'.answer # "none"
                      /\ payment' = [method |-> "cash", answer |-> "ok"] \/ pageLoading' \/ ~Wants(view')
    BY DEF CashInv, OrderPageTyped, Wants
  <2>1. lostReads = 0
    BY DEF OrderPageTyped
  <2>2. /\ payment.method # "none" => payment.answer # "none"
        /\ payment = [method |-> "cash", answer |-> "ok"] \/ pageLoading \/ ~Wants(view)
    BY <2>1 DEF CashInv
  <2>3. payment'.method # "none" => payment'.answer # "none"
    BY <2>2, <1>2
  <2>4. CASE pageLoading' \/ view' = Unknown
    BY <2>3, <2>4, <1>2
  <2>5. CASE UNCHANGED <<view, payment, pageLoading>>
    BY <2>2, <2>5
  <2>6. CASE payment.answer = "refused" /\ UNCHANGED <<view, pageLoading>>
    <3>1. payment # [method |-> "cash", answer |-> "ok"]
      BY <2>6
    <3> QED
      BY <2>2, <2>3, <2>6, <3>1
  <2> QED
    BY <2>4, <2>5, <2>6
<1> QED
  BY <1>1, <1>3, <1>4

LEMMA AnsweredOrderPage == ASSUME OrderPageInv, NEW q, answered(q) PROVE OrderPageInv'
<1> USE DEF OrderPageInv
<1>1. /\ q.done /\ view' = q.seen /\ payment' \in {payment, NotPaying} /\ pageLoading' = (pageLoading /\ q.span # 0)
      /\ furthest' = Furthest(q.seen.status) /\ UNCHANGED <<purchase, cashChosen, asks, lostReads>>
  BY DEF answered
<1>2. passedBy' = (passedBy \/ q.seen # purchase)
  BY DEF answered
<1>3. passedBy' \in BOOLEAN /\ (~passedBy' => ~passedBy /\ q.seen = purchase)
  BY <1>2, Zenon
<1>4. OrderPageTyped'
  <2>1. furthest' \in 0 .. 4
    BY <1>1, StepsOfStatuses DEF Furthest, OrderPageTyped
  <2> QED
    BY <1>1, <1>3, <2>1 DEF OrderPageTyped, NotPaying
<1>5. TrackerInv'
  <2> SUFFICES ASSUME ~passedBy' PROVE furthest' <= Reach(purchase'.status) /\ trackerStep(view'.status) \in {0, furthest'}
    BY DEF TrackerInv
  <2>1. /\ furthest <= Reach(purchase.status) /\ view' = purchase /\ furthest' = Furthest(purchase.status)
    BY <1>1, <1>3 DEF TrackerInv
  <2>2. furthest \in 0 .. 4
    BY DEF OrderPageTyped
  <2> DEFINE step == trackerStep(purchase.status)
             reach == Reach(purchase.status)
  <2>3. step \in {0, reach} /\ step \in 0 .. 4 /\ reach \in 1 .. 4
    BY Steps, StepsOfStatuses
  <2>4. trackerStep(view'.status) = step /\ Reach(purchase'.status) = reach /\ furthest' = IF step > furthest THEN step ELSE furthest
    BY <1>1, <2>1 DEF Furthest
  <2>5. furthest <= reach
    BY <2>1
  <2> HIDE DEF step, reach
  <2> QED
    BY <2>2, <2>3, <2>4, <2>5
<1>6. CashInv'
  <2> SUFFICES ASSUME ~passedBy', lostReads' = 0, cashChosen = 1
               PROVE  /\ payment'.method # "none" => payment'.answer # "none"
                      /\ ~Wants(view')
    BY <1>1, <1>3 DEF CashInv, Wants
  <2>1. ~Wants(purchase) /\ (payment.method # "none" => payment.answer # "none") /\ view' = purchase
    BY <1>1, <1>3 DEF CashInv
  <2> QED
    BY <1>1, <2>1 DEF Wants, NotPaying
<1> QED
  BY <1>4, <1>5, <1>6

LEMMA PayServedOrderPage == ASSUME OrderPageInv, payServed PROVE OrderPageInv'
<1> USE DEF OrderPageInv
<1> DEFINE open == purchase.status = "PAYMENT_PENDING"
           added == [purchase EXCEPT !.pending = @ \cup {payment.method}]
           told == [payment EXCEPT !.answer = IF open THEN "ok" ELSE "refused"]
<1>1. /\ payment.method # "none" /\ payment.answer = "none"
      /\ purchase' = (IF open THEN added ELSE purchase) /\ payment' = told
      /\ cashChosen' = cashChosen + (IF open /\ payment.method = "cash" THEN 1 ELSE 0)
      /\ UNCHANGED <<view, pageLoading, lostReads, asks, passedBy, furthest>>
  BY DEF payServed
<1>2. /\ payment \in [method : {"none", "online", "cash"}, answer : {"none", "ok", "refused", "lost"}]
      /\ purchase \in [status : OrderStatuses, pending : SUBSET {"online", "cash"}]
      /\ cashChosen \in Nat
  BY DEF OrderPageTyped
<1>3. /\ added.status = purchase.status /\ added.pending = purchase.pending \cup {payment.method}
      /\ added \in [status : OrderStatuses, pending : SUBSET {"online", "cash"}]
      /\ told \in [method : {"none", "online", "cash"}, answer : {"none", "ok", "refused", "lost"}]
      /\ told.method = payment.method /\ told.answer = IF open THEN "ok" ELSE "refused"
  BY <1>1, <1>2
<1> HIDE DEF added, told
<1>4. cashChosen' \in Nat
  BY <1>1, <1>2
<1>5. OrderPageTyped'
  BY <1>1, <1>3, <1>4 DEF OrderPageTyped
<1>6. TrackerInv'
  <2>1. purchase'.status = purchase.status
    BY <1>1, <1>3
  <2> QED
    BY <1>1, <2>1 DEF TrackerInv
<1>7. CashInv'
  <2> SUFFICES ASSUME ~passedBy, lostReads = 0 PROVE CashInv'
    BY <1>1 DEF CashInv
  <2>1. cashChosen = 0
    BY <1>1 DEF CashInv
  <2>2. CASE open /\ payment.method = "cash"
    <3>1. cashChosen' = 1 /\ ~Wants(purchase') /\ payment'.answer = "ok"
      BY <1>1, <1>3, <2>1, <2>2 DEF Wants
    <3>2. payment' = [method |-> "cash", answer |-> "ok"]
      BY <1>1, <1>2, <1>3, <2>2
    <3> QED
      BY <3>1, <3>2 DEF CashInv
  <2>3. CASE ~(open /\ payment.method = "cash")
    <3>1. cashChosen' = 0
      BY <1>1, <2>1, <2>3
    <3> QED
      BY <3>1 DEF CashInv
  <2> QED
    BY <2>2, <2>3
<1> QED
  BY <1>5, <1>6, <1>7

LEMMA PayOrderPage == ASSUME OrderPageInv, NEW method \in {"online", "cash"}, pay(method) PROVE OrderPageInv'
<1> USE DEF OrderPageInv
<1>1. /\ PayOrderPanel /\ payment = NotPaying /\ payment' = [method |-> method, answer |-> "none"] /\ asks' = asks + 1
      /\ UNCHANGED <<purchase, view, pageLoading, cashChosen, lostReads, passedBy, furthest>>
  BY DEF pay
<1>2. ~pageLoading /\ Wants(view)
  BY <1>1 DEF PayOrderPanel, needsPayment, isAwaitingCash, Wants
<1>3. OrderPageTyped'
  BY <1>1 DEF OrderPageTyped
<1>4. TrackerInv'
  BY <1>1 DEF TrackerInv
<1>5. payment.method = "none"
  BY <1>1 DEF NotPaying
<1>6. ~passedBy /\ lostReads = 0 => cashChosen = 0
  BY <1>2, <1>5 DEF CashInv
<1>7. CashInv'
  BY <1>1, <1>6 DEF CashInv
<1> QED
  BY <1>3, <1>4, <1>7

LEMMA BackendOrderPage == ASSUME OrderPageInv, backend PROVE OrderPageInv'
<1> USE DEF OrderPageInv
<1> DEFINE failed_ == [purchase EXCEPT !.pending = @ \ {"online"}]
<1>1. UNCHANGED <<view, pageLoading, payment, cashChosen, asks, lostReads, passedBy, furthest>>
  BY DEF backend
<1>2. purchase \in [status : OrderStatuses, pending : SUBSET {"online", "cash"}] /\ furthest \in 0 .. 4
  BY DEF OrderPageTyped
<1>3. /\ purchase' \in [status : OrderStatuses, pending : SUBSET {"online", "cash"}]
      /\ Reach(purchase.status) <= Reach(purchase'.status)
      /\ Wants(purchase') => Wants(purchase)
  <2>1. CASE purchase' = failed_
    <3>1. /\ failed_ \in [status : OrderStatuses, pending : SUBSET {"online", "cash"}]
          /\ failed_.status = purchase.status /\ failed_.pending = purchase.pending \ {"online"}
      BY <1>2
    <3> HIDE DEF failed_
    <3>2. Reach(purchase.status) \in 1 .. 4
      BY StepsOfStatuses
    <3> QED
      BY <2>1, <3>1, <3>2 DEF Wants
  <2>2. ASSUME NEW to \in Followed, NEW actor \in Actors, canTransition(actor, purchase.status, to),
               purchase' = [status |-> to, pending |-> {}]
        PROVE  <1>3
    <3>1. to \in OrderStatuses
      BY <2>2, OrderPageAssumption
    <3>2. Reach(purchase.status) <= Reach(to) /\ to # "PAYMENT_PENDING"
      BY <1>2, <2>2, <3>1, MovesReach
    <3> QED
      BY <2>2, <3>1, <3>2 DEF Wants
  <2> QED
    BY <2>1, <2>2 DEF backend
<1>4. Reach(purchase.status) \in 1 .. 4 /\ Reach(purchase'.status) \in 1 .. 4
  BY StepsOfStatuses
<1>5. OrderPageTyped'
  BY <1>1, <1>3 DEF OrderPageTyped
<1>6. TrackerInv'
  BY <1>1, <1>2, <1>3, <1>4 DEF TrackerInv
<1>7. CashInv'
  BY <1>1, <1>3 DEF CashInv, Wants
<1> QED
  BY <1>5, <1>6, <1>7

LEMMA NextOrderPage == OrderPageInv /\ [OrderPageNext]_orderPageVars => OrderPageInv'
<1> SUFFICES ASSUME OrderPageInv, [OrderPageNext]_orderPageVars PROVE OrderPageInv'
  OBVIOUS
<1>0. /\ lostReads \in Nat /\ asks \in Nat
      /\ payment \in [method : {"none", "online", "cash"}, answer : {"none", "ok", "refused", "lost"}]
  BY DEF OrderPageInv, OrderPageTyped
<1>1. CASE pollTick \/ \E q \in reads : findOne(q)
  <2>1. UNCHANGED <<purchase, view, pageLoading, payment, cashChosen, asks, lostReads, passedBy, furthest>>
    BY <1>1 DEF pollTick, findOne
  <2>2. lostReads' \in Nat /\ asks' \in Nat /\ lostReads' >= lostReads
    BY <1>0, <2>1
  <2> QED
    BY <2>1, <2>2, OrderPageAside
<1>2. CASE tryAgain
  BY <1>0, <1>2, OrderPageAside DEF tryAgain, load
<1>3. CASE visitAgain
  BY <1>0, <1>3, OrderPageAside DEF visitAgain
<1>4. CASE payLost
  <2>1. OrderPageTyped' /\ TrackerInv' /\ lostReads' > 0
    BY <1>0, <1>4 DEF payLost, loseRead, OrderPageInv, OrderPageTyped, TrackerInv
  <2> QED
    BY <2>1 DEF OrderPageInv, CashInv
<1>5. ASSUME NEW q \in reads, readLost(q) PROVE OrderPageInv'
  <2>1. /\ lostReads' > 0 /\ lostReads' \in Nat /\ view' = view /\ payment' \in {payment, NotPaying}
        /\ UNCHANGED <<purchase, cashChosen, asks, passedBy, furthest>>
    BY <1>0, <1>5 DEF readLost, loseRead
  <2>2. lostReads' = lostReads + 1
    BY <1>5 DEF readLost, loseRead
  <2> QED
    BY <1>0, <2>1, <2>2, OrderPageAside
<1>6. CASE payAnswered
  <2>1. /\ payment.answer # "none" /\ payment' = NotPaying
        /\ UNCHANGED <<purchase, cashChosen, asks, lostReads, passedBy, furthest>>
    BY <1>6 DEF payAnswered
  <2>2. \/ payment.answer = "refused" /\ UNCHANGED <<view, pageLoading>>
        \/ pageLoading' /\ view' = view
        \/ pageLoading' /\ view' = Unknown
    BY <1>6 DEF payAnswered, onPaid, load
  <2> QED
    BY <1>0, <2>1, <2>2, OrderPageAside
<1>7. CASE UNCHANGED orderPageVars
  BY <1>0, <1>7, OrderPageAside DEF orderPageVars
<1> QED
  BY <1>1, <1>2, <1>3, <1>4, <1>5, <1>6, <1>7, AnsweredOrderPage, PayServedOrderPage, PayOrderPage, BackendOrderPage
     DEF OrderPageNext, Arrives

\* No move of the order takes her tracker back, unless an older answer came last
\* (OrderTracker, however often the page polls or is opened again).
THEOREM TrackerGoesForward == PurchaseSpec => []TrackerNeverGoesBack
<1>1. PurchaseInit => OrderPageInv
  BY InitOrderPage DEF PurchaseInit
<1>2. OrderPageInv /\ [PurchaseNext]_purchaseVars => OrderPageInv'
  BY NextOrderPage, StepsOfPages
<1>3. OrderPageInv => TrackerNeverGoesBack
  BY DEF OrderPageInv, OrderPageTyped, TrackerInv, TrackerNeverGoesBack
<1> QED
  BY <1>1, <1>2, <1>3, PTL DEF PurchaseSpec

\* Cash is recorded once, unless an answer was overtaken or lost (PayOrderPanel:
\* the read that follows the choice takes the panel away).
THEOREM CashIsChosenOnce == PurchaseSpec => []CashChosenOnce
<1>1. PurchaseInit => OrderPageInv
  BY InitOrderPage DEF PurchaseInit
<1>2. OrderPageInv /\ [PurchaseNext]_purchaseVars => OrderPageInv'
  BY NextOrderPage, StepsOfPages
<1>3. OrderPageInv => CashChosenOnce
  BY DEF OrderPageInv, OrderPageTyped, CashInv, CashChosenOnce
<1> QED
  BY <1>1, <1>2, <1>3, PTL DEF PurchaseSpec

-----------------------------------------------------------------------------
(* The cart page, step by step                                             *)

LEMMA Amounts ==
    /\ \A c \in Carts : Subtotal(c) \in Nat
    /\ \A c, d \in Carts : c.quantity = d.quantity /\ c.price = d.price => Subtotal(c) = Subtotal(d)
    /\ \A c \in Carts : c.price = 2 /\ Subtotal(c) = 0 => c.quantity = 0
    /\ \A sub \in Nat : Discount(sub) \in Int
    /\ \A sub, discount \in Int : total(sub, discount) \in Int
<1>0. \A m, n \in Nat : m * n \in Nat
  OBVIOUS
<1>1. \A c \in Carts : Subtotal(c) \in Nat
  <2> SUFFICES ASSUME NEW c \in Carts PROVE Subtotal(c) \in Nat
    OBVIOUS
  <2>1. c.quantity \in Nat /\ c.price \in Nat
    BY DEF Carts
  <2> QED
    BY <1>0, <2>1, Zenon DEF Subtotal
<1>2. \A c, d \in Carts : c.quantity = d.quantity /\ c.price = d.price => Subtotal(c) = Subtotal(d)
  BY Zenon DEF Subtotal
<1>3. \A c \in Carts : c.price = 2 /\ Subtotal(c) = 0 => c.quantity = 0
  <2>1. \A m \in Nat : m * 2 = 0 => m = 0
    OBVIOUS
  <2>2. \A c \in Carts : c.quantity \in Nat
    BY DEF Carts
  <2> QED
    BY <2>1, <2>2, Zenon DEF Subtotal
<1>4. \A sub \in Nat : Discount(sub) \in Int
  <2>1. MinOrder \in Nat
    BY CartPageAssumption
  <2> QED
    BY <2>1 DEF Discount, Refused
<1>5. \A sub, discount \in Int : total(sub, discount) \in Int
  BY DEF total
<1> QED
  BY <1>1, <1>2, <1>3, <1>4, <1>5

LEMMA BoundOfClicks == MaxClicks \in Nat
BY CartPageAssumption

LEMMA MovesOfOrder ==
    ASSUME order \in Sendings, NEW pc \in {"idle", "sent", "created", "refused", "placed", "paying", "left", "stuck"},
           order' = [order EXCEPT !.pc = pc]
    PROVE  /\ order' \in Sendings /\ order'.pc = pc
           /\ order'.total = order.total /\ order'.coupon = order.coupon /\ order'.settled = order.settled
BY DEF Sendings

LEMMA InitCartPage == CartPageInit => CartPageInv
<1> SUFFICES ASSUME CartPageInit PROVE CartPageInv
  OBVIOUS
<1>1. /\ cart = [quantity |-> 1, price |-> 2, active |-> TRUE, charged |-> <<>>]
      /\ shown = [quantity |-> 1, subtotal |-> 2] /\ edits = {} /\ refreshes = {} /\ coupon = NoCoupon
      /\ checks = {} /\ order = NoOrder /\ clicks = 0 /\ elsewhere = 0 /\ missed = 0 /\ crossings = {}
  BY DEF CartPageInit
<1>2. cartLoading \in BOOLEAN
  BY Zenon DEF CartPageInit
<1>3. Subtotal(cart) = 2
  BY <1>1 DEF Subtotal
<1>4. CartPageTyped
  BY <1>1, <1>2 DEF CartPageTyped, Carts, NoOrder, Sendings, NoCoupon
<1>5. OneOfOrder /\ AsItWas /\ UpToDate /\ CouponFits /\ SentIsKept
  BY <1>1, <1>3 DEF OneOfOrder, AsItWas, UpToDate, CouponFits, SentIsKept, NoOrder
<1> QED
  BY <1>4, <1>5 DEF CartPageInv

LEMMA CartLineStep == ASSUME CartPageInv, CartLine PROVE CartPageInv'
<1> USE DEF CartPageInv
<1>1. PICK q \in {0, shown.quantity - 1, shown.quantity + 1} :
        edits' = edits \cup {[n |-> clicks, quantity |-> q, served |-> FALSE]}
  BY DEF CartLine
<1>2. /\ order.pc = "idle" /\ shown.quantity > 0 /\ clicks < MaxClicks /\ clicks' = clicks + 1
      /\ UNCHANGED <<cart, shown, cartLoading, refreshes, coupon, checks, order, elsewhere, missed, crossings>>
  BY DEF CartLine, CanPress, click
<1>3. [n |-> clicks, quantity |-> q, served |-> FALSE] \in Edits
  <2>1. q \in Nat /\ clicks \in Nat
    BY <1>1, <1>2 DEF CartPageTyped
  <2> QED
    BY <2>1 DEF Edits
<1>4. CartPageTyped'
  <2>1. clicks' \in Nat
    BY <1>2 DEF CartPageTyped
  <2>2. edits' \in SUBSET Edits
    BY <1>1, <1>3, Zenon DEF CartPageTyped
  <2> QED
    BY <1>2, <2>1, <2>2, Zenon DEF CartPageTyped
<1>5. OneOfOrder' /\ AsItWas'
  BY <1>1, <1>2 DEF OneOfOrder, AsItWas
<1>6. UpToDate'
  BY <1>1, <1>2 DEF UpToDate, Straight, Unsold
<1>7. CouponFits' /\ SentIsKept'
  BY <1>1, <1>2 DEF CouponFits, SentIsKept, Straight, Unsold
<1> QED
  BY <1>4, <1>5, <1>6, <1>7

LEMMA UpdateItemStep == ASSUME CartPageInv, NEW e \in edits, updateItem(e) PROVE CartPageInv'
<1> USE DEF CartPageInv
<1> DEFINE changed == [cart EXCEPT !.quantity = e.quantity]
           done == [e EXCEPT !.served = TRUE]
<1>1. /\ cart' \in {changed, cart} /\ edits' = (edits \ {e}) \cup {done}
      /\ UNCHANGED <<shown, cartLoading, refreshes, coupon, checks, order, clicks, elsewhere, missed, crossings>>
  BY DEF updateItem
<1>2. cart \in Carts /\ e \in Edits
  BY DEF CartPageTyped
<1>3. /\ changed \in Carts /\ changed.price = cart.price /\ changed.active = cart.active /\ changed.charged = cart.charged
      /\ done \in Edits /\ done.n = e.n /\ done.served
  BY <1>2 DEF Carts, Edits
<1> HIDE DEF changed, done
<1>4. CartPageTyped'
  <2>1. cart' \in Carts /\ edits' \in SUBSET Edits
    BY <1>1, <1>2, <1>3 DEF CartPageTyped
  <2>2. UNCHANGED <<shown, cartLoading, refreshes, coupon, checks, order, clicks, elsewhere, missed>>
    BY <1>1
  <2> QED
    BY <2>1, <2>2, Zenon DEF CartPageTyped
<1>5. OneOfOrder'
  BY <1>1, <1>3 DEF OneOfOrder
<1>6. AsItWas'
  <2>1. cart'.price = cart.price /\ cart'.active = cart.active
    BY <1>1, <1>3, Zenon
  <2> QED
    BY <1>1, <2>1, Zenon DEF AsItWas
<1>7. UpToDate'
  BY <1>1, <1>3 DEF UpToDate, Straight, Unsold
<1>8. CouponFits'
  BY <1>1 DEF CouponFits, Straight
<1>9. SentIsKept'
  <2>1. cart'.charged = cart.charged /\ ~(order.pc = "sent" /\ order.settled /\ elsewhere = 0)
    BY <1>1, <1>3 DEF SentIsKept
  <2> QED
    BY <1>1, <2>1 DEF SentIsKept, Unsold
<1> QED
  BY <1>4, <1>5, <1>6, <1>7, <1>8, <1>9

LEMMA UpdateQuantityStep == ASSUME CartPageInv, NEW e \in edits, updateQuantity(e) PROVE CartPageInv'
<1> USE DEF CartPageInv
<1> DEFINE sent == [n |-> e.n, answer |-> cart, read |-> FALSE]
<1>1. /\ edits' = edits \ {e} /\ refreshes' = refreshes \cup {sent} /\ cartLoading' = TRUE
      /\ UNCHANGED <<cart, shown, coupon, checks, order, clicks, elsewhere, missed, crossings>>
  BY DEF updateQuantity, refresh
<1>2. sent \in Refreshes /\ sent.n = e.n /\ ~sent.read /\ e.n < MaxClicks /\ e.n \in Nat
  BY DEF CartPageTyped, Refreshes, Edits, OneOfOrder
<1> HIDE DEF sent
<1>3. CartPageTyped'
  <2>1. cartLoading' \in BOOLEAN
    BY <1>1, Zenon
  <2> QED
    BY <1>1, <1>2, <2>1 DEF CartPageTyped
<1>4. OneOfOrder'
  BY <1>1, <1>2, BoundOfClicks DEF OneOfOrder
<1>5. UpToDate'
  BY <1>1, <1>2 DEF UpToDate, Straight, Unsold
<1>6. AsItWas' /\ CouponFits' /\ SentIsKept'
  BY <1>1 DEF AsItWas, CouponFits, SentIsKept, Straight, Unsold
<1> QED
  BY <1>3, <1>4, <1>5, <1>6

LEMMA GetCartStep == ASSUME CartPageInv, NEW r \in refreshes, getCart(r) PROVE CartPageInv'
<1> USE DEF CartPageInv
<1> DEFINE done == [r EXCEPT !.answer = cart, !.read = TRUE]
<1>1. /\ refreshes' = (refreshes \ {r}) \cup {done}
      /\ UNCHANGED <<cart, shown, cartLoading, edits, coupon, checks, order, clicks, elsewhere, missed, crossings>>
  BY DEF getCart
<1>2. done \in Refreshes /\ done.n = r.n /\ done.answer = cart
  BY DEF CartPageTyped, Refreshes
<1> HIDE DEF done
<1>3. CartPageTyped'
  BY <1>1, <1>2 DEF CartPageTyped
<1>4. OneOfOrder'
  BY <1>1, <1>2 DEF OneOfOrder
<1>5. UpToDate'
  <2> SUFFICES ASSUME Straight, Unsold PROVE UpToDate'
    BY <1>1 DEF UpToDate, Straight, Unsold
  <2>1. refreshes' # {} /\ cartLoading'
    BY <1>1 DEF UpToDate
  <2>2. \A s \in refreshes' : refreshes' = {s} => s.answer = cart
    BY <1>1, <1>2
  <2> QED
    BY <1>1, <2>1, <2>2 DEF UpToDate
<1>6. AsItWas' /\ CouponFits' /\ SentIsKept'
  BY <1>1 DEF AsItWas, CouponFits, SentIsKept, Straight, Unsold
<1> QED
  BY <1>3, <1>4, <1>5, <1>6

LEMMA RefreshedStep == ASSUME CartPageInv, NEW r \in refreshes, refreshed(r) PROVE CartPageInv'
<1> USE DEF CartPageInv
<1> DEFINE sub == Subtotal(r.answer)
           again == validateCoupon(r.n, sub, "again")
           paying == [order EXCEPT !.pc = "paying"]
<1>1. /\ r.read /\ refreshes' = refreshes \ {r} /\ cartLoading' = FALSE
      /\ shown' = [quantity |-> r.answer.quantity, subtotal |-> sub]
      /\ checks' = IF sub # shown.subtotal /\ recheck(sub) THEN checks \cup {again} ELSE checks
      /\ order' = IF r.n = OfOrder THEN paying ELSE order
      /\ UNCHANGED <<cart, edits, coupon, clicks, elsewhere, missed>>
  BY DEF refreshed
<1>2. crossings' = {} =>
        /\ crossings = {} /\ refreshes = {r} /\ edits = {}
        /\ sub # shown.subtotal => (coupon # NoCoupon => order.pc = "idle") /\ checks = {}
  BY DEF refreshed
<1>3. r \in Refreshes /\ order \in Sendings /\ cart \in Carts /\ coupon \in Int
  BY DEF CartPageTyped
<1>4. r.answer \in Carts /\ r.n \in Nat
  BY <1>3 DEF Refreshes
<1>5. sub \in Nat /\ r.answer.quantity \in Nat
  BY <1>4, Amounts DEF Carts
<1>6. again \in Checks /\ again.sub = sub /\ again.answer = NoAnswerYet
  BY <1>4, <1>5 DEF Checks, validateCoupon, NoAnswerYet
<1>7. /\ paying \in Sendings /\ paying.pc = "paying" /\ paying.total = order.total /\ paying.coupon = order.coupon
      /\ paying.settled = order.settled
  BY <1>3 DEF Sendings
<1>8. shown'.quantity = r.answer.quantity /\ shown'.subtotal = sub /\ shown' \in [quantity : Nat, subtotal : Nat]
  BY <1>1, <1>5
<1>9. order' = order \/ (order' = paying /\ order.pc = "placed")
  BY <1>1, BoundOfClicks DEF OneOfOrder, OfOrder
<1>10. (r.answer.quantity = cart.quantity /\ sub = Subtotal(cart)) \/ ~Straight' \/ ~Unsold
  BY <1>1, <1>2 DEF UpToDate, Straight
<1>11. recheck(sub) <=> coupon # NoCoupon /\ sub > 0 /\ order.pc = "idle"
  BY Zenon DEF recheck
<1> HIDE DEF sub, again, paying
<1>12. CartPageTyped'
  <2>1. cartLoading' \in BOOLEAN
    BY <1>1, Zenon
  <2>2. refreshes' \in SUBSET Refreshes /\ checks' \in SUBSET Checks
    BY <1>1, <1>6 DEF CartPageTyped
  <2>3. order' \in Sendings
    BY <1>3, <1>7, <1>9
  <2> QED
    BY <1>1, <1>8, <2>1, <2>2, <2>3, Zenon DEF CartPageTyped
<1>13. OneOfOrder'
  <2>1. \A s \in refreshes' : s \in refreshes /\ (r.n = MaxClicks => s.n # MaxClicks)
    BY <1>1 DEF OneOfOrder
  <2>2. order' = order \/ r.n = MaxClicks
    BY <1>1 DEF OfOrder
  <2> QED
    BY <1>1, <2>1, <2>2 DEF OneOfOrder
<1>14. AsItWas'
  BY <1>1 DEF AsItWas
<1>15. UpToDate'
  <2> SUFFICES ASSUME Straight', Unsold' PROVE UpToDate'
    BY DEF UpToDate
  <2>1. Unsold
    BY <1>7, <1>9 DEF Unsold
  <2>2. refreshes' = {} /\ shown'.quantity = cart'.quantity /\ shown'.subtotal = Subtotal(cart')
    BY <1>1, <1>2, <1>8, <1>10, <2>1 DEF Straight
  <2> QED
    BY <2>2 DEF UpToDate
<1>16. CouponFits'
  <2> SUFFICES ASSUME Straight' PROVE CouponFits'
    BY DEF CouponFits
  <2>1. Straight
    BY <1>1, <1>2 DEF Straight
  <2>2. \A c \in checks' : c.answer \in {NoAnswerYet, Discount(c.sub)}
    BY <1>1, <1>6, <2>1 DEF CouponFits
  <2>3. CASE sub = shown.subtotal
    BY <1>1, <1>8, <2>1, <2>2, <2>3 DEF CouponFits
  <2>4. CASE sub # shown.subtotal
    <3>1. coupon = NoCoupon \/ sub = 0 \/ recheck(sub)
      BY <1>2, <1>5, <1>11, <2>4 DEF Straight
    <3>2. recheck(sub) => again \in checks'
      BY <1>1, <2>4
    <3> QED
      BY <1>1, <1>6, <1>8, <2>2, <3>1, <3>2 DEF CouponFits
  <2> QED
    BY <2>3, <2>4
<1>17. SentIsKept'
  <2>1. ~(order.pc = "sent" /\ order.settled /\ elsewhere = 0)
    BY DEF SentIsKept
  <2>2. CASE order' = order
    BY <1>1, <2>1, <2>2 DEF SentIsKept, Unsold
  <2>3. CASE order' = paying /\ order.pc = "placed"
    BY <1>1, <1>7, <2>3 DEF SentIsKept, Unsold
  <2> QED
    BY <1>9, <2>2, <2>3
<1> QED
  BY <1>12, <1>13, <1>14, <1>15, <1>16, <1>17

LEMMA RefreshLostStep == ASSUME CartPageInv, NEW r \in refreshes, refreshLost(r) PROVE CartPageInv'
<1> USE DEF CartPageInv
<1>1. PICK waits \in BOOLEAN :
        /\ cartLoading' = (waits /\ cartLoading)
        /\ order' = IF r.n = OfOrder THEN [order EXCEPT !.pc = IF waits THEN "stuck" ELSE "paying"] ELSE order
  BY DEF refreshLost
<1>2. /\ missed' = missed + 1 /\ refreshes' = refreshes \ {r}
      /\ UNCHANGED <<cart, shown, edits, coupon, checks, clicks, elsewhere, crossings>>
  BY DEF refreshLost, miss
<1>3. missed \in Nat /\ cartLoading \in BOOLEAN /\ order \in Sendings
  BY DEF CartPageTyped
<1>4. missed' \in Nat /\ missed' # 0
  BY <1>2, <1>3
<1>5. cartLoading' \in BOOLEAN
  BY <1>1, Zenon
<1>6. \/ order' = order /\ r.n # OfOrder
      \/ order' \in {[order EXCEPT !.pc = "stuck"], [order EXCEPT !.pc = "paying"]} /\ r.n = OfOrder
  BY <1>1
<1>7. \/ order' = order /\ r.n # OfOrder
      \/ /\ order' \in Sendings /\ order'.pc \in {"stuck", "paying"} /\ order'.total = order.total /\ order'.settled = order.settled
         /\ r.n = OfOrder /\ order.pc = "placed"
  <2>1. ASSUME NEW pc \in {"stuck", "paying"}, order' = [order EXCEPT !.pc = pc]
        PROVE  order' \in Sendings /\ order'.pc = pc /\ order'.total = order.total /\ order'.settled = order.settled
    BY <1>3, <2>1 DEF Sendings
  <2>2. r.n = OfOrder => order.pc = "placed"
    BY BoundOfClicks DEF OneOfOrder, OfOrder
  <2> QED
    BY <1>6, <2>1, <2>2
<1>8. CartPageTyped'
  <2>1. order' \in Sendings /\ refreshes' \in SUBSET Refreshes
    BY <1>2, <1>3, <1>7 DEF CartPageTyped
  <2> QED
    BY <1>2, <1>4, <1>5, <2>1, Zenon DEF CartPageTyped
<1>9. OneOfOrder'
  <2>1. \A s \in refreshes' : s \in refreshes /\ (r.n = MaxClicks => s.n # MaxClicks)
    BY <1>2 DEF OneOfOrder
  <2> QED
    BY <1>2, <1>7, <2>1 DEF OneOfOrder, OfOrder
<1>10. AsItWas' /\ UpToDate' /\ CouponFits'
  BY <1>2, <1>4 DEF AsItWas, UpToDate, CouponFits, Straight
<1>11. SentIsKept'
  <2>1. ~(order.pc = "sent" /\ order.settled /\ elsewhere = 0)
    BY DEF SentIsKept
  <2>2. CASE order' = order
    BY <1>2, <2>1, <2>2 DEF SentIsKept, Unsold
  <2>3. CASE order'.pc \in {"stuck", "paying"} /\ order'.total = order.total /\ order'.settled = order.settled /\ order.pc = "placed"
    BY <1>2, <2>3 DEF SentIsKept, Unsold
  <2> QED
    BY <1>7, <2>2, <2>3
<1> QED
  BY <1>8, <1>9, <1>10, <1>11

\* The coupon's requests: applied, answered, shown, or lost.
LEMMA CouponSteps ==
    ASSUME CartPageInv,
           \/ applyCoupon \/ removeCoupon
           \/ \E c \in checks : validate(c) \/ validated(c) \/ validateLost(c)
    PROVE  CartPageInv'
<1> USE DEF CartPageInv
<1>0. /\ coupon \in Int /\ clicks \in Nat /\ missed \in Nat /\ shown.subtotal \in Nat /\ cart \in Carts
      /\ checks \in SUBSET Checks /\ shown.quantity \in Nat
  BY DEF CartPageTyped
<1>1. /\ UNCHANGED <<cart, shown, cartLoading, edits, refreshes, order, elsewhere>>
      /\ Straight' => Straight
      /\ checks' # checks \/ coupon' # coupon => ~(order.pc = "sent" /\ order.settled /\ elsewhere = 0)
  <2>1. CASE applyCoupon \/ removeCoupon
    BY <2>1 DEF applyCoupon, removeCoupon, CanPress, Straight, SentIsKept
  <2>2. ASSUME NEW c \in checks, validate(c) \/ validated(c) \/ validateLost(c) PROVE <1>1
    <3>1. /\ UNCHANGED <<cart, shown, cartLoading, edits, refreshes, order, elsewhere>>
      BY <2>2 DEF validate, validated, validateLost
    <3>2. (crossings' = {} => crossings = {}) /\ (missed' = 0 => missed = 0)
      BY <1>0, <2>2 DEF validate, validated, validateLost, miss
    <3> QED
      BY <3>1, <3>2 DEF Straight, SentIsKept
  <2> QED
    BY <2>1, <2>2
<1>2. checks' \in SUBSET Checks /\ coupon' \in Int /\ clicks' \in Nat /\ missed' \in Nat /\ CouponFits'
  <2>1. CASE applyCoupon
    <3> DEFINE asked == validateCoupon(clicks, shown.subtotal, "apply")
    <3>1. /\ checks' = checks \cup {asked} /\ clicks' = clicks + 1
          /\ UNCHANGED <<coupon, shown, missed, crossings, elsewhere>>
      BY <2>1 DEF applyCoupon, click
    <3>2. asked \in Checks /\ asked.answer = NoAnswerYet
      BY <1>0 DEF validateCoupon, Checks, NoAnswerYet
    <3> HIDE DEF asked
    <3> QED
      BY <1>0, <3>1, <3>2 DEF CouponFits, Straight
  <2>2. CASE removeCoupon
    <3>1. coupon' = NoCoupon /\ clicks' = clicks + 1 /\ UNCHANGED <<shown, checks, missed>>
      BY <2>2 DEF removeCoupon, click
    <3> QED
      BY <1>0, <1>1, <3>1 DEF CouponFits, NoCoupon
  <2>3. ASSUME NEW c \in checks, validate(c) PROVE <1>2
    <3> DEFINE answer == checkAndComputeDiscount(c.sub)
               told == [c EXCEPT !.answer = answer]
    <3>1. checks' = (checks \ {c}) \cup {told} /\ UNCHANGED <<coupon, clicks, missed, crossings, elsewhere, shown>>
      BY <2>3 DEF validate
    <3>2. c \in Checks /\ c.sub \in Nat /\ MinOrder \in Nat
      BY CartPageAssumption DEF CartPageTyped, Checks
    <3>3. answer \in Int /\ (cart.active => answer = Discount(c.sub))
      BY <3>2 DEF checkAndComputeDiscount, Discount, Refused
    <3> HIDE DEF answer
    <3>4. told \in Checks /\ told.sub = c.sub /\ told.answer = answer
      BY <3>2, <3>3 DEF Checks
    <3> HIDE DEF told
    <3>5. CouponFits'
      BY <3>1, <3>3, <3>4 DEF CouponFits, Straight, AsItWas
    <3> QED
      BY <1>0, <3>1, <3>4, <3>5
  <2>4. ASSUME NEW c \in checks, validated(c) PROVE <1>2
    <3>1. /\ c.answer # NoAnswerYet /\ checks' = checks \ {c} /\ coupon' = c.answer
          /\ crossings' = IF c.sub = shown.subtotal THEN crossings ELSE crossings \cup {"coupon"}
          /\ UNCHANGED <<clicks, missed, elsewhere, shown>>
      BY <2>4 DEF validated
    <3>2. c \in Checks /\ c.answer \in Int
      BY DEF CartPageTyped, Checks
    <3>3. CouponFits'
      BY <3>1 DEF CouponFits, Straight
    <3> QED
      BY <1>0, <3>1, <3>2, <3>3
  <2>5. ASSUME NEW c \in checks, validateLost(c) PROVE <1>2
    <3>1. missed' = missed + 1 /\ checks' = checks \ {c} /\ UNCHANGED <<coupon, clicks>>
      BY <2>5 DEF validateLost, miss
    <3>2. missed' \in Nat /\ missed' # 0
      BY <1>0, <3>1
    <3> QED
      BY <1>0, <3>1, <3>2 DEF CouponFits, Straight
  <2> QED
    BY <2>1, <2>2, <2>3, <2>4, <2>5
<1>3. CartPageTyped'
  BY <1>1, <1>2, Zenon DEF CartPageTyped
<1>4. OneOfOrder' /\ AsItWas'
  BY <1>1 DEF OneOfOrder, AsItWas
<1>5. UpToDate'
  BY <1>1 DEF UpToDate, Unsold
<1>6. SentIsKept'
  BY <1>1 DEF SentIsKept, Unsold
<1> QED
  BY <1>2, <1>3, <1>4, <1>5, <1>6

\* What a settled page shows: nothing is on its way, so the cart and its coupon.
LEMMA SettledShows ==
    ASSUME CartPageInv, Settled, Unsold
    PROVE  /\ shown.quantity = cart.quantity /\ shown.subtotal = Subtotal(cart)
           /\ shown.quantity > 0 => coupon \in {NoCoupon, Discount(shown.subtotal)}
           /\ cart.active
<1> USE DEF CartPageInv
<1>1. edits = {} /\ refreshes = {} /\ checks = {} /\ Straight
  BY DEF Settled, Straight
<1>2. shown.quantity = cart.quantity /\ shown.subtotal = Subtotal(cart)
  BY <1>1 DEF UpToDate
<1>3. cart.price = 2 /\ cart.active
  BY <1>1 DEF AsItWas, Straight
<1>4. shown.subtotal = 0 => shown.quantity = 0
  BY <1>2, <1>3, Amounts DEF CartPageTyped
<1>5. coupon = NoCoupon \/ shown.subtotal = 0 \/ coupon = Discount(shown.subtotal)
  BY <1>1 DEF CouponFits
<1> QED
  BY <1>2, <1>3, <1>4, <1>5

LEMMA SubmitStep == ASSUME CartPageInv, submit PROVE CartPageInv'
<1> USE DEF CartPageInv
<1> DEFINE sent == [pc |-> "sent", total |-> total(shown.subtotal, coupon), coupon |-> coupon # NoCoupon, settled |-> Settled]
<1>1. /\ order.pc = "idle" /\ shown.quantity > 0 /\ clicks' = clicks + 1 /\ order' = sent
      /\ UNCHANGED <<cart, shown, cartLoading, edits, refreshes, coupon, checks, elsewhere, missed, crossings>>
  BY DEF submit, CanPress, click
<1>2. total(shown.subtotal, coupon) \in Int /\ clicks' \in Nat
  BY <1>1, Amounts DEF CartPageTyped
<1>3. /\ sent.pc = "sent" /\ sent.total = total(shown.subtotal, coupon)
      /\ sent.coupon = (coupon # NoCoupon) /\ sent.settled = Settled
  OBVIOUS
<1>4. (sent.coupon <=> coupon # NoCoupon) /\ (sent.settled <=> Settled)
  BY <1>3, Zenon
<1>5. sent \in Sendings
  <2>1. (coupon # NoCoupon) \in BOOLEAN /\ Settled \in BOOLEAN
    BY Zenon DEF Settled
  <2> QED
    BY <1>2, <2>1, Zenon DEF Sendings
<1> HIDE DEF sent
<1>6. CartPageTyped'
  BY <1>1, <1>2, <1>5, Zenon DEF CartPageTyped
<1>7. OneOfOrder' /\ AsItWas'
  BY <1>1, BoundOfClicks DEF OneOfOrder, AsItWas
<1>8. UpToDate' /\ CouponFits'
  BY <1>1, <1>3 DEF UpToDate, CouponFits, Straight, Unsold
<1>9. SentIsKept'
  <2>1. cart.charged = <<>>
    BY <1>1 DEF SentIsKept, Unsold
  <2>2. ASSUME Settled
        PROVE  /\ edits = {} /\ refreshes = {} /\ checks = {}
               /\ sent.total = total(Subtotal(cart), IF sent.coupon THEN Discount(Subtotal(cart)) ELSE NoCoupon)
    <3>1. shown.subtotal = Subtotal(cart) /\ coupon \in {NoCoupon, Discount(shown.subtotal)}
      BY <1>1, <2>2, SettledShows DEF Unsold
    <3>2. coupon = IF sent.coupon THEN Discount(Subtotal(cart)) ELSE NoCoupon
      BY <1>4, <3>1
    <3> QED
      BY <1>3, <2>2, <3>1, <3>2 DEF Settled
  <2> QED
    BY <1>1, <1>3, <1>4, <2>1, <2>2 DEF SentIsKept
<1> QED
  BY <1>6, <1>7, <1>8, <1>9

LEMMA CheckoutStep == ASSUME CartPageInv, checkout PROVE CartPageInv'
<1> USE DEF CartPageInv
<1> DEFINE sum == OrderTotal(order.coupon)
           sold == [cart EXCEPT !.quantity = 0, !.charged = Append(@, sum)]
           created == [order EXCEPT !.pc = "created"]
           refused == [order EXCEPT !.pc = "refused"]
<1>1. /\ order.pc = "sent"
      /\ \/ cart' = sold /\ order' = created /\ (order.coupon => checkAndComputeDiscount(Subtotal(cart)) # Refused)
         \/ cart' = cart /\ order' = refused
      /\ UNCHANGED <<shown, cartLoading, edits, refreshes, coupon, checks, clicks, elsewhere, missed, crossings>>
  BY DEF checkout
<1>2. cart \in Carts /\ order \in Sendings /\ MinOrder \in Nat
  BY CartPageAssumption DEF CartPageTyped
<1>3. Subtotal(cart) \in Nat
  BY <1>2, Amounts
<1>4. /\ sum \in Int
      /\ cart.active => sum = total(Subtotal(cart), IF order.coupon THEN Discount(Subtotal(cart)) ELSE NoCoupon)
  <2> DEFINE sub == Subtotal(cart)
  <2>1. sub \in Nat
    BY <1>3
  <2>2. /\ checkAndComputeDiscount(sub) \in Int
        /\ cart.active => checkAndComputeDiscount(sub) = Discount(sub)
    <3> HIDE DEF sub
    <3> QED
      BY <1>2, <2>1 DEF checkAndComputeDiscount, Discount, Refused
  <2>3. sum = total(sub, IF order.coupon THEN checkAndComputeDiscount(sub) ELSE NoCoupon)
    BY DEF OrderTotal
  <2> HIDE DEF sub, sum
  <2>4. (IF order.coupon THEN checkAndComputeDiscount(sub) ELSE NoCoupon) \in Int
    BY <2>2 DEF NoCoupon
  <2>5. sum \in Int
    BY <2>1, <2>2, <2>3 DEF total, NoCoupon
  <2>6. cart.active => sum = total(sub, IF order.coupon THEN Discount(sub) ELSE NoCoupon)
    BY <2>2, <2>3
  <2> QED
    BY <2>5, <2>6 DEF sub
<1> HIDE DEF sum
<1>5. cart.charged = <<>> /\ cart.charged \in Seq(Int)
  BY <1>1, <1>2 DEF SentIsKept, Unsold, Carts
<1>6. sold \in Carts /\ sold.charged = <<sum>> /\ sold.price = cart.price /\ sold.active = cart.active
  <2>1. Append(cart.charged, sum) \in Seq(Int)
    BY <1>4, <1>5
  <2>2. Append(cart.charged, sum) = <<sum>>
    BY <1>4, <1>5
  <2> QED
    BY <1>2, <2>1, <2>2 DEF Carts
<1>7. /\ created \in Sendings /\ created.pc = "created" /\ created.total = order.total /\ created.settled = order.settled
      /\ refused \in Sendings /\ refused.pc = "refused" /\ refused.total = order.total /\ refused.settled = order.settled
  BY <1>2 DEF Sendings
<1> HIDE DEF sold, created, refused
<1>8. CartPageTyped'
  <2>1. cart' \in Carts /\ order' \in Sendings
    BY <1>1, <1>2, <1>6, <1>7
  <2> QED
    BY <1>1, <2>1, Zenon DEF CartPageTyped
<1>9. OneOfOrder'
  BY <1>1 DEF OneOfOrder
<1>10. AsItWas'
  <2>1. cart'.price = cart.price /\ cart'.active = cart.active
    BY <1>1, <1>6
  <2> QED
    BY <1>1, <2>1, Zenon DEF AsItWas
<1>11. UpToDate' /\ CouponFits'
  BY <1>1, <1>7 DEF UpToDate, CouponFits, Straight, Unsold
<1>12. SentIsKept'
  <2>1. CASE cart' = sold /\ order' = created
    <3>1. order.settled /\ elsewhere = 0 => sum = order.total
      BY <1>1, <1>4 DEF SentIsKept, AsItWas
    <3> QED
      BY <1>1, <1>6, <1>7, <2>1, <3>1 DEF SentIsKept, Unsold
  <2>2. CASE cart' = cart /\ order' = refused
    BY <1>1, <1>5, <1>7, <2>2 DEF SentIsKept
  <2> QED
    BY <1>1, <2>1, <2>2
<1> QED
  BY <1>8, <1>9, <1>10, <1>11, <1>12

\* The order's way from its answer to the page that follows, or back to the cart.
LEMMA OrderMoves == ASSUME CartPageInv, ordered \/ failed \/ payOrder \/ submitLost PROVE CartPageInv'
<1> USE DEF CartPageInv
<1>0. order \in Sendings /\ cart \in Carts /\ missed \in Nat
  BY DEF CartPageTyped
<1>1. CASE ordered
  <2> DEFINE sent == [n |-> OfOrder, answer |-> cart, read |-> FALSE]
  <2>1. /\ order.pc = "created" /\ order' = [order EXCEPT !.pc = "placed"]
        /\ refreshes' = refreshes \cup {sent} /\ cartLoading' = TRUE
        /\ UNCHANGED <<cart, shown, edits, coupon, checks, clicks, elsewhere, missed, crossings>>
    BY <1>1 DEF ordered, refresh
  <2>2. order' \in Sendings /\ order'.pc = "placed" /\ order'.total = order.total /\ order'.settled = order.settled
    BY <1>0, <2>1, MovesOfOrder
  <2>3. sent \in Refreshes /\ sent.n = MaxClicks
    BY <1>0, BoundOfClicks DEF Refreshes, OfOrder
  <2> HIDE DEF sent
  <2>4. \A r \in refreshes : r.n < MaxClicks
    BY <2>1 DEF OneOfOrder
  <2>5. CartPageTyped'
    <3>1. cartLoading' \in BOOLEAN
      BY <2>1, Zenon
    <3>2. refreshes' \in SUBSET Refreshes
      BY <2>1, <2>3 DEF CartPageTyped
    <3> QED
      BY <2>1, <2>2, <3>1, <3>2, Zenon DEF CartPageTyped
  <2>6. OneOfOrder'
    BY <2>1, <2>2, <2>3, <2>4, BoundOfClicks DEF OneOfOrder
  <2>7. AsItWas' /\ UpToDate' /\ CouponFits' /\ SentIsKept'
    BY <2>1, <2>2 DEF AsItWas, UpToDate, CouponFits, SentIsKept, Straight, Unsold
  <2> QED
    BY <2>5, <2>6, <2>7
<1>2. CASE failed
  <2>1. /\ order.pc = "refused" /\ order' = NoOrder
        /\ UNCHANGED <<cart, shown, cartLoading, edits, refreshes, coupon, checks, clicks, elsewhere, missed, crossings>>
    BY <1>2 DEF failed, afterRefusal
  <2>2. order' \in Sendings /\ order'.pc = "idle" /\ ~order'.settled
    BY <2>1 DEF NoOrder, Sendings
  <2>3. CartPageTyped'
    BY <2>1, <2>2, Zenon DEF CartPageTyped
  <2>4. OneOfOrder' /\ AsItWas' /\ UpToDate' /\ CouponFits' /\ SentIsKept'
    BY <2>1, <2>2 DEF OneOfOrder, AsItWas, UpToDate, CouponFits, SentIsKept, Straight, Unsold
  <2> QED
    BY <2>3, <2>4
<1>3. CASE payOrder
  <2>1. /\ order.pc = "paying" /\ order' = [order EXCEPT !.pc = "left"]
        /\ UNCHANGED <<cart, shown, cartLoading, edits, refreshes, coupon, checks, clicks, elsewhere, missed, crossings>>
    BY <1>3 DEF payOrder
  <2>2. order' \in Sendings /\ order'.pc = "left" /\ order'.total = order.total /\ order'.settled = order.settled
    BY <1>0, <2>1, MovesOfOrder
  <2>3. CartPageTyped'
    BY <2>1, <2>2, Zenon DEF CartPageTyped
  <2>4. OneOfOrder' /\ AsItWas' /\ UpToDate' /\ CouponFits' /\ SentIsKept'
    BY <2>1, <2>2 DEF OneOfOrder, AsItWas, UpToDate, CouponFits, SentIsKept, Straight, Unsold
  <2> QED
    BY <2>3, <2>4
<1>4. CASE submitLost
  <2>1. /\ order.pc \in {"created", "refused", "paying"} /\ order' = [order EXCEPT !.pc = "stuck"] /\ missed' = missed + 1
        /\ UNCHANGED <<cart, shown, cartLoading, edits, refreshes, coupon, checks, clicks, elsewhere, crossings>>
    BY <1>4 DEF submitLost, miss
  <2>2. order' \in Sendings /\ order'.pc = "stuck" /\ missed' \in Nat /\ missed' # 0
    BY <1>0, <2>1, MovesOfOrder
  <2>3. CartPageTyped'
    BY <2>1, <2>2, Zenon DEF CartPageTyped
  <2>4. OneOfOrder' /\ AsItWas' /\ UpToDate' /\ CouponFits' /\ SentIsKept'
    BY <2>1, <2>2 DEF OneOfOrder, AsItWas, UpToDate, CouponFits, SentIsKept, Straight, Unsold
  <2> QED
    BY <2>3, <2>4
<1> QED
  BY <1>1, <1>2, <1>3, <1>4

LEMMA ElsewhereStep == ASSUME CartPageInv, changeElsewhere PROVE CartPageInv'
<1> USE DEF CartPageInv
<1>1. /\ elsewhere' = elsewhere + 1
      /\ UNCHANGED <<shown, cartLoading, edits, refreshes, coupon, checks, order, clicks, missed, crossings>>
  BY DEF changeElsewhere
<1>2. cart \in Carts /\ elsewhere \in Nat
  BY DEF CartPageTyped
<1>3. elsewhere' \in Nat /\ elsewhere' # 0
  BY <1>1, <1>2
<1>4. cart' \in Carts /\ cart'.charged = cart.charged
  <2>1. CASE cart' = [cart EXCEPT !.price = 3]
    BY <1>2, <2>1 DEF Carts
  <2>2. CASE cart' = [cart EXCEPT !.active = FALSE]
    BY <1>2, <2>2 DEF Carts
  <2>3. ASSUME NEW q \in 0 .. Shelf, cart' = [cart EXCEPT !.quantity = q] PROVE <1>4
    <3>1. q \in Nat
      BY CartPageAssumption
    <3> QED
      BY <1>2, <2>3, <3>1 DEF Carts
  <2> QED
    BY <2>1, <2>2, <2>3 DEF changeElsewhere
<1>5. CartPageTyped'
  BY <1>1, <1>3, <1>4, Zenon DEF CartPageTyped
<1>6. OneOfOrder'
  BY <1>1 DEF OneOfOrder
<1>7. AsItWas' /\ UpToDate' /\ CouponFits' /\ SentIsKept'
  BY <1>1, <1>3, <1>4 DEF AsItWas, UpToDate, CouponFits, SentIsKept, Straight, Unsold
<1> QED
  BY <1>5, <1>6, <1>7

LEMMA NextCartPage == CartPageInv /\ [CartPageNext]_cartPageVars => CartPageInv'
<1>1. CartPageInv /\ UNCHANGED cartPageVars => CartPageInv'
  <2> SUFFICES ASSUME CartPageInv, UNCHANGED cartPageVars PROVE CartPageInv'
    OBVIOUS
  <2>1. UNCHANGED <<cart, shown, cartLoading, edits, refreshes, coupon, checks, order, clicks, elsewhere, missed, crossings>>
    BY DEF cartPageVars
  <2> QED
    BY <2>1 DEF CartPageInv, CartPageTyped, OneOfOrder, AsItWas, UpToDate, CouponFits, SentIsKept, Straight, Unsold
<1> QED
  BY <1>1, CartLineStep, UpdateItemStep, UpdateQuantityStep, GetCartStep, RefreshedStep, RefreshLostStep, CouponSteps,
     SubmitStep, CheckoutStep, OrderMoves, ElsewhereStep
     DEF CartPageNext, Answers

\* A page with nothing on its way shows what an order would charge, and an order
\* sent from it charges what was on its button (CartContext, use-checkout.ts and
\* OrdersService.checkout, which computes the total anew).
THEOREM WhatIsShownIsCharged == PurchaseSpec => []ShownIsCharged
<1>1. PurchaseInit => CartPageInv
  BY InitCartPage DEF PurchaseInit
<1>2. CartPageInv /\ [PurchaseNext]_purchaseVars => CartPageInv'
  BY NextCartPage, StepsOfPages
<1>3. CartPageInv => ShownIsCharged
  <2> SUFFICES ASSUME CartPageInv PROVE ShownIsCharged
    OBVIOUS
  <2>1. ASSUME Settled, order.pc = "idle"
        PROVE  /\ shown = [quantity |-> cart.quantity, subtotal |-> Subtotal(cart)]
               /\ shown.quantity > 0 => coupon \in {NoCoupon, checkAndComputeDiscount(shown.subtotal)}
    <3>1. /\ shown.quantity = cart.quantity /\ shown.subtotal = Subtotal(cart) /\ cart.active
          /\ shown.quantity > 0 => coupon \in {NoCoupon, Discount(shown.subtotal)}
      BY <2>1, SettledShows DEF Unsold
    <3>2. shown \in [quantity : Nat, subtotal : Nat]
      BY DEF CartPageInv, CartPageTyped
    <3>3. checkAndComputeDiscount(shown.subtotal) = Discount(shown.subtotal)
      BY <3>1 DEF checkAndComputeDiscount, Discount
    <3> QED
      BY <3>1, <3>2, <3>3
  <2>2. order.pc \in {"created", "placed", "paying", "left"} /\ order.settled /\ elsewhere = 0 => cart.charged = <<order.total>>
    BY DEF CartPageInv, SentIsKept
  <2> QED
    BY <2>1, <2>2, Zenon DEF ShownIsCharged
<1> QED
  BY <1>1, <1>2, <1>3, PTL DEF PurchaseSpec
===============================================================================
