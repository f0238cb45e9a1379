------------------------------- MODULE OrderPage -------------------------------
(***************************************************************************)
(* The customer's order page: it reads the order, asks again every few     *)
(* seconds while an online payment waits for its webhook, and offers to    *)
(* pay when nothing is in progress.  Sources:                              *)
(* apps/frontend/src/app/[locale]/orders/[id]/, lib/payment.ts and         *)
(* lib/order-status.ts.                                                    *)
(*                                                                         *)
(* The order is its status and the payments pending; what its handlers do  *)
(* is in OrderPaymentsService, and here any move of the state machine      *)
(* between the statuses in Followed.  An answer carries the order as it    *)
(* was when it was read, and answers come in any order or not at all.      *)
(***************************************************************************)
EXTENDS Integers, Sequences, FiniteSets, OrderStatus

CONSTANTS MaxPolls,         \* polls before giving up (20 in the code)
          Followed,         \* bound: the statuses the order takes
          MaxAsks,          \* bound: times the customer pays or opens the page again
          MaxLostReads      \* bound: reads and payments that fail

ASSUME OrderPageAssumption ==
    /\ "PAYMENT_PENDING" \in Followed /\ Followed \subseteq OrderStatuses
    /\ MaxPolls \in Nat \ {0} /\ MaxAsks \in Nat /\ MaxLostReads \in Nat

VARIABLES purchase,         \* database: status, methods whose payment is pending
          view,             \* the order as shown, or none
          pageLoading, loadError, pollTimedOut,
          spans,            \* polls sent in each span of polling
          reads,            \* GET /orders/:id on their way, read or not
          payment,          \* PayOrderPanel: busy with, and the answer if any
          cashChosen, asks, lostReads,
          passedBy,         \* what the properties remember: an older answer came last,
          furthest          \* and the furthest step that was shown

orderPageVars == <<purchase, view, pageLoading, loadError, pollTimedOut, spans, reads, payment, cashChosen, asks, lostReads, passedBy, furthest>>

Unknown == [status |-> "unknown", pending |-> {}]
NotPaying == [method |-> "none", answer |-> "none"]
-------------------------------------------------------------------------------
(* What is shown.                                                          *)
isAwaitingCash(o) == o.status = "PAYMENT_PENDING" /\ "cash" \in o.pending
awaitingConfirmation(o) == o.status = "PAYMENT_PENDING" /\ "online" \in o.pending
needsPayment == view.status = "PAYMENT_PENDING" /\ ~isAwaitingCash(view) /\ ("online" \notin view.pending \/ pollTimedOut)
PayOrderPanel == ~pageLoading /\ ~loadError /\ needsPayment
Polling == awaitingConfirmation(view) /\ ~pollTimedOut

\* The step in progress on the way to the counter (received, confirmed, ready,
\* collected), 4 when collected, 0 off the way: the page's tracker, and the bar
\* of the account's list of orders.
STEP == [PAYMENT_PENDING |-> 1, PAID |-> 2, PROCESSING |-> 2, SHIPPED |-> 3, DELIVERED |-> 4]
\* mutant: ready before it is confirmed.
trackerStepSwapped(status) == IF status \in DOMAIN STEP THEN 5 - STEP[status] ELSE 0
trackerStep(status) == IF status \in DOMAIN STEP THEN STEP[status] ELSE 0
Furthest(status) == IF trackerStep(status) > furthest THEN trackerStep(status) ELSE furthest

Read(n, span) == [n |-> n, span |-> span, done |-> FALSE, seen |-> Unknown]
load == reads' = reads \cup {Read(asks + lostReads, 0)} /\ pageLoading' = TRUE /\ loadError' = FALSE
OrderPageInit ==
    /\ purchase \in [status : {"PAYMENT_PENDING"}, pending : {{}, {"online"}}]
    /\ view = Unknown /\ pageLoading = TRUE /\ loadError = FALSE /\ pollTimedOut = FALSE
    /\ spans = <<>> /\ reads = {Read(0, 0)} /\ payment = NotPaying
    /\ cashChosen = 0 /\ asks = 0 /\ lostReads = 0 /\ passedBy = FALSE /\ furthest = 0

OrderPageNotOpened ==
    /\ purchase = [status |-> "PAYMENT_PENDING", pending |-> {}]
    /\ view = Unknown /\ pageLoading = FALSE /\ loadError = FALSE /\ pollTimedOut = FALSE
    /\ spans = <<>> /\ reads = {} /\ payment = NotPaying
    /\ cashChosen = 0 /\ asks = 0 /\ lostReads = 0 /\ passedBy = FALSE /\ furthest = 0

loseRead == lostReads < MaxLostReads /\ lostReads' = lostReads + 1
\* The effect starts a new span when polling becomes due.
resume == spans' = IF Polling' /\ ~Polling THEN Append(spans, 0) ELSE spans
-------------------------------------------------------------------------------
(* Reading the order.                                                      *)
findOne(q) ==
    /\ ~q.done /\ reads' = (reads \ {q}) \cup {[q EXCEPT !.done = TRUE, !.seen = purchase]}
    /\ UNCHANGED <<purchase, view, pageLoading, loadError, pollTimedOut, spans, payment, cashChosen, asks, lostReads, passedBy, furthest>>

\* mutant: the polls of a span are never too many.
gaveUpNever(q) == FALSE
gaveUp(q) == q.span > 0 /\ spans[q.span] >= MaxPolls
end(q) == pollTimedOut' = (pollTimedOut \/ gaveUp(q))

\* setOrder, whichever request the answer belongs to.
answered(q) ==
    /\ q.done /\ reads' = reads \ {q} /\ view' = q.seen /\ loadError' = loadError
    /\ end(q) /\ resume
    /\ pageLoading' = (pageLoading /\ q.span # 0)
    /\ payment' = IF PayOrderPanel' THEN payment ELSE NotPaying
    /\ passedBy' = (passedBy \/ q.seen # purchase) /\ furthest' = Furthest(q.seen.status)
    /\ UNCHANGED <<purchase, cashChosen, asks, lostReads>>

stopsLoading(q) == pageLoading /\ q.span # 0
readLost(q) ==              \* a poll just waits for the next; a load shows the error
    /\ loseRead /\ reads' = reads \ {q} /\ view' = view /\ end(q) /\ resume
    /\ pageLoading' = stopsLoading(q) /\ loadError' = (loadError \/ q.span = 0)
    /\ payment' = IF PayOrderPanel' THEN payment ELSE NotPaying
    /\ UNCHANGED <<purchase, cashChosen, asks, passedBy, furthest>>

tryAgain ==
    /\ loadError /\ ~pageLoading /\ load /\ payment' = NotPaying
    /\ UNCHANGED <<purchase, view, pollTimedOut, spans, cashChosen, asks, lostReads, passedBy, furthest>>

pollTick ==                 \* every three seconds, answered or not
    /\ Polling /\ spans[Len(spans)] <= MaxPolls
    /\ spans' = [spans EXCEPT ![Len(spans)] = @ + 1]
    /\ reads' = reads \cup {Read(spans[Len(spans)] + 1, Len(spans))}
    /\ UNCHANGED <<purchase, view, pageLoading, loadError, pollTimedOut, payment, cashChosen, asks, lostReads, passedBy, furthest>>
-------------------------------------------------------------------------------
(* Paying.                                                                 *)
pay(method) ==
    /\ PayOrderPanel /\ payment = NotPaying /\ asks < MaxAsks
    /\ payment' = [method |-> method, answer |-> "none"] /\ asks' = asks + 1
    /\ UNCHANGED <<purchase, view, pageLoading, loadError, pollTimedOut, spans, reads, cashChosen, lostReads, passedBy, furthest>>

payServed ==                \* pay-cash records the choice, pay starts an attempt
    /\ payment.method # "none" /\ payment.answer = "none"
    /\ LET open == purchase.status = "PAYMENT_PENDING" IN
       /\ purchase' = IF open THEN [purchase EXCEPT !.pending = @ \cup {payment.method}] ELSE purchase
       /\ payment' = [payment EXCEPT !.answer = IF open THEN "ok" ELSE "refused"]
       /\ cashChosen' = cashChosen + (IF open /\ payment.method = "cash" THEN 1 ELSE 0)
    /\ UNCHANGED <<view, pageLoading, loadError, pollTimedOut, spans, reads, asks, lostReads, passedBy, furthest>>

\* mutant: the page is not read again once cash is chosen.
onPaidNothing == UNCHANGED <<reads, pageLoading, loadError>>
onPaid == load
newPage(r) == reads' = {r}
payAnswered ==
    /\ payment.answer # "none" /\ payment' = NotPaying
    /\ CASE payment.answer = "refused" -> UNCHANGED <<view, reads, pageLoading, loadError, pollTimedOut, spans>>
         [] payment.answer = "ok" /\ payment.method = "cash" -> onPaid /\ UNCHANGED <<view, pollTimedOut, spans>>
         [] OTHER ->        \* to the provider and back: a new page
              /\ view' = Unknown /\ pollTimedOut' = FALSE /\ spans' = <<>>
              /\ newPage(Read(asks + lostReads, 0)) /\ pageLoading' = TRUE /\ loadError' = FALSE
    /\ UNCHANGED <<purchase, cashChosen, asks, lostReads, passedBy, furthest>>

payLost ==                  \* the button waits for it until the panel is gone
    /\ payment.method # "none" /\ payment.answer \in {"none", "ok", "refused"} /\ loseRead
    /\ payment' = [payment EXCEPT !.answer = "lost"]
    /\ UNCHANGED <<purchase, view, pageLoading, loadError, pollTimedOut, spans, reads, cashChosen, asks, passedBy, furthest>>

visitAgain ==               \* from the account's list of orders; leaving a payment on its way loses it first
    /\ asks < MaxAsks /\ asks' = asks + 1 /\ (payment.method = "none" \/ payment.answer # "none")
    /\ view' = Unknown /\ pollTimedOut' = FALSE /\ spans' = <<>> /\ payment' = NotPaying
    /\ newPage(Read(asks' + lostReads, 0)) /\ pageLoading' = TRUE /\ loadError' = FALSE
    /\ UNCHANGED <<purchase, cashChosen, lostReads, passedBy, furthest>>

backend ==                  \* a webhook, the expiry job, an admin
    /\ \/ "online" \in purchase.pending /\ purchase' = [purchase EXCEPT !.pending = @ \ {"online"}]
       \/ \E to \in Followed, actor \in Actors :
            canTransition(actor, purchase.status, to) /\ purchase' = [status |-> to, pending |-> {}]
    /\ UNCHANGED <<view, pageLoading, loadError, pollTimedOut, spans, reads, payment, cashChosen, asks, lostReads, passedBy, furthest>>
-------------------------------------------------------------------------------
Arrives ==
    \/ \E q \in reads : findOne(q) \/ answered(q)
    \/ payServed \/ (payment.answer # "lost" /\ payAnswered)
OrderPageNext ==
    \/ pollTick \/ tryAgain \/ visitAgain \/ payLost \/ backend \/ Arrives
    \/ \E q \in reads : readLost(q)
    \/ \E method \in {"online", "cash"} : pay(method)

\* Requests that are not lost are served and answered, and the interval ticks.
OrderPageFairness == WF_orderPageVars(Arrives) /\ WF_orderPageVars(pollTick)
OrderPageSpec == OrderPageInit /\ [][OrderPageNext]_orderPageVars /\ OrderPageFairness
-------------------------------------------------------------------------------
\* Cash is recorded once, and not asked for again, unless an answer
\* was overtaken or lost: the page that follows shows her choice.
CashChosenOnce == cashChosen <= 1 \/ passedBy \/ lostReads > 0

\* No move of the order takes the tracker back, on this page or when she opens it
\* again, unless an older answer came last.
TrackerNeverGoesBack == passedBy \/ trackerStep(view.status) \in {0, furthest}

\* The page gives up polling "rather than polling forever" (page.tsx:70).
PollingStops == <>[](~Polling)

\* No page stays on "Loading", even when the connection is cut (page.tsx:41-45).
LoadingEnds == pageLoading ~> ~pageLoading
===============================================================================
