----------------------- MODULE OrderPaymentsProperties -----------------------
(***************************************************************************)
(* What the order and payment services promise.                            *)
(***************************************************************************)
EXTENDS OrderPaymentsService

Pcs == {"idle", "createRow", "checkout", "createCash", "reconcile", "apply",
        "claim", "txRead", "txWrite"}
Kinds == {"none", "pay", "cash", "admin", "view", "expire", "webhook"}
GatewayStates == {"none", "open"} \cup Results

Calls == [pc : Pcs, kind : Kinds, order : Order \cup {None}, row : Row \cup {None},
          result : Results \cup {"none"}, to : StatusOrNone, seen : StatusOrNone,
          depth : {0, 1}, todo : SUBSET OnlineRow]

\* The variables have their types, and no product's quantity is negative.
TypeOK ==
    /\ status \in [Order -> StatusOrNone]
    /\ quantity \in [Product -> Nat]
    /\ usedCount \in Nat
    /\ payStatus \in [Row -> PaymentStatuses]
    /\ debited \in [Order -> Int]
    /\ handedOver \subseteq Order
    /\ gateway \in [OnlineRow -> GatewayStates]
    /\ acked \subseteq OnlineRow
    /\ alerted \subseteq OnlineRow
    /\ call \in [Worker -> Calls]
    /\ faults \in 0 .. MaxFaults

-----------------------------------------------------------------------------
(* Stock                                                                   *)

\* An order holds its units exactly once while they are reserved or shipped,
\* and not at all once it was closed unpaid, however many callers raced to
\* close, revive or cancel it (README: "can never restock twice").
ReservedExactlyOnce ==
    \A o \in Order :
        /\ status[o] \in STOCK_HELD \cup {"SHIPPED"} => debited[o] = 1
        /\ status[o] \in {"NONE", "EXPIRED", "CANCELLED", "PAYMENT_FAILED"} => debited[o] = 0
        /\ debited[o] \in {0, 1}

\* Every step of the services is a take or a put-back of StockLedger, or
\* leaves the stock alone.
Ledger == INSTANCE StockLedger WITH holding <- {o \in Order : debited[o] = 1}
ImplementsLedger == Ledger!LedgerSpec

\* Units that left the store with their order are never counted back onto the
\* shelf, whatever becomes of the order: disputed, refunded in part or in full
\* (order-status.ts:54-55 "the part left the store and may come back damaged or
\* not at all").
LeftTheStoreStaysOut ==
    [][\A o \in Order : o \in handedOver /\ debited[o] = 1 => debited'[o] = 1]_vars

-----------------------------------------------------------------------------
(* Money                                                                   *)

Sold == {"PAID", "PROCESSING", "SHIPPED", "DELIVERED", "PARTIALLY_REFUNDED", "DISPUTED"}

\* The money of a row is really there: the provider reports the full amount,
\* or an admin confirmed the cash.
Received(r) == r \in CashRow \/ gateway[r] = "paid"

\* A sold order has a payment that succeeded, and money behind every payment
\* that is marked succeeded or refunded.
PaidOrderHasMoney ==
    /\ \A o \in Order : status[o] \in Sold => \E r \in RowsOf(o) : payStatus[r] = "SUCCEEDED"
    /\ \A r \in Row : payStatus[r] \in {"SUCCEEDED", "REFUNDED"} => Received(r)

\* A worker has claimed r and is on its way to dispute the order and alert.
InHand(r) == \E w \in Worker : call[w].row = r /\ call[w].to = "DISPUTED"

\* Money is never recorded against an order that was closed unpaid, unless
\* the worker that recorded it is about to dispute the order
\* (order-payments.service.ts:178 "so a crash in between can't leave money
\* recorded against an unpaid order").
NoStrandedMoney ==
    \A r \in Row :
        payStatus[r] = "SUCCEEDED" /\ status[OrderOf[r]] \in {"EXPIRED", "CANCELLED", "PAYMENT_FAILED"}
            => InHand(r)

\* Of the payments that succeeded for one order, at most one is unknown to the
\* admin: the one that paid it. Every other one was flagged for a refund, or
\* the worker that claimed it is about to.
ExtraPaymentsFlagged ==
    \A o \in Order :
        Cardinality({r \in RowsOf(o) :
            payStatus[r] = "SUCCEEDED" /\ r \notin alerted /\ ~InHand(r)}) <= 1

\* A success the provider was told we have is recorded (README: "results are
\* applied idempotently whether they arrive by signed webhook or by polling").
AckedSuccessIsRecorded ==
    \A r \in OnlineRow : r \in acked => payStatus[r] \in {"SUCCEEDED", "REFUNDED"}

\* Once sold, an order never falls back to unpaid, expired or cancelled,
\* whatever stale read a racing caller acts on, and a refund is final.
SoldNeverFallsBack ==
    [][\A o \in Order :
          /\ status[o] \in Sold => status'[o] \in Sold \cup {"REFUNDED"}
          /\ status[o] = "REFUNDED" => status'[o] = "REFUNDED"]_vars

\* A payment that succeeded is never un-recorded by a late or repeated failed
\* event, by an expiry or by a cancellation; only a refund follows it.
SucceededNeverUndone ==
    [][\A r \in Row :
          /\ payStatus[r] = "SUCCEEDED" => payStatus'[r] \in {"SUCCEEDED", "REFUNDED"}
          /\ payStatus[r] = "REFUNDED" => payStatus'[r] = "REFUNDED"]_vars

-----------------------------------------------------------------------------
(* Coupon                                                                  *)

Abandoned == {"NONE", "EXPIRED", "CANCELLED", "PAYMENT_FAILED"}

\* The coupon's use count stays within its limit, covers every order that may
\* still be paid for, and counts no order that was abandoned.
CouponUsesAccounted ==
    /\ usedCount <= MaxUses
    /\ Cardinality({o \in CouponOrders : status[o] = "PAYMENT_PENDING"}) <= usedCount
    /\ usedCount <= Cardinality({o \in CouponOrders : status[o] \notin Abandoned})

-----------------------------------------------------------------------------
(* Progress                                                                *)

\* A call that began takes its next step (an idle worker has none), and the
\* provider repeats a webhook until it is answered 200: it is delivered again
\* whenever a worker is free infinitely often.
Fairness ==
    /\ \A w \in Worker : WF_vars(Step(w))
    /\ \A r \in OnlineRow :
          SF_vars(/\ r \notin acked
                  /\ gateway[r] = "paid"
                  /\ \E w \in Worker : Webhook(w, r))

LiveSpec == Spec /\ Fairness

\* Money the provider has is eventually recorded on its payment, also when
\* the process dies while it handles the webhook.
MoneyIsRecorded ==
    \A r \in OnlineRow : gateway[r] = "paid" ~> payStatus[r] \in {"SUCCEEDED", "REFUNDED"}
================================================================================
