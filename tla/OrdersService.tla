----------------------------- MODULE OrdersService -----------------------------
(***************************************************************************)
(* The rows an order touches and the two transactions that change them:    *)
(* checkout() and transition().                                            *)
(* Source: apps/backend/src/orders/orders.service.ts.                      *)
(*                                                                         *)
(* A transaction is one step once its conditional UPDATE has matched: the  *)
(* rows it writes stay locked until it commits, and every write after the  *)
(* first is conditional on the row it locks. What it READ before that      *)
(* UPDATE is an earlier step, which OrderPaymentsService interleaves.      *)
(***************************************************************************)
EXTENDS OrderStatus, Integers

CONSTANTS Order, Product,
          Need,             \* Need[o][p]: units of p in the order lines of o
          InitialStock,     \* Product.quantity before the first order
          CouponOrders,     \* the orders whose checkout carries the coupon code
          MaxUses,          \* Coupon.maxUses
          OnlineRow,        \* Payment rows that startOnlinePayment() may create
          CashRow,          \* Payment rows that selectCashPayment() may create
          OrderOf           \* Payment.orderId of each row

Row == OnlineRow \cup CashRow

ASSUME CartAssumption ==
    /\ Need \in [Order -> [Product -> Nat]]
    /\ InitialStock \in [Product -> Nat]
    /\ CouponOrders \subseteq Order
    /\ MaxUses \in Nat
    /\ OrderOf \in [Row -> Order]
    /\ OnlineRow \cap CashRow = {}

VARIABLES status,           \* Order.status, "NONE" before the order exists
          quantity,         \* Product.quantity
          usedCount,        \* Coupon.usedCount
          payStatus,        \* Payment.status, "NONE" before the row exists
          debited,          \* history: times o's units were taken less put back
          handedOver        \* history: the orders that were SHIPPED or DELIVERED

dbVars == <<status, quantity, usedCount, payStatus, debited, handedOver>>

StatusOrNone == OrderStatuses \cup {"NONE"}
PaymentStatuses == {"NONE", "PENDING", "SUCCEEDED", "FAILED", "REFUNDED"}

DbInit ==
    /\ status = [o \in Order |-> "NONE"]
    /\ quantity = InitialStock
    /\ usedCount = 0
    /\ payStatus = [r \in Row |-> "NONE"]
    /\ debited = [o \in Order |-> 0]
    /\ handedOver = {}

RowsOf(o) == {r \in Row : OrderOf[r] = o}

CheckedElsewhere(o) == TRUE \* mutant: the decrement does not check the quantity

\* Every line's "quantity >= n" matches.
InStock(o) == \A p \in Product : quantity[p] >= Need[o][p]

-----------------------------------------------------------------------------
\* checkout(): reserve every line, use the coupon, create the order. The
\* claim of the cart that comes first is Checkout.tla's subject.
PlaceOrder(o) ==
    /\ status[o] = "NONE"
    /\ InStock(o)
    /\ o \in CouponOrders => usedCount < MaxUses
    /\ status' = [status EXCEPT ![o] = "PAYMENT_PENDING"]
    /\ quantity' = [p \in Product |-> quantity[p] - Need[o][p]]
    /\ usedCount' = IF o \in CouponOrders THEN usedCount + 1 ELSE usedCount
    /\ debited' = [debited EXCEPT ![o] = @ + 1]
    /\ UNCHANGED <<payStatus, handedOver>>

-----------------------------------------------------------------------------
(* transition(), after the conditional UPDATE on status = from matched.    *)

\* The stock a move puts back or takes.
QuantityAfter(o, from, to) ==
    IF releasesStock(from, to) THEN [p \in Product |-> quantity[p] + Need[o][p]]
    ELSE IF reservesStock(from, to) THEN [p \in Product |-> quantity[p] - Need[o][p]]
    ELSE quantity

DebitedAfter(o, from, to) ==
    IF releasesStock(from, to) THEN [debited EXCEPT ![o] = @ - 1]
    ELSE IF reservesStock(from, to) THEN [debited EXCEPT ![o] = @ + 1]
    ELSE debited

UsedCountAfter(o, from, to) ==
    IF releasesCoupon(from, to) /\ o \in CouponOrders /\ usedCount > 0
    THEN usedCount - 1 ELSE usedCount

\* A refund refunds what succeeded; closing an unpaid order fails what was
\* still pending.
PaymentsAfter(o, to) ==
    [r \in Row |->
        IF OrderOf[r] = o /\ to = "REFUNDED" /\ payStatus[r] = "SUCCEEDED" THEN "REFUNDED"
        ELSE IF OrderOf[r] = o /\ to \in {"EXPIRED", "CANCELLED", "PAYMENT_FAILED"}
                /\ payStatus[r] = "PENDING" THEN "FAILED"
        ELSE payStatus[r]]

NeverUnavailable(o, from, to) == FALSE \* mutant: the revival's count is not checked

\* StockUnavailableError: the move must take units that are not there.
StockUnavailable(o, from, to) == reservesStock(from, to) /\ ~InStock(o)

\* The whole transaction. `payments` is what payStatus becomes: PaymentsAfter,
\* with the write of options.inTransaction.
Commit(o, from, to, payments) ==
    /\ ~StockUnavailable(o, from, to)
    /\ status' = [status EXCEPT ![o] = to]
    /\ quantity' = QuantityAfter(o, from, to)
    /\ usedCount' = UsedCountAfter(o, from, to)
    /\ payStatus' = payments
    /\ debited' = DebitedAfter(o, from, to)
    /\ handedOver' = IF to \in {"SHIPPED", "DELIVERED"} THEN handedOver \cup {o}
                     ELSE handedOver
================================================================================
