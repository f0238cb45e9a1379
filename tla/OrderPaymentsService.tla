-------------------------- MODULE OrderPaymentsService --------------------------
(***************************************************************************)
(* Every request, webhook and job that changes an order after checkout,    *)
(* interleaved at each await. Sources, under apps/backend/src/orders/:     *)
(* order-payments.service.ts, orders.service.ts, order-expiry.service.ts,  *)
(* orders.controller.ts, payment-webhooks.controller.ts; and, external,    *)
(* the payment provider as those files use it.                             *)
(*                                                                         *)
(* A call runs in a worker. call[w] holds its program counter and its      *)
(* locals:                                                                 *)
(*   "createRow", "checkout"    startOnlinePayment, after its first read   *)
(*   "createCash"               selectCashPayment, after its read          *)
(*   "reconcile"                reconcilePending's loop over `todo`        *)
(*   "apply", "claim"           applyResult                                *)
(*   "txRead", "txWrite"        transition, before its read, after it      *)
(* `kind` is the caller: "webhook", "view", "expire", "cash", "admin",     *)
(* "pay".                                                                  *)
(***************************************************************************)
EXTENDS OrdersService, FiniteSets

CONSTANTS Worker,           \* requests and jobs that can run at once
          None,             \* no order, no row
          MaxFaults         \* bound: crashes and exceptions in a behaviour

ASSUME NoneAssumption == None \notin Order \cup Row /\ MaxFaults \in Nat

VARIABLES gateway,          \* the provider's view of an attempt; "none": not registered
          acked,            \* rows whose success webhook was answered with 200
          alerted,          \* rows an admin was mailed about (alertAdmin)
          call,             \* what each worker is executing
          faults            \* faults so far

extVars == <<gateway, acked, alerted>>
vars == <<dbVars, extVars, call, faults>>

Results == {"paid", "underpaid", "failed"}

Idle == [pc |-> "idle", kind |-> "none", order |-> None, row |-> None,
         result |-> "none", to |-> "NONE", seen |-> "NONE", depth |-> 0, todo |-> {}]

Start(w, pc, kind, o) ==
    call' = [call EXCEPT ![w] = [Idle EXCEPT !.pc = pc, !.kind = kind, !.order = o]]

Init ==
    /\ DbInit
    /\ gateway = [r \in OnlineRow |-> "none"]
    /\ acked = {}
    /\ alerted = {}
    /\ call = [w \in Worker |-> Idle]
    /\ faults = 0

At(w, pc) == call[w].pc = pc
Free(w) == At(w, "idle")
GoIdle(w) == call' = [call EXCEPT ![w] = Idle]

-----------------------------------------------------------------------------
(* checkout                                                                *)

Checkout(o) == PlaceOrder(o) /\ UNCHANGED <<extVars, call, faults>>

-----------------------------------------------------------------------------
(* startOnlinePayment: read the order, create the attempt's row, register  *)
(* it with the provider, save the provider's reference.                    *)

PayOnline(w, o) ==
    /\ Free(w)
    /\ status[o] = "PAYMENT_PENDING"
    /\ Start(w, "createRow", "pay", o)
    /\ UNCHANGED <<dbVars, extVars, faults>>

\* The row, or the unique-reference violation of an attempt number that
\* another request took since it was counted.
CreateRow(w) ==
    /\ At(w, "createRow")
    /\ \/ \E r \in OnlineRow \cap RowsOf(call[w].order) :
             /\ payStatus[r] = "NONE"
             /\ payStatus' = [payStatus EXCEPT ![r] = "PENDING"]
             /\ call' = [call EXCEPT ![w] = [@ EXCEPT !.pc = "checkout", !.row = r]]
       \/ GoIdle(w) /\ UNCHANGED payStatus
    /\ UNCHANGED <<status, quantity, usedCount, debited, handedOver, extVars, faults>>

\* The customer can pay only at the checkout URL this call returns.
CheckoutCreated(w) ==
    /\ At(w, "checkout")
    /\ gateway' = [gateway EXCEPT ![call[w].row] = "open"]
    /\ GoIdle(w)
    /\ UNCHANGED <<dbVars, acked, alerted, faults>>

\* The provider refused, timed out, or its reference could not be saved.
CheckoutFailed(w) ==
    /\ At(w, "checkout")
    /\ payStatus' = [payStatus EXCEPT ![call[w].row] = "FAILED"]
    /\ GoIdle(w)
    /\ UNCHANGED <<status, quantity, usedCount, debited, handedOver, extVars, faults>>

-----------------------------------------------------------------------------
(* selectCashPayment and confirmCashPayment                                *)

PayCash(w, o) ==
    /\ Free(w)
    /\ status[o] = "PAYMENT_PENDING"
    /\ \A r \in CashRow \cap RowsOf(o) : payStatus[r] # "PENDING"
    /\ Start(w, "createCash", "pay", o)
    /\ UNCHANGED <<dbVars, extVars, faults>>

CreateCash(w) ==
    /\ At(w, "createCash")
    /\ LET new == {r \in CashRow \cap RowsOf(call[w].order) : payStatus[r] = "NONE"}
       IN  \/ \E r \in new : payStatus' = [payStatus EXCEPT ![r] = "PENDING"]
           \/ new = {} /\ UNCHANGED payStatus    \* bound: no row left
    /\ GoIdle(w)
    /\ UNCHANGED <<status, quantity, usedCount, debited, handedOver, extVars, faults>>

ConfirmCash(w, r) ==
    /\ Free(w)
    /\ payStatus[r] = "PENDING"
    /\ call' = [call EXCEPT ![w] = [Idle EXCEPT !.pc = "txRead", !.kind = "cash",
                    !.order = OrderOf[r], !.row = r, !.to = "PAID"]]
    /\ UNCHANGED <<dbVars, extVars, faults>>

-----------------------------------------------------------------------------
(* The admin's updateStatus and cancelOrder                                *)

\* transition()'s read is its first await; an illegal move is refused there.
UpdateStatus(w, o, to) ==
    /\ Free(w)
    /\ canTransition("admin", status[o], to)
    /\ call' = [call EXCEPT ![w] = [Idle EXCEPT !.pc = "txWrite", !.kind = "admin",
                    !.order = o, !.to = to, !.seen = status[o]]]
    /\ UNCHANGED <<dbVars, extVars, faults>>

CancelOrder(w, o) ==
    /\ Free(w)
    /\ status[o] # "NONE"
    /\ call' = [call EXCEPT ![w] = [Idle EXCEPT !.pc = "txRead", !.kind = "admin", !.order = o,
                    !.to = IF status[o] = "PAYMENT_PENDING" THEN "CANCELLED" ELSE "REFUNDED"]]
    /\ UNCHANGED <<dbVars, extVars, faults>>

-----------------------------------------------------------------------------
(* expireStaleOrders for one candidate (when it is due is OrderExpiry's    *)
(* subject), and GET /orders/:id: both reconcile first.                    *)

\* reconcilePending's query: pending attempts of a pending order that the
\* provider knows.
Pollable(o) ==
    {r \in OnlineRow \cap RowsOf(o) :
        /\ status[o] = "PAYMENT_PENDING"
        /\ payStatus[r] = "PENDING"
        /\ gateway[r] # "none"}

Reconcile(w, kind, o) ==
    /\ Free(w)
    /\ call' = [call EXCEPT ![w] = [Idle EXCEPT !.pc = "reconcile", !.kind = kind,
                    !.order = o, !.todo = Pollable(o)]]
    /\ UNCHANGED <<dbVars, extVars, faults>>

\* A candidate that is no longer pending when the reconciliation reads it has
\* nothing to reconcile, and transition() refuses to expire it.
Expire(w, o) == status[o] = "PAYMENT_PENDING" /\ Reconcile(w, "expire", o)

View(w, o) == Pollable(o) # {} /\ Reconcile(w, "view", o)

\* fetchStatus answered "succeeded" or "failed".
Fetch(w, r) ==
    /\ At(w, "reconcile")
    /\ r \in call[w].todo
    /\ gateway[r] \in Results
    /\ call' = [call EXCEPT ![w] = [@ EXCEPT !.pc = "apply", !.row = r,
                    !.result = gateway[r], !.todo = call[w].todo \ {r}]]
    /\ UNCHANGED <<dbVars, extVars, faults>>

\* fetchStatus answered "pending", or failed: the catch goes on to the next.
FetchNothing(w, r) ==
    /\ At(w, "reconcile")
    /\ r \in call[w].todo
    /\ call' = [call EXCEPT ![w] = [@ EXCEPT !.todo = call[w].todo \ {r}]]
    /\ UNCHANGED <<dbVars, extVars, faults>>

Reconciled(w) ==
    /\ At(w, "reconcile")
    /\ call[w].todo = {}
    /\ IF call[w].kind = "expire"
       THEN call' = [call EXCEPT ![w] = [@ EXCEPT !.pc = "txRead", !.to = "EXPIRED"]]
       ELSE GoIdle(w)
    /\ UNCHANGED <<dbVars, extVars, faults>>

-----------------------------------------------------------------------------
(* handleWebhook: the provider may deliver an event late, twice or never.  *)

Webhook(w, r) ==
    /\ Free(w)
    /\ gateway[r] \in Results
    /\ call' = [call EXCEPT ![w] = [Idle EXCEPT !.pc = "apply", !.kind = "webhook",
                    !.order = OrderOf[r], !.row = r, !.result = gateway[r]]]
    /\ UNCHANGED <<dbVars, extVars, faults>>

-----------------------------------------------------------------------------
(* applyResult                                                             *)

\* applyResult returned: the webhook is answered 200, a reconciliation goes
\* on with its next attempt.
Return(w) ==
    IF call[w].kind = "webhook"
    THEN /\ acked' = IF call[w].result = "paid" THEN acked \cup {call[w].row} ELSE acked
         /\ GoIdle(w)
    ELSE /\ call' = [call EXCEPT ![w] = [Idle EXCEPT !.pc = "reconcile", !.kind = call[w].kind,
                             !.order = call[w].order, !.todo = call[w].todo]]
         /\ UNCHANGED acked

ClaimableBeforeGivingUp(r) == payStatus[r] = "PENDING" \* mutant: success after expiry ignored

\* A claim matches these: only one caller processes a success.
Claimable(r) == payStatus[r] \in {"PENDING", "FAILED"}

NoAlert(r) == UNCHANGED alerted \* mutant: the admin is not told

AlertAdmin(r) == alerted' = alerted \cup {r}

FailAnyRow(r) == payStatus' = [payStatus EXCEPT ![r] = "FAILED"] \* mutant: unconditional update

\* A failed event fails the row only while it is pending.
FailRow(r) ==
    payStatus' = IF payStatus[r] = "PENDING" THEN [payStatus EXCEPT ![r] = "FAILED"] ELSE payStatus

ClosedButCancelled == {"EXPIRED", "PAYMENT_FAILED"} \* mutant: a cancelled order is not disputed

\* A success claimed for an order in one of these statuses disputes it.
ClosedUnpaid == {"EXPIRED", "CANCELLED", "PAYMENT_FAILED"}

ApplyFailed(w) ==
    /\ At(w, "apply")
    /\ call[w].result = "failed"
    /\ FailRow(call[w].row)
    /\ Return(w)
    /\ UNCHANGED <<status, quantity, usedCount, debited, handedOver, gateway, alerted, faults>>

ApplyUnderpaid(w) ==
    /\ At(w, "apply")
    /\ call[w].result = "underpaid"
    /\ AlertAdmin(call[w].row)
    /\ Return(w)
    /\ UNCHANGED <<dbVars, gateway, faults>>

\* A success: what the order's status, read here, calls for.
ApplyPaid(w) ==
    /\ At(w, "apply")
    /\ call[w].result = "paid"
    /\ LET s == status[call[w].order]
       IN  call' = [call EXCEPT ![w] =
                       IF s \in {"PAYMENT_PENDING", "EXPIRED"}
                       THEN [@ EXCEPT !.pc = "txRead", !.to = "PAID"]
                       ELSE [@ EXCEPT !.pc = "claim", !.seen = s]]
    /\ UNCHANGED <<dbVars, extVars, faults>>

\* The claim outside any transaction: the order cannot become PAID. It is
\* disputed when it was closed unpaid, else only the admin is told.
Claim(w) ==
    LET r == call[w].row IN
    /\ At(w, "claim")
    /\ Claimable(r)
    /\ payStatus' = [payStatus EXCEPT ![r] = "SUCCEEDED"]
    /\ IF call[w].seen \in ClosedUnpaid
       THEN /\ call' = [call EXCEPT ![w] = [@ EXCEPT !.pc = "txRead", !.to = "DISPUTED"]]
            /\ UNCHANGED <<acked, alerted>>
       ELSE AlertAdmin(r) /\ Return(w)
    /\ UNCHANGED <<status, quantity, usedCount, debited, handedOver, gateway, faults>>

ClaimLost(w) ==
    /\ At(w, "claim")
    /\ ~Claimable(call[w].row)
    /\ Return(w)
    /\ UNCHANGED <<dbVars, gateway, alerted, faults>>

-----------------------------------------------------------------------------
(* transition, for every caller                                            *)

ActorOf(w) == IF call[w].kind = "admin" THEN "admin" ELSE "system"

\* applyResult called it.
Applying(w) == call[w].kind \in {"webhook", "view", "expire"} /\ call[w].to # "EXPIRED"

TxRead(w) ==
    LET s == status[call[w].order] IN
    /\ At(w, "txRead")
    /\ canTransition(ActorOf(w), s, call[w].to)
    /\ call' = [call EXCEPT ![w] = [@ EXCEPT !.pc = "txWrite", !.seen = s]]
    /\ UNCHANGED <<dbVars, extVars, faults>>

\* It returned null, or threw to an admin. applyResult evaluates a payment
\* again, once; a dispute goes on to its alert.
NullResult(w) ==
    /\ IF ~Applying(w) THEN GoIdle(w) /\ UNCHANGED <<acked, alerted>>
       ELSE IF call[w].to = "DISPUTED"
       THEN AlertAdmin(call[w].row) /\ Return(w)
       ELSE IF call[w].depth = 0
       THEN /\ call' = [call EXCEPT ![w] = [@ EXCEPT !.pc = "apply", !.depth = 1,
                                              !.to = "NONE", !.seen = "NONE"]]
            /\ UNCHANGED <<acked, alerted>>
       ELSE Return(w) /\ UNCHANGED alerted
    /\ UNCHANGED <<dbVars, gateway, faults>>

\* Already there, or not a legal move.
TxRefused(w) ==
    /\ At(w, "txRead")
    /\ ~canTransition(ActorOf(w), status[call[w].order], call[w].to)
    /\ NullResult(w)

AlwaysMatches(w) == TRUE \* mutant: UPDATE ... WHERE id = ? only

\* The conditional UPDATE matches only the status the transaction read.
Matches(w) == status[call[w].order] = call[w].seen

TxLost(w) == At(w, "txWrite") /\ ~Matches(w) /\ NullResult(w)

TxNoStock(w) ==
    /\ At(w, "txWrite")
    /\ Matches(w)
    /\ StockUnavailable(call[w].order, call[w].seen, call[w].to)
    /\ IF Applying(w)
       THEN call' = [call EXCEPT ![w] = [@ EXCEPT !.pc = "claim"]]
       ELSE GoIdle(w)
    /\ UNCHANGED <<dbVars, extVars, faults>>

\* inTransaction's claim matched nothing: AlreadyProcessedError rolls back.
TxAlreadyProcessed(w) ==
    /\ At(w, "txWrite")
    /\ Matches(w)
    /\ Applying(w)
    /\ call[w].to = "PAID"
    /\ ~StockUnavailable(call[w].order, call[w].seen, call[w].to)
    /\ ~Claimable(call[w].row)
    /\ Return(w)
    /\ UNCHANGED <<dbVars, gateway, alerted, faults>>

PaymentsWithoutClaim(w) == PaymentsAfter(call[w].order, call[w].to) \* mutant: no inTransaction write

\* transition's own writes to the payments, then options.inTransaction's.
PaymentsWith(w) ==
    LET settled == PaymentsAfter(call[w].order, call[w].to)
    IN  IF call[w].to = "PAID" THEN [settled EXCEPT ![call[w].row] = "SUCCEEDED"]
        ELSE settled

TxCommit(w) ==
    /\ At(w, "txWrite")
    /\ Matches(w)
    /\ (Applying(w) /\ call[w].to = "PAID") => Claimable(call[w].row)
    /\ Commit(call[w].order, call[w].seen, call[w].to, PaymentsWith(w))
    /\ IF Applying(w) THEN Return(w) ELSE GoIdle(w) /\ UNCHANGED acked
    /\ IF Applying(w) /\ call[w].to = "DISPUTED" THEN AlertAdmin(call[w].row)
       ELSE UNCHANGED alerted
    /\ UNCHANGED <<gateway, faults>>

-----------------------------------------------------------------------------
(* Faults: the process dies, or an await throws. reconcilePending catches  *)
(* what applyResult throws and goes on; a webhook is answered 500.         *)

Crash(w) ==
    /\ faults < MaxFaults
    /\ ~Free(w)
    /\ faults' = faults + 1
    /\ GoIdle(w)
    /\ UNCHANGED <<dbVars, extVars>>

Throw(w) ==
    /\ faults < MaxFaults
    /\ call[w].pc \in {"apply", "claim", "txRead", "txWrite"}
    /\ call[w].kind \in {"view", "expire"}
    /\ call[w].to # "EXPIRED"
    /\ faults' = faults + 1
    /\ Return(w)
    /\ UNCHANGED <<dbVars, gateway, alerted>>

-----------------------------------------------------------------------------
(* External: the customer and the provider                                 *)

\* A customer pays at the checkout page, also after a failed try on it and
\* long after the order was closed.
CustomerPays(r, result) ==
    /\ gateway[r] \in {"open", "failed"}
    /\ gateway' = [gateway EXCEPT ![r] = result]
    /\ UNCHANGED <<dbVars, acked, alerted, call, faults>>

ProviderFails(r) ==
    /\ gateway[r] = "open"
    /\ gateway' = [gateway EXCEPT ![r] = "failed"]
    /\ UNCHANGED <<dbVars, acked, alerted, call, faults>>

-----------------------------------------------------------------------------
\* The next await of the call in w.
Step(w) ==
    \/ CreateRow(w) \/ CheckoutCreated(w) \/ CheckoutFailed(w) \/ CreateCash(w)
    \/ Reconciled(w)
    \/ \E r \in OnlineRow : Fetch(w, r) \/ FetchNothing(w, r)
    \/ ApplyFailed(w) \/ ApplyUnderpaid(w) \/ ApplyPaid(w) \/ Claim(w) \/ ClaimLost(w)
    \/ TxRead(w) \/ TxRefused(w) \/ TxLost(w) \/ TxNoStock(w)
    \/ TxAlreadyProcessed(w) \/ TxCommit(w)

\* A new call.
Request(w) ==
    \/ \E o \in Order :
          \/ PayOnline(w, o) \/ PayCash(w, o) \/ CancelOrder(w, o)
          \/ Expire(w, o) \/ View(w, o)
          \/ \E to \in OrderStatuses : UpdateStatus(w, o, to)
    \/ \E r \in CashRow : ConfirmCash(w, r)
    \/ \E r \in OnlineRow : Webhook(w, r)

Next ==
    \/ \E o \in Order : Checkout(o)
    \/ \E w \in Worker : Request(w) \/ Step(w) \/ Crash(w) \/ Throw(w)
    \/ \E r \in OnlineRow :
          \/ CustomerPays(r, "paid") \/ CustomerPays(r, "underpaid") \/ ProviderFails(r)

Spec == Init /\ [][Next]_vars
================================================================================
