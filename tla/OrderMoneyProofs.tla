---------------------------- MODULE OrderMoneyProofs ----------------------------
(***************************************************************************)
(* A sold order has money behind it, neither the sale nor the record of a  *)
(* payment is ever undone, and while nothing crashed no money is stranded  *)
(* and no second payment goes unnoticed, for every set of orders,          *)
(* products, payment rows and workers.                                     *)
(***************************************************************************)
EXTENDS OrderPaymentsProofs

Recorded == {"SUCCEEDED", "REFUNDED"}

\* What a call's locals say about the row it works on.
CallBacked(c) ==
    /\ c.result = "paid" => c.row \in OnlineRow /\ gateway[c.row] = "paid"
    /\ c.to = "DISPUTED" /\ c.kind # "admin" => c.row \in OnlineRow /\ payStatus[c.row] \in Recorded
    /\ c.pc = "createRow" => c.result # "paid" /\ c.to # "DISPUTED"
    /\ c.pc = "checkout" => c.row \in OnlineRow /\ gateway[c.row] = "none" /\ payStatus[c.row] # "NONE"

CallsBacked == \A w \in Worker : CallBacked(call[w])

\* One request registers an attempt: the one that created its row.
OneCheckout ==
    \A v, w \in Worker :
        v # w /\ call[v].pc = "checkout" /\ call[w].pc = "checkout" => call[v].row # call[w].row

\* The provider knows only attempts that have a row; a refund refunds the order.
RowsSound ==
    /\ \A r \in OnlineRow : payStatus[r] = "NONE" => gateway[r] = "none"
    /\ \A r \in Row : payStatus[r] = "REFUNDED" => status[OrderOf[r]] = "REFUNDED"

MoneyInv == PaidOrderHasMoney /\ CallsBacked /\ OneCheckout /\ RowsSound

\* The part of MoneyInv that no call appears in.
Ledgers == PaidOrderHasMoney /\ RowsSound

LEMMA LedgersUnchanged ==
    ASSUME Ledgers, UNCHANGED <<status, payStatus, gateway>>
    PROVE  Ledgers'
BY DEF Ledgers, PaidOrderHasMoney, RowsSound, Received, RowsOf, Row

\* A step of one worker that keeps what is paid, recorded and registered keeps
\* the calls backed.
LEMMA BackedUpdated ==
    ASSUME NEW w \in Worker, NEW c, call \in [Worker -> Calls], CallsBacked, OneCheckout,
           call' = [call EXCEPT ![w] = c], CallBacked(c)',
           c.pc = "checkout" =>
               \A v \in Worker \ {w} : call[v].pc = "checkout" => call[v].row # c.row,
           \A r \in OnlineRow : gateway[r] = "paid" => gateway'[r] = "paid",
           \A r \in OnlineRow : payStatus[r] \in Recorded => payStatus'[r] \in Recorded,
           \A v \in Worker \ {w} : call[v].pc = "checkout" =>
               gateway'[call[v].row] = "none" /\ payStatus'[call[v].row] # "NONE"
    PROVE  CallsBacked' /\ OneCheckout'
<1>1. \A v \in Worker : call'[v] = IF v = w THEN c ELSE call[v]
  OBVIOUS
<1>2. ASSUME NEW v \in Worker \ {w}
      PROVE  CallBacked(call[v])'
  <2>1. CallBacked(call[v]) /\ call'[v] = call[v]
    BY <1>1 DEF CallsBacked
  <2> QED
    BY <2>1 DEF CallBacked
<1> QED
  BY <1>1, <1>2 DEF CallsBacked, OneCheckout

LEMMA IdleBacked == CallBacked(Idle)' /\ Idle.pc # "checkout"
BY DEF CallBacked, Idle

\* A step that only starts or advances a call, but does not register a row.
LEMMA LocalStepBacked ==
    ASSUME NEW w \in Worker, NEW c, call \in [Worker -> Calls], MoneyInv,
           call' = [call EXCEPT ![w] = c], CallBacked(c), c.pc # "checkout",
           UNCHANGED <<status, payStatus, gateway>>
    PROVE  MoneyInv'
<1>1. CallBacked(c)'
  BY DEF CallBacked
<1>2. \A v \in Worker : call[v].pc = "checkout" => gateway[call[v].row] = "none" /\ payStatus[call[v].row] # "NONE"
  BY DEF MoneyInv, CallsBacked, CallBacked
<1>3. CallsBacked' /\ OneCheckout'
  BY <1>1, <1>2, BackedUpdated DEF MoneyInv
<1> QED
  BY <1>3, LedgersUnchanged DEF MoneyInv, Ledgers

LEMMA RequestMoney ==
    ASSUME TypeOK, CallsOK, MoneyInv, NEW w \in Worker, Request(w)
    PROVE  MoneyInv'
<1> USE DEF TypeOK, dbVars, extVars
<1>1. ASSUME NEW o \in Order, PayOnline(w, o) \/ PayCash(w, o)
      PROVE  MoneyInv'
  <2>1. PICK pc \in {"createRow", "createCash"} : Start(w, pc, "pay", o)
    BY <1>1 DEF PayOnline, PayCash
  <2> DEFINE c == [Idle EXCEPT !.pc = pc, !.kind = "pay", !.order = o]
  <2>2. CallBacked(c) /\ c.pc # "checkout"
    BY DEF CallBacked, Idle
  <2>3. call' = [call EXCEPT ![w] = c]
    BY <2>1 DEF Start
  <2> QED
    BY <1>1, <2>2, <2>3, LocalStepBacked DEF PayOnline, PayCash
<1>2. ASSUME NEW o \in Order, CancelOrder(w, o)
      PROVE  MoneyInv'
  <2> DEFINE c == [Idle EXCEPT !.pc = "txRead", !.kind = "admin", !.order = o,
                     !.to = IF status[o] = "PAYMENT_PENDING" THEN "CANCELLED" ELSE "REFUNDED"]
  <2>1. CallBacked(c) /\ c.pc # "checkout"
    BY DEF CallBacked, Idle
  <2> QED
    BY <1>2, <2>1, LocalStepBacked DEF CancelOrder
<1>3. ASSUME NEW o \in Order, NEW kind \in {"view", "expire"}, Reconcile(w, kind, o)
      PROVE  MoneyInv'
  <2> DEFINE c == [Idle EXCEPT !.pc = "reconcile", !.kind = kind, !.order = o, !.todo = Pollable(o)]
  <2>1. CallBacked(c) /\ c.pc # "checkout"
    BY DEF CallBacked, Idle
  <2> QED
    BY <1>3, <2>1, LocalStepBacked DEF Reconcile
<1>4. ASSUME NEW o \in Order, NEW to \in OrderStatuses, UpdateStatus(w, o, to)
      PROVE  MoneyInv'
  <2> DEFINE c == [Idle EXCEPT !.pc = "txWrite", !.kind = "admin", !.order = o, !.to = to,
                               !.seen = status[o]]
  <2>1. CallBacked(c) /\ c.pc # "checkout"
    BY DEF CallBacked, Idle
  <2> QED
    BY <1>4, <2>1, LocalStepBacked DEF UpdateStatus
<1>5. ASSUME NEW r \in CashRow, ConfirmCash(w, r)
      PROVE  MoneyInv'
  <2> DEFINE c == [Idle EXCEPT !.pc = "txRead", !.kind = "cash", !.order = OrderOf[r],
                               !.row = r, !.to = "PAID"]
  <2>1. CallBacked(c) /\ c.pc # "checkout"
    BY DEF CallBacked, Idle
  <2> QED
    BY <1>5, <2>1, LocalStepBacked DEF ConfirmCash
<1>6. ASSUME NEW r \in OnlineRow, Webhook(w, r)
      PROVE  MoneyInv'
  <2> DEFINE c == [Idle EXCEPT !.pc = "apply", !.kind = "webhook", !.order = OrderOf[r],
                               !.row = r, !.result = gateway[r]]
  <2>1. CallBacked(c) /\ c.pc # "checkout"
    BY DEF CallBacked, Idle
  <2> QED
    BY <1>6, <2>1, LocalStepBacked DEF Webhook
<1> QED
  BY <1>1, <1>2, <1>3, <1>4, <1>5, <1>6 DEF Request, Expire, View

\* applyResult's return leaves a record that says nothing of any row.
LEMMA ReturnBacked ==
    ASSUME NEW w \in Worker, Return(w)
    PROVE  \E c : call' = [call EXCEPT ![w] = c] /\ CallBacked(c) /\ CallBacked(c)' /\ c.pc # "checkout"
<1>1. \A d : d.result = "none" /\ d.to = "NONE" /\ d.pc # "checkout"
        => CallBacked(d) /\ CallBacked(d)'
  BY DEF CallBacked
<1>2. PICK c : c = IF call[w].kind = "webhook" THEN Idle
                   ELSE [Idle EXCEPT !.pc = "reconcile", !.kind = call[w].kind,
                                 !.order = call[w].order, !.todo = call[w].todo]
  OBVIOUS
<1>3. call' = [call EXCEPT ![w] = c]
  BY <1>2 DEF Return, GoIdle
<1>4. c.result = "none" /\ c.to = "NONE" /\ c.pc # "checkout"
  BY <1>2 DEF Idle
<1> QED
  BY <1>1, <1>3, <1>4

LEMMA ReturnMoney ==
    ASSUME TypeOK, MoneyInv, NEW w \in Worker, Return(w), UNCHANGED <<status, payStatus, gateway>>
    PROVE  MoneyInv'
BY ReturnBacked, LocalStepBacked DEF TypeOK

LEMMA GoIdleMoney ==
    ASSUME TypeOK, MoneyInv, NEW w \in Worker, GoIdle(w), UNCHANGED <<status, payStatus, gateway>>
    PROVE  MoneyInv'
<1>1. CallBacked(Idle) /\ Idle.pc # "checkout"
  BY DEF CallBacked, Idle
<1> QED
  BY <1>1, LocalStepBacked DEF GoIdle, TypeOK

\* The steps that change neither a status, a payment nor the provider.
LEMMA QuietSteps ==
    ASSUME TypeOK, CallsOK, MoneyInv, NEW w \in Worker,
           \/ Reconciled(w) \/ \E r \in OnlineRow : Fetch(w, r) \/ FetchNothing(w, r)
           \/ ApplyUnderpaid(w) \/ ApplyPaid(w) \/ ClaimLost(w) \/ TxRead(w) \/ TxNoStock(w)
           \/ TxRefused(w) \/ TxLost(w) \/ TxAlreadyProcessed(w) \/ Crash(w) \/ Throw(w)
    PROVE  MoneyInv'
<1> USE DEF dbVars, extVars
<1> DEFINE d == call[w]
<1>0. d \in Calls /\ CallOK(d) /\ CallBacked(d) /\ call \in [Worker -> Calls]
  BY DEF TypeOK, CallsOK, MoneyInv, CallsBacked
<1>1. CASE Reconciled(w)
  <2> DEFINE c == [d EXCEPT !.pc = "txRead", !.to = "EXPIRED"]
  <2>1. CallBacked(c) /\ c.pc # "checkout"
    BY <1>0 DEF CallBacked, Calls
  <2> QED
    BY <1>0, <1>1, <2>1, LocalStepBacked, GoIdleMoney DEF Reconciled
<1>2. ASSUME NEW r \in OnlineRow, Fetch(w, r)
      PROVE  MoneyInv'
  <2> DEFINE c == [d EXCEPT !.pc = "apply", !.row = r, !.result = gateway[r], !.todo = d.todo \ {r}]
  <2>1. d.to = "NONE"
    BY <1>0, <1>2 DEF Fetch, At, CallOK
  <2>2. CallBacked(c) /\ c.pc # "checkout"
    BY <1>0, <2>1 DEF CallBacked, Calls
  <2> QED
    BY <1>0, <1>2, <2>2, LocalStepBacked DEF Fetch
<1>3. ASSUME NEW r \in OnlineRow, FetchNothing(w, r)
      PROVE  MoneyInv'
  <2> DEFINE c == [d EXCEPT !.todo = d.todo \ {r}]
  <2>1. CallBacked(c) /\ c.pc # "checkout"
    BY <1>0, <1>3 DEF FetchNothing, At, CallBacked, Calls
  <2> QED
    BY <1>0, <1>3, <2>1, LocalStepBacked DEF FetchNothing
<1>4. CASE ApplyPaid(w)
  <2> DEFINE s == status[d.order]
             c == IF s \in {"PAYMENT_PENDING", "EXPIRED"}
                  THEN [d EXCEPT !.pc = "txRead", !.to = "PAID"]
                  ELSE [d EXCEPT !.pc = "claim", !.seen = s]
  <2>1. CallBacked(c) /\ c.pc # "checkout"
    BY <1>0 DEF CallBacked, Calls
  <2> QED
    BY <1>0, <1>4, <2>1, LocalStepBacked DEF ApplyPaid
<1>5. CASE TxRead(w)
  <2> DEFINE c == [d EXCEPT !.pc = "txWrite", !.seen = status[d.order]]
  <2>1. CallBacked(c) /\ c.pc # "checkout"
    BY <1>0 DEF CallBacked, Calls
  <2> QED
    BY <1>0, <1>5, <2>1, LocalStepBacked DEF TxRead
<1>6. CASE TxNoStock(w)
  <2> DEFINE c == [d EXCEPT !.pc = "claim"]
  <2>1. CallBacked(c) /\ c.pc # "checkout"
    BY <1>0 DEF CallBacked, Calls
  <2> QED
    BY <1>0, <1>6, <2>1, LocalStepBacked, GoIdleMoney DEF TxNoStock
<1>7. CASE TxRefused(w) \/ TxLost(w)
  <2> DEFINE c == [d EXCEPT !.pc = "apply", !.depth = 1, !.to = "NONE", !.seen = "NONE"]
  <2>1. CallBacked(c) /\ c.pc # "checkout"
    BY <1>0 DEF CallBacked, Calls
  <2>2. GoIdle(w) \/ Return(w) \/ call' = [call EXCEPT ![w] = c]
    BY <1>7, Zenon DEF TxRefused, TxLost, NullResult
  <2>3. UNCHANGED <<status, payStatus, gateway>>
    BY <1>7 DEF TxRefused, TxLost, NullResult
  <2> QED
    BY <1>0, <2>1, <2>2, <2>3, LocalStepBacked, GoIdleMoney, ReturnMoney
<1>8. CASE ApplyUnderpaid(w) \/ ClaimLost(w) \/ TxAlreadyProcessed(w) \/ Throw(w)
  BY <1>8, ReturnMoney DEF ApplyUnderpaid, ClaimLost, TxAlreadyProcessed, Throw
<1>9. CASE Crash(w)
  BY <1>9, GoIdleMoney DEF Crash
<1> QED
  BY <1>1, <1>2, <1>3, <1>4, <1>5, <1>6, <1>7, <1>8, <1>9

-----------------------------------------------------------------------------
(* The steps that change a payment, the provider or an order.              *)

\* A step that keeps the ledgers sound, un-records no payment and disturbs no
\* registration in flight, and after which w's call says nothing of a row that
\* is not so.
LEMMA DataStep ==
    ASSUME NEW w \in Worker, TypeOK, MoneyInv, Ledgers',
           \E c : call' = [call EXCEPT ![w] = c] /\ CallBacked(c)' /\ c.pc # "checkout",
           \A r \in OnlineRow :
              /\ gateway[r] = "paid" => gateway'[r] = "paid"
              /\ payStatus[r] \in Recorded => payStatus'[r] \in Recorded
              /\ payStatus[r] # "NONE" => payStatus'[r] # "NONE",
           \A v \in Worker \ {w} : call[v].pc = "checkout" => gateway'[call[v].row] = "none"
    PROVE  MoneyInv'
<1>1. \A v \in Worker \ {w} : call[v].pc = "checkout" =>
          gateway'[call[v].row] = "none" /\ payStatus'[call[v].row] # "NONE"
  BY DEF MoneyInv, CallsBacked, CallBacked
<1>2. PICK c : call' = [call EXCEPT ![w] = c] /\ CallBacked(c)' /\ c.pc # "checkout"
  OBVIOUS
<1>3. CallsBacked' /\ OneCheckout'
  BY <1>1, <1>2, BackedUpdated DEF MoneyInv, TypeOK
<1> QED
  BY <1>3 DEF MoneyInv, Ledgers

LEMMA CreateRowMoney ==
    ASSUME TypeOK, CallsOK, MoneyInv, NEW w \in Worker, CreateRow(w)
    PROVE  MoneyInv'
<1> DEFINE d == call[w]
<1>0. d \in Calls /\ CallOK(d) /\ CallBacked(d) /\ d.pc = "createRow"
  BY DEF TypeOK, CallsOK, MoneyInv, CallsBacked, CreateRow, At
<1>1. CASE GoIdle(w) /\ UNCHANGED payStatus
  BY <1>1, GoIdleMoney DEF CreateRow, extVars
<1>2. ASSUME NEW r \in OnlineRow \cap RowsOf(d.order), payStatus[r] = "NONE",
             payStatus' = [payStatus EXCEPT ![r] = "PENDING"],
             call' = [call EXCEPT ![w] = [d EXCEPT !.pc = "checkout", !.row = r]]
      PROVE  MoneyInv'
  <2>c. PICK c : c = [d EXCEPT !.pc = "checkout", !.row = r]
    OBVIOUS
  <2>1. UNCHANGED <<status, gateway>>
    BY DEF CreateRow, extVars
  <2>2. \A q \in Row : payStatus'[q] = IF q = r THEN "PENDING" ELSE payStatus[q]
    BY <1>2 DEF TypeOK, RowsOf
  <2>3. r \in Row /\ gateway[r] = "none"
    BY <1>2 DEF MoneyInv, RowsSound, RowsOf
  <2>4. Ledgers'
    BY <1>2, <2>1, <2>2 DEF MoneyInv, Ledgers, PaidOrderHasMoney, RowsSound, Received, RowsOf, Row
  <2>5. c.pc = "checkout" /\ c.row = r /\ c.result # "paid" /\ c.to # "DISPUTED"
    BY <1>0, <2>c DEF Calls, CallBacked
  <2>6. CallBacked(c)'
    BY <1>2, <2>1, <2>2, <2>3, <2>5 DEF CallBacked
  <2>7. \A v \in Worker \ {w} : call[v].pc = "checkout" =>
            /\ call[v].row \in OnlineRow /\ call[v].row # r
            /\ gateway[call[v].row] = "none" /\ payStatus[call[v].row] # "NONE"
    BY <1>2 DEF MoneyInv, CallsBacked, CallBacked
  <2>8. \A q \in OnlineRow : payStatus[q] \in Recorded => payStatus'[q] \in Recorded
    BY <1>2, <2>2 DEF Recorded, Row
  <2>9. CallsBacked' /\ OneCheckout'
    <3>1. \A v \in Worker \ {w} : call[v].pc = "checkout" =>
              gateway'[call[v].row] = "none" /\ payStatus'[call[v].row] # "NONE"
      BY <2>1, <2>2, <2>7 DEF Row
    <3>2. call \in [Worker -> Calls] /\ CallsBacked /\ OneCheckout
      BY DEF TypeOK, MoneyInv
    <3>3. \A q \in OnlineRow : gateway[q] = "paid" => gateway'[q] = "paid"
      BY <2>1
    <3>4. \A v \in Worker \ {w} : call[v].pc = "checkout" => call[v].row # c.row
      BY <2>5, <2>7
    <3> QED
      BY <1>2, <2>c, <2>6, <2>8, <3>1, <3>2, <3>3, <3>4, BackedUpdated
  <2> QED
    BY <2>4, <2>9 DEF MoneyInv, Ledgers
<1> QED
  BY <1>1, <1>2 DEF CreateRow

LEMMA CheckoutMoney ==
    ASSUME TypeOK, CallsOK, MoneyInv, NEW w \in Worker, CheckoutCreated(w) \/ CheckoutFailed(w)
    PROVE  MoneyInv'
<1> DEFINE r == call[w].row
<1>0. /\ r \in OnlineRow /\ r \in Row /\ gateway[r] = "none" /\ payStatus[r] \notin {"NONE", "SUCCEEDED", "REFUNDED"}
      /\ \A v \in Worker \ {w} : call[v].pc = "checkout" =>
             call[v].row \in OnlineRow /\ gateway[call[v].row] = "none" /\ call[v].row # r
  <2>1. call[w].pc = "checkout"
    BY DEF CheckoutCreated, CheckoutFailed, At
  <2>2. r \in OnlineRow /\ r \in Row /\ gateway[r] = "none" /\ payStatus[r] # "NONE"
    BY <2>1 DEF MoneyInv, CallsBacked, CallBacked, Row
  <2>3. r \notin CashRow
    BY <2>2, CartAssumption
  <2> QED
    BY <2>1, <2>2, <2>3 DEF MoneyInv, OneCheckout, PaidOrderHasMoney, Received, CallsBacked, CallBacked
<1>1. call' = [call EXCEPT ![w] = Idle] /\ CallBacked(Idle)' /\ Idle.pc # "checkout" /\ UNCHANGED status
  BY IdleBacked DEF CheckoutCreated, CheckoutFailed, GoIdle, dbVars
<1>2. CASE CheckoutCreated(w)
  <2>1. UNCHANGED payStatus /\ \A q \in OnlineRow : gateway'[q] = IF q = r THEN "open" ELSE gateway[q]
    BY <1>2, <1>0 DEF CheckoutCreated, dbVars, TypeOK
  <2>2. Ledgers'
    BY <1>0, <1>1, <2>1 DEF MoneyInv, Ledgers, PaidOrderHasMoney, RowsSound, Received, RowsOf, Row
  <2> QED
    BY <1>0, <1>1, <2>1, <2>2, DataStep
<1>3. CASE CheckoutFailed(w)
  <2>1. UNCHANGED gateway /\ \A q \in Row : payStatus'[q] = IF q = r THEN "FAILED" ELSE payStatus[q]
    BY <1>3, <1>0 DEF CheckoutFailed, extVars, TypeOK
  <2>2. Ledgers'
    BY <1>0, <1>1, <2>1 DEF MoneyInv, Ledgers, PaidOrderHasMoney, RowsSound, Received, RowsOf, Row
  <2> QED
    BY <1>0, <1>1, <2>1, <2>2, DataStep DEF Recorded, Row
<1> QED
  BY <1>2, <1>3

\* No step is about to register a row of which the provider has reported.
LEMMA OthersUnregistered ==
    ASSUME MoneyInv, NEW v \in Worker, call[v].pc = "checkout"
    PROVE  /\ call[v].row \in OnlineRow /\ gateway[call[v].row] = "none"
           /\ payStatus[call[v].row] # "NONE"
BY DEF MoneyInv, CallsBacked, CallBacked

LEMMA CreateCashMoney ==
    ASSUME TypeOK, CallsOK, MoneyInv, NEW w \in Worker, CreateCash(w)
    PROVE  MoneyInv'
<1>1. CASE UNCHANGED payStatus
  BY <1>1, GoIdleMoney DEF CreateCash, extVars
<1>2. ASSUME NEW r \in CashRow \cap RowsOf(call[w].order), payStatus[r] = "NONE",
             payStatus' = [payStatus EXCEPT ![r] = "PENDING"]
      PROVE  MoneyInv'
  <2>1. UNCHANGED <<status, gateway>>
    BY DEF CreateCash, extVars
  <2>2. r \in Row /\ r \notin OnlineRow /\ \A q \in Row : payStatus'[q] = IF q = r THEN "PENDING" ELSE payStatus[q]
    BY <1>2, CartAssumption DEF TypeOK, RowsOf
  <2>3. Ledgers'
    BY <1>2, <2>1, <2>2 DEF MoneyInv, Ledgers, PaidOrderHasMoney, RowsSound, Received, RowsOf, Row
  <2>4. call' = [call EXCEPT ![w] = Idle] /\ CallBacked(Idle)' /\ Idle.pc # "checkout"
    BY IdleBacked DEF CreateCash, GoIdle
  <2>5. \A q \in OnlineRow : payStatus'[q] = payStatus[q] /\ gateway'[q] = gateway[q]
    BY <2>1, <2>2 DEF Row
  <2> QED
    BY <2>3, <2>4, <2>5, OthersUnregistered, DataStep
<1> QED
  BY <1>1, <1>2 DEF CreateCash

LEMMA ApplyFailedMoney ==
    ASSUME TypeOK, CallsOK, MoneyInv, NEW w \in Worker, ApplyFailed(w)
    PROVE  MoneyInv'
<1>1. \E c : call' = [call EXCEPT ![w] = c] /\ CallBacked(c)' /\ c.pc # "checkout"
  BY ReturnBacked DEF ApplyFailed
<1>2. UNCHANGED <<status, gateway>>
  BY DEF ApplyFailed
<1>3. \A q \in Row : \/ payStatus'[q] = payStatus[q]
                     \/ payStatus[q] = "PENDING" /\ payStatus'[q] = "FAILED"
  <2>1. call[w].row \in Row /\ payStatus \in [Row -> PaymentStatuses]
    BY DEF ApplyFailed, At, CallsOK, CallOK, TypeOK, Row
  <2>2. payStatus' = IF payStatus[call[w].row] = "PENDING"
                     THEN [payStatus EXCEPT ![call[w].row] = "FAILED"] ELSE payStatus
    BY DEF ApplyFailed, FailRow
  <2> QED
    BY <2>1, <2>2
<1>4. Ledgers'
  BY <1>2, <1>3 DEF MoneyInv, Ledgers, PaidOrderHasMoney, RowsSound, Received, RowsOf, Row
<1>5. \A q \in OnlineRow : /\ payStatus[q] \in Recorded => payStatus'[q] \in Recorded
                           /\ payStatus[q] # "NONE" => payStatus'[q] # "NONE"
  BY <1>3 DEF Recorded, Row
<1>6. \A v \in Worker \ {w} : call[v].pc = "checkout" => gateway'[call[v].row] = "none"
  BY <1>2, OthersUnregistered
<1>7. \A q \in OnlineRow : /\ gateway[q] = "paid" => gateway'[q] = "paid"
                           /\ payStatus[q] \in Recorded => payStatus'[q] \in Recorded
                           /\ payStatus[q] # "NONE" => payStatus'[q] # "NONE"
  BY <1>2, <1>5
<1> QED
  BY <1>1, <1>4, <1>6, <1>7, DataStep

LEMMA ClaimMoney ==
    ASSUME TypeOK, CallsOK, MoneyInv, NEW w \in Worker, Claim(w)
    PROVE  MoneyInv'
<1> DEFINE d == call[w]
           r == d.row
<1>0. /\ d \in Calls /\ r \in OnlineRow /\ r \in Row /\ gateway[r] = "paid"
      /\ d.result = "paid" /\ d.pc = "claim"
  BY DEF TypeOK, CallsOK, CallOK, MoneyInv, CallsBacked, CallBacked, Claim, At, Row
<1>1. UNCHANGED <<status, gateway>>
  BY DEF Claim
<1>2. payStatus[r] \in {"PENDING", "FAILED"} /\ \A q \in Row : payStatus'[q] = IF q = r THEN "SUCCEEDED" ELSE payStatus[q]
  BY <1>0 DEF Claim, Claimable, TypeOK
<1>3. Ledgers'
  BY <1>0, <1>1, <1>2 DEF MoneyInv, Ledgers, PaidOrderHasMoney, RowsSound, Received, RowsOf, Row
<1>4. \E c : call' = [call EXCEPT ![w] = c] /\ CallBacked(c)' /\ c.pc # "checkout"
  <2>1. CASE d.seen \in ClosedUnpaid
    <3>1. PICK c : c = [d EXCEPT !.pc = "txRead", !.to = "DISPUTED"]
      OBVIOUS
    <3>2. c.pc = "txRead" /\ c.row = r
      BY <1>0, <3>1 DEF Calls
    <3>3. CallBacked(c)'
      BY <1>0, <1>1, <1>2, <3>2 DEF CallBacked, Recorded
    <3> QED
      BY <2>1, <3>1, <3>2, <3>3 DEF Claim
  <2>2. CASE d.seen \notin ClosedUnpaid
    BY <2>2, ReturnBacked DEF Claim
  <2> QED
    BY <2>1, <2>2
<1>5. \A q \in OnlineRow : /\ payStatus[q] \in Recorded => payStatus'[q] \in Recorded
                           /\ payStatus[q] # "NONE" => payStatus'[q] # "NONE"
  BY <1>2 DEF Recorded, Row
<1>6. \A v \in Worker \ {w} : call[v].pc = "checkout" => gateway'[call[v].row] = "none"
  BY <1>1, OthersUnregistered
<1>7. \A q \in OnlineRow : /\ gateway[q] = "paid" => gateway'[q] = "paid"
                           /\ payStatus[q] \in Recorded => payStatus'[q] \in Recorded
                           /\ payStatus[q] # "NONE" => payStatus'[q] # "NONE"
  BY <1>1, <1>5
<1> QED
  BY <1>1, <1>3, <1>4, <1>6, <1>7, DataStep

\* What a committed transition does to the payments.
LEMMA CommitPayments ==
    ASSUME TypeOK, CallsOK, MoneyInv, NEW w \in Worker, TxCommit(w),
           NEW o, o = call[w].order, NEW to, to = call[w].to, NEW s, s = call[w].seen
    PROVE  /\ o \in Order /\ status[o] = s /\ status' = [status EXCEPT ![o] = to]
           /\ canTransition(ActorOf(w), s, to)
           /\ to = "PAID" => /\ ActorOf(w) = "system" /\ call[w].row \in RowsOf(o)
                             /\ Received(call[w].row)
           /\ to = "DISPUTED" /\ ActorOf(w) = "system" =>
                  call[w].row \in RowsOf(o) /\ payStatus[call[w].row] \in Recorded
           /\ payStatus' = PaymentsWith(w)
<1>1. TxCommit(w) /\ call[w] \in Calls /\ CallOK(call[w]) /\ CallBacked(call[w]) /\ call[w].pc = "txWrite"
  BY DEF TypeOK, CallsOK, MoneyInv, CallsBacked, TxCommit, At
<1>2. o \in Order /\ status[o] = s /\ status' = [status EXCEPT ![o] = to] /\ payStatus' = PaymentsWith(w)
  BY <1>1 DEF TxCommit, Matches, Commit, CallOK
<1>3. canTransition(ActorOf(w), s, to)
  BY <1>1 DEF CallOK, ActorOf
<1>4. to = "PAID" => ActorOf(w) = "system"
  BY <1>3 DEF ActorOf, canTransition, AllowedAdmin, Moves
<1>5. to = "PAID" => call[w].row \in RowsOf(o) /\ Received(call[w].row)
  BY <1>1, <1>4 DEF ActorOf, CallOK, CallBacked, RowsOf, Received, Row
<1>6. to = "DISPUTED" /\ ActorOf(w) = "system" =>
          call[w].row \in RowsOf(o) /\ payStatus[call[w].row] \in Recorded
  BY <1>1 DEF ActorOf, CallOK, CallBacked, RowsOf, Row
<1> QED
  BY <1>2, <1>3, <1>4, <1>5, <1>6

\* How a committed transition changes one payment.
LEMMA CommittedRow ==
    ASSUME TypeOK, CallsOK, MoneyInv, NEW w \in Worker, TxCommit(w), NEW q \in Row
    PROVE  \/ payStatus'[q] = payStatus[q]
           \/ /\ OrderOf[q] = call[w].order /\ call[w].to = "REFUNDED"
              /\ payStatus[q] = "SUCCEEDED" /\ payStatus'[q] = "REFUNDED"
           \/ /\ OrderOf[q] = call[w].order /\ call[w].to \in ClosedUnpaid
              /\ payStatus[q] = "PENDING" /\ payStatus'[q] = "FAILED"
           \/ /\ OrderOf[q] = call[w].order /\ call[w].to = "PAID"
              /\ Received(q) /\ payStatus'[q] = "SUCCEEDED"
<1> DEFINE o == call[w].order
           to == call[w].to
<1>1. /\ payStatus' = PaymentsWith(w)
      /\ to = "PAID" => call[w].row \in RowsOf(o) /\ Received(call[w].row)
  BY CommitPayments
<1>2. CASE to = "PAID"
  <2>1. PaymentsAfter(o, to)[q] = payStatus[q]
    BY <1>2 DEF PaymentsAfter
  <2>2. payStatus'[q] = IF q = call[w].row THEN "SUCCEEDED" ELSE payStatus[q]
    BY <1>1, <1>2, <2>1 DEF PaymentsWith, PaymentsAfter
  <2> QED
    BY <1>1, <1>2, <2>2 DEF RowsOf
<1>3. CASE to # "PAID"
  BY <1>1, <1>3 DEF PaymentsWith, PaymentsAfter, ClosedUnpaid
<1> QED
  BY <1>2, <1>3

LEMMA TxCommitMoney ==
    ASSUME TypeOK, CallsOK, MoneyInv, NEW w \in Worker, TxCommit(w)
    PROVE  MoneyInv'
<1> DEFINE o == call[w].order
           to == call[w].to
           s == call[w].seen
<1>1. /\ o \in Order /\ status[o] = s /\ status' = [status EXCEPT ![o] = to]
      /\ canTransition(ActorOf(w), s, to)
      /\ to = "PAID" => /\ ActorOf(w) = "system" /\ call[w].row \in RowsOf(o)
                        /\ Received(call[w].row)
      /\ to = "DISPUTED" /\ ActorOf(w) = "system" =>
             call[w].row \in RowsOf(o) /\ payStatus[call[w].row] \in Recorded
      /\ payStatus' = PaymentsWith(w)
  BY CommitPayments
<1>2. UNCHANGED gateway
  BY DEF TxCommit
<1>3. /\ to \in Sold => s \in Sold \/ to = "PAID" \/ (to = "DISPUTED" /\ ActorOf(w) = "system" /\ s # "REFUNDED")
      /\ s # "REFUNDED" /\ to # "NONE"
  BY <1>1 DEF canTransition, AllowedAdmin, AllowedSystem, Moves, Sold
<1>4. \A q \in Row : payStatus[q] = "SUCCEEDED" /\ payStatus'[q] # "SUCCEEDED"
          => OrderOf[q] = o /\ to = "REFUNDED"
  BY CommittedRow DEF ClosedUnpaid
<1>5. \A q \in Row : payStatus'[q] \in Recorded => Received(q)
  BY CommittedRow DEF MoneyInv, PaidOrderHasMoney, Recorded
<1>6. \A p \in Order : status'[p] \in Sold => \E q \in RowsOf(p) : payStatus'[q] = "SUCCEEDED"
  <2> SUFFICES ASSUME NEW p \in Order, status'[p] \in Sold
               PROVE  \E q \in RowsOf(p) : payStatus'[q] = "SUCCEEDED"
    OBVIOUS
  <2>1. CASE p # o
    <3>1. PICK q \in RowsOf(p) : payStatus[q] = "SUCCEEDED"
      BY <1>1, <2>1 DEF MoneyInv, PaidOrderHasMoney, TypeOK
    <3> QED
      BY <1>4, <2>1, <3>1 DEF RowsOf
  <2>2. CASE p = o /\ s \in Sold
    <3>1. PICK q \in RowsOf(p) : payStatus[q] = "SUCCEEDED"
      BY <1>1, <2>2 DEF MoneyInv, PaidOrderHasMoney
    <3>2. to # "REFUNDED"
      BY <1>1, <2>2 DEF Sold, TypeOK
    <3> QED
      BY <1>4, <3>1, <3>2 DEF RowsOf
  <2>3. CASE p = o /\ to = "PAID"
    <3>1. call[w].row \in Row /\ call[w].row \in RowsOf(p)
      BY <1>1, <2>3 DEF RowsOf
    <3>2. payStatus'[call[w].row] = "SUCCEEDED"
      BY <1>1, <2>3, <3>1 DEF PaymentsWith, PaymentsAfter
    <3> QED
      BY <3>1, <3>2
  <2>4. CASE p = o /\ to = "DISPUTED" /\ ActorOf(w) = "system" /\ s # "REFUNDED"
    <3>1. call[w].row \in Row /\ call[w].row \in RowsOf(p) /\ payStatus[call[w].row] \in Recorded
      BY <1>1, <2>4 DEF RowsOf
    <3>2. payStatus[call[w].row] = "SUCCEEDED"
      BY <1>1, <2>4, <3>1 DEF MoneyInv, RowsSound, Recorded, RowsOf
    <3> QED
      BY <1>4, <2>4, <3>1, <3>2
  <2>5. p = o => to \in Sold
    BY <1>1 DEF TypeOK
  <2> QED
    BY <1>3, <2>1, <2>2, <2>3, <2>4, <2>5
<1>7. \A q \in OnlineRow : payStatus'[q] = "NONE" => gateway'[q] = "none"
  BY <1>2, CommittedRow DEF MoneyInv, RowsSound, Row
<1>8. \A q \in Row : payStatus'[q] = "REFUNDED" => status'[OrderOf[q]] = "REFUNDED"
  BY <1>1, <1>3, CommittedRow, CartAssumption DEF MoneyInv, RowsSound, TypeOK
<1>9. Ledgers'
  BY <1>2, <1>5, <1>6, <1>7, <1>8 DEF Ledgers, PaidOrderHasMoney, RowsSound, Received, RowsOf, Row, Recorded
<1>10. \E c : call' = [call EXCEPT ![w] = c] /\ CallBacked(c)' /\ c.pc # "checkout"
  BY ReturnBacked, IdleBacked DEF TxCommit, GoIdle
<1>11. \A q \in OnlineRow :
           /\ gateway[q] = "paid" => gateway'[q] = "paid"
           /\ payStatus[q] \in Recorded => payStatus'[q] \in Recorded
           /\ payStatus[q] # "NONE" => payStatus'[q] # "NONE"
  BY <1>2, CommittedRow DEF Recorded, Row
<1>12. \A v \in Worker \ {w} : call[v].pc = "checkout" => gateway'[call[v].row] = "none"
  BY <1>2, OthersUnregistered
<1> QED
  BY <1>9, <1>10, <1>11, <1>12, DataStep

\* A new order has no row that was refunded.
LEMMA CheckoutOrderMoney ==
    ASSUME TypeOK, MoneyInv, NEW o \in Order, Checkout(o)
    PROVE  MoneyInv'
<1>1. /\ UNCHANGED <<payStatus, gateway, call>> /\ status[o] = "NONE"
      /\ \A p \in Order : status'[p] = IF p = o THEN "PAYMENT_PENDING" ELSE status[p]
  BY DEF Checkout, PlaceOrder, extVars, TypeOK
<1>2. Ledgers'
  BY <1>1, CartAssumption DEF MoneyInv, Ledgers, PaidOrderHasMoney, RowsSound, Received, RowsOf, Row, Sold
<1>3. CallsBacked' /\ OneCheckout'
  BY <1>1 DEF MoneyInv, CallsBacked, CallBacked, OneCheckout
<1> QED
  BY <1>2, <1>3 DEF MoneyInv, Ledgers

\* The customer and the provider act on registered attempts that are not paid.
LEMMA ProviderMoney ==
    ASSUME TypeOK, MoneyInv, NEW r \in OnlineRow,
           CustomerPays(r, "paid") \/ CustomerPays(r, "underpaid") \/ ProviderFails(r)
    PROVE  MoneyInv'
<1>1. /\ UNCHANGED <<status, payStatus, call>> /\ gateway[r] \in {"open", "failed"}
      /\ \E g \in Results : \A q \in OnlineRow : gateway'[q] = IF q = r THEN g ELSE gateway[q]
  BY DEF CustomerPays, ProviderFails, dbVars, TypeOK, Results
<1>2. \A q \in OnlineRow : gateway[q] \in {"none", "paid"} => gateway'[q] = gateway[q]
  BY <1>1
<1>3. Ledgers'
  BY <1>1, <1>2, CartAssumption DEF MoneyInv, Ledgers, PaidOrderHasMoney, RowsSound, Received, RowsOf, Row
<1>4. CallsBacked' /\ OneCheckout'
  BY <1>1, <1>2 DEF MoneyInv, CallsBacked, CallBacked, OneCheckout
<1> QED
  BY <1>3, <1>4 DEF MoneyInv, Ledgers

LEMMA NextMoney ==
    ASSUME TypeOK, CallsOK, MoneyInv, [Next]_vars
    PROVE  MoneyInv'
<1>1. CASE UNCHANGED vars
  BY <1>1 DEF vars, dbVars, extVars, MoneyInv, PaidOrderHasMoney, CallsBacked, CallBacked,
              OneCheckout, RowsSound, Received, RowsOf
<1>2. ASSUME NEW w \in Worker, Step(w)
      PROVE  MoneyInv'
  BY <1>2, CreateRowMoney, CheckoutMoney, CreateCashMoney, QuietSteps, ApplyFailedMoney,
     ClaimMoney, TxCommitMoney DEF Step
<1>3. ASSUME NEW w \in Worker, Request(w) \/ Crash(w) \/ Throw(w)
      PROVE  MoneyInv'
  BY <1>3, RequestMoney, QuietSteps
<1> QED
  BY <1>1, <1>2, <1>3, CheckoutOrderMoney, ProviderMoney DEF Next

LEMMA InitMoney == Init => MoneyInv
BY DEF Init, DbInit, MoneyInv, PaidOrderHasMoney, CallsBacked, CallBacked, OneCheckout,
       RowsSound, Received, RowsOf, Idle, Sold, Row

\* The steps that write a payment.
LEMMA PaymentWriters ==
    ASSUME [Next]_vars
    PROVE  \/ UNCHANGED payStatus
           \/ \E w \in Worker : TxCommit(w) \/ CheckoutFailed(w) \/ CreateRow(w) \/ CreateCash(w)
                                \/ ApplyFailed(w) \/ Claim(w)
<1>1. ASSUME NEW w \in Worker, Request(w)
      PROVE  UNCHANGED payStatus
  BY <1>1 DEF Request, PayOnline, PayCash, CancelOrder, Expire, View, Reconcile,
              UpdateStatus, ConfirmCash, Webhook, dbVars
<1>2. ASSUME NEW w \in Worker, Step(w), ~TxCommit(w), ~CheckoutFailed(w), ~CreateRow(w),
             ~CreateCash(w), ~ApplyFailed(w), ~Claim(w)
      PROVE  UNCHANGED payStatus
  BY <1>2 DEF Step, CheckoutCreated, Reconciled, Fetch, FetchNothing, ApplyUnderpaid, ApplyPaid,
              ClaimLost, TxRead, TxRefused, TxLost, TxNoStock, TxAlreadyProcessed, NullResult, dbVars
<1>3. ASSUME \/ \E o \in Order : Checkout(o)
             \/ \E w \in Worker : Crash(w) \/ Throw(w)
             \/ \E r \in OnlineRow : ProviderFails(r)
             \/ \E r \in OnlineRow, result \in Results : CustomerPays(r, result)
             \/ UNCHANGED vars
      PROVE  UNCHANGED payStatus
  BY <1>3 DEF Checkout, PlaceOrder, Crash, Throw, CustomerPays, ProviderFails, vars, dbVars
<1> QED
  BY <1>1, <1>2, <1>3 DEF Next, Results

\* The invariant the theorems below rest on.
LEMMA MoneyHolds == Spec => [](TypeOK /\ CallsOK /\ MoneyInv)
<1>1. Init => TypeOK /\ CallsOK /\ MoneyInv
  BY InitTyped, InitMoney
<1>2. TypeOK /\ CallsOK /\ MoneyInv /\ [Next]_vars => (TypeOK /\ CallsOK /\ MoneyInv)'
  BY NextTyped, NextMoney
<1> QED
  BY <1>1, <1>2, PTL DEF Spec

-----------------------------------------------------------------------------
\* A sold order has a payment that succeeded, and the provider or an admin has
\* said that the money of every such payment is there: no interleaving of
\* webhooks, polls, expiries, admin moves and crashes breaks it.
THEOREM PaidHasMoney == Spec => []PaidOrderHasMoney
<1>1. MoneyInv => PaidOrderHasMoney
  BY DEF MoneyInv
<1> QED
  BY <1>1, MoneyHolds, PTL

\* What both tables of moves have in common.
LEMMA LegalMoves ==
    ASSUME NEW actor, NEW from, NEW to, canTransition(actor, from, to)
    PROVE  /\ from \in Sold => to \in Sold \cup {"REFUNDED"}
           /\ from # "REFUNDED"
BY DEF canTransition, AllowedSystem, AllowedAdmin, Moves, Sold

\* A sold order never becomes unpaid, expired or cancelled, and a refund is
\* final, because every write is conditional on the status that was read and
\* the two tables of moves lead nowhere else.
THEOREM SaleStands == Spec => SoldNeverFallsBack
<1> DEFINE Stands == \A o \in Order :
              /\ status[o] \in Sold => status'[o] \in Sold \cup {"REFUNDED"}
              /\ status[o] = "REFUNDED" => status'[o] = "REFUNDED"
<1>1. ASSUME TypeOK, CallsOK, [Next]_vars
      PROVE  Stands
  <2>1. CASE UNCHANGED status
    BY <2>1
  <2>2. ASSUME NEW o \in Order, Checkout(o)
        PROVE  Stands
    BY <2>2 DEF Checkout, PlaceOrder, Sold, TypeOK
  <2>3. ASSUME NEW w \in Worker, TxCommit(w)
        PROVE  Stands
    <3> DEFINE o == call[w].order
               to == call[w].to
    <3>1. o \in Order /\ canTransition(ActorOf(w), status[o], to) /\ status' = [status EXCEPT ![o] = to]
      BY <1>1, <2>3, CommitFacts
    <3>2. /\ status[o] \in Sold => to \in Sold \cup {"REFUNDED"}
          /\ status[o] # "REFUNDED"
      BY <3>1, LegalMoves
    <3>3. \A q \in Order : status'[q] = IF q = o THEN to ELSE status[q]
      BY <1>1, <3>1 DEF TypeOK
    <3> QED
      BY <3>2, <3>3
  <2> QED
    BY <1>1, <2>1, <2>2, <2>3, StockWriters
<1>2. TypeOK /\ CallsOK /\ [Next]_vars => [Stands]_vars
  BY <1>1
<1> QED
  BY <1>2, TypeCorrect, PTL DEF Spec, SoldNeverFallsBack

\* Once a payment succeeded, a late failure, an expiry, a cancellation or a
\* repeated registration never un-records it.
THEOREM RecordStands == Spec => SucceededNeverUndone
<1> DEFINE Stands == \A r \in Row :
              /\ payStatus[r] = "SUCCEEDED" => payStatus'[r] \in {"SUCCEEDED", "REFUNDED"}
              /\ payStatus[r] = "REFUNDED" => payStatus'[r] = "REFUNDED"
<1>1. ASSUME TypeOK, CallsOK, MoneyInv, [Next]_vars
      PROVE  Stands
  <2>1. CASE UNCHANGED payStatus
    BY <2>1
  <2>2. ASSUME NEW w \in Worker, TxCommit(w)
        PROVE  Stands
    <3> SUFFICES ASSUME NEW r \in Row
                 PROVE  /\ payStatus[r] = "SUCCEEDED" => payStatus'[r] \in {"SUCCEEDED", "REFUNDED"}
                        /\ payStatus[r] = "REFUNDED" => payStatus'[r] = "REFUNDED"
      OBVIOUS
    <3>1. status[call[w].order] # "REFUNDED"
      BY <1>1, <2>2, CommitFacts, LegalMoves
    <3>2. payStatus[r] = "REFUNDED" => OrderOf[r] # call[w].order
      BY <1>1, <3>1 DEF MoneyInv, RowsSound
    <3> QED
      BY <1>1, <2>2, <3>2, CommittedRow
  <2>3. ASSUME NEW w \in Worker, CheckoutFailed(w)
        PROVE  Stands
    <3>1. call[w].row \in OnlineRow /\ call[w].row \notin CashRow /\ call[w].row \in Row
          /\ gateway[call[w].row] = "none"
      BY <1>1, <2>3, OthersUnregistered, CartAssumption DEF CheckoutFailed, At, Row
    <3>2. payStatus[call[w].row] \notin Recorded
      BY <1>1, <3>1 DEF MoneyInv, PaidOrderHasMoney, Received, Recorded
    <3> QED
      BY <1>1, <2>3, <3>1, <3>2 DEF CheckoutFailed, TypeOK, Recorded
  <2>4. ASSUME NEW w \in Worker, CreateRow(w) \/ CreateCash(w) \/ ApplyFailed(w) \/ Claim(w)
        PROVE  Stands
    <3>1. \/ \E r \in Row : payStatus[r] = "NONE" /\ payStatus' = [payStatus EXCEPT ![r] = "PENDING"]
          \/ \E p \in {"FAILED", "SUCCEEDED"} :
                /\ payStatus[call[w].row] \in {"PENDING", "FAILED"}
                /\ payStatus' = [payStatus EXCEPT ![call[w].row] = p]
          \/ payStatus' = payStatus
      BY <2>4 DEF CreateRow, CreateCash, ApplyFailed, FailRow, Claim, Claimable, RowsOf
    <3> QED
      BY <1>1, <3>1 DEF TypeOK
  <2>5. \/ UNCHANGED payStatus
        \/ \E w \in Worker : TxCommit(w) \/ CheckoutFailed(w) \/ CreateRow(w) \/ CreateCash(w)
                             \/ ApplyFailed(w) \/ Claim(w)
    BY <1>1, PaymentWriters
  <2> QED
    BY <2>1, <2>2, <2>3, <2>4, <2>5
<1>2. TypeOK /\ CallsOK /\ MoneyInv /\ [Next]_vars => [Stands]_vars
  BY <1>1
<1> QED
  BY <1>2, MoneyHolds, PTL DEF Spec, SucceededNeverUndone

-----------------------------------------------------------------------------
(* Stranded and extra payments. A call acts on a status it read earlier;   *)
(* CallsFresh says how far the order can have moved since.                 *)

Settled == Sold \cup {"REFUNDED"}

CallFresh(c, now) ==
    /\ c.pc # "idle" => now[c.order] # "NONE"
    /\ c.seen \notin {"NONE", "PAYMENT_PENDING"} => c.pc # "idle" /\ now[c.order] \in Settled \cup {c.seen}
    /\ c.pc = "claim" => c.seen \notin {"NONE", "PAYMENT_PENDING"}
    /\ c.to = "DISPUTED" => c.pc \in {"txRead", "txWrite"}
    /\ c.kind = "admin" => c.row = None /\ c.pc # "createRow"

CallsFresh == \A w \in Worker : CallFresh(call[w], status)

\* Only placed orders have payments, and no money is recorded for an order
\* that still waits for its payment.
RowsPlaced ==
    \A r \in Row :
        /\ payStatus[r] # "NONE" => status[OrderOf[r]] # "NONE"
        /\ payStatus[r] \in Recorded => status[OrderOf[r]] # "PAYMENT_PENDING"

Unflagged(r) == payStatus[r] = "SUCCEEDED" /\ r \notin alerted /\ ~InHand(r)

OneUnflagged ==
    \A q, r \in Row : OrderOf[q] = OrderOf[r] /\ Unflagged(q) /\ Unflagged(r) => q = r

FlagInv == CallsFresh /\ RowsPlaced /\ (faults = 0 => NoStrandedMoney /\ OneUnflagged)

\* Where a step can take an order.
LEMMA StatusStep ==
    ASSUME TypeOK, CallsOK, [Next]_vars, NEW o \in Order
    PROVE  /\ status[o] # "NONE" => status'[o] # "NONE"
           /\ status[o] \in Settled => status'[o] \in Settled
           /\ status[o] \in ClosedUnpaid => status'[o] \in Settled \cup {status[o]}
           /\ status[o] \notin {"NONE", "PAYMENT_PENDING"} => status'[o] # "PAYMENT_PENDING"
<1>1. CASE UNCHANGED status
  BY <1>1
<1>2. ASSUME NEW p \in Order, Checkout(p)
      PROVE  status'[o] = status[o] \/ (status[o] = "NONE" /\ status'[o] = "PAYMENT_PENDING")
  BY <1>2 DEF Checkout, PlaceOrder, TypeOK
<1>3. ASSUME NEW w \in Worker, TxCommit(w)
      PROVE  status'[o] = status[o] \/ canTransition(ActorOf(w), status[o], status'[o])
  <2>1. /\ call[w].order \in Order
        /\ canTransition(ActorOf(w), status[call[w].order], call[w].to)
        /\ status' = [status EXCEPT ![call[w].order] = call[w].to]
    BY <1>3, CommitFacts
  <2> QED
    BY <2>1 DEF TypeOK
<1>4. ASSUME NEW actor, canTransition(actor, status[o], status'[o])
      PROVE  /\ status'[o] \notin {"NONE", "PAYMENT_PENDING"}
             /\ status[o] \in Settled => status'[o] \in Settled
             /\ status[o] \in ClosedUnpaid => status'[o] \in Settled
  BY <1>4 DEF canTransition, AllowedSystem, AllowedAdmin, Moves, Settled, Sold, ClosedUnpaid
<1> QED
  BY <1>1, <1>2, <1>3, <1>4, StockWriters DEF Settled, Sold, ClosedUnpaid

\* A step of one call changes no other.
LEMMA OneCaller ==
    ASSUME TypeOK, NEW w \in Worker, Request(w) \/ Step(w) \/ Crash(w) \/ Throw(w)
    PROVE  \E c : call' = [call EXCEPT ![w] = c]
<1>1. GoIdle(w) \/ Return(w) => \E c : call' = [call EXCEPT ![w] = c]
  BY Zenon DEF GoIdle, Return
<1>2. CASE Request(w)
  BY <1>2, Zenon DEF Request, PayOnline, PayCash, CancelOrder, Expire, View, Reconcile,
                     UpdateStatus, ConfirmCash, Webhook, Start
<1>3. CASE Crash(w) \/ Throw(w)
  BY <1>1, <1>3 DEF Crash, Throw
<1>4. ASSUME NullResult(w)
      PROVE  \E c : call' = [call EXCEPT ![w] = c]
  BY <1>1, <1>4, Zenon DEF NullResult
<1>5. CASE CreateRow(w) \/ CheckoutCreated(w) \/ CheckoutFailed(w) \/ CreateCash(w) \/ Reconciled(w)
  BY <1>1, <1>5, Zenon DEF CreateRow, CheckoutCreated, CheckoutFailed, CreateCash, Reconciled
<1>6. CASE \E r \in OnlineRow : Fetch(w, r) \/ FetchNothing(w, r)
  BY <1>6, Zenon DEF Fetch, FetchNothing
<1>7. CASE ApplyFailed(w) \/ ApplyUnderpaid(w) \/ ApplyPaid(w) \/ Claim(w) \/ ClaimLost(w)
  BY <1>1, <1>7, Zenon DEF ApplyFailed, ApplyUnderpaid, ApplyPaid, Claim, ClaimLost
<1>8. CASE TxRead(w) \/ TxRefused(w) \/ TxLost(w) \/ TxNoStock(w) \/ TxAlreadyProcessed(w) \/ TxCommit(w)
  BY <1>1, <1>4, <1>8, Zenon DEF TxRead, TxRefused, TxLost, TxNoStock, TxAlreadyProcessed, TxCommit
<1> QED
  BY <1>2, <1>3, <1>5, <1>6, <1>7, <1>8 DEF Step

\* What a call read stays true in that sense through every step.
LEMMA StillFresh ==
    ASSUME TypeOK, CallsOK, [Next]_vars, NEW c \in Calls, CallOK(c), CallFresh(c, status)
    PROVE  CallFresh(c, status')
<1>1. CASE c.pc = "idle"
  BY <1>1 DEF CallFresh
<1>2. CASE c.pc # "idle"
  <2>1. c.order \in Order
    BY <1>2 DEF CallOK
  <2>2. /\ status'[c.order] # "NONE"
        /\ status[c.order] \in Settled => status'[c.order] \in Settled
        /\ status[c.order] \in ClosedUnpaid => status'[c.order] \in Settled \cup {status[c.order]}
    BY <1>2, <2>1, StatusStep DEF CallFresh
  <2>3. c.seen \notin {"NONE", "PAYMENT_PENDING"} => c.seen \in Settled \cup ClosedUnpaid
    BY DEF Calls, StatusOrNone, OrderStatuses, Settled, Sold, ClosedUnpaid
  <2>4. c.seen \notin {"NONE", "PAYMENT_PENDING"} => status'[c.order] \in Settled \cup {c.seen}
    BY <2>2, <2>3 DEF CallFresh
  <2> QED
    BY <2>2, <2>4 DEF CallFresh
<1> QED
  BY <1>1, <1>2

LEMMA OthersFresh ==
    ASSUME TypeOK, CallsOK, CallsFresh, [Next]_vars, NEW w \in Worker, NEW c,
           call' = [call EXCEPT ![w] = c], CallFresh(c, status')
    PROVE  CallsFresh'
<1>1. \A v \in Worker : call'[v] = IF v = w THEN c ELSE call[v]
  BY DEF TypeOK
<1>2. ASSUME NEW v \in Worker \ {w}
      PROVE  CallFresh(call[v], status')
  BY StillFresh DEF CallsFresh, CallsOK, TypeOK
<1> QED
  BY <1>1, <1>2 DEF CallsFresh

LEMMA IdleFresh == \A now : CallFresh(Idle, now)
BY DEF CallFresh, Idle

\* A new call has read the status of an order that was placed.
LEMMA RequestFresh ==
    ASSUME TypeOK, MoneyInv, RowsPlaced, NEW w \in Worker, Request(w)
    PROVE  \E c : call' = [call EXCEPT ![w] = c] /\ CallFresh(c, status')
<1> USE DEF TypeOK, dbVars, extVars
<1>1. ASSUME NEW o \in Order, PayOnline(w, o) \/ PayCash(w, o)
      PROVE  \E c : call' = [call EXCEPT ![w] = c] /\ CallFresh(c, status')
  <2>1. PICK pc \in {"createRow", "createCash"} : Start(w, pc, "pay", o)
    BY <1>1 DEF PayOnline, PayCash
  <2> DEFINE c == [Idle EXCEPT !.pc = pc, !.kind = "pay", !.order = o]
  <2>2. CallFresh(c, status')
    BY <1>1 DEF PayOnline, PayCash, CallFresh, Idle
  <2> QED
    BY <2>1, <2>2 DEF Start
<1>2. ASSUME NEW o \in Order, CancelOrder(w, o)
      PROVE  \E c : call' = [call EXCEPT ![w] = c] /\ CallFresh(c, status')
  <2> DEFINE c == [Idle EXCEPT !.pc = "txRead", !.kind = "admin", !.order = o,
                     !.to = IF status[o] = "PAYMENT_PENDING" THEN "CANCELLED" ELSE "REFUNDED"]
  <2>1. CallFresh(c, status')
    BY <1>2 DEF CancelOrder, CallFresh, Idle
  <2> QED
    BY <1>2, <2>1 DEF CancelOrder
<1>3. ASSUME NEW o \in Order, NEW kind \in {"view", "expire"}, Reconcile(w, kind, o),
             status[o] = "PAYMENT_PENDING"
      PROVE  \E c : call' = [call EXCEPT ![w] = c] /\ CallFresh(c, status')
  <2> DEFINE c == [Idle EXCEPT !.pc = "reconcile", !.kind = kind, !.order = o, !.todo = Pollable(o)]
  <2>1. CallFresh(c, status')
    BY <1>3 DEF Reconcile, CallFresh, Idle
  <2> QED
    BY <1>3, <2>1 DEF Reconcile
<1>4. ASSUME NEW o \in Order, NEW to \in OrderStatuses, UpdateStatus(w, o, to)
      PROVE  \E c : call' = [call EXCEPT ![w] = c] /\ CallFresh(c, status')
  <2> DEFINE c == [Idle EXCEPT !.pc = "txWrite", !.kind = "admin", !.order = o, !.to = to,
                               !.seen = status[o]]
  <2>1. status[o] # "NONE" /\ UNCHANGED status
    BY <1>4 DEF UpdateStatus, canTransition, AllowedAdmin, Moves
  <2>2. CallFresh(c, status')
    BY <2>1 DEF CallFresh, Idle
  <2> QED
    BY <1>4, <2>2 DEF UpdateStatus
<1>5. ASSUME NEW r \in CashRow, ConfirmCash(w, r)
      PROVE  \E c : call' = [call EXCEPT ![w] = c] /\ CallFresh(c, status')
  <2> DEFINE c == [Idle EXCEPT !.pc = "txRead", !.kind = "cash", !.order = OrderOf[r],
                               !.row = r, !.to = "PAID"]
  <2>1. CallFresh(c, status')
    BY <1>5 DEF ConfirmCash, RowsPlaced, Row, CallFresh, Idle
  <2> QED
    BY <1>5, <2>1 DEF ConfirmCash
<1>6. ASSUME NEW r \in OnlineRow, Webhook(w, r)
      PROVE  \E c : call' = [call EXCEPT ![w] = c] /\ CallFresh(c, status')
  <2> DEFINE c == [Idle EXCEPT !.pc = "apply", !.kind = "webhook", !.order = OrderOf[r],
                               !.row = r, !.result = gateway[r]]
  <2>1. status[OrderOf[r]] # "NONE"
    BY <1>6 DEF Webhook, Results, MoneyInv, RowsSound, RowsPlaced, Row
  <2>2. CallFresh(c, status')
    BY <1>6, <2>1 DEF Webhook, CallFresh, Idle
  <2> QED
    BY <1>6, <2>2 DEF Webhook
<1>7. ASSUME NEW o \in Order, View(w, o) \/ Expire(w, o)
      PROVE  status[o] = "PAYMENT_PENDING"
  BY <1>7 DEF View, Expire, Pollable
<1> QED
  BY <1>1, <1>2, <1>3, <1>4, <1>5, <1>6, <1>7 DEF Request, Expire, View

\* applyResult's return forgets what was read.
LEMMA ReturnFresh ==
    ASSUME NEW w \in Worker, Return(w), status'[call[w].order] # "NONE", call[w].kind # "admin"
    PROVE  \E c : call' = [call EXCEPT ![w] = c] /\ CallFresh(c, status')
<1>1. CASE call[w].kind = "webhook"
  BY <1>1, IdleFresh DEF Return, GoIdle
<1>2. CASE call[w].kind # "webhook"
  <2> DEFINE c == [Idle EXCEPT !.pc = "reconcile", !.kind = call[w].kind,
                                 !.order = call[w].order, !.todo = call[w].todo]
  <2>1. CallFresh(c, status')
    BY <1>2 DEF CallFresh, Idle
  <2> QED
    BY <1>2, <2>1 DEF Return
<1> QED
  BY <1>1, <1>2

LEMMA StepFresh ==
    ASSUME TypeOK, CallsOK, CallsFresh, [Next]_vars, NEW w \in Worker,
           Step(w) \/ Crash(w) \/ Throw(w)
    PROVE  \E c : call' = [call EXCEPT ![w] = c] /\ CallFresh(c, status')
<1> DEFINE d == call[w]
           G == \E c : call' = [call EXCEPT ![w] = c] /\ CallFresh(c, status')
<1>0. d \in Calls /\ CallOK(d) /\ CallFresh(d, status)
  BY DEF TypeOK, CallsOK, CallsFresh
<1>1. d.pc # "idle"
  BY DEF Step, CreateRow, CheckoutCreated, CheckoutFailed, CreateCash, Reconciled, Fetch,
         FetchNothing, ApplyFailed, ApplyUnderpaid, ApplyPaid, Claim, ClaimLost, TxRead,
         TxRefused, TxLost, TxNoStock, TxAlreadyProcessed, TxCommit, Crash, Throw, At, Free
<1>2. d.order \in Order /\ status[d.order] # "NONE" /\ status'[d.order] # "NONE"
  BY <1>0, <1>1, StatusStep DEF CallOK, CallFresh
<1>3. GoIdle(w) => G
  BY IdleFresh DEF GoIdle
<1>4. Return(w) /\ d.kind \in AppliedBy => G
  BY <1>2, ReturnFresh DEF AppliedBy
<1>5. Applying(w) => d.kind \in AppliedBy
  BY DEF Applying, AppliedBy
<1>6. CASE CreateRow(w)
  <2>1. CASE GoIdle(w)
    BY <1>3, <2>1
  <2>2. ASSUME NEW r \in OnlineRow, call' = [call EXCEPT ![w] = [d EXCEPT !.pc = "checkout", !.row = r]]
        PROVE  G
    <3> DEFINE c == [d EXCEPT !.pc = "checkout", !.row = r]
    <3>1. d.pc = "createRow" /\ d.to # "DISPUTED" /\ UNCHANGED status
      BY <1>0, <1>6 DEF CreateRow, At, CallFresh
    <3>2. CallFresh(c, status')
      BY <1>0, <1>1, <3>1 DEF CallFresh, Calls
    <3> QED
      BY <2>2, <3>2
  <2> QED
    BY <1>6, <2>1, <2>2 DEF CreateRow
<1>7. CASE CheckoutCreated(w) \/ CheckoutFailed(w) \/ CreateCash(w) \/ Crash(w)
  BY <1>3, <1>7 DEF CheckoutCreated, CheckoutFailed, CreateCash, Crash
<1>8. CASE Reconciled(w)
  <2> DEFINE c == [d EXCEPT !.pc = "txRead", !.to = "EXPIRED"]
  <2>1. CallFresh(c, status')
    BY <1>0, <1>1, <1>8 DEF Reconciled, At, CallFresh, Calls, dbVars
  <2> QED
    BY <1>3, <1>8, <2>1 DEF Reconciled
<1>9. ASSUME NEW r \in OnlineRow, Fetch(w, r) \/ FetchNothing(w, r)
      PROVE  G
  <2> DEFINE c1 == [d EXCEPT !.pc = "apply", !.row = r, !.result = gateway[r], !.todo = d.todo \ {r}]
             c2 == [d EXCEPT !.todo = d.todo \ {r}]
  <2>1. d.to = "NONE" /\ d.kind # "admin" /\ d.pc = "reconcile" /\ UNCHANGED status
    BY <1>0, <1>9 DEF Fetch, FetchNothing, At, CallOK, dbVars
  <2>2. CallFresh(c1, status') /\ CallFresh(c2, status')
    BY <1>0, <1>1, <2>1 DEF CallFresh, Calls
  <2> QED
    BY <1>9, <2>2, Zenon DEF Fetch, FetchNothing
<1>10. CASE ApplyFailed(w) \/ ApplyUnderpaid(w) \/ ClaimLost(w)
  BY <1>0, <1>4, <1>10 DEF ApplyFailed, ApplyUnderpaid, ClaimLost, At, CallOK
<1>11. CASE ApplyPaid(w)
  <2> DEFINE s == status[d.order]
             c == IF s \in {"PAYMENT_PENDING", "EXPIRED"}
                  THEN [d EXCEPT !.pc = "txRead", !.to = "PAID"]
                  ELSE [d EXCEPT !.pc = "claim", !.seen = s]
  <2>1. d.to = "NONE" /\ UNCHANGED status
    BY <1>0, <1>11 DEF ApplyPaid, At, CallOK, dbVars
  <2>2. CallFresh(c, status')
    BY <1>0, <1>1, <1>2, <2>1 DEF CallFresh, Calls
  <2> QED
    BY <1>11, <2>2 DEF ApplyPaid
<1>12. CASE Claim(w)
  <2> DEFINE c == [d EXCEPT !.pc = "txRead", !.to = "DISPUTED"]
  <2>1. CallFresh(c, status')
    BY <1>0, <1>1, <1>12 DEF Claim, At, CallOK, CallFresh, Calls, AppliedBy
  <2> QED
    BY <1>0, <1>4, <1>12, <2>1 DEF Claim, At, CallOK
<1>13. CASE TxRead(w)
  <2> DEFINE c == [d EXCEPT !.pc = "txWrite", !.seen = status[d.order]]
  <2>1. CallFresh(c, status')
    BY <1>0, <1>1, <1>2, <1>13 DEF TxRead, CallFresh, Calls, dbVars
  <2> QED
    BY <1>13, <2>1 DEF TxRead
<1>14. CASE TxNoStock(w)
  <2> DEFINE c == [d EXCEPT !.pc = "claim"]
  <2>1. CASE Applying(w)
    <3>1. d.to # "DISPUTED" /\ d.seen = "EXPIRED" /\ UNCHANGED status
      <4>1. canTransition(IF d.kind = "admin" THEN "admin" ELSE "system", d.seen, d.to)
            /\ reservesStock(d.seen, d.to) /\ UNCHANGED status
        BY <1>0, <1>14 DEF TxNoStock, At, CallOK, StockUnavailable, dbVars
      <4> QED
        BY <4>1 DEF canTransition, AllowedSystem, AllowedAdmin, Moves, reservesStock, STOCK_HELD, RELEASED
    <3>2. CallFresh(c, status')
      BY <1>0, <1>1, <3>1 DEF CallFresh, Calls
    <3> QED
      BY <1>14, <2>1, <3>2 DEF TxNoStock
  <2>2. CASE ~Applying(w)
    BY <1>3, <1>14, <2>2 DEF TxNoStock
  <2> QED
    BY <2>1, <2>2
<1>15. CASE TxRefused(w) \/ TxLost(w)
  <2> DEFINE c == [d EXCEPT !.pc = "apply", !.depth = 1, !.to = "NONE", !.seen = "NONE"]
  <2>1. UNCHANGED status
    BY <1>15 DEF TxRefused, TxLost, NullResult, dbVars
  <2>2. CallFresh(c, status')
    BY <1>0, <1>1, <2>1 DEF CallFresh, Calls
  <2>3. GoIdle(w) \/ (Applying(w) /\ Return(w)) \/ call' = [call EXCEPT ![w] = c]
    BY <1>15, Zenon DEF TxRefused, TxLost, NullResult
  <2> QED
    BY <1>3, <1>4, <1>5, <2>2, <2>3
<1>16. CASE TxAlreadyProcessed(w) \/ TxCommit(w)
  BY <1>3, <1>4, <1>5, <1>16 DEF TxAlreadyProcessed, TxCommit
<1>17. CASE Throw(w)
  BY <1>4, <1>17 DEF Throw, AppliedBy
<1> QED
  BY <1>6, <1>7, <1>8, <1>9, <1>10, <1>11, <1>12, <1>13, <1>14, <1>15, <1>16, <1>17 DEF Step

LEMMA FreshKept ==
    ASSUME TypeOK, CallsOK, MoneyInv, CallsFresh, RowsPlaced, [Next]_vars
    PROVE  CallsFresh'
<1>1. ASSUME NEW w \in Worker, Request(w) \/ Step(w) \/ Crash(w) \/ Throw(w)
      PROVE  CallsFresh'
  <2>1. PICK c : call' = [call EXCEPT ![w] = c] /\ CallFresh(c, status')
    BY <1>1, RequestFresh, StepFresh
  <2> QED
    BY <2>1, OthersFresh
<1>2. ASSUME UNCHANGED call, NEW v \in Worker
      PROVE  CallFresh(call'[v], status')
  <2>1. call[v] \in Calls /\ CallOK(call[v]) /\ CallFresh(call[v], status) /\ call'[v] = call[v]
    BY <1>2 DEF TypeOK, CallsOK, CallsFresh
  <2> QED
    BY <2>1, StillFresh
<1> QED
  BY <1>1, <1>2 DEF CallsFresh, Next, vars, Checkout, CustomerPays, ProviderFails

\* The rows a committed transition newly marks succeeded: the one it claims.
LEMMA CommitClaims ==
    ASSUME TypeOK, CallsOK, MoneyInv, NEW w \in Worker, TxCommit(w), NEW r \in Row,
           payStatus'[r] = "SUCCEEDED", payStatus[r] # "SUCCEEDED"
    PROVE  /\ call[w].to = "PAID" /\ r = call[w].row /\ OrderOf[r] = call[w].order
           /\ status[OrderOf[r]] \in {"PAYMENT_PENDING", "EXPIRED"}
           /\ status'[OrderOf[r]] = "PAID"
<1>1. /\ call[w].order \in Order
      /\ status[call[w].order] = call[w].seen
      /\ status' = [status EXCEPT ![call[w].order] = call[w].to]
      /\ canTransition(ActorOf(w), call[w].seen, call[w].to)
      /\ payStatus' = PaymentsWith(w)
      /\ call[w].to = "PAID" => call[w].row \in RowsOf(call[w].order)
  BY CommitPayments
<1>2. call[w].to = "PAID" /\ OrderOf[r] = call[w].order
  BY CommittedRow DEF ClosedUnpaid
<1>3. r = call[w].row
  BY <1>1, <1>2 DEF PaymentsWith, PaymentsAfter, RowsOf
<1>4. call[w].seen \in {"PAYMENT_PENDING", "EXPIRED"}
  BY <1>1, <1>2 DEF canTransition, AllowedSystem, AllowedAdmin, Moves
<1> QED
  BY <1>1, <1>2, <1>3, <1>4 DEF TypeOK

LEMMA RowsPlacedKept ==
    ASSUME TypeOK, CallsOK, MoneyInv, CallsFresh, RowsPlaced, [Next]_vars
    PROVE  RowsPlaced'
<1> SUFFICES ASSUME NEW r \in Row
             PROVE  /\ payStatus'[r] # "NONE" => status'[OrderOf[r]] # "NONE"
                    /\ payStatus'[r] \in Recorded => status'[OrderOf[r]] # "PAYMENT_PENDING"
  BY DEF RowsPlaced
<1> DEFINE o == OrderOf[r]
<1>0. /\ o \in Order
      /\ payStatus[r] # "NONE" => status[o] # "NONE"
      /\ payStatus[r] \in Recorded => status[o] # "PAYMENT_PENDING"
  BY CartAssumption DEF RowsPlaced
<1>1. /\ status[o] # "NONE" => status'[o] # "NONE"
      /\ status[o] \notin {"NONE", "PAYMENT_PENDING"} => status'[o] # "PAYMENT_PENDING"
  BY <1>0, StatusStep
<1>2. CASE payStatus'[r] = payStatus[r]
  BY <1>0, <1>1, <1>2 DEF Recorded
<1>3. ASSUME NEW w \in Worker, TxCommit(w), payStatus'[r] # payStatus[r]
      PROVE  /\ payStatus'[r] # "NONE" => status'[o] # "NONE"
             /\ payStatus'[r] \in Recorded => status'[o] # "PAYMENT_PENDING"
  <2>1. CASE payStatus'[r] = "SUCCEEDED"
    BY <1>3, <2>1, CommitClaims
  <2>2. CASE payStatus'[r] # "SUCCEEDED"
    <3>1. payStatus[r] \in {"PENDING", "SUCCEEDED"} /\ (payStatus'[r] \in Recorded => payStatus[r] = "SUCCEEDED")
      BY <1>3, <2>2, CommittedRow DEF Recorded
    <3> QED
      BY <1>0, <1>1, <3>1 DEF Recorded
  <2> QED
    BY <2>1, <2>2
<1>4. ASSUME NEW w \in Worker, CheckoutFailed(w) \/ ApplyFailed(w), payStatus'[r] # payStatus[r]
      PROVE  payStatus[r] # "NONE" /\ payStatus'[r] = "FAILED"
  <2>1. CASE CheckoutFailed(w)
    <3>1. call[w].row \in Row /\ payStatus[call[w].row] # "NONE"
      BY <2>1 DEF CheckoutFailed, At, MoneyInv, CallsBacked, CallBacked, Row
    <3> QED
      BY <1>4, <2>1, <3>1 DEF CheckoutFailed, TypeOK
  <2>2. CASE ApplyFailed(w)
    BY <1>4, <2>2 DEF ApplyFailed, FailRow, TypeOK
  <2> QED
    BY <1>4, <2>1, <2>2
<1>5. ASSUME NEW w \in Worker, CreateRow(w) \/ CreateCash(w), payStatus'[r] # payStatus[r]
      PROVE  payStatus'[r] = "PENDING" /\ status[o] # "NONE"
  <2>1. CallFresh(call[w], status) /\ call[w].pc # "idle"
    BY <1>5 DEF CreateRow, CreateCash, At, CallsFresh
  <2>2. OrderOf[r] = call[w].order /\ payStatus'[r] = "PENDING"
    BY <1>5 DEF CreateRow, CreateCash, RowsOf, TypeOK
  <2> QED
    BY <2>1, <2>2 DEF CallFresh
<1>6. ASSUME NEW w \in Worker, Claim(w), payStatus'[r] # payStatus[r]
      PROVE  status[o] \notin {"NONE", "PAYMENT_PENDING"}
  <2>1. r = call[w].row /\ call[w].pc = "claim"
    BY <1>6 DEF Claim, At, TypeOK
  <2>2. o = call[w].order /\ CallFresh(call[w], status)
    BY <2>1 DEF CallsOK, CallOK, CallsFresh
  <2> QED
    BY <2>1, <2>2 DEF CallFresh, Settled, Sold
<1> QED
  BY <1>0, <1>1, <1>2, <1>3, <1>4, <1>5, <1>6, PaymentWriters DEF Recorded

-----------------------------------------------------------------------------
(* Without a fault: money that a call has claimed for a closed order stays  *)
(* in its hands until the order is disputed, or was sold after all, and the *)
(* admin knows.                                                             *)

LEMMA AlertsStay ==
    ASSUME [Next]_vars
    PROVE  alerted \subseteq alerted'
<1>1. ASSUME NEW w \in Worker, Request(w) \/ Crash(w) \/ Throw(w)
      PROVE  alerted \subseteq alerted'
  BY <1>1 DEF Request, PayOnline, PayCash, CancelOrder, Expire, View, Reconcile,
              UpdateStatus, ConfirmCash, Webhook, Crash, Throw, extVars
<1>2. ASSUME NEW w \in Worker, NullResult(w)
      PROVE  alerted \subseteq alerted'
  BY <1>2 DEF NullResult, AlertAdmin
<1>3. ASSUME NEW w \in Worker, Step(w)
      PROVE  alerted \subseteq alerted'
  BY <1>2, <1>3 DEF Step, CreateRow, CheckoutCreated, CheckoutFailed, CreateCash, Reconciled, Fetch,
              FetchNothing, ApplyFailed, ApplyUnderpaid, ApplyPaid, Claim, ClaimLost, TxRead,
              TxRefused, TxLost, TxNoStock, TxAlreadyProcessed, TxCommit, AlertAdmin, extVars
<1> QED
  BY <1>1, <1>3 DEF Next, Checkout, CustomerPays, ProviderFails, extVars, vars

LEMMA FaultsCount ==
    ASSUME TypeOK, [Next]_vars, faults' = 0
    PROVE  faults = 0 /\ \A w \in Worker : ~Crash(w) /\ ~Throw(w)
<1>1. ASSUME NEW w \in Worker, Crash(w) \/ Throw(w)
      PROVE  FALSE
  BY <1>1, NoneAssumption DEF Crash, Throw, TypeOK
<1>2. ASSUME NEW w \in Worker, Request(w)
      PROVE  faults' = faults
  BY <1>2 DEF Request, PayOnline, PayCash, CancelOrder, Expire, View, Reconcile,
              UpdateStatus, ConfirmCash, Webhook
<1>3. ASSUME NEW w \in Worker, Step(w)
      PROVE  faults' = faults
  BY <1>3 DEF Step, CreateRow, CheckoutCreated, CheckoutFailed, CreateCash, Reconciled, Fetch,
              FetchNothing, ApplyFailed, ApplyUnderpaid, ApplyPaid, Claim, ClaimLost, TxRead,
              TxRefused, TxLost, TxNoStock, TxAlreadyProcessed, TxCommit, NullResult
<1> QED
  BY <1>1, <1>2, <1>3 DEF Next, Checkout, CustomerPays, ProviderFails, vars

\* A call with money in its hands lets go of it only when the admin knows and
\* the order is not left closed.
LEMMA HandedOn ==
    ASSUME TypeOK, CallsOK, MoneyInv, CallsFresh, [Next]_vars, faults' = 0,
           NEW r \in Row, InHand(r)
    PROVE  InHand(r)' \/ (r \in alerted' /\ status'[OrderOf[r]] \notin ClosedUnpaid)
<1>1. PICK w \in Worker : call[w].row = r /\ call[w].to = "DISPUTED"
  BY DEF InHand
<1> DEFINE d == call[w]
<1>2. d \in Calls /\ CallOK(d) /\ CallFresh(d, status)
  BY DEF TypeOK, CallsOK, CallsFresh
<1>3. /\ d.pc \in {"txRead", "txWrite"} /\ d.kind \in AppliedBy /\ d.order = OrderOf[r] /\ d.order \in Order
      /\ Applying(w) /\ ActorOf(w) = "system"
  <2>1. d.kind # "admin"
    BY <1>1, <1>2, NoneAssumption DEF CallFresh
  <2>2. d.kind \in AppliedBy /\ d.order = OrderOf[r] /\ d.order \in Order /\ d.pc \in {"txRead", "txWrite"}
    BY <1>1, <1>2, <2>1 DEF CallFresh, CallOK
  <2> QED
    BY <1>1, <2>1, <2>2 DEF Applying, ActorOf, AppliedBy
<1>4. CASE call'[w] = call[w]
  BY <1>1, <1>4 DEF InHand
<1>5. ASSUME NullResult(w)
      PROVE  r \in alerted'
  BY <1>1, <1>3, <1>5 DEF NullResult, AlertAdmin
<1>6. \A s : canTransition("system", s, "DISPUTED") <=> s \in ClosedUnpaid
  BY DEF canTransition, AllowedSystem, Moves, ClosedUnpaid
<1>7. d.pc = "txWrite" => d.seen \in ClosedUnpaid
  BY <1>1, <1>2, <1>3, <1>6 DEF CallOK, ActorOf
<1>8. CASE TxRead(w)
  <2>1. call'[w].row = r /\ call'[w].to = "DISPUTED"
    BY <1>1, <1>2, <1>8 DEF TxRead, TypeOK, Calls
  <2> QED
    BY <2>1 DEF InHand
<1>9. CASE TxRefused(w)
  <2>1. status[OrderOf[r]] \notin ClosedUnpaid /\ UNCHANGED status
    BY <1>1, <1>3, <1>6, <1>9 DEF TxRefused, NullResult, dbVars
  <2> QED
    BY <1>5, <1>9, <2>1 DEF TxRefused
<1>10. CASE TxLost(w)
  <2>1. d.seen \in ClosedUnpaid /\ status[d.order] # d.seen /\ UNCHANGED status
    BY <1>7, <1>10 DEF TxLost, At, Matches, NullResult, dbVars
  <2>2. status[d.order] \in Settled
    BY <1>2, <2>1 DEF CallFresh, ClosedUnpaid
  <2> QED
    BY <1>3, <1>5, <1>10, <2>1, <2>2 DEF TxLost, Settled, Sold, ClosedUnpaid
<1>11. CASE TxCommit(w)
  <2>1. r \in alerted'
    BY <1>1, <1>3, <1>11 DEF TxCommit, AlertAdmin
  <2>2. status'[d.order] = "DISPUTED"
    BY <1>1, <1>3, <1>11 DEF TxCommit, Commit, TypeOK
  <2> QED
    BY <1>3, <2>1, <2>2 DEF ClosedUnpaid
<1>12. ~TxNoStock(w) /\ ~TxAlreadyProcessed(w)
  BY <1>1 DEF TxNoStock, TxAlreadyProcessed, StockUnavailable, reservesStock, STOCK_HELD
<1>13. ASSUME Request(w) \/ Step(w)
       PROVE  TxRead(w) \/ TxRefused(w) \/ TxLost(w) \/ TxCommit(w)
  <2>1. ~Request(w)
    BY <1>3 DEF Request, PayOnline, PayCash, CancelOrder, Expire, View, Reconcile,
                UpdateStatus, ConfirmCash, Webhook, Free, At
  <2> QED
    BY <1>3, <1>12, <1>13, <2>1 DEF Step, CreateRow, CheckoutCreated, CheckoutFailed, CreateCash,
       Reconciled, Fetch, FetchNothing, ApplyFailed, ApplyUnderpaid, ApplyPaid, Claim, ClaimLost, At
<1>14. ASSUME NEW v \in Worker \ {w}, Request(v) \/ Step(v)
       PROVE  call'[w] = call[w]
  BY <1>14, OneCaller DEF TypeOK
<1>15. \A v \in Worker : ~Crash(v) /\ ~Throw(v)
  BY FaultsCount
<1> QED
  BY <1>4, <1>8, <1>9, <1>10, <1>11, <1>13, <1>14, <1>15
     DEF Next, vars, Checkout, CustomerPays, ProviderFails

\* Money that is newly recorded is either in the hands of the call that claimed
\* it, or known to the admin and its order is not closed, or it pays the order.
LEMMA NewMoney ==
    ASSUME TypeOK, CallsOK, MoneyInv, CallsFresh, [Next]_vars, NEW r \in Row,
           payStatus'[r] = "SUCCEEDED", payStatus[r] # "SUCCEEDED"
    PROVE  \/ InHand(r)'
           \/ r \in alerted' /\ status'[OrderOf[r]] \notin ClosedUnpaid
           \/ \E w \in Worker : TxCommit(w)
<1>1. ASSUME NEW w \in Worker, Claim(w)
      PROVE  InHand(r)' \/ (r \in alerted' /\ status'[OrderOf[r]] \notin ClosedUnpaid)
  <2> DEFINE d == call[w]
  <2>1. r = d.row /\ d.pc = "claim" /\ UNCHANGED status
    BY <1>1 DEF Claim, At, TypeOK
  <2>2. d \in Calls /\ CallOK(d) /\ CallFresh(d, status)
    BY DEF TypeOK, CallsOK, CallsFresh
  <2>3. CASE d.seen \in ClosedUnpaid
    <3>1. call' = [call EXCEPT ![w] = [d EXCEPT !.pc = "txRead", !.to = "DISPUTED"]]
      BY <1>1, <2>3 DEF Claim
    <3>2. call'[w].row = r /\ call'[w].to = "DISPUTED"
      BY <2>1, <2>2, <3>1 DEF TypeOK, Calls
    <3> QED
      BY <3>2 DEF InHand
  <2>4. CASE d.seen \notin ClosedUnpaid
    <3>1. r \in alerted'
      BY <1>1, <2>1, <2>4 DEF Claim, AlertAdmin
    <3>2. OrderOf[r] = d.order /\ status[d.order] \in Settled \cup {d.seen}
      BY <2>1, <2>2 DEF CallOK, CallFresh
    <3> QED
      BY <2>1, <2>4, <3>1, <3>2 DEF Settled, Sold, ClosedUnpaid
  <2> QED
    BY <2>3, <2>4
<1>2. ASSUME NEW w \in Worker, CheckoutFailed(w) \/ CreateRow(w) \/ CreateCash(w) \/ ApplyFailed(w)
      PROVE  FALSE
  BY <1>2 DEF CheckoutFailed, CreateRow, CreateCash, ApplyFailed, FailRow, RowsOf, TypeOK
<1> QED
  BY <1>1, <1>2, PaymentWriters

LEMMA StrandedKept ==
    ASSUME TypeOK, CallsOK, MoneyInv, CallsFresh, RowsPlaced, NoStrandedMoney,
           [Next]_vars, faults' = 0
    PROVE  NoStrandedMoney'
<1> SUFFICES ASSUME NEW r \in Row, payStatus'[r] = "SUCCEEDED", status'[OrderOf[r]] \in ClosedUnpaid
             PROVE  InHand(r)'
  BY DEF NoStrandedMoney, ClosedUnpaid
<1>0. OrderOf[r] \in Order
  BY CartAssumption
<1>1. CASE payStatus[r] = "SUCCEEDED"
  <2>1. status[OrderOf[r]] \notin {"NONE", "PAYMENT_PENDING"}
    BY <1>1 DEF RowsPlaced, Recorded
  <2>2. status[OrderOf[r]] \in ClosedUnpaid
    <3>1. status[OrderOf[r]] \in Settled \cup ClosedUnpaid
      BY <1>0, <2>1 DEF TypeOK, StatusOrNone, OrderStatuses, Settled, Sold, ClosedUnpaid
    <3> QED
      BY <1>0, <3>1, StatusStep DEF Settled, Sold, ClosedUnpaid
  <2> QED
    BY <1>1, <2>2, HandedOn DEF NoStrandedMoney, ClosedUnpaid
<1>2. CASE payStatus[r] # "SUCCEEDED"
  BY <1>2, NewMoney, CommitClaims DEF ClosedUnpaid
<1> QED
  BY <1>1, <1>2

LEMMA UnflaggedKept ==
    ASSUME TypeOK, CallsOK, MoneyInv, CallsFresh, RowsPlaced, NoStrandedMoney, OneUnflagged,
           [Next]_vars, faults' = 0
    PROVE  OneUnflagged'
<1>1. ASSUME NEW r \in Row, Unflagged(r)'
      PROVE  \/ Unflagged(r)
             \/ payStatus[r] # "SUCCEEDED" /\ \E w \in Worker : TxCommit(w)
  <2>1. payStatus'[r] = "SUCCEEDED" /\ r \notin alerted' /\ ~InHand(r)'
    BY <1>1 DEF Unflagged
  <2>2. r \notin alerted
    BY <2>1, AlertsStay
  <2>3. CASE payStatus[r] = "SUCCEEDED"
    BY <2>1, <2>2, <2>3, HandedOn DEF Unflagged
  <2>4. CASE payStatus[r] # "SUCCEEDED"
    BY <2>1, <2>4, NewMoney
  <2> QED
    BY <2>3, <2>4
<1>2. ASSUME NEW q \in Row, NEW r \in Row, NEW w \in Worker, TxCommit(w),
             OrderOf[q] = OrderOf[r], Unflagged(q), Unflagged(r)', payStatus[r] # "SUCCEEDED"
      PROVE  FALSE
  <2>1. status[OrderOf[q]] \in {"PAYMENT_PENDING", "EXPIRED"}
    BY <1>2, CommitClaims DEF Unflagged
  <2> QED
    BY <1>2, <2>1 DEF Unflagged, RowsPlaced, Recorded, NoStrandedMoney
<1>3. ASSUME NEW q \in Row, NEW r \in Row, NEW w \in Worker, TxCommit(w), Unflagged(q)', Unflagged(r)',
             payStatus[q] # "SUCCEEDED", payStatus[r] # "SUCCEEDED"
      PROVE  q = r
  BY <1>3, CommitClaims DEF Unflagged
<1> QED
  BY <1>1, <1>2, <1>3 DEF OneUnflagged

LEMMA FlagHolds == Spec => [](TypeOK /\ FlagInv)
<1>1. Init => FlagInv
  <2>1. Init => CallsFresh /\ RowsPlaced
    BY IdleFresh DEF Init, DbInit, CallsFresh, RowsPlaced, Recorded
  <2>2. Init => NoStrandedMoney /\ OneUnflagged
    BY DEF Init, DbInit, NoStrandedMoney, OneUnflagged, Unflagged
  <2> QED
    BY <2>1, <2>2 DEF FlagInv
<1>2. TypeOK /\ CallsOK /\ MoneyInv /\ FlagInv /\ [Next]_vars => FlagInv'
  <2> SUFFICES ASSUME TypeOK, CallsOK, MoneyInv, FlagInv, [Next]_vars
               PROVE  FlagInv'
    OBVIOUS
  <2>1. CallsFresh' /\ RowsPlaced'
    BY FreshKept, RowsPlacedKept DEF FlagInv
  <2>2. faults' = 0 => NoStrandedMoney' /\ OneUnflagged'
    BY FaultsCount, StrandedKept, UnflaggedKept DEF FlagInv
  <2> QED
    BY <2>1, <2>2 DEF FlagInv
<1> QED
  BY <1>1, <1>2, MoneyHolds, PTL DEF Spec

\* As long as no process died and no await threw, money is never left on an
\* order that was closed unpaid: the call that recorded it still has to dispute
\* the order.
THEOREM NothingStranded == Spec => [](faults = 0 => NoStrandedMoney)
<1>1. FlagInv => (faults = 0 => NoStrandedMoney)
  BY DEF FlagInv
<1> QED
  BY <1>1, FlagHolds, PTL

\* As long as no process died and no await threw, at most one payment of an
\* order succeeded without the admin being told, or about to be.
THEOREM ExtrasFlagged == Spec => [](faults = 0 => ExtraPaymentsFlagged)
<1>1. ASSUME TypeOK, FlagInv, faults = 0
      PROVE  ExtraPaymentsFlagged
  <2> SUFFICES ASSUME NEW o \in Order
               PROVE  Cardinality({r \in RowsOf(o) :
                          payStatus[r] = "SUCCEEDED" /\ r \notin alerted /\ ~InHand(r)}) <= 1
    BY DEF ExtraPaymentsFlagged
  <2> DEFINE S == {r \in RowsOf(o) : payStatus[r] = "SUCCEEDED" /\ r \notin alerted /\ ~InHand(r)}
  <2>1. \A q, r \in S : q = r
    BY <1>1 DEF FlagInv, OneUnflagged, Unflagged, RowsOf
  <2>2. S = {} \/ \E r : S = {r}
    BY <2>1
  <2>3. Cardinality(S) = 0 \/ Cardinality(S) = 1
    BY <2>2, FS_EmptySet, FS_Singleton
  <2> QED
    BY <2>3
<1>2. TypeOK /\ FlagInv => (faults = 0 => ExtraPaymentsFlagged)
  BY <1>1
<1> QED
  BY <1>2, FlagHolds, PTL
================================================================================
