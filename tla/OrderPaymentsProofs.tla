-------------------------- MODULE OrderPaymentsProofs --------------------------
(***************************************************************************)
(* Types and locals of the calls; then an order's units, which are taken   *)
(* and put back exactly once, and its coupon, counted while it may be paid *)
(* for.  For every set of orders, products, payment rows and workers.      *)
(***************************************************************************)
EXTENDS OrderPaymentsProperties, FiniteSetTheorems, TLAPS

-----------------------------------------------------------------------------
(* The inductive invariant: the types, what the locals of a call mean at    *)
(* each program counter, and the promises themselves.                       *)

AppliedBy == {"webhook", "view", "expire"}

\* What is known of a call at each of its program counters.
CallOK(c) ==
    /\ c.pc # "idle" => c.order \in Order
    /\ c.row \in Row => c.order = OrderOf[c.row]
    /\ c.pc = "checkout" => c.row \in OnlineRow
    /\ c.pc \in {"apply", "claim"} => c.kind \in AppliedBy /\ c.row \in OnlineRow /\ c.result \in Results
    /\ c.pc = "apply" => c.to = "NONE"
    /\ c.pc = "claim" => c.result = "paid" /\ c.to \in {"NONE", "PAID"}
    /\ c.pc = "reconcile" => c.to = "NONE" /\ c.kind \in {"view", "expire"}
    /\ c.pc \in {"txRead", "txWrite"} =>
          \/ c.kind \in AppliedBy /\ c.to \in {"PAID", "DISPUTED"} /\ c.row \in OnlineRow /\ c.result = "paid"
          \/ c.kind = "expire" /\ c.to = "EXPIRED"
          \/ c.kind = "cash" /\ c.to = "PAID" /\ c.row \in CashRow
          \/ c.kind = "admin" /\ c.to \in OrderStatuses
    /\ c.pc = "txWrite" =>
          canTransition(IF c.kind = "admin" THEN "admin" ELSE "system", c.seen, c.to)
    /\ c.todo \subseteq RowsOf(c.order)

CallsOK == \A w \in Worker : CallOK(call[w])

\* A step of a worker that leaves a sound record leaves sound calls.
LEMMA CallUpdated ==
    ASSUME NEW w \in Worker, NEW c \in Calls, CallOK(c),
           call \in [Worker -> Calls], CallsOK,
           call' = [call EXCEPT ![w] = c]
    PROVE  call' \in [Worker -> Calls] /\ CallsOK'
<1>1. call' \in [Worker -> Calls]
  OBVIOUS
<1>2. \A v \in Worker : call'[v] = IF v = w THEN c ELSE call[v]
  OBVIOUS
<1>3. \A v \in Worker : CallOK(call'[v])
  BY <1>2 DEF CallsOK
<1> QED
  BY <1>1, <1>3 DEF CallsOK

LEMMA IdleSound == Idle \in Calls /\ CallOK(Idle)
BY NoneAssumption DEF Idle, Calls, CallOK, Pcs, Kinds, Results, StatusOrNone, Row

LEMMA ReturnSound ==
    ASSUME NEW w \in Worker, call \in [Worker -> Calls], CallsOK, acked \subseteq OnlineRow,
           call[w].kind \in AppliedBy, call[w].pc # "idle", call[w].row \in OnlineRow, Return(w)
    PROVE  call' \in [Worker -> Calls] /\ CallsOK' /\ acked' \subseteq OnlineRow
<1>1. CASE call[w].kind = "webhook"
  BY <1>1, IdleSound, CallUpdated DEF Return, GoIdle
<1>2. CASE call[w].kind # "webhook"
  <2> DEFINE c == [Idle EXCEPT !.pc = "reconcile", !.kind = call[w].kind,
                             !.order = call[w].order, !.todo = call[w].todo]
  <2>1. call[w] \in Calls /\ CallOK(call[w])
    BY DEF CallsOK
  <2>2. c \in Calls
    BY <1>2, <2>1 DEF Idle, Calls, Pcs, Kinds, StatusOrNone, Results, AppliedBy, CallOK
  <2>3. CallOK(c)
    BY <1>2, <2>1, NoneAssumption DEF Idle, CallOK, AppliedBy, Row, Calls
  <2>4. call' = [call EXCEPT ![w] = c] /\ acked' = acked
    BY <1>2 DEF Return
  <2> QED
    BY <2>2, <2>3, <2>4, CallUpdated
<1> QED
  BY <1>1, <1>2

\* A step that only starts or advances a call.
LEMMA LocalStepSound ==
    ASSUME NEW w \in Worker, NEW c \in Calls, CallOK(c), TypeOK, CallsOK,
           call' = [call EXCEPT ![w] = c], UNCHANGED <<dbVars, extVars, faults>>
    PROVE  TypeOK' /\ CallsOK'
<1>1. call' \in [Worker -> Calls] /\ CallsOK'
  BY CallUpdated DEF TypeOK
<1> QED
  BY <1>1 DEF TypeOK, dbVars, extVars

LEMMA RequestSound ==
    ASSUME TypeOK, CallsOK, NEW w \in Worker, Request(w)
    PROVE  TypeOK' /\ CallsOK'
<1> USE CartAssumption, NoneAssumption
<1>1. ASSUME NEW o \in Order, PayOnline(w, o)
      PROVE  TypeOK' /\ CallsOK'
  <2> DEFINE c == [Idle EXCEPT !.pc = "createRow", !.kind = "pay", !.order = o]
  <2>1. c \in Calls /\ CallOK(c)
    BY DEF Idle, Calls, CallOK, Pcs, Kinds, Results, StatusOrNone, Row
  <2> QED
    BY <1>1, <2>1, LocalStepSound DEF PayOnline, Start
<1>2. ASSUME NEW o \in Order, PayCash(w, o)
      PROVE  TypeOK' /\ CallsOK'
  <2> DEFINE c == [Idle EXCEPT !.pc = "createCash", !.kind = "pay", !.order = o]
  <2>1. c \in Calls /\ CallOK(c)
    BY DEF Idle, Calls, CallOK, Pcs, Kinds, Results, StatusOrNone, Row
  <2> QED
    BY <1>2, <2>1, LocalStepSound DEF PayCash, Start
<1>3. ASSUME NEW o \in Order, CancelOrder(w, o)
      PROVE  TypeOK' /\ CallsOK'
  <2> DEFINE c == [Idle EXCEPT !.pc = "txRead", !.kind = "admin", !.order = o,
                     !.to = IF status[o] = "PAYMENT_PENDING" THEN "CANCELLED" ELSE "REFUNDED"]
  <2>1. c \in Calls /\ CallOK(c)
    BY DEF Idle, Calls, CallOK, Pcs, Kinds, Results, StatusOrNone, OrderStatuses, Row
  <2> QED
    BY <1>3, <2>1, LocalStepSound DEF CancelOrder
<1>4. ASSUME NEW o \in Order, NEW kind \in {"view", "expire"}, Reconcile(w, kind, o)
      PROVE  TypeOK' /\ CallsOK'
  <2> DEFINE c == [Idle EXCEPT !.pc = "reconcile", !.kind = kind, !.order = o, !.todo = Pollable(o)]
  <2>1. c \in Calls /\ CallOK(c)
    BY DEF Idle, Calls, CallOK, Pcs, Kinds, Results, StatusOrNone, Pollable, RowsOf, Row
  <2> QED
    BY <1>4, <2>1, LocalStepSound DEF Reconcile
<1>5. ASSUME NEW o \in Order, NEW to \in OrderStatuses, UpdateStatus(w, o, to)
      PROVE  TypeOK' /\ CallsOK'
  <2> DEFINE c == [Idle EXCEPT !.pc = "txWrite", !.kind = "admin", !.order = o, !.to = to,
                               !.seen = status[o]]
  <2>1. c \in Calls /\ CallOK(c)
    BY <1>5 DEF UpdateStatus, Idle, Calls, CallOK, Pcs, Kinds, Results, StatusOrNone, Row, TypeOK
  <2> QED
    BY <1>5, <2>1, LocalStepSound DEF UpdateStatus
<1>6. ASSUME NEW r \in CashRow, ConfirmCash(w, r)
      PROVE  TypeOK' /\ CallsOK'
  <2> DEFINE c == [Idle EXCEPT !.pc = "txRead", !.kind = "cash", !.order = OrderOf[r],
                               !.row = r, !.to = "PAID"]
  <2>1. c \in Calls /\ CallOK(c)
    BY DEF Idle, Calls, CallOK, Pcs, Kinds, Results, StatusOrNone, OrderStatuses, Row
  <2> QED
    BY <1>6, <2>1, LocalStepSound DEF ConfirmCash
<1>7. ASSUME NEW r \in OnlineRow, Webhook(w, r)
      PROVE  TypeOK' /\ CallsOK'
  <2> DEFINE c == [Idle EXCEPT !.pc = "apply", !.kind = "webhook", !.order = OrderOf[r],
                               !.row = r, !.result = gateway[r]]
  <2>1. c \in Calls /\ CallOK(c)
    BY <1>7 DEF Webhook, Idle, Calls, CallOK, Pcs, Kinds, Results, StatusOrNone, AppliedBy, Row
  <2> QED
    BY <1>7, <2>1, LocalStepSound DEF Webhook
<1> QED
  BY <1>1, <1>2, <1>3, <1>4, <1>5, <1>6, <1>7 DEF Request, Expire, View

\* The transaction keeps the types: it takes units only when they are there.
LEMMA CommitTyped ==
    ASSUME TypeOK, NEW o \in Order, NEW from \in OrderStatuses, NEW to \in OrderStatuses,
           NEW payments \in [Row -> PaymentStatuses], Commit(o, from, to, payments)
    PROVE  /\ status' \in [Order -> StatusOrNone]
           /\ quantity' \in [Product -> Nat]
           /\ usedCount' \in Nat
           /\ payStatus' \in [Row -> PaymentStatuses]
           /\ debited' \in [Order -> Int]
           /\ handedOver' \subseteq Order
<1> USE CartAssumption DEF TypeOK, Commit
<1>1. quantity' \in [Product -> Nat]
  <2>1. CASE releasesStock(from, to)
    <3>1. quantity' = [p \in Product |-> quantity[p] + Need[o][p]]
      BY <2>1 DEF QuantityAfter
    <3>2. \A p \in Product : quantity[p] \in Nat /\ Need[o][p] \in Nat
      OBVIOUS
    <3> QED
      BY <3>1, <3>2
  <2>2. CASE reservesStock(from, to) /\ ~releasesStock(from, to)
    <3>1. \A p \in Product : quantity[p] >= Need[o][p]
      BY <2>2 DEF StockUnavailable, InStock
    <3>2. quantity' = [p \in Product |-> quantity[p] - Need[o][p]]
      BY <2>2 DEF QuantityAfter
    <3>3. \A p \in Product : quantity[p] \in Nat /\ Need[o][p] \in Nat
      OBVIOUS
    <3>4. \A p \in Product : quantity[p] - Need[o][p] \in Nat
      BY <3>1, <3>3
    <3> QED
      BY <3>2, <3>4
  <2>3. CASE ~reservesStock(from, to) /\ ~releasesStock(from, to)
    BY <2>3 DEF QuantityAfter
  <2> QED
    BY <2>1, <2>2, <2>3 DEF releasesStock, reservesStock
<1>2. debited' \in [Order -> Int]
  BY DEF DebitedAfter
<1>3. usedCount' \in Nat
  BY DEF UsedCountAfter
<1> QED
  BY <1>1, <1>2, <1>3 DEF StatusOrNone

LEMMA PaymentsTyped ==
    ASSUME TypeOK, NEW w \in Worker, call[w].to = "PAID" => call[w].row \in Row
    PROVE  PaymentsWith(w) \in [Row -> PaymentStatuses]
BY DEF TypeOK, PaymentsWith, PaymentsAfter, PaymentStatuses

LEMMA NullResultSound ==
    ASSUME TypeOK, CallsOK, NEW w \in Worker, call[w].pc \in {"txRead", "txWrite"}, NullResult(w)
    PROVE  TypeOK' /\ CallsOK'
<1>1. call[w] \in Calls /\ CallOK(call[w])
  BY DEF TypeOK, CallsOK
<1>2. CASE ~Applying(w)
  BY <1>2, IdleSound, CallUpdated DEF TypeOK, NullResult, GoIdle, dbVars
<1>3. CASE Applying(w)
  <2>1. call[w].kind \in AppliedBy /\ call[w].row \in OnlineRow /\ call[w].result = "paid"
    BY <1>1, <1>3 DEF Applying, AppliedBy, CallOK
  <2>2. CASE Return(w)
    BY <1>3, <2>1, <2>2, ReturnSound DEF TypeOK, NullResult, AlertAdmin, dbVars
  <2>3. CASE ~Return(w)
    <3> DEFINE c == [call[w] EXCEPT !.pc = "apply", !.depth = 1, !.to = "NONE", !.seen = "NONE"]
    <3>1. c \in Calls /\ CallOK(c)
      BY <1>1, <2>1 DEF Calls, CallOK, Pcs, Kinds, Results, StatusOrNone, AppliedBy
    <3>2. call' = [call EXCEPT ![w] = c] /\ UNCHANGED <<dbVars, extVars, faults>>
      BY <1>3, <2>3 DEF NullResult, extVars
    <3> QED
      BY <3>1, <3>2, LocalStepSound
  <2> QED
    BY <2>2, <2>3
<1> QED
  BY <1>2, <1>3

\* The steps before and between applyResult and transition.
LEMMA PaySteps ==
    ASSUME TypeOK, CallsOK, NEW w \in Worker,
           \/ CreateRow(w) \/ CheckoutCreated(w) \/ CheckoutFailed(w) \/ CreateCash(w)
           \/ Reconciled(w) \/ \E r \in OnlineRow : Fetch(w, r) \/ FetchNothing(w, r)
    PROVE  TypeOK' /\ CallsOK'
<1> USE CartAssumption, NoneAssumption
<1> DEFINE d == call[w]
<1>0. d \in Calls /\ CallOK(d)
  BY DEF TypeOK, CallsOK
<1>1. CASE CreateRow(w)
  <2>1. ASSUME NEW r \in OnlineRow \cap RowsOf(d.order),
               payStatus' = [payStatus EXCEPT ![r] = "PENDING"], At(w, "createRow"),
               call' = [call EXCEPT ![w] = [@ EXCEPT !.pc = "checkout", !.row = r]]
        PROVE  TypeOK' /\ CallsOK'
    <3> DEFINE c == [d EXCEPT !.pc = "checkout", !.row = r]
    <3>1. c \in Calls /\ CallOK(c)
      BY <1>0, <2>1 DEF Calls, CallOK, Pcs, RowsOf, Row, At
    <3>2. call' \in [Worker -> Calls] /\ CallsOK'
      BY <2>1, <3>1, CallUpdated DEF TypeOK
    <3>3. payStatus' \in [Row -> PaymentStatuses]
      BY <2>1 DEF TypeOK, PaymentStatuses
    <3> QED
      BY <1>1, <3>2, <3>3 DEF CreateRow, TypeOK, extVars
  <2>2. CASE GoIdle(w) /\ UNCHANGED payStatus
    BY <1>1, <2>2, IdleSound, LocalStepSound DEF CreateRow, GoIdle, dbVars
  <2> QED
    BY <1>1, <2>1, <2>2 DEF CreateRow
<1>2. CASE CheckoutCreated(w)
  <2>1. gateway' \in [OnlineRow -> GatewayStates]
    BY <1>2 DEF CheckoutCreated, TypeOK, GatewayStates
  <2>2. call' \in [Worker -> Calls] /\ CallsOK'
    BY <1>2, IdleSound, CallUpdated DEF CheckoutCreated, GoIdle, TypeOK
  <2> QED
    BY <1>2, <2>1, <2>2 DEF CheckoutCreated, TypeOK, dbVars
<1>3. CASE CheckoutFailed(w) \/ CreateCash(w)
  <2>1. payStatus' \in [Row -> PaymentStatuses]
    BY <1>3 DEF CheckoutFailed, CreateCash, TypeOK, PaymentStatuses
  <2>2. call' \in [Worker -> Calls] /\ CallsOK'
    BY <1>3, IdleSound, CallUpdated DEF CheckoutFailed, CreateCash, GoIdle, TypeOK
  <2> QED
    BY <1>3, <2>1, <2>2 DEF CheckoutFailed, CreateCash, TypeOK, extVars
<1>4. CASE Reconciled(w)
  <2>1. CASE d.kind = "expire"
    <3> DEFINE c == [d EXCEPT !.pc = "txRead", !.to = "EXPIRED"]
    <3>1. c \in Calls /\ CallOK(c)
      BY <1>0, <1>4, <2>1 DEF Reconciled, At, Calls, CallOK, Pcs, StatusOrNone, OrderStatuses
    <3> QED
      BY <1>4, <2>1, <3>1, LocalStepSound DEF Reconciled
  <2>2. CASE d.kind # "expire"
    BY <1>4, <2>2, IdleSound, LocalStepSound DEF Reconciled, GoIdle
  <2> QED
    BY <2>1, <2>2
<1>5. ASSUME NEW r \in OnlineRow, Fetch(w, r)
      PROVE  TypeOK' /\ CallsOK'
  <2> DEFINE c == [d EXCEPT !.pc = "apply", !.row = r, !.result = gateway[r], !.todo = d.todo \ {r}]
  <2>1. c.to = "NONE"
    BY <1>0, <1>5 DEF Fetch, At, CallOK, Calls
  <2>2. c \in Calls /\ CallOK(c)
    BY <1>0, <1>5, <2>1 DEF Fetch, At, Calls, CallOK, Pcs, AppliedBy, RowsOf, Row
  <2> QED
    BY <1>5, <2>2, LocalStepSound DEF Fetch
<1>6. ASSUME NEW r \in OnlineRow, FetchNothing(w, r)
      PROVE  TypeOK' /\ CallsOK'
  <2> DEFINE c == [d EXCEPT !.todo = d.todo \ {r}]
  <2>1. c \in Calls /\ CallOK(c)
    BY <1>0, <1>6 DEF FetchNothing, At, Calls, CallOK
  <2> QED
    BY <1>6, <2>1, LocalStepSound DEF FetchNothing
<1> QED
  BY <1>1, <1>2, <1>3, <1>4, <1>5, <1>6

\* The steps of applyResult.
LEMMA ApplySteps ==
    ASSUME TypeOK, CallsOK, NEW w \in Worker,
           \/ ApplyFailed(w) \/ ApplyUnderpaid(w) \/ ApplyPaid(w) \/ Claim(w) \/ ClaimLost(w)
    PROVE  TypeOK' /\ CallsOK'
<1> USE CartAssumption, NoneAssumption
<1> DEFINE d == call[w]
<1>0. d \in Calls /\ CallOK(d) /\ acked \subseteq OnlineRow
  BY DEF TypeOK, CallsOK
<1>1. d.kind \in AppliedBy /\ d.row \in OnlineRow /\ d.pc # "idle"
  BY <1>0 DEF ApplyFailed, ApplyUnderpaid, ApplyPaid, Claim, ClaimLost, At, CallOK
<1>2. Return(w) => call' \in [Worker -> Calls] /\ CallsOK' /\ acked' \subseteq OnlineRow
  BY <1>0, <1>1, ReturnSound DEF TypeOK
<1>3. payStatus \in [Row -> PaymentStatuses] /\ alerted \cup {d.row} \subseteq OnlineRow
  BY <1>1 DEF TypeOK
<1>4. CASE ApplyFailed(w)
  <2>1. payStatus' \in [Row -> PaymentStatuses]
    BY <1>3, <1>4 DEF ApplyFailed, FailRow, PaymentStatuses
  <2> QED
    BY <1>2, <1>4, <2>1 DEF ApplyFailed, TypeOK
<1>5. CASE ApplyUnderpaid(w)
  BY <1>2, <1>3, <1>5 DEF ApplyUnderpaid, AlertAdmin, TypeOK, dbVars
<1>6. CASE ApplyPaid(w)
  <2> DEFINE s == status[d.order]
             c == IF s \in {"PAYMENT_PENDING", "EXPIRED"}
                  THEN [d EXCEPT !.pc = "txRead", !.to = "PAID"]
                  ELSE [d EXCEPT !.pc = "claim", !.seen = s]
  <2>1. s \in StatusOrNone
    BY <1>0, <1>6 DEF ApplyPaid, At, CallOK, TypeOK
  <2>2. c \in Calls /\ CallOK(c)
    BY <1>0, <1>6, <2>1 DEF ApplyPaid, At, Calls, CallOK, Pcs, StatusOrNone, OrderStatuses
  <2> QED
    BY <1>6, <2>2, LocalStepSound DEF ApplyPaid
<1>7. CASE Claim(w)
  <2>1. payStatus' \in [Row -> PaymentStatuses]
    BY <1>3, <1>7 DEF Claim, PaymentStatuses
  <2>2. CASE d.seen \in ClosedUnpaid
    <3> DEFINE c == [d EXCEPT !.pc = "txRead", !.to = "DISPUTED"]
    <3>1. c \in Calls /\ CallOK(c)
      BY <1>0, <1>7 DEF Claim, At, Calls, CallOK, Pcs, StatusOrNone, OrderStatuses
    <3>2. call' \in [Worker -> Calls] /\ CallsOK'
      BY <1>7, <2>2, <3>1, CallUpdated DEF Claim, TypeOK
    <3> QED
      BY <1>7, <2>1, <2>2, <3>2 DEF Claim, TypeOK
  <2>3. CASE d.seen \notin ClosedUnpaid
    BY <1>2, <1>3, <1>7, <2>1, <2>3 DEF Claim, AlertAdmin, TypeOK
  <2> QED
    BY <2>2, <2>3
<1>8. CASE ClaimLost(w)
  BY <1>2, <1>8 DEF ClaimLost, TypeOK, dbVars
<1> QED
  BY <1>4, <1>5, <1>6, <1>7, <1>8

\* The steps of transition.
LEMMA TxSteps ==
    ASSUME TypeOK, CallsOK, NEW w \in Worker,
           \/ TxRead(w) \/ TxRefused(w) \/ TxLost(w) \/ TxNoStock(w)
           \/ TxAlreadyProcessed(w) \/ TxCommit(w)
    PROVE  TypeOK' /\ CallsOK'
<1> USE CartAssumption, NoneAssumption
<1> DEFINE d == call[w]
<1>0. d \in Calls /\ CallOK(d) /\ acked \subseteq OnlineRow
  BY DEF TypeOK, CallsOK
<1>1. d.pc \in {"txRead", "txWrite"} /\ d.order \in Order
  BY <1>0 DEF TxRead, TxRefused, TxLost, TxNoStock, TxAlreadyProcessed, TxCommit, At, CallOK
<1>2. Applying(w) => /\ d.kind \in AppliedBy /\ d.row \in OnlineRow
                     /\ d.to \in {"PAID", "DISPUTED"} /\ d.result = "paid"
  BY <1>0, <1>1 DEF Applying, AppliedBy, CallOK
<1>3. Applying(w) /\ Return(w) =>
         call' \in [Worker -> Calls] /\ CallsOK' /\ acked' \subseteq OnlineRow
  BY <1>0, <1>1, <1>2, ReturnSound DEF TypeOK
<1>4. CASE TxRead(w)
  <2> DEFINE c == [d EXCEPT !.pc = "txWrite", !.seen = status[d.order]]
  <2>1. status[d.order] \in StatusOrNone
    BY <1>1 DEF TypeOK
  <2>2. c \in Calls /\ CallOK(c)
    BY <1>0, <1>4, <2>1 DEF TxRead, At, Calls, CallOK, Pcs, ActorOf
  <2> QED
    BY <1>4, <2>2, LocalStepSound DEF TxRead
<1>5. CASE TxRefused(w) \/ TxLost(w)
  BY <1>1, <1>5, NullResultSound DEF TxRefused, TxLost
<1>6. CASE TxNoStock(w)
  <2>1. CASE Applying(w)
    <3> DEFINE c == [d EXCEPT !.pc = "claim"]
    <3>1. d.to = "PAID"
      BY <1>2, <1>6, <2>1 DEF TxNoStock, StockUnavailable, reservesStock, STOCK_HELD
    <3>2. c \in Calls
      BY <1>0 DEF Calls, Pcs
    <3>3. CallOK(c)
      BY <1>0, <1>1, <1>2, <2>1, <3>1 DEF Calls, CallOK, Results
    <3> QED
      BY <1>6, <2>1, <3>2, <3>3, LocalStepSound DEF TxNoStock
  <2>2. CASE ~Applying(w)
    BY <1>6, <2>2, IdleSound, LocalStepSound DEF TxNoStock, GoIdle
  <2> QED
    BY <2>1, <2>2
<1>7. CASE TxAlreadyProcessed(w)
  BY <1>3, <1>7 DEF TxAlreadyProcessed, TypeOK, dbVars
<1>8. CASE TxCommit(w)
  <2>1. canTransition(ActorOf(w), d.seen, d.to)
    BY <1>0, <1>8 DEF TxCommit, At, CallOK, ActorOf
  <2>2. d.seen \in OrderStatuses /\ d.to \in OrderStatuses
    BY <2>1 DEF canTransition, AllowedSystem, AllowedAdmin, Moves, OrderStatuses
  <2>3. d.to = "PAID" => d.row \in Row
    <3>1. d.to = "PAID" => d.kind # "admin"
      BY <2>1 DEF canTransition, AllowedAdmin, Moves, ActorOf
    <3> QED
      BY <1>0, <1>1, <3>1 DEF CallOK, Row
  <2>4. PaymentsWith(w) \in [Row -> PaymentStatuses]
    BY <2>3, PaymentsTyped
  <2>5. /\ status' \in [Order -> StatusOrNone]
        /\ quantity' \in [Product -> Nat]
        /\ usedCount' \in Nat
        /\ payStatus' \in [Row -> PaymentStatuses]
        /\ debited' \in [Order -> Int]
        /\ handedOver' \subseteq Order
    BY <1>1, <1>8, <2>2, <2>4, CommitTyped DEF TxCommit
  <2>6. call' \in [Worker -> Calls] /\ CallsOK' /\ acked' \subseteq OnlineRow
    BY <1>3, <1>8, IdleSound, CallUpdated DEF TxCommit, GoIdle, TypeOK
  <2>7. alerted' \subseteq OnlineRow
    BY <1>2, <1>8 DEF TxCommit, AlertAdmin, TypeOK
  <2> QED
    BY <1>8, <2>5, <2>6, <2>7 DEF TxCommit, TypeOK
<1> QED
  BY <1>4, <1>5, <1>6, <1>7, <1>8

LEMMA NextTyped ==
    ASSUME TypeOK, CallsOK, [Next]_vars
    PROVE  TypeOK' /\ CallsOK'
<1> USE CartAssumption, NoneAssumption
<1>1. ASSUME NEW o \in Order, Checkout(o)
      PROVE  TypeOK' /\ CallsOK'
  <2>1. quantity' \in [Product -> Nat]
    <3>1. \A p \in Product : quantity[p] \in Nat /\ Need[o][p] \in Nat /\ quantity[p] >= Need[o][p]
      BY <1>1 DEF Checkout, PlaceOrder, InStock, TypeOK
    <3>2. quantity' = [p \in Product |-> quantity[p] - Need[o][p]]
      BY <1>1 DEF Checkout, PlaceOrder
    <3> QED
      BY <3>1, <3>2
  <2>2. status' \in [Order -> StatusOrNone] /\ usedCount' \in Nat /\ debited' \in [Order -> Int]
    BY <1>1 DEF Checkout, PlaceOrder, TypeOK, StatusOrNone, OrderStatuses
  <2> QED
    BY <1>1, <2>1, <2>2 DEF Checkout, PlaceOrder, TypeOK, CallsOK, extVars
<1>2. ASSUME NEW w \in Worker, Step(w)
      PROVE  TypeOK' /\ CallsOK'
  BY <1>2, PaySteps, ApplySteps, TxSteps DEF Step
<1>3. ASSUME NEW w \in Worker, Crash(w)
      PROVE  TypeOK' /\ CallsOK'
  <2>1. call' \in [Worker -> Calls] /\ CallsOK'
    BY <1>3, IdleSound, CallUpdated DEF Crash, GoIdle, TypeOK
  <2> QED
    BY <1>3, <2>1 DEF Crash, TypeOK, dbVars, extVars
<1>4. ASSUME NEW w \in Worker, Throw(w)
      PROVE  TypeOK' /\ CallsOK'
  <2>1. call[w] \in Calls /\ CallOK(call[w])
    BY DEF TypeOK, CallsOK
  <2>2. call[w].kind \in AppliedBy /\ call[w].row \in OnlineRow /\ call[w].pc # "idle"
    BY <1>4, <2>1 DEF Throw, CallOK, AppliedBy
  <2>3. call' \in [Worker -> Calls] /\ CallsOK' /\ acked' \subseteq OnlineRow
    BY <1>4, <2>2, ReturnSound DEF Throw, TypeOK
  <2> QED
    BY <1>4, <2>3 DEF Throw, TypeOK, dbVars
<1>5. ASSUME NEW r \in OnlineRow, NEW result \in {"paid", "underpaid", "failed"},
             gateway' = [gateway EXCEPT ![r] = result],
             UNCHANGED <<dbVars, acked, alerted, call, faults>>
      PROVE  TypeOK' /\ CallsOK'
  <2>1. gateway' \in [OnlineRow -> GatewayStates]
    BY <1>5 DEF TypeOK, GatewayStates, Results
  <2> QED
    BY <1>5, <2>1 DEF TypeOK, CallsOK, dbVars
<1>6. CASE UNCHANGED vars
  BY <1>6 DEF vars, dbVars, extVars, TypeOK, CallsOK
<1> QED
  BY <1>1, <1>2, <1>3, <1>4, <1>5, <1>6, RequestSound DEF Next, CustomerPays, ProviderFails

LEMMA InitTyped == Init => TypeOK /\ CallsOK
BY CartAssumption, NoneAssumption, IdleSound
   DEF Init, DbInit, TypeOK, CallsOK, StatusOrNone, PaymentStatuses, GatewayStates

\* Every variable keeps its type for every number of orders, products, rows
\* and workers; that quantity stays in Nat is the README's "No overselling".
THEOREM TypeCorrect == Spec => [](TypeOK /\ CallsOK)
<1>1. Init => TypeOK /\ CallsOK
  BY InitTyped
<1>2. TypeOK /\ CallsOK /\ [Next]_vars => TypeOK' /\ CallsOK'
  BY NextTyped
<1> QED
  BY <1>1, <1>2, PTL DEF Spec

-----------------------------------------------------------------------------
(* Stock and coupons                                                       *)

\* Only checkout() and a transition that commits touch orders and stock.
LEMMA StockWriters ==
    ASSUME [Next]_vars
    PROVE  \/ \E o \in Order : Checkout(o)
           \/ \E w \in Worker : TxCommit(w)
           \/ UNCHANGED <<status, quantity, usedCount, debited, handedOver>>
<1>1. ASSUME NEW w \in Worker, Request(w)
      PROVE  UNCHANGED <<status, quantity, usedCount, debited, handedOver>>
  BY <1>1 DEF Request, PayOnline, PayCash, CancelOrder, Expire, View, Reconcile,
              UpdateStatus, ConfirmCash, Webhook, dbVars
<1>2. ASSUME NEW w \in Worker, Step(w), ~TxCommit(w)
      PROVE  UNCHANGED <<status, quantity, usedCount, debited, handedOver>>
  BY <1>2 DEF Step, CreateRow, CheckoutCreated, CheckoutFailed, CreateCash, Reconciled, Fetch,
              FetchNothing, ApplyFailed, ApplyUnderpaid, ApplyPaid, Claim, ClaimLost, TxRead,
              TxRefused, TxLost, TxNoStock, TxAlreadyProcessed, NullResult, dbVars
<1>3. ASSUME \/ \E w \in Worker : Crash(w) \/ Throw(w)
             \/ \E r \in OnlineRow : ProviderFails(r)
             \/ \E r \in OnlineRow, result \in Results : CustomerPays(r, result)
             \/ UNCHANGED vars
      PROVE  UNCHANGED <<status, quantity, usedCount, debited, handedOver>>
  BY <1>3 DEF Crash, Throw, CustomerPays, ProviderFails, vars, dbVars
<1> QED
  BY <1>1, <1>2, <1>3 DEF Next, Results

\* What a committing transition does, with a legal move from the status the
\* order really has.
LEMMA CommitFacts ==
    ASSUME TypeOK, CallsOK, NEW w \in Worker, TxCommit(w)
    PROVE  LET o == call[w].order
               from == status[o]
               to == call[w].to
           IN  /\ o \in Order
               /\ canTransition(ActorOf(w), from, to)
               /\ Commit(o, from, to, PaymentsWith(w))
               /\ status' = [status EXCEPT ![o] = to]
<1>1. call[w] \in Calls /\ CallOK(call[w])
  BY DEF TypeOK, CallsOK
<1>2. call[w].pc = "txWrite" /\ status[call[w].order] = call[w].seen
  BY DEF TxCommit, At, Matches
<1> QED
  BY <1>1, <1>2 DEF TxCommit, CallOK, ActorOf, Commit

LEMMA ReservedKept ==
    ASSUME TypeOK, CallsOK, ReservedExactlyOnce, [Next]_vars
    PROVE  ReservedExactlyOnce'
<1>1. CASE UNCHANGED <<status, quantity, usedCount, debited, handedOver>>
  BY <1>1 DEF ReservedExactlyOnce
<1>2. ASSUME NEW o \in Order, Checkout(o)
      PROVE  ReservedExactlyOnce'
  <2>1. debited[o] = 0
    BY <1>2 DEF Checkout, PlaceOrder, ReservedExactlyOnce
  <2>2. debited' = [debited EXCEPT ![o] = debited[o] + 1]
        /\ status' = [status EXCEPT ![o] = "PAYMENT_PENDING"]
    BY <1>2 DEF Checkout, PlaceOrder
  <2> QED
    BY <2>1, <2>2 DEF ReservedExactlyOnce, TypeOK, STOCK_HELD
<1>3. ASSUME NEW w \in Worker, TxCommit(w)
      PROVE  ReservedExactlyOnce'
  <2> DEFINE o == call[w].order
             from == status[o]
             to == call[w].to
  <2>1. o \in Order /\ canTransition(ActorOf(w), from, to) /\ status' = [status EXCEPT ![o] = to]
        /\ debited' = DebitedAfter(o, from, to)
    BY <1>3, CommitFacts DEF Commit
  <2>2. \A q \in Order \ {o} : status'[q] = status[q] /\ debited'[q] = debited[q]
    BY <2>1 DEF TypeOK, DebitedAfter
  <2>3. status'[o] = to
    BY <2>1 DEF TypeOK
  <2>4. debited'[o] = IF releasesStock(from, to) THEN debited[o] - 1
                      ELSE IF reservesStock(from, to) THEN debited[o] + 1 ELSE debited[o]
    BY <2>1 DEF TypeOK, DebitedAfter
  <2>5. /\ to \in STOCK_HELD \cup {"SHIPPED"} => debited'[o] = 1
        /\ to \in {"NONE", "EXPIRED", "CANCELLED", "PAYMENT_FAILED"} => debited'[o] = 0
        /\ debited'[o] \in {0, 1}
    BY <2>1, <2>4 DEF ReservedExactlyOnce, canTransition, AllowedSystem, AllowedAdmin, Moves,
                      releasesStock, reservesStock, STOCK_HELD, RELEASED
  <2> QED
    BY <2>1, <2>2, <2>3, <2>5 DEF ReservedExactlyOnce
<1> QED
  BY <1>1, <1>2, <1>3, StockWriters

\* However many workers race to expire, cancel, revive or refund an order, its
\* units are out of stock once while they are held and never when it is closed.
THEOREM ReservedOnce == Spec => []ReservedExactlyOnce
<1>1. Init => ReservedExactlyOnce
  BY DEF Init, DbInit, ReservedExactlyOnce, STOCK_HELD
<1>2. TypeOK /\ CallsOK /\ ReservedExactlyOnce /\ [Next]_vars => ReservedExactlyOnce'
  BY ReservedKept
<1> QED
  BY <1>1, <1>2, TypeCorrect, PTL DEF Spec

-----------------------------------------------------------------------------
(* The services implement the stock ledger.                                *)

LEMMA LedgerStep ==
    ASSUME TypeOK, CallsOK, ReservedExactlyOnce, [Next]_vars
    PROVE  [Ledger!LedgerNext]_(Ledger!ledgerVars)
<1> DEFINE holding == {o \in Order : debited[o] = 1}
<1>1. CASE UNCHANGED <<status, quantity, usedCount, debited, handedOver>>
  BY <1>1 DEF Ledger!ledgerVars
<1>2. ASSUME NEW o \in Order, Checkout(o)
      PROVE  Ledger!Take(o)
  <2>0. debited[o] = 0
    BY <1>2 DEF Checkout, PlaceOrder, ReservedExactlyOnce
  <2>1. debited' = [debited EXCEPT ![o] = debited[o] + 1]
    BY <1>2 DEF Checkout, PlaceOrder
  <2>2. holding' = holding \cup {o} /\ o \notin holding
    BY <2>0, <2>1 DEF TypeOK
  <2> QED
    BY <1>2, <2>2 DEF Ledger!Take, Checkout, PlaceOrder, InStock
<1>3. ASSUME NEW w \in Worker, TxCommit(w)
      PROVE  [Ledger!LedgerNext]_(Ledger!ledgerVars)
  <2> DEFINE o == call[w].order
             from == status[o]
             to == call[w].to
  <2>1. /\ o \in Order
        /\ canTransition(ActorOf(w), from, to)
        /\ ~StockUnavailable(o, from, to)
        /\ quantity' = QuantityAfter(o, from, to)
        /\ debited' = DebitedAfter(o, from, to)
    BY <1>3, CommitFacts DEF Commit
  <2>2. CASE releasesStock(from, to)
    <3>0. debited[o] = 1
      BY <2>1, <2>2 DEF releasesStock, ReservedExactlyOnce
    <3>1. debited' = [debited EXCEPT ![o] = debited[o] - 1]
      BY <2>1, <2>2 DEF DebitedAfter
    <3>2. holding' = holding \ {o} /\ o \in holding
      BY <2>1, <3>0, <3>1 DEF TypeOK
    <3> QED
      BY <2>1, <2>2, <3>2 DEF Ledger!PutBack, Ledger!LedgerNext, QuantityAfter
  <2>3. CASE reservesStock(from, to) /\ ~releasesStock(from, to)
    <3>1. from = "EXPIRED"
      BY <2>1, <2>3 DEF reservesStock, canTransition, AllowedSystem, AllowedAdmin, Moves,
                        STOCK_HELD, RELEASED
    <3>2. debited[o] = 0
      BY <2>1, <3>1 DEF ReservedExactlyOnce
    <3>3. debited' = [debited EXCEPT ![o] = debited[o] + 1]
      BY <2>1, <2>3 DEF DebitedAfter
    <3>4. holding' = holding \cup {o} /\ o \notin holding
      BY <2>1, <3>2, <3>3 DEF TypeOK
    <3> QED
      BY <2>1, <2>3, <3>4 DEF Ledger!Take, Ledger!LedgerNext, QuantityAfter, StockUnavailable, InStock
  <2>4. CASE ~reservesStock(from, to) /\ ~releasesStock(from, to)
    BY <2>1, <2>4 DEF QuantityAfter, DebitedAfter, Ledger!ledgerVars
  <2> QED
    BY <2>2, <2>3, <2>4 DEF releasesStock, reservesStock
<1> QED
  BY <1>1, <1>2, <1>3, StockWriters DEF Ledger!LedgerNext

\* Every behaviour of the order and payment services is one of StockLedger.
THEOREM RefinesLedger == Spec => ImplementsLedger
<1>1. Init => Ledger!LedgerInit
  BY DEF Init, DbInit, Ledger!LedgerInit
<1>2. TypeOK /\ CallsOK /\ ReservedExactlyOnce /\ [Next]_vars => [Ledger!LedgerNext]_(Ledger!ledgerVars)
  BY LedgerStep
<1> QED
  BY <1>1, <1>2, TypeCorrect, ReservedOnce, PTL DEF Spec, ImplementsLedger, Ledger!LedgerSpec

-----------------------------------------------------------------------------
(* Units that left the store                                               *)

AfterHandOver == {"SHIPPED", "DELIVERED", "PARTIALLY_REFUNDED", "DISPUTED", "REFUNDED"}

\* What was handed over is in a status that no move leads back to the shelf.
HandedOverGone == \A o \in handedOver : status[o] \in AfterHandOver

LEMMA HandedOverKept ==
    ASSUME TypeOK, CallsOK, HandedOverGone, [Next]_vars
    PROVE  /\ HandedOverGone'
           /\ \A o \in handedOver : debited'[o] = debited[o]
<1>1. CASE UNCHANGED <<status, quantity, usedCount, debited, handedOver>>
  BY <1>1 DEF HandedOverGone
<1>2. ASSUME NEW o \in Order, Checkout(o)
      PROVE  /\ HandedOverGone'
             /\ \A q \in handedOver : debited'[q] = debited[q]
  BY <1>2 DEF Checkout, PlaceOrder, HandedOverGone, TypeOK, AfterHandOver
<1>3. ASSUME NEW w \in Worker, TxCommit(w)
      PROVE  /\ HandedOverGone'
             /\ \A q \in handedOver : debited'[q] = debited[q]
  <2> DEFINE o == call[w].order
             from == status[o]
             to == call[w].to
  <2>1. /\ o \in Order /\ canTransition(ActorOf(w), from, to)
        /\ \A q \in Order : status'[q] = IF q = o THEN to ELSE status[q]
        /\ debited' = DebitedAfter(o, from, to)
        /\ handedOver' = IF to \in {"SHIPPED", "DELIVERED"} THEN handedOver \cup {o} ELSE handedOver
    BY <1>3, CommitFacts DEF Commit, TypeOK
  <2>2. /\ from \in AfterHandOver => to \in AfterHandOver
        /\ from \in AfterHandOver => ~releasesStock(from, to) /\ ~reservesStock(from, to)
    BY <2>1 DEF canTransition, AllowedSystem, AllowedAdmin, Moves, AfterHandOver,
                releasesStock, reservesStock, STOCK_HELD, RELEASED
  <2>3. \A q \in Order \ {o} : debited'[q] = debited[q]
    BY <2>1 DEF DebitedAfter, TypeOK
  <2>4. o \in handedOver => to \in AfterHandOver /\ debited' = debited
    BY <2>1, <2>2 DEF HandedOverGone, DebitedAfter
  <2>5. \A q \in handedOver' : status'[q] \in AfterHandOver
    BY <2>1, <2>4 DEF HandedOverGone, AfterHandOver, TypeOK
  <2> QED
    BY <2>3, <2>4, <2>5 DEF HandedOverGone, TypeOK
<1> QED
  BY <1>1, <1>2, <1>3, StockWriters

\* Units that were shipped or delivered are never counted back onto the shelf,
\* by no refund, dispute or late payment, because no legal move leads from a
\* status after the hand-over to one in which the store holds the units.
THEOREM StaysOut == Spec => LeftTheStoreStaysOut
<1>1. Init => HandedOverGone
  BY DEF Init, DbInit, HandedOverGone
<1>2. TypeOK /\ CallsOK /\ HandedOverGone /\ [Next]_vars => HandedOverGone'
  BY HandedOverKept
<1>3. TypeOK /\ CallsOK /\ HandedOverGone /\ [Next]_vars =>
          [\A o \in Order : o \in handedOver /\ debited[o] = 1 => debited'[o] = 1]_vars
  BY HandedOverKept
<1> QED
  BY <1>1, <1>2, <1>3, TypeCorrect, PTL DEF Spec, LeftTheStoreStaysOut

-----------------------------------------------------------------------------
(* The coupon                                                              *)

Placed == {o \in CouponOrders : status[o] # "NONE"}
Unpaid == {o \in CouponOrders : status[o] = "PAYMENT_PENDING"}
Kept == {o \in CouponOrders : status[o] \notin Abandoned}

\* Only finitely many orders were placed, whatever the set of orders: without
\* that the two counts of CouponUsesAccounted would mean nothing.
CouponInv == IsFiniteSet(Placed) /\ CouponUsesAccounted

LEMMA CountedSets ==
    ASSUME CouponInv
    PROVE  /\ IsFiniteSet(Unpaid) /\ Cardinality(Unpaid) \in Nat
           /\ IsFiniteSet(Kept) /\ Cardinality(Kept) \in Nat
           /\ Cardinality(Unpaid) <= usedCount /\ usedCount <= Cardinality(Kept)
<1>1. Unpaid \subseteq Placed /\ Kept \subseteq Placed
  BY DEF Unpaid, Kept, Placed, Abandoned
<1>2. IsFiniteSet(Unpaid) /\ IsFiniteSet(Kept)
  BY <1>1, FS_Subset DEF CouponInv
<1> QED
  BY <1>2, FS_CardinalityType DEF CouponInv, CouponUsesAccounted, Unpaid, Kept

\* How the counted sets follow one order that moves, legally, from a status to
\* another.
LEMMA CountsMoved ==
    ASSUME TypeOK, CouponInv, NEW o \in CouponOrders, NEW to, status' = [status EXCEPT ![o] = to]
    PROVE  /\ IsFiniteSet(Placed')
           /\ Cardinality(Unpaid') =
                  Cardinality(Unpaid)
                    + (IF to = "PAYMENT_PENDING" THEN 1 ELSE 0)
                    - (IF status[o] = "PAYMENT_PENDING" THEN 1 ELSE 0)
           /\ Cardinality(Kept') =
                  Cardinality(Kept)
                    + (IF to \notin Abandoned THEN 1 ELSE 0)
                    - (IF status[o] \notin Abandoned THEN 1 ELSE 0)
<1>0. o \in Order /\ CouponOrders \subseteq Order
  BY CartAssumption
<1>1. \A q \in CouponOrders : status'[q] = IF q = o THEN to ELSE status[q]
  BY <1>0 DEF TypeOK
<1>2. Placed' \subseteq Placed \cup {o}
  BY <1>1 DEF Placed
<1>3. IsFiniteSet(Placed')
  BY <1>2, FS_AddElement, FS_Subset DEF CouponInv
<1>4. /\ IsFiniteSet(Unpaid) /\ Cardinality(Unpaid) \in Nat
      /\ IsFiniteSet(Kept) /\ Cardinality(Kept) \in Nat
  BY CountedSets
<1>5. Unpaid' = IF to = "PAYMENT_PENDING" THEN Unpaid \cup {o} ELSE Unpaid \ {o}
  BY <1>1 DEF Unpaid
<1>6. Kept' = IF to \notin Abandoned THEN Kept \cup {o} ELSE Kept \ {o}
  BY <1>1 DEF Kept
<1>7. /\ Cardinality(Unpaid \cup {o}) = IF o \in Unpaid THEN Cardinality(Unpaid) ELSE Cardinality(Unpaid) + 1
      /\ Cardinality(Unpaid \ {o}) = IF o \in Unpaid THEN Cardinality(Unpaid) - 1 ELSE Cardinality(Unpaid)
      /\ Cardinality(Kept \cup {o}) = IF o \in Kept THEN Cardinality(Kept) ELSE Cardinality(Kept) + 1
      /\ Cardinality(Kept \ {o}) = IF o \in Kept THEN Cardinality(Kept) - 1 ELSE Cardinality(Kept)
  BY <1>4, FS_AddElement, FS_RemoveElement
<1>8. /\ o \in Unpaid <=> status[o] = "PAYMENT_PENDING"
      /\ o \in Kept <=> status[o] \notin Abandoned
  BY DEF Unpaid, Kept
<1>9. Cardinality(Unpaid') =
          Cardinality(Unpaid) + (IF to = "PAYMENT_PENDING" THEN 1 ELSE 0)
                              - (IF status[o] = "PAYMENT_PENDING" THEN 1 ELSE 0)
  BY <1>4, <1>5, <1>7, <1>8
<1>10. Cardinality(Kept') =
          Cardinality(Kept) + (IF to \notin Abandoned THEN 1 ELSE 0)
                            - (IF status[o] \notin Abandoned THEN 1 ELSE 0)
  BY <1>4, <1>6, <1>7, <1>8
<1> QED
  BY <1>3, <1>9, <1>10

\* A move of an order without the coupon moves no count.
LEMMA CountsStay ==
    ASSUME CouponInv, usedCount' = usedCount, \A q \in CouponOrders : status'[q] = status[q]
    PROVE  CouponInv'
<1>1. /\ Placed' = Placed
      /\ {o \in CouponOrders : status[o] = "PAYMENT_PENDING"}'
             = {o \in CouponOrders : status[o] = "PAYMENT_PENDING"}
      /\ {o \in CouponOrders : status[o] \notin Abandoned}'
             = {o \in CouponOrders : status[o] \notin Abandoned}
  BY DEF Placed
<1> QED
  BY <1>1 DEF CouponInv, CouponUsesAccounted

LEMMA CouponKept ==
    ASSUME TypeOK, CallsOK, CouponInv, [Next]_vars
    PROVE  CouponInv'
<1>0. /\ Cardinality(Unpaid) \in Nat /\ Cardinality(Kept) \in Nat
      /\ Cardinality(Unpaid) <= usedCount /\ usedCount <= Cardinality(Kept)
      /\ usedCount <= MaxUses /\ usedCount \in Nat /\ MaxUses \in Nat
  BY CountedSets, CartAssumption DEF CouponInv, CouponUsesAccounted, TypeOK
<1>1. CASE UNCHANGED <<status, quantity, usedCount, debited, handedOver>>
  BY <1>1, CountsStay
<1>2. ASSUME NEW o \in Order, Checkout(o)
      PROVE  CouponInv'
  <2>1. /\ status[o] = "NONE" /\ status' = [status EXCEPT ![o] = "PAYMENT_PENDING"]
        /\ o \in CouponOrders => usedCount < MaxUses /\ usedCount' = usedCount + 1
        /\ o \notin CouponOrders => usedCount' = usedCount
    BY <1>2 DEF Checkout, PlaceOrder
  <2>2. CASE o \notin CouponOrders
    BY <2>1, <2>2, CountsStay, CartAssumption DEF TypeOK
  <2>3. CASE o \in CouponOrders
    <3>1. /\ IsFiniteSet(Placed')
          /\ Cardinality(Unpaid') =
                 Cardinality(Unpaid)
                   + (IF "PAYMENT_PENDING" = "PAYMENT_PENDING" THEN 1 ELSE 0)
                   - (IF status[o] = "PAYMENT_PENDING" THEN 1 ELSE 0)
          /\ Cardinality(Kept') =
                 Cardinality(Kept)
                   + (IF "PAYMENT_PENDING" \notin Abandoned THEN 1 ELSE 0)
                   - (IF status[o] \notin Abandoned THEN 1 ELSE 0)
      BY <2>1, <2>3, CountsMoved, Zenon
    <3>2. /\ Cardinality(Unpaid') = Cardinality(Unpaid) + 1
          /\ Cardinality(Kept') = Cardinality(Kept) + 1
      BY <1>0, <2>1, <3>1 DEF Abandoned
    <3> QED
      BY <1>0, <2>1, <2>3, <3>1, <3>2 DEF CouponInv, CouponUsesAccounted, Unpaid, Kept
  <2> QED
    BY <2>2, <2>3
<1>3. ASSUME NEW w \in Worker, TxCommit(w)
      PROVE  CouponInv'
  <2> DEFINE o == call[w].order
             from == status[o]
             to == call[w].to
  <2>1. /\ o \in Order /\ canTransition(ActorOf(w), from, to)
        /\ status' = [status EXCEPT ![o] = to]
        /\ usedCount' = UsedCountAfter(o, from, to)
    BY <1>3, CommitFacts DEF Commit
  <2>2. CASE o \notin CouponOrders
    BY <2>1, <2>2, CountsStay, CartAssumption DEF TypeOK, UsedCountAfter
  <2>3. CASE o \in CouponOrders
    <3>1. /\ to # "PAYMENT_PENDING"
          /\ from = "PAYMENT_PENDING" => (to \in Abandoned <=> releasesCoupon(from, to))
          /\ from # "PAYMENT_PENDING" => to \notin Abandoned /\ ~releasesCoupon(from, to)
          /\ from = "PAYMENT_PENDING" => from \notin Abandoned
      BY <2>1 DEF canTransition, AllowedSystem, AllowedAdmin, Moves, Abandoned, releasesCoupon, RELEASED
    <3>2. /\ IsFiniteSet(Placed')
          /\ Cardinality(Unpaid') = Cardinality(Unpaid)
                + (IF to = "PAYMENT_PENDING" THEN 1 ELSE 0) - (IF from = "PAYMENT_PENDING" THEN 1 ELSE 0)
          /\ Cardinality(Kept') = Cardinality(Kept)
                + (IF to \notin Abandoned THEN 1 ELSE 0) - (IF from \notin Abandoned THEN 1 ELSE 0)
      BY <2>1, <2>3, CountsMoved, Zenon
    <3>3. CASE from = "PAYMENT_PENDING"
      <4>1. Cardinality(Unpaid) > 0
        <5>1. o \in Unpaid
          BY <2>3, <3>3 DEF Unpaid
        <5>2. IsFiniteSet(Unpaid)
          BY CountedSets
        <5> QED
          BY <1>0, <5>1, <5>2, FS_EmptySet
      <4>2. usedCount' = IF to \in Abandoned THEN usedCount - 1 ELSE usedCount
        BY <1>0, <2>1, <2>3, <3>1, <3>3, <4>1 DEF UsedCountAfter
      <4>3. /\ Cardinality(Unpaid') <= usedCount' /\ usedCount' <= Cardinality(Kept')
            /\ usedCount' <= MaxUses
        BY <1>0, <3>1, <3>2, <3>3, <4>1, <4>2
      <4> QED
        BY <3>2, <4>3 DEF CouponInv, CouponUsesAccounted, Unpaid, Kept
    <3>4. CASE from # "PAYMENT_PENDING"
      <4>1. usedCount' = usedCount
        BY <2>1, <3>1, <3>4 DEF UsedCountAfter
      <4>2. /\ Cardinality(Unpaid') <= usedCount' /\ usedCount' <= Cardinality(Kept')
            /\ usedCount' <= MaxUses
        BY <1>0, <3>1, <3>2, <3>4, <4>1
      <4> QED
        BY <3>2, <4>2 DEF CouponInv, CouponUsesAccounted, Unpaid, Kept
    <3> QED
      BY <3>3, <3>4
  <2> QED
    BY <2>2, <2>3
<1> QED
  BY <1>1, <1>2, <1>3, StockWriters

\* Through every race of checkouts, expiries, cancellations, revivals and
\* refunds the coupon stays within its limit, covers every order that may still
\* be paid for and counts no abandoned one.
THEOREM CouponAccounted == Spec => []CouponUsesAccounted
<1>1. Init => CouponInv
  <2>1. ASSUME Init
        PROVE  CouponInv
    <3>1. \A o \in CouponOrders : status[o] = "NONE"
      BY <2>1, CartAssumption DEF Init, DbInit
    <3>2. Placed = {} /\ Unpaid = {} /\ Kept = {} /\ usedCount = 0
      BY <2>1, <3>1 DEF Init, DbInit, Placed, Unpaid, Kept, Abandoned
    <3>3. Cardinality(Unpaid) = 0 /\ Cardinality(Kept) = 0 /\ IsFiniteSet(Placed)
      BY <3>2, FS_EmptySet
    <3>4. MaxUses \in Nat
      BY CartAssumption
    <3> QED
      BY <3>2, <3>3, <3>4 DEF CouponInv, CouponUsesAccounted, Unpaid, Kept
  <2> QED
    BY <2>1
<1>2. TypeOK /\ CallsOK /\ CouponInv /\ [Next]_vars => CouponInv'
  BY CouponKept
<1>3. CouponInv => CouponUsesAccounted
  BY DEF CouponInv
<1> QED
  BY <1>1, <1>2, <1>3, TypeCorrect, PTL DEF Spec
================================================================================
