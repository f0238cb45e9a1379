------------------------------- MODULE OrderExpiry -------------------------------
(***************************************************************************)
(* When unpaid orders expire: the clock, the job of every instance, and    *)
(* what a customer may do while a run works through its candidates.        *)
(* Sources, under apps/backend/src/orders/: order-expiry.service.ts and,   *)
(* of the other services, what the job's decision depends on.              *)
(*                                                                         *)
(* Time is counted in ticks, up to Cap, beyond which no comparison of the  *)
(* code tells two times apart.                                             *)
(***************************************************************************)
EXTENDS Integers, FiniteSets

CONSTANTS Order,
          Runner,           \* the instances of the backend, each with its job
          OnlineTtl,        \* ORDER_PAYMENT_TTL_MINUTES
          CashTtl,          \* CASH_PICKUP_TTL_HOURS
          BatchSize,        \* BATCH_SIZE
          Period,           \* the schedule: ticks from one run to the next
          JobTime,          \* bound: ticks a run lasts
          MaxAttempts,      \* bound: online attempts of one order
          MaxFaults         \* bound: failures of a run

ASSUME TimeAssumption ==
    /\ {OnlineTtl, CashTtl, JobTime, MaxAttempts, MaxFaults} \subseteq Nat
    /\ {BatchSize, Period} \subseteq Nat \ {0}
    /\ JobTime < Period
    /\ IsFiniteSet(Order)

VARIABLES status,           \* Order.status
          created,          \* Order.createdAt: the how-manieth order it is
          age,              \* ticks since createdAt
          idle,             \* ticks since the latest payment's createdAt, or age
          cash,             \* a cash payment is PENDING
          attempts,         \* online attempts so far
          unrecorded,       \* the provider has the money, the store does not know
          todo,             \* per run: the due orders it has still to expire
          asked,            \* per run: the first of them was reconciled
          since,            \* per runner: ticks since its last run began
          faults

orderVars == <<status, created, age, idle, cash, attempts, unrecorded>>
jobVars == <<todo, asked, since, faults>>
vars == <<orderVars, jobVars>>

MinTtl == IF OnlineTtl < CashTtl THEN OnlineTtl ELSE CashTtl
MaxTtl == IF OnlineTtl < CashTtl THEN CashTtl ELSE OnlineTtl
Cap == MaxTtl + (1 + MaxFaults) * (Period + JobTime) + 2

Init ==
    /\ status = [o \in Order |-> "NONE"]
    /\ created = [o \in Order |-> 0]
    /\ age = [o \in Order |-> 0]
    /\ idle = [o \in Order |-> 0]
    /\ cash = [o \in Order |-> FALSE]
    /\ attempts = [o \in Order |-> 0]
    /\ unrecorded = [o \in Order |-> FALSE]
    /\ todo = [r \in Runner |-> {}]
    /\ asked = [r \in Runner |-> FALSE]
    /\ since \in [Runner -> 0 .. Period]
    /\ faults = 0

Pending(o) == status[o] = "PAYMENT_PENDING"
Busy(r) == todo[r] # {}
Become(o, s) == status' = [status EXCEPT ![o] = s]

-----------------------------------------------------------------------------
(* The customer, the provider and the admin                                *)

Checkout(o) ==
    /\ status[o] = "NONE"
    /\ Become(o, "PAYMENT_PENDING")
    /\ created' = [created EXCEPT ![o] = Cardinality({p \in Order : status[p] # "NONE"})]
    /\ UNCHANGED <<age, idle, cash, attempts, unrecorded, jobVars>>

\* startOnlinePayment creates a payment row.
StartOnlinePayment(o) ==
    /\ Pending(o)
    /\ attempts[o] < MaxAttempts
    /\ attempts' = [attempts EXCEPT ![o] = @ + 1]
    /\ idle' = [idle EXCEPT ![o] = 0]
    /\ UNCHANGED <<status, created, age, cash, unrecorded, jobVars>>

\* selectCashPayment does, unless one is pending.
SelectCashPayment(o) ==
    /\ Pending(o)
    /\ ~cash[o]
    /\ cash' = [cash EXCEPT ![o] = TRUE]
    /\ idle' = [idle EXCEPT ![o] = 0]
    /\ UNCHANGED <<status, created, age, attempts, unrecorded, jobVars>>

\* External: the customer pays an attempt, also after the order was closed.
CustomerPays(o) ==
    /\ attempts[o] > 0
    /\ status[o] \in {"PAYMENT_PENDING", "EXPIRED", "CANCELLED"}
    /\ unrecorded' = [unrecorded EXCEPT ![o] = TRUE]
    /\ UNCHANGED <<status, created, age, idle, cash, attempts, jobVars>>

\* What a success makes of an order: an expired one is revived unless its
\* units were sold.
AfterSuccess ==
    [PAYMENT_PENDING |-> {"PAID"}, EXPIRED |-> {"PAID", "DISPUTED"},
     CANCELLED |-> {"DISPUTED"}, PAID |-> {"PAID"}]

Recorded(o) ==
    /\ \E s \in AfterSuccess[status[o]] : Become(o, s)
    /\ unrecorded' = [unrecorded EXCEPT ![o] = FALSE]

\* The provider's webhook may come at any time, or never.
Webhook(o) ==
    /\ unrecorded[o]
    /\ Recorded(o)
    /\ UNCHANGED <<created, age, idle, cash, attempts, jobVars>>

\* The order page polls the provider for the attempts of a pending order.
View(o) ==
    /\ Pending(o) /\ unrecorded[o]
    /\ Recorded(o)
    /\ UNCHANGED <<created, age, idle, cash, attempts, jobVars>>

\* An admin confirms the cash, or cancels.
Settle(o) ==
    /\ Pending(o)
    /\ \/ cash[o] /\ Become(o, "PAID")
       \/ Become(o, "CANCELLED")
    /\ UNCHANGED <<created, age, idle, cash, attempts, unrecorded, jobVars>>

-----------------------------------------------------------------------------
(* expireStaleOrders                                                       *)

\* The query's where clause.
Stale(o) == Pending(o) /\ age[o] > MinTtl

\* The oldest of them, at most BATCH_SIZE.
Candidates ==
    LET older(o) == {p \in Order : Stale(p) /\ created[p] < created[o]}
    IN  {o \in Order : Stale(o) /\ Cardinality(older(o)) < BatchSize}

Limit(o) == IF cash[o] THEN CashTtl ELSE OnlineTtl

DueByAge(o) == age[o] >= Limit(o) \* mutant: payments do not count as activity

DueUnlessCash(o) == ~cash[o] /\ idle[o] >= OnlineTtl \* mutant: cash orders stay

\* `continue` passes over the others; both sides were read by the query.
Due(o) == idle[o] >= Limit(o)

StartRun(r) ==
    /\ ~Busy(r)
    /\ since[r] = Period
    /\ todo' = [todo EXCEPT ![r] = {o \in Candidates : Due(o)}]
    /\ asked' = [asked EXCEPT ![r] = FALSE]
    /\ since' = [since EXCEPT ![r] = 0]
    /\ UNCHANGED <<orderVars, faults>>

\* The order of the for loop: the oldest first.
Head(r) == CHOOSE o \in todo[r] : \A p \in todo[r] : created[o] <= created[p]

NextCandidate(r) ==
    /\ todo' = [todo EXCEPT ![r] = @ \ {Head(r)}]
    /\ asked' = [asked EXCEPT ![r] = FALSE]
    /\ UNCHANGED since

\* reconcilePending, which asks only about pending orders.
Reconcile(r) ==
    /\ Busy(r) /\ ~asked[r]
    /\ LET o == Head(r) IN
       IF Pending(o) /\ unrecorded[o] THEN Recorded(o) ELSE UNCHANGED <<status, unrecorded>>
    /\ asked' = [asked EXCEPT ![r] = TRUE]
    /\ UNCHANGED <<created, age, idle, cash, attempts, todo, since, faults>>

\* The provider does not answer: reconcilePending logs it and returns.
ReconcileFails(r) ==
    /\ faults < MaxFaults
    /\ Busy(r) /\ ~asked[r]
    /\ asked' = [asked EXCEPT ![r] = TRUE]
    /\ faults' = faults + 1
    /\ UNCHANGED <<orderVars, todo, since>>

\* transition(o, EXPIRED): nothing if it is no longer pending.
Expire(r) ==
    /\ Busy(r) /\ asked[r]
    /\ LET o == Head(r) IN IF Pending(o) THEN Become(o, "EXPIRED") ELSE UNCHANGED status
    /\ NextCandidate(r)
    /\ UNCHANGED <<created, age, idle, cash, attempts, unrecorded, faults>>

\* The transition throws: the job goes on with the next order.
ExpireFails(r) ==
    /\ faults < MaxFaults
    /\ Busy(r) /\ asked[r]
    /\ faults' = faults + 1
    /\ NextCandidate(r)
    /\ UNCHANGED orderVars

\* The instance restarts: its run is lost, its schedule goes on.
Crash(r) ==
    /\ faults < MaxFaults
    /\ Busy(r)
    /\ faults' = faults + 1
    /\ todo' = [todo EXCEPT ![r] = {}]
    /\ UNCHANGED <<orderVars, asked, since>>

-----------------------------------------------------------------------------
\* Time passes for an order that is pending; nothing asks for the age of others.
Older(t) == [o \in Order |-> IF ~Pending(o) THEN 0 ELSE IF t[o] < Cap THEN t[o] + 1 ELSE Cap]

\* A tick. Runs begin on schedule and end within JobTime.
Tick ==
    /\ \A r \in Runner : since[r] < (IF Busy(r) THEN JobTime ELSE Period)
    /\ age' = Older(age)
    /\ idle' = Older(idle)
    /\ since' = [r \in Runner |-> since[r] + 1]
    /\ UNCHANGED <<status, created, cash, attempts, unrecorded, todo, asked, faults>>

Job(r) == StartRun(r) \/ Reconcile(r) \/ Expire(r)

Next ==
    \/ \E o \in Order :
          \/ Checkout(o) \/ StartOnlinePayment(o) \/ SelectCashPayment(o)
          \/ CustomerPays(o) \/ Webhook(o) \/ View(o) \/ Settle(o)
    \/ \E r \in Runner : Job(r) \/ ReconcileFails(r) \/ ExpireFails(r) \/ Crash(r)
    \/ Tick

Spec == Init /\ [][Next]_vars

-----------------------------------------------------------------------------
(* Properties                                                              *)

Expires(o) == Pending(o) /\ status'[o] = "EXPIRED"

\* An order whose customer did nothing since a run began is expired by that
\* run only if it was due when the run began, whatever other instances and
\* earlier runs left behind.
ExpiredWhenDue ==
    [][\A o \in Order : Expires(o) =>
          \E r \in Runner :
              /\ Busy(r) /\ Head(r) = o
              /\ idle[o] > since[r] => idle[o] - since[r] >= Limit(o)]_vars

\* The time the schedule may add to a limit: a period and a run, and as much
\* again for each run that failed.
Slack == (1 + faults) * (Period + JobTime)

\* While the batch holds every candidate, no order holds its units for longer
\* than its limit and a run of the job, however its customer's payments, other
\* instances and failed runs fall in between (README.md:248 "When unpaid orders
\* expire and release stock (60 min / 72 h)").
ExpiredOnTime == \A o \in Order : Pending(o) => idle[o] <= Limit(o) + Slack
================================================================================
