--------------------------- MODULE OrderExpiryProofs ---------------------------
(***************************************************************************)
(* An unpaid order gives its units back on time and not before, for any    *)
(* number of orders and instances, any limits and schedule, any failures.  *)
(*                                                                         *)
(* The bound is kept for each instance by itself: when one of its runs     *)
(* begins, an order that is due is taken on, and only a failure lets it go *)
(* unexpired, until a period later the next run takes it on again.         *)
(***************************************************************************)
EXTENDS OrderExpiry, FiniteSetTheorems, WellFoundedInduction, TLAPS

Statuses == {"NONE", "PAYMENT_PENDING", "PAID", "EXPIRED", "CANCELLED", "DISPUTED"}

Typed ==
    /\ status \in [Order -> Statuses]
    /\ created \in [Order -> Nat]
    /\ age \in [Order -> 0 .. Cap]
    /\ idle \in [Order -> 0 .. Cap]
    /\ cash \in [Order -> BOOLEAN]
    /\ unrecorded \in [Order -> BOOLEAN]
    /\ todo \in [Runner -> SUBSET Order]
    /\ since \in [Runner -> 0 .. Period]
    /\ faults \in 0 .. MaxFaults

\* A run ends within JobTime; no payment is older than its order; money is
\* unrecorded only where a success still has a move to make.
Clock ==
    /\ \A r \in Runner : Busy(r) => since[r] <= JobTime
    /\ \A o \in Order : idle[o] <= age[o] /\ (status[o] = "NONE" => idle[o] = 0)
    /\ \A o \in Order : unrecorded[o] => status[o] \in {"PAYMENT_PENDING", "EXPIRED", "CANCELLED", "PAID"}

LEMMA Constants ==
    /\ {OnlineTtl, CashTtl, JobTime, MaxFaults, Period, MinTtl, MaxTtl, Cap} \subseteq Nat
    /\ JobTime < Period /\ BatchSize \in Nat /\ MaxTtl + JobTime <= Cap
    /\ \A o \in Order : Limit(o) \in Nat /\ MinTtl <= Limit(o) /\ Limit(o) <= MaxTtl
<1>1. {OnlineTtl, CashTtl, JobTime, MaxFaults, Period, MinTtl, MaxTtl} \subseteq Nat /\ JobTime < Period /\ BatchSize \in Nat
  BY TimeAssumption DEF MinTtl, MaxTtl
<1>2. \A o \in Order : Limit(o) \in Nat /\ MinTtl <= Limit(o) /\ Limit(o) <= MaxTtl
  BY <1>1 DEF Limit, MinTtl, MaxTtl
<1>3. Period + JobTime \in Nat /\ MaxFaults \in Nat
  BY <1>1
<1>4. MaxFaults * (Period + JobTime) \in Nat
  BY <1>3
<1>5. (1 + MaxFaults) * (Period + JobTime) = (Period + JobTime) + MaxFaults * (Period + JobTime)
  BY <1>3
<1> DEFINE P == (1 + MaxFaults) * (Period + JobTime)
           Q == MaxFaults * (Period + JobTime)
<1>6. P = (Period + JobTime) + Q /\ Q \in Nat /\ Cap = MaxTtl + P + 2
  BY <1>4, <1>5 DEF Cap
<1> HIDE DEF P, Q
<1>7. Cap \in Nat /\ MaxTtl + JobTime <= Cap
  BY <1>1, <1>6
<1> QED
  BY <1>1, <1>2, <1>7

\* The order whose turn it is.
LEMMA HeadIsThere ==
    ASSUME Typed, NEW r \in Runner, Busy(r)
    PROVE  Head(r) \in todo[r] /\ Head(r) \in Order
<1>1. todo[r] \subseteq Order /\ todo[r] # {}
  BY DEF Typed, Busy
<1> DEFINE N == {created[o] : o \in todo[r]}
<1>2. N \in SUBSET Nat /\ N # {}
  BY <1>1 DEF Typed
<1>2a. \A m \in N : \E o \in todo[r] : m = created[o]
  OBVIOUS
<1>2b. \A o \in todo[r] : created[o] \in N
  OBVIOUS
<1> HIDE DEF N
<1>3. PICK n \in N : \A m \in N : ~ (<<m, n>> \in OpToRel(<, Nat))
  BY <1>2, NatLessThanWellFounded, WFMin
<1>4. \A m \in N : n <= m
  <2>1. \A m \in N : ~ (m < n) /\ m \in Nat /\ n \in Nat
    BY <1>2, <1>3 DEF OpToRel
  <2> QED
    BY <2>1
<1>5. \E o \in todo[r] : \A p \in todo[r] : created[o] <= created[p]
  BY <1>2a, <1>2b, <1>4
<1>6. Head(r) \in todo[r]
  BY <1>5 DEF Head
<1> QED
  BY <1>1, <1>6

(***************************************************************************)
(* The invariant                                                           *)
(***************************************************************************)
\* What r has still to answer for: a period for every failure so far, one
\* more while it holds the order, and what has passed of the current one.
Allowed(o, r) ==
    Limit(o) + since[r] + Period * faults + (IF o \in todo[r] THEN Period ELSE 0)

OnTime == \A o \in Order, r \in Runner : Pending(o) => idle[o] <= Allowed(o, r)

DueSince ==
    \A o \in Order, r \in Runner :
        (Pending(o) /\ o \in todo[r] /\ idle[o] > since[r]) => idle[o] - since[r] >= Limit(o)

Inv == Typed /\ Clock /\ DueSince

THEOREM InitInv == Init => Inv
<1> SUFFICES ASSUME Init PROVE Inv
  OBVIOUS
<1>1. Typed
  BY Constants DEF Init, Typed, Statuses
<1>2. Clock
  BY DEF Init, Clock, Busy
<1>3. DueSince
  BY DEF Init, DueSince
<1> QED
  BY <1>1, <1>2, <1>3 DEF Inv

\* A success leaves the order somewhere it is never pending again.
LEMMA RecordedDoes ==
    ASSUME Typed, Clock, NEW o \in Order, unrecorded[o], Recorded(o)
    PROVE  /\ \E s \in {"PAID", "DISPUTED"} : status' = [status EXCEPT ![o] = s]
           /\ unrecorded' = [unrecorded EXCEPT ![o] = FALSE]
<1>1. status[o] \in {"PAYMENT_PENDING", "EXPIRED", "CANCELLED", "PAID"}
  BY DEF Clock
<1>2. AfterSuccess[status[o]] \subseteq {"PAID", "DISPUTED"}
  BY <1>1 DEF AfterSuccess
<1> QED
  BY <1>2 DEF Recorded, Become

\* Nothing a customer, a provider or a run does makes a pending order look
\* older: it stays as it was, or there was activity.
Calm(o) ==
    status'[o] = "PAYMENT_PENDING" =>
        \/ idle'[o] = 0
        \/ Pending(o) /\ cash'[o] = cash[o] /\ idle'[o] = idle[o]

Customer(o) ==
    \/ Checkout(o) \/ StartOnlinePayment(o) \/ SelectCashPayment(o)
    \/ CustomerPays(o) \/ Webhook(o) \/ View(o) \/ Settle(o)

LEMMA CustomerIsCalm ==
    ASSUME Typed, Clock, NEW o \in Order, Customer(o)
    PROVE  Typed' /\ Clock' /\ (\A p \in Order : Calm(p)) /\ UNCHANGED jobVars
<1>1. CASE Checkout(o)
  <2>1. created' \in [Order -> Nat]
    <3>1. IsFiniteSet({p \in Order : status[p] # "NONE"})
      BY TimeAssumption, FS_Subset
    <3>2. Cardinality({p \in Order : status[p] # "NONE"}) \in Nat
      BY <3>1, FS_CardinalityType
    <3> QED
      BY <1>1, <3>2 DEF Checkout, Typed
  <2> QED
    BY <1>1, <2>1 DEF Checkout, Become, Pending, Typed, Statuses, Clock, Busy, Calm, jobVars
<1>2. CASE StartOnlinePayment(o)
  BY <1>2, Constants DEF StartOnlinePayment, Pending, Typed, Clock, Busy, Calm, jobVars
<1>3. CASE SelectCashPayment(o)
  <2>1. status[o] = "PAYMENT_PENDING" /\ UNCHANGED <<status, created, age, attempts, unrecorded, jobVars>>
    BY <1>3 DEF SelectCashPayment, Pending
  <2>2. idle' = [idle EXCEPT ![o] = 0] /\ cash' = [cash EXCEPT ![o] = TRUE]
    BY <1>3 DEF SelectCashPayment
  <2>3. idle' \in [Order -> 0 .. Cap] /\ cash' \in [Order -> BOOLEAN]
    BY <2>2, Constants DEF Typed
  <2>4. \A p \in Order : IF p = o THEN idle'[p] = 0 ELSE idle'[p] = idle[p] /\ cash'[p] = cash[p]
    BY <2>2 DEF Typed
  <2>5. Typed'
    BY <2>1, <2>3 DEF Typed, jobVars
  <2>6. Clock'
    BY <2>1, <2>4 DEF Typed, Clock, Busy, jobVars
  <2> QED
    BY <2>1, <2>4, <2>5, <2>6 DEF Calm, Pending, jobVars
<1>4. CASE CustomerPays(o)
  BY <1>4 DEF CustomerPays, Pending, Typed, Clock, Busy, Calm, jobVars
<1>5. CASE Webhook(o) \/ View(o)
  <2>1. unrecorded[o] /\ Recorded(o) /\ UNCHANGED <<created, age, idle, cash, attempts, jobVars>>
    BY <1>5 DEF Webhook, View
  <2>2. PICK s \in {"PAID", "DISPUTED"} : status' = [status EXCEPT ![o] = s]
    BY <2>1, RecordedDoes
  <2>3. unrecorded' = [unrecorded EXCEPT ![o] = FALSE]
    BY <2>1, RecordedDoes
  <2> QED
    BY <2>1, <2>2, <2>3 DEF Pending, Typed, Statuses, Clock, Busy, Calm, jobVars
<1>6. CASE Settle(o)
  BY <1>6 DEF Settle, Become, Pending, Typed, Statuses, Clock, Busy, Calm, jobVars
<1> QED
  BY <1>1, <1>2, <1>3, <1>4, <1>5, <1>6 DEF Customer

\* What a run does to the orders it holds, short of beginning: it lets one go
\* only when that one is no longer pending, or a failure is counted.
Working(r) ==
    Reconcile(r) \/ Expire(r) \/ ReconcileFails(r) \/ ExpireFails(r) \/ Crash(r)

LEMMA RunIsCalm ==
    ASSUME Typed, Clock, NEW r \in Runner, Working(r)
    PROVE  /\ Typed' /\ Clock' /\ (\A p \in Order : Calm(p))
           /\ since' = since
           /\ \A q \in Runner : todo'[q] \subseteq todo[q]
           /\ \/ faults' = faults + 1
              \/ /\ faults' = faults
                 /\ \A q \in Runner : \A p \in todo[q] :
                        status'[p] = "PAYMENT_PENDING" => p \in todo'[q]
<1>1. Busy(r)
  BY DEF Working, Reconcile, Expire, ReconcileFails, ExpireFails, Crash
<1> DEFINE o == Head(r)
<1>2. o \in todo[r] /\ o \in Order
  BY <1>1, HeadIsThere
<1>3. CASE Reconcile(r)
  <2>1. CASE Pending(o) /\ unrecorded[o]
    <3>1. Recorded(o)
      BY <1>3, <2>1 DEF Reconcile
    <3>2. PICK s \in {"PAID", "DISPUTED"} : status' = [status EXCEPT ![o] = s]
      BY <1>2, <2>1, <3>1, RecordedDoes
    <3>3. unrecorded' = [unrecorded EXCEPT ![o] = FALSE]
      BY <1>2, <2>1, <3>1, RecordedDoes
    <3>4. UNCHANGED <<created, age, idle, cash, attempts, todo, since, faults>>
      BY <1>3 DEF Reconcile
    <3> QED
      BY <1>2, <3>2, <3>3, <3>4 DEF Pending, Typed, Statuses, Clock, Busy, Calm
  <2>2. CASE ~ (Pending(o) /\ unrecorded[o])
    BY <1>3, <2>2 DEF Reconcile, Pending, Typed, Clock, Busy, Calm
  <2> QED
    BY <2>1, <2>2
<1>4. CASE Expire(r)
  <2>1. todo' = [todo EXCEPT ![r] = @ \ {o}] /\ UNCHANGED <<created, age, idle, cash, attempts, unrecorded, since, faults>>
    BY <1>4 DEF Expire, NextCandidate
  <2>2. IF Pending(o) THEN status' = [status EXCEPT ![o] = "EXPIRED"] ELSE status' = status
    BY <1>4 DEF Expire, Become
  <2> HIDE DEF o
  <2>3. status'[o] # "PAYMENT_PENDING" /\ \A p \in Order : p # o => status'[p] = status[p]
    BY <1>2, <2>2 DEF Pending, Typed
  <2>4. \A q \in Runner : todo'[q] = IF q = r THEN todo[q] \ {o} ELSE todo[q]
    BY <2>1 DEF Typed
  <2>5. Typed' /\ Clock'
    <3>1. status' \in [Order -> Statuses]
      BY <1>2, <2>2 DEF Typed, Statuses
    <3>2. \A p \in Order : status'[p] = status[p] \/ (status[p] = "PAYMENT_PENDING" /\ status'[p] = "EXPIRED")
      BY <1>2, <2>2 DEF Pending, Typed
    <3>3. todo' \in [Runner -> SUBSET Order]
      BY <1>2, <2>1 DEF Typed
    <3> QED
      BY <2>1, <2>4, <3>1, <3>2, <3>3 DEF Typed, Clock, Busy
  <2> QED
    BY <1>2, <2>1, <2>3, <2>4, <2>5 DEF Pending, Calm
<1>5. CASE ReconcileFails(r)
  BY <1>5, Constants DEF ReconcileFails, orderVars, Pending, Typed, Clock, Busy, Calm
<1>6. CASE ExpireFails(r)
  <2>1. todo' = [todo EXCEPT ![r] = @ \ {o}] /\ UNCHANGED <<orderVars, since>> /\ faults' = faults + 1 /\ faults < MaxFaults
    BY <1>6 DEF ExpireFails, NextCandidate
  <2> HIDE DEF o
  <2> QED
    BY <1>2, <2>1, Constants DEF orderVars, Pending, Typed, Clock, Busy, Calm
<1>7. CASE Crash(r)
  BY <1>7, Constants DEF Crash, orderVars, Pending, Typed, Clock, Busy, Calm
<1> QED
  BY <1>3, <1>4, <1>5, <1>6, <1>7 DEF Working

LEMMA StartRunDoes ==
    ASSUME Typed, Clock, NEW r \in Runner, StartRun(r)
    PROVE  Typed' /\ Clock'
<1>1. todo' = [todo EXCEPT ![r] = {o \in Candidates : Due(o)}] /\ since' = [since EXCEPT ![r] = 0]
        /\ UNCHANGED <<orderVars, faults>>
  BY DEF StartRun
<1>2. {o \in Candidates : Due(o)} \in SUBSET Order
  BY DEF Candidates
<1>3. todo' \in [Runner -> SUBSET Order] /\ since' \in [Runner -> 0 .. Period]
  BY <1>1, <1>2, Constants DEF Typed
<1>4. \A q \in Runner : since'[q] = 0 \/ (since'[q] = since[q] /\ todo'[q] = todo[q])
  BY <1>1 DEF Typed
<1> QED
  BY <1>1, <1>3, <1>4, Constants DEF Typed, Clock, Busy, orderVars

\* A tick: every schedule moves on by one, no pending order by more.
LEMMA TickDoes ==
    ASSUME Typed, Clock, Tick
    PROVE  /\ Typed' /\ Clock' /\ UNCHANGED <<status, cash, todo, faults>>
           /\ \A r \in Runner : since'[r] = since[r] + 1
           /\ \A o \in Order : Pending(o) =>
                 idle'[o] = IF idle[o] < Cap THEN idle[o] + 1 ELSE Cap
<1>1. UNCHANGED <<status, created, cash, attempts, unrecorded, todo, asked, faults>>
  BY DEF Tick
<1>2. \A r \in Runner : since'[r] = since[r] + 1 /\ since[r] < IF Busy(r) THEN JobTime ELSE Period
  BY DEF Tick
<1>3. since' \in [Runner -> 0 .. Period]
  <2>1. \A r \in Runner : since[r] + 1 \in 0 .. Period
    BY <1>2, Constants DEF Typed
  <2>2. since' = [r \in Runner |-> since[r] + 1]
    BY DEF Tick
  <2> QED
    BY <2>1, <2>2
<1>4. /\ age' = [o \in Order |-> IF ~Pending(o) THEN 0 ELSE IF age[o] < Cap THEN age[o] + 1 ELSE Cap]
      /\ idle' = [o \in Order |-> IF ~Pending(o) THEN 0 ELSE IF idle[o] < Cap THEN idle[o] + 1 ELSE Cap]
  BY DEF Tick, Older
<1>5. age' \in [Order -> 0 .. Cap] /\ idle' \in [Order -> 0 .. Cap]
  BY <1>4, Constants DEF Typed
<1>6. Typed'
  BY <1>1, <1>3, <1>5 DEF Typed
<1>7. Clock'
  <2>1. \A r \in Runner : todo'[r] # {} => since'[r] <= JobTime
    BY <1>1, <1>2, Constants DEF Typed, Busy
  <2>2. \A o \in Order : idle'[o] <= age'[o] /\ (status'[o] = "NONE" => idle'[o] = 0)
    BY <1>1, <1>4, Constants DEF Typed, Clock, Pending
  <2> QED
    BY <1>1, <2>1, <2>2 DEF Clock, Busy
<1> QED
  BY <1>1, <1>2, <1>4, <1>6, <1>7

(***************************************************************************)
(* Not before its time                                                     *)
(***************************************************************************)
LEMMA Steps ==
    ASSUME [Next]_vars
    PROVE  \/ \E o \in Order : Customer(o)
           \/ \E r \in Runner : StartRun(r) \/ Working(r)
           \/ Tick
           \/ UNCHANGED vars
BY DEF Next, Job, Customer, Working

THEOREM NextInv == Inv /\ [Next]_vars => Inv'
<1> SUFFICES ASSUME Inv, [Next]_vars PROVE Inv'
  OBVIOUS
<1> USE DEF Inv
<1> DEFINE DueIn(o, r) ==
        (status'[o] = "PAYMENT_PENDING" /\ o \in todo'[r] /\ idle'[o] > since'[r])
            => idle'[o] - since'[r] >= (IF cash'[o] THEN CashTtl ELSE OnlineTtl)
<1>1. ASSUME \A o \in Order, r \in Runner : DueIn(o, r) PROVE DueSince'
  BY <1>1 DEF DueSince, Pending, Limit
<1>2. \A o \in Order, r \in Runner : (Pending(o) /\ o \in todo[r] /\ idle[o] > since[r])
            => idle[o] - since[r] >= (IF cash[o] THEN CashTtl ELSE OnlineTtl)
  BY DEF DueSince, Limit
<1>3. ASSUME \A p \in Order : Calm(p), Typed', since' = since,
             \A q \in Runner : todo'[q] \subseteq todo[q]
      PROVE  DueSince'
  <2>1. ASSUME NEW o \in Order, NEW r \in Runner PROVE DueIn(o, r)
    BY <1>2, <1>3, <2>1, Constants DEF Calm, Typed
  <2> QED
    BY <1>1, <2>1
<1>4. CASE \E o \in Order : Customer(o)
  <2>1. Typed' /\ Clock' /\ (\A p \in Order : Calm(p)) /\ UNCHANGED jobVars
    BY <1>4, CustomerIsCalm
  <2>2. since' = since /\ \A q \in Runner : todo'[q] \subseteq todo[q]
    BY <2>1 DEF jobVars
  <2> QED
    BY <1>3, <2>1, <2>2
<1>5. CASE \E r \in Runner : StartRun(r)
  <2>1. PICK r \in Runner : StartRun(r)
    BY <1>5
  <2>2. Typed' /\ Clock'
    BY <2>1, StartRunDoes
  <2>3. todo' = [todo EXCEPT ![r] = {o \in Candidates : Due(o)}] /\ since' = [since EXCEPT ![r] = 0]
          /\ UNCHANGED <<status, idle, cash>>
    BY <2>1 DEF StartRun, orderVars
  <2>4. ASSUME NEW o \in Order, NEW q \in Runner PROVE DueIn(o, q)
    <3>1. CASE q = r
      <4>1. o \in todo'[r] => idle[o] >= (IF cash[o] THEN CashTtl ELSE OnlineTtl)
        BY <2>3 DEF Typed, Due, Limit
      <4>2. since'[r] = 0
        BY <2>3 DEF Typed
      <4> QED
        BY <2>3, <3>1, <4>1, <4>2, Constants DEF Typed
    <3>2. CASE q # r
      <4>1. since'[q] = since[q] /\ todo'[q] = todo[q]
        BY <2>3, <3>2 DEF Typed
      <4> QED
        BY <1>2, <2>3, <4>1 DEF Pending
    <3> QED
      BY <3>1, <3>2
  <2>5. DueSince'
    BY <1>1, <2>4
  <2> QED
    BY <2>2, <2>5
<1>6. CASE \E r \in Runner : Working(r)
  BY <1>3, <1>6, RunIsCalm
<1>7. CASE Tick
  <2>1. /\ Typed' /\ Clock' /\ UNCHANGED <<status, cash, todo, faults>>
        /\ \A r \in Runner : since'[r] = since[r] + 1
        /\ \A o \in Order : Pending(o) => idle'[o] = IF idle[o] < Cap THEN idle[o] + 1 ELSE Cap
    BY <1>7, TickDoes
  <2>2. ASSUME NEW o \in Order, NEW r \in Runner PROVE DueIn(o, r)
    <3>1. SUFFICES ASSUME Pending(o), o \in todo[r], idle'[o] > since'[r]
                   PROVE  idle'[o] - since'[r] >= (IF cash[o] THEN CashTtl ELSE OnlineTtl)
      BY <2>1 DEF Pending
    <3>2. since'[r] <= JobTime /\ since'[r] = since[r] + 1
      BY <2>1, <3>1 DEF Clock, Busy
    <3>3. (IF cash[o] THEN CashTtl ELSE OnlineTtl) + JobTime <= Cap
      BY Constants DEF Limit
    <3>4. CASE idle[o] < Cap
      BY <1>2, <2>1, <3>1, <3>2, <3>4, Constants DEF Typed
    <3>5. CASE ~ (idle[o] < Cap)
      BY <2>1, <3>1, <3>2, <3>3, <3>5, Constants DEF Typed
    <3> QED
      BY <3>4, <3>5
  <2>3. DueSince'
    BY <1>1, <2>2
  <2> QED
    BY <2>1, <2>3
<1>8. CASE UNCHANGED vars
  BY <1>8 DEF vars, orderVars, jobVars, Typed, Clock, DueSince, Busy, Pending, Limit
<1> QED
  BY <1>4, <1>5, <1>6, <1>7, <1>8, Steps

\* An instance holds an order only as long as a run may last, and what it
\* holds was due when the run began or has been active since.
THEOREM AlwaysInv == Spec => []Inv
<1> QED
  BY InitInv, NextInv, PTL DEF Spec

\* An order is expired only by a run that found it due, or after its customer
\* was active again: the other instances and the earlier runs change nothing
\* (the double check in expireStaleOrders).
THEOREM NoneTooSoon == Spec => ExpiredWhenDue
<1>1. ASSUME Inv, [Next]_vars, NEW o \in Order, Expires(o)
      PROVE  \E r \in Runner :
                 /\ Busy(r) /\ Head(r) = o
                 /\ idle[o] > since[r] => idle[o] - since[r] >= Limit(o)
  <2>1. status[o] = "PAYMENT_PENDING" /\ status'[o] = "EXPIRED"
    BY <1>1 DEF Expires, Pending
  <2>2. ~ Tick /\ ~ UNCHANGED vars
    BY <2>1 DEF Tick, vars, orderVars
  <2>3. ASSUME NEW p \in Order, Customer(p) PROVE FALSE
    <3>1. CASE Webhook(p) \/ View(p)
      <4>1. \E s \in {"PAID", "DISPUTED"} : status' = [status EXCEPT ![p] = s]
        BY <1>1, <3>1, RecordedDoes DEF Inv, Webhook, View
      <4> QED
        BY <1>1, <2>1, <4>1 DEF Inv, Typed
    <3>2. CASE ~ (Webhook(p) \/ View(p))
      BY <1>1, <2>1, <2>3, <3>2
         DEF Inv, Typed, Customer, Checkout, StartOnlinePayment, SelectCashPayment, CustomerPays, Settle, Become
    <3> QED
      BY <3>1, <3>2
  <2>4. PICK r \in Runner : StartRun(r) \/ Working(r)
    BY <1>1, <2>2, <2>3, Steps
  <2>5. Expire(r)
    <3>1. ~ (StartRun(r) \/ ReconcileFails(r) \/ ExpireFails(r) \/ Crash(r))
      BY <2>1 DEF StartRun, ReconcileFails, ExpireFails, Crash, orderVars
    <3>2. ASSUME Reconcile(r) PROVE FALSE
      <4>1. Busy(r)
        BY <3>2 DEF Reconcile
      <4>2. Head(r) \in Order
        BY <1>1, <4>1, HeadIsThere DEF Inv
      <4> DEFINE h == Head(r)
      <4>3. IF Pending(h) /\ unrecorded[h] THEN Recorded(h) ELSE status' = status
        BY <3>2 DEF Reconcile
      <4>4. status' = status \/ \E s \in {"PAID", "DISPUTED"} : status' = [status EXCEPT ![h] = s]
        BY <1>1, <4>2, <4>3, RecordedDoes DEF Inv
      <4> QED
        BY <1>1, <2>1, <4>4 DEF Inv, Typed
    <3> QED
      BY <2>4, <3>1, <3>2 DEF Working
  <2>6. Busy(r) /\ Head(r) \in todo[r] /\ Head(r) \in Order
    BY <1>1, <2>5, HeadIsThere DEF Expire, Inv
  <2>7. Head(r) = o
    <3> DEFINE h == Head(r)
    <3>1. IF Pending(h) THEN status' = [status EXCEPT ![h] = "EXPIRED"] ELSE status' = status
      BY <2>5 DEF Expire, Become
    <3> QED
      BY <1>1, <2>1, <2>6, <3>1 DEF Inv, Typed
  <2> QED
    BY <1>1, <2>1, <2>6, <2>7 DEF Inv, DueSince, Pending
<1>2. Inv /\ [Next]_vars => [\A o \in Order : Expires(o) =>
          \E r \in Runner :
              /\ Busy(r) /\ Head(r) = o
              /\ idle[o] > since[r] => idle[o] - since[r] >= Limit(o)]_vars
  BY <1>1
<1> QED
  BY <1>2, AlwaysInv, PTL DEF Spec, ExpiredWhenDue

(***************************************************************************)
(* Not long after its time                                                 *)
(***************************************************************************)
\* The candidates fit into one batch.
BatchHolds == Cardinality({o \in Order : Stale(o)}) <= BatchSize

\* When they do, a run takes on everything that is due.
LEMMA RunTakesOn ==
    ASSUME Typed, Clock, BatchHolds,
           NEW o \in Order, Pending(o), o \notin Candidates \/ ~Due(o)
    PROVE  idle[o] <= Limit(o)
<1>1. Limit(o) \in Nat /\ MinTtl \in Nat /\ MinTtl <= Limit(o) /\ BatchSize \in Nat
  BY Constants
<1>2. idle[o] \in Nat /\ age[o] \in Nat /\ idle[o] <= age[o]
  BY Constants DEF Typed, Clock
<1>3. CASE ~Due(o)
  BY <1>1, <1>2, <1>3 DEF Due
<1>4. CASE ~Stale(o)
  BY <1>1, <1>2, <1>4 DEF Stale
<1>5. CASE Stale(o) /\ o \notin Candidates
  <2> DEFINE older == {p \in Order : Stale(p) /\ created[p] < created[o]}
  <2>1. ~ (Cardinality(older) < BatchSize)
    BY <1>5 DEF Candidates
  <2> DEFINE stale == {p \in Order : Stale(p)}
  <2>2. stale \in SUBSET Order /\ older \in SUBSET stale /\ o \in stale /\ o \notin older
    BY <1>5 DEF Typed
  <2>3. Cardinality(stale) <= BatchSize
    BY DEF BatchHolds
  <2> HIDE DEF older, stale
  <2>4. IsFiniteSet(stale) /\ IsFiniteSet(older)
    BY <2>2, TimeAssumption, FS_Subset
  <2>5. Cardinality(older) \in Nat /\ Cardinality(stale) \in Nat
    BY <2>4, FS_CardinalityType
  <2>6. Cardinality(older) <= Cardinality(stale) /\ Cardinality(older) # Cardinality(stale)
    BY <2>2, <2>4, FS_Subset
  <2> QED
    BY <1>1, <2>1, <2>3, <2>5, <2>6
<1> QED
  BY <1>3, <1>4, <1>5

\* Each failure is worth a period.
LEMMA Grows ==
    ASSUME Typed, faults' \in Nat, faults' = faults \/ faults' = faults + 1
    PROVE  /\ Period * faults \in Nat /\ Period * faults' \in Nat
           /\ Period * faults <= Period * faults'
           /\ (faults' = faults + 1 => Period * faults' = Period * faults + Period)
<1>1. Period \in Nat /\ faults \in Nat
  BY Constants DEF Typed
<1>2. \A m, n \in Nat : m * n \in Nat /\ m * (n + 1) = m * n + m
  OBVIOUS
<1>3. Period * faults \in Nat /\ Period * (faults + 1) = Period * faults + Period
  BY <1>1, <1>2
<1>4. CASE faults' = faults
  BY <1>1, <1>3, <1>4
<1>5. CASE faults' = faults + 1
  BY <1>1, <1>3, <1>5
<1> QED
  BY <1>4, <1>5

OnTimeInv == Inv /\ OnTime

THEOREM InitOnTime == Init => OnTimeInv
<1> SUFFICES ASSUME Init PROVE OnTime
  BY InitInv DEF OnTimeInv
<1> QED
  BY DEF Init, OnTime, Pending

THEOREM NextOnTime == OnTimeInv /\ BatchHolds /\ [Next]_vars => OnTimeInv'
<1> SUFFICES ASSUME OnTimeInv, BatchHolds, [Next]_vars PROVE OnTimeInv'
  OBVIOUS
<1> DEFINE D == Period * faults
           E == Period * faults'
           Lim(o) == IF cash[o] THEN CashTtl ELSE OnlineTtl
           After(o) == IF cash'[o] THEN CashTtl ELSE OnlineTtl
           Now(o, r) == status[o] = "PAYMENT_PENDING" =>
               idle[o] <= Lim(o) + since[r] + D + (IF o \in todo[r] THEN Period ELSE 0)
           Then(o, r) == status'[o] = "PAYMENT_PENDING" =>
               idle'[o] <= After(o) + since'[r] + E + (IF o \in todo'[r] THEN Period ELSE 0)
<1>1. Inv /\ Inv' /\ Typed /\ Clock /\ Typed' /\ Clock'
  BY NextInv DEF OnTimeInv, Inv
<1>2. \A o \in Order, r \in Runner : Now(o, r)
  BY DEF OnTimeInv, OnTime, Allowed, Limit, Pending
<1>3. ASSUME \A o \in Order, r \in Runner : Then(o, r) PROVE OnTimeInv'
  BY <1>1, <1>3 DEF OnTimeInv, OnTime, Allowed, Limit, Pending
<1>4. /\ \A o \in Order : idle[o] \in Nat /\ idle'[o] \in Nat /\ Lim(o) \in Nat /\ After(o) \in Nat
      /\ \A r \in Runner : since[r] \in Nat /\ since'[r] \in Nat
      /\ Period \in Nat /\ faults \in Nat /\ faults' \in Nat
  BY <1>1, Constants DEF Typed
<1>5. (faults' = faults \/ faults' = faults + 1) => /\ D \in Nat /\ E \in Nat /\ D <= E
                                                  /\ (faults' = faults + 1 => E = D + Period)
  BY <1>1, <1>4, Grows
<1>6. faults' = faults => D = E
  OBVIOUS
<1>7. ASSUME \A o \in Order : Calm(o), since' = since, faults' = faults \/ faults' = faults + 1,
             \A r \in Runner : todo'[r] \subseteq todo[r],
             faults' = faults => \A r \in Runner : \A o \in todo[r] :
                                    status'[o] = "PAYMENT_PENDING" => o \in todo'[r]
      PROVE  OnTimeInv'
  <2>1. ASSUME NEW o \in Order, NEW r \in Runner PROVE Then(o, r)
    <3>1. SUFFICES ASSUME status'[o] = "PAYMENT_PENDING"
                   PROVE  idle'[o] <= After(o) + since'[r] + E + (IF o \in todo'[r] THEN Period ELSE 0)
      OBVIOUS
    <3> HIDE DEF D, E
    <3>2. CASE idle'[o] = 0
      BY <1>4, <1>5, <1>7, <3>2
    <3>3. CASE Pending(o) /\ cash'[o] = cash[o] /\ idle'[o] = idle[o]
      <4>1. Now(o, r) /\ Lim(o) = After(o) /\ since'[r] = since[r]
        BY <1>2, <1>7, <3>3
      <4>2. idle[o] <= Lim(o) + since[r] + D + (IF o \in todo[r] THEN Period ELSE 0)
        BY <3>3, <4>1 DEF Pending
      <4>3. CASE faults' = faults
        BY <1>4, <1>5, <1>7, <3>1, <3>3, <4>1, <4>2, <4>3
      <4>4. CASE faults' = faults + 1
        BY <1>4, <1>5, <3>3, <4>1, <4>2, <4>4
      <4> QED
        BY <1>7, <4>3, <4>4
    <3> QED
      BY <1>7, <3>1, <3>2, <3>3 DEF Calm
  <2> QED
    BY <1>3, <2>1
<1>8. CASE \E o \in Order : Customer(o)
  <2>1. (\A p \in Order : Calm(p)) /\ UNCHANGED jobVars
    BY <1>1, <1>8, CustomerIsCalm
  <2>2. since' = since /\ todo' = todo /\ faults' = faults
    BY <2>1 DEF jobVars
  <2> QED
    BY <1>7, <2>1, <2>2
<1>9. CASE \E r \in Runner : Working(r)
  <2>1. PICK r \in Runner : Working(r)
    BY <1>9
  <2> QED
    BY <1>1, <1>4, <1>7, <2>1, RunIsCalm
<1>10. CASE \E r \in Runner : StartRun(r)
  <2>1. PICK r \in Runner : StartRun(r)
    BY <1>10
  <2>2. /\ todo' = [todo EXCEPT ![r] = {o \in Candidates : Due(o)}] /\ since' = [since EXCEPT ![r] = 0]
        /\ UNCHANGED <<status, idle, cash, faults>> /\ since[r] = Period /\ todo[r] = {}
    BY <2>1 DEF StartRun, orderVars, Busy
  <2>3. ASSUME NEW o \in Order, NEW q \in Runner PROVE Then(o, q)
    <3>1. SUFFICES ASSUME status[o] = "PAYMENT_PENDING"
                   PROVE  idle[o] <= Lim(o) + since'[q] + D + (IF o \in todo'[q] THEN Period ELSE 0)
      BY <2>2
    <3>2. idle[o] <= Lim(o) + since[q] + D + (IF o \in todo[q] THEN Period ELSE 0)
      BY <1>2, <3>1
    <3>3. CASE q # r
      BY <1>1, <2>2, <3>2, <3>3 DEF Typed
    <3>4. CASE q = r
      <4>1. since'[r] = 0 /\ todo'[r] = {p \in Candidates : Due(p)}
        BY <1>1, <2>2 DEF Typed
      <4>2. D \in Nat
        BY <1>5, <2>2
      <4> HIDE DEF D
      <4>3. CASE o \in todo'[r]
        BY <1>4, <2>2, <3>2, <3>4, <4>1, <4>2, <4>3
      <4>4. CASE o \notin todo'[r]
        <5>1. idle[o] <= Lim(o)
          BY <1>1, <3>1, <4>1, <4>4, RunTakesOn DEF Pending, Limit
        <5> QED
          BY <1>4, <3>4, <4>1, <4>2, <4>4, <5>1
      <4> QED
        BY <4>3, <4>4
    <3> QED
      BY <3>3, <3>4
  <2> QED
    BY <1>3, <2>3
<1>11. CASE Tick
  <2>1. /\ UNCHANGED <<status, cash, todo, faults>>
        /\ \A r \in Runner : since'[r] = since[r] + 1
        /\ \A o \in Order : Pending(o) => idle'[o] = IF idle[o] < Cap THEN idle[o] + 1 ELSE Cap
    BY <1>1, <1>11, TickDoes
  <2>2. ASSUME NEW o \in Order, NEW r \in Runner PROVE Then(o, r)
    <3>1. SUFFICES ASSUME status[o] = "PAYMENT_PENDING"
                   PROVE  idle'[o] <= Lim(o) + since'[r] + D + (IF o \in todo[r] THEN Period ELSE 0)
      BY <2>1
    <3>2. idle[o] <= Lim(o) + since[r] + D + (IF o \in todo[r] THEN Period ELSE 0)
      BY <1>2, <3>1
    <3>3. idle'[o] <= idle[o] + 1
      BY <1>1, <1>4, <2>1, <3>1, Constants DEF Pending, Typed
    <3>4. D \in Nat
      BY <1>5, <2>1
    <3> HIDE DEF D
    <3> QED
      BY <1>4, <2>1, <3>2, <3>3, <3>4
  <2> QED
    BY <1>3, <2>2
<1>12. CASE UNCHANGED vars
  BY <1>3, <1>2, <1>12 DEF vars, orderVars, jobVars
<1> QED
  BY <1>8, <1>9, <1>10, <1>11, <1>12, Steps

\* While the batch holds every candidate, an unpaid order gives its units back no
\* later than its limit, a period and a run, and as much again for each run
\* that failed, whatever the customer's payments and the other instances do in
\* between (expireStaleOrders).
THEOREM UnitsComeBack ==
    ASSUME Runner # {}
    PROVE  Spec /\ []BatchHolds => []ExpiredOnTime
<1>1. OnTimeInv => ExpiredOnTime
  <2>1. SUFFICES ASSUME OnTimeInv, NEW o \in Order, Pending(o) PROVE idle[o] <= Limit(o) + Slack
    BY DEF ExpiredOnTime
  <2>2. PICK r \in Runner : TRUE
    OBVIOUS
  <2>3. /\ idle[o] \in Nat /\ Limit(o) \in Nat /\ faults \in Nat /\ Period \in Nat /\ JobTime \in Nat
        /\ since[r] \in 0 .. Period
    BY <2>1, Constants DEF OnTimeInv, Inv, Typed
  <2>4. todo[r] # {} => since[r] <= JobTime
    BY <2>1 DEF OnTimeInv, Inv, Clock, Busy
  <2> DEFINE D == Period * faults
             J == JobTime * faults
  <2>5. D \in Nat /\ J \in Nat
    BY <2>3
  <2>6. Slack = Period + JobTime + D + J
    BY <2>3 DEF Slack
  <2>7. idle[o] <= Limit(o) + since[r] + D + (IF o \in todo[r] THEN Period ELSE 0)
    BY <2>1 DEF OnTimeInv, OnTime, Allowed
  <2> HIDE DEF D, J
  <2> QED
    BY <2>3, <2>4, <2>5, <2>6, <2>7
<1>2. OnTimeInv /\ BatchHolds /\ [Next]_vars => OnTimeInv'
  BY NextOnTime
<1> QED
  BY InitOnTime, <1>1, <1>2, PTL DEF Spec
================================================================================
