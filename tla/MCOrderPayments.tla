---------------------------- MODULE MCOrderPayments ----------------------------
(* Instances of OrderPaymentsProperties for TLC.                            *)
EXTENDS OrderPaymentsProperties, TLC

CONSTANTS o1, o2, p1, r1, r2, c1

\* One unit of one product on the shelf, for every order that wants one.
MCNeed == [o \in Order |-> [p \in Product |-> 1]]
MCStock == [p \in Product |-> 1]

\* All rows belong to o1, but for r2 when there is an o2.
MCOneOrder == [r \in Row |-> o1]
MCTwoOrders == [r \in Row |-> IF r = r2 THEN o2 ELSE o1]

MCSwap == Permutations(Worker) \cup
    {(o1 :> o2) @@ (o2 :> o1) @@ (r1 :> r2) @@ (r2 :> r1)}
MCWorkersAndRows == Permutations(Worker) \cup Permutations(OnlineRow) \cup Permutations(CashRow)
================================================================================
