------------------------------- MODULE AtomicSale -------------------------------
(***************************************************************************)
(* What a checkout promises: all lines of an order leave the cart, all     *)
(* their units leave the shelf, a coupon use is counted and the order      *)
(* exists, in one indivisible step, or none of it happens. A line that was *)
(* ordered never comes back to a cart.                                     *)
(***************************************************************************)
EXTENDS Integers

CONSTANTS Customer, Product, Order,
          Item,             \* ids of cart lines
          OwnerOf,          \* OwnerOf[i]: whose cart the line i is in
          ProductOf,        \* ProductOf[i]: what it asks for
          InitialStock, MaxUses

VARIABLES rows,             \* the lines that are in a cart
          quantity,         \* units on the shelf, per product
          usedCount,        \* coupon uses
          order             \* what each order bought

saleVars == <<rows, quantity, usedCount, order>>

NoUnits == [i \in Item |-> 0]
NoOrder == [state |-> "none", lines |-> {}, units |-> NoUnits, coupon |-> FALSE]

\* The units of p among these lines, at most one of which is for p.
UnitsOf(p, lines, units) ==
    IF \E i \in lines : ProductOf[i] = p
    THEN units[CHOOSE i \in lines : ProductOf[i] = p] ELSE 0

SaleInit ==
    /\ rows = {}
    /\ quantity = InitialStock
    /\ usedCount = 0
    /\ order = [o \in Order |-> NoOrder]

\* The new order's lines, units and coupon are whatever the customer asked.
Buy(o) ==
    LET new == order'[o] IN
    /\ order[o] = NoOrder
    /\ order' = [order EXCEPT ![o] = new]
    /\ new.state = "held"
    /\ new.lines # {} /\ new.lines \subseteq rows
    /\ \E c \in Customer : \A i \in new.lines : OwnerOf[i] = c
    /\ \A i, j \in new.lines : ProductOf[i] = ProductOf[j] => i = j
    /\ \A p \in Product : quantity[p] >= UnitsOf(p, new.lines, new.units)
    /\ new.coupon => usedCount < MaxUses
    /\ rows' = rows \ new.lines
    /\ quantity' = [p \in Product |-> quantity[p] - UnitsOf(p, new.lines, new.units)]
    /\ usedCount' = IF new.coupon THEN usedCount + 1 ELSE usedCount

Release(o) ==
    /\ order[o].state = "held"
    /\ order' = [order EXCEPT ![o].state = "released"]
    /\ quantity' = [p \in Product |-> quantity[p] + UnitsOf(p, order[o].lines, order[o].units)]
    /\ usedCount' = IF order[o].coupon THEN usedCount - 1 ELSE usedCount
    /\ UNCHANGED rows

AddLine(i) ==
    /\ i \notin rows
    /\ \A o \in Order : i \notin order[o].lines
    /\ rows' = rows \cup {i}
    /\ UNCHANGED <<quantity, usedCount, order>>

RemoveLine(i) ==
    /\ i \in rows
    /\ rows' = rows \ {i}
    /\ UNCHANGED <<quantity, usedCount, order>>

SaleNext ==
    \/ \E o \in Order : Buy(o) \/ Release(o)
    \/ \E i \in Item : AddLine(i) \/ RemoveLine(i)

SaleSpec == SaleInit /\ [][SaleNext]_saleVars
================================================================================
