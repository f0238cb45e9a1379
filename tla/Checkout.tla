-------------------------------- MODULE Checkout --------------------------------
(***************************************************************************)
(* The customer's cart and checkout()'s transaction, statement by          *)
(* statement, with the row locks PostgreSQL holds until it ends. Sources:  *)
(* apps/backend/src/orders/orders.service.ts, cart/cart.service.ts,        *)
(* coupons/coupons.service.ts.                                             *)
(*                                                                         *)
(* The variables are the committed rows. What a transaction wrote so far   *)
(* is in call[w]: the cart lines it deleted (claimed), the lines whose     *)
(* product it decremented (reserved), and whether it used the coupon. A    *)
(* row it wrote is locked for the others until it commits or rolls back.   *)
(***************************************************************************)
EXTENDS Integers, FiniteSets

CONSTANTS Customer, Product, Order, Item,
          OwnerOf,          \* CartItem.cartId of each line id, as its customer
          ProductOf,        \* CartItem.productId of each line id
          InitialStock,     \* Product.quantity at the start
          MaxUses,          \* Coupon.maxUses
          Worker,           \* requests that can run at once
          None

ASSUME CatalogAssumption ==
    /\ OwnerOf \in [Item -> Customer]
    /\ ProductOf \in [Item -> Product]
    /\ InitialStock \in [Product -> Nat]
    /\ MaxUses \in Nat
    /\ None \notin Item \cup Product \cup Customer

VARIABLES rows,             \* CartItem rows
          units,            \* CartItem.quantity of each
          quantity,         \* Product.quantity
          usedCount,        \* Coupon.usedCount
          order,            \* the orders, with their lines
          used,             \* history: line ids that were ever in a cart
          removed,          \* history: lines the customer removed
          call              \* what each worker is executing

cartVars == <<rows, units, used, removed>>
storeVars == <<quantity, usedCount, order>>
vars == <<cartVars, storeVars, call>>

Sale == INSTANCE AtomicSale

Idle == [pc |-> "idle", customer |-> None, lines |-> {}, units |-> Sale!NoUnits,
         todo |-> {}, claimed |-> {}, reserved |-> {}, wants |-> FALSE, coupon |-> FALSE,
         item |-> None, product |-> None, n |-> 0]

Init ==
    /\ Sale!SaleInit
    /\ units = Sale!NoUnits
    /\ used = {}
    /\ removed = {}
    /\ call = [w \in Worker |-> Idle]

At(w, pc) == call[w].pc = pc
GoTo(w, c) == call' = [call EXCEPT ![w] = c]

InCart(c) == {i \in rows : OwnerOf[i] = c}

-----------------------------------------------------------------------------
(* Row locks                                                               *)

\* No other transaction deleted the line i.
LineFree(w, i) == \A v \in Worker \ {w} : i \notin call[v].claimed

NeverBusy(w, p) == TRUE \* mutant: the decrement does not wait for the row

\* No other transaction decremented the product p.
ProductFree(w, p) ==
    \A v \in Worker \ {w} : \A i \in call[v].reserved : ProductOf[i] # p

CouponNeverBusy(w) == TRUE \* mutant: the use is counted without locking the row

CouponFree(w) == \A v \in Worker \ {w} : ~call[v].coupon

-----------------------------------------------------------------------------
(* The cart. A write waits for a checkout that deleted the row, and then   *)
(* finds it gone or, after a rollback, still there.                        *)

\* addItem: reads the product, the cart and the line to add to.
AddItem(w, c, p, n) ==
    LET existing == {i \in InCart(c) : ProductOf[i] = p} IN
    /\ At(w, "idle")
    /\ IF existing = {}
       THEN /\ quantity[p] >= n
            /\ GoTo(w, [Idle EXCEPT !.pc = "create", !.customer = c, !.product = p, !.n = n])
       ELSE \E i \in existing :
            /\ quantity[p] >= units[i] + n
            /\ GoTo(w, [Idle EXCEPT !.pc = "update", !.item = i, !.n = units[i] + n])
    /\ UNCHANGED <<cartVars, storeVars>>

\* updateItem: reads the line and its product's stock.
UpdateItem(w, i, n) ==
    /\ At(w, "idle")
    /\ i \in rows
    /\ quantity[ProductOf[i]] >= n
    /\ GoTo(w, [Idle EXCEPT !.pc = "update", !.item = i, !.n = n])
    /\ UNCHANGED <<cartVars, storeVars>>

\* The INSERT, or the violation of the unique (cart, product).
CreateLine(w) ==
    LET same == {i \in InCart(call[w].customer) : ProductOf[i] = call[w].product}
        fresh == {i \in Item \ used :
                    OwnerOf[i] = call[w].customer /\ ProductOf[i] = call[w].product}
    IN
    /\ At(w, "create")
    /\ \A i \in same : LineFree(w, i)
    /\ \/ \E i \in fresh :
             /\ same = {}
             /\ rows' = rows \cup {i}
             /\ used' = used \cup {i}
             /\ units' = [units EXCEPT ![i] = call[w].n]
       \/ (same # {} \/ fresh = {}) /\ UNCHANGED <<rows, used, units>>   \* bound: no id left
    /\ GoTo(w, Idle)
    /\ UNCHANGED <<removed, storeVars>>

\* The UPDATE, or the error of a row that is gone.
UpdateLine(w) ==
    LET i == call[w].item IN
    /\ At(w, "update")
    /\ LineFree(w, i)
    /\ units' = IF i \in rows THEN [units EXCEPT ![i] = call[w].n] ELSE units
    /\ GoTo(w, Idle)
    /\ UNCHANGED <<rows, used, removed, storeVars>>

RemoveItem(w, i) ==
    /\ At(w, "idle")
    /\ i \in rows
    /\ LineFree(w, i)
    /\ rows' = rows \ {i}
    /\ removed' = removed \cup {i}
    /\ UNCHANGED <<units, used, storeVars, call>>

-----------------------------------------------------------------------------
(* checkout()                                                              *)

\* The transaction reads the cart's lines.
ReadCart(w, c, coupon) ==
    LET lines == InCart(c) IN
    /\ At(w, "idle")
    /\ lines # {}
    /\ GoTo(w, [Idle EXCEPT !.pc = "claim", !.customer = c, !.lines = lines, !.todo = lines,
                    !.units = [i \in Item |-> IF i \in lines THEN units[i] ELSE 0],
                    !.wants = coupon])
    /\ UNCHANGED <<cartVars, storeVars>>

\* deleteMany comes to the next line: it deletes it, or finds it gone.
ClaimLine(w, i) ==
    /\ At(w, "claim")
    /\ i \in call[w].todo
    /\ LineFree(w, i)
    /\ GoTo(w, [call[w] EXCEPT !.todo = @ \ {i},
                    !.claimed = IF i \in rows THEN @ \cup {i} ELSE @])
    /\ UNCHANGED <<cartVars, storeVars>>

CountIgnored(w) == TRUE \* mutant: claimed.count is not compared

\* claimed.count = cartItems.length
AllClaimed(w) == call[w].claimed = call[w].lines

KeepsDeleted(w) == rows \ call[w].claimed \* mutant: the claim commits on its own

\* What a rollback leaves in the carts.
RowsAfterRollback(w) == rows

Rollback(w) ==
    /\ rows' = RowsAfterRollback(w)
    /\ GoTo(w, Idle)
    /\ UNCHANGED <<units, used, removed, storeVars>>

ClaimDone(w) ==
    /\ At(w, "claim")
    /\ call[w].todo = {}
    /\ AllClaimed(w)
    /\ GoTo(w, [call[w] EXCEPT !.pc = "reserve"])
    /\ UNCHANGED <<cartVars, storeVars>>

\* CHECKOUT_IN_PROGRESS
ClaimLost(w) ==
    /\ At(w, "claim")
    /\ call[w].todo = {}
    /\ ~AllClaimed(w)
    /\ Rollback(w)

\* quantity >= n, evaluated when the row's lock is had.
Enough(w, i) == quantity[ProductOf[i]] >= call[w].units[i]

\* The next conditional decrement; the lines were read in no given order.
Reserve(w, i) ==
    /\ At(w, "reserve")
    /\ i \in call[w].lines \ call[w].reserved
    /\ ProductFree(w, ProductOf[i])
    /\ Enough(w, i)
    /\ GoTo(w, [call[w] EXCEPT !.reserved = @ \cup {i}])
    /\ UNCHANGED <<cartVars, storeVars>>

\* STOCK_CHANGED
OutOfStock(w, i) ==
    /\ At(w, "reserve")
    /\ i \in call[w].lines \ call[w].reserved
    /\ ProductFree(w, ProductOf[i])
    /\ ~Enough(w, i)
    /\ Rollback(w)

\* applyWithinTransaction
UseCoupon(w) ==
    /\ At(w, "reserve")
    /\ call[w].reserved = call[w].lines
    /\ call[w].wants /\ ~call[w].coupon
    /\ CouponFree(w)
    /\ IF usedCount < MaxUses
       THEN GoTo(w, [call[w] EXCEPT !.coupon = TRUE]) /\ UNCHANGED <<cartVars, storeVars>>
       ELSE Rollback(w)

\* order.create, and COMMIT of all of it.
CreateOrder(w, o) ==
    LET c == call[w] IN
    /\ At(w, "reserve")
    /\ c.reserved = c.lines
    /\ c.wants = c.coupon
    /\ order[o] = Sale!NoOrder
    /\ rows' = rows \ c.claimed
    /\ quantity' = [p \in Product |-> quantity[p] - Sale!UnitsOf(p, c.reserved, c.units)]
    /\ usedCount' = IF c.coupon THEN usedCount + 1 ELSE usedCount
    /\ order' = [order EXCEPT ![o] = [state |-> "held", lines |-> c.lines,
                                      units |-> c.units, coupon |-> c.coupon]]
    /\ GoTo(w, Idle)
    /\ UNCHANGED <<units, used, removed>>

\* A deadlock victim, the transaction's time limit, a lost connection or a
\* dead process: the database rolls back.
Abort(w) == call[w].pc \in {"claim", "reserve"} /\ Rollback(w)

-----------------------------------------------------------------------------
\* transition() closes a pending order: OrderPaymentsService has its steps.
\* It waits for the rows it writes.
ReleaseOrder(o) ==
    /\ order[o].state = "held"
    /\ \A w \in Worker :
          /\ \A i \in order[o].lines : \A j \in call[w].reserved : ProductOf[j] # ProductOf[i]
          /\ order[o].coupon => ~call[w].coupon
    /\ order' = [order EXCEPT ![o].state = "released"]
    /\ quantity' = [p \in Product |-> quantity[p] + Sale!UnitsOf(p, order[o].lines, order[o].units)]
    /\ usedCount' = IF order[o].coupon /\ usedCount > 0 THEN usedCount - 1 ELSE usedCount
    /\ UNCHANGED <<cartVars, call>>

-----------------------------------------------------------------------------
CartRequest(w) ==
    \/ \E c \in Customer, p \in Product : \E n \in 1 .. InitialStock[p] : AddItem(w, c, p, n)
    \/ \E i \in Item :
          \/ RemoveItem(w, i)
          \/ \E n \in 1 .. InitialStock[ProductOf[i]] : UpdateItem(w, i, n)
    \/ CreateLine(w) \/ UpdateLine(w)

CheckoutStep(w) ==
    \/ \E c \in Customer, coupon \in BOOLEAN : ReadCart(w, c, coupon)
    \/ \E i \in Item : ClaimLine(w, i) \/ Reserve(w, i) \/ OutOfStock(w, i)
    \/ ClaimDone(w) \/ ClaimLost(w) \/ UseCoupon(w) \/ Abort(w)
    \/ \E o \in Order : CreateOrder(w, o)

Next ==
    \/ \E w \in Worker : CartRequest(w) \/ CheckoutStep(w)
    \/ \E o \in Order : ReleaseOrder(o)

Spec == Init /\ [][Next]_vars

-----------------------------------------------------------------------------
(* Properties                                                              *)

Calls == [pc : {"idle", "create", "update", "claim", "reserve"},
          customer : Customer \cup {None}, lines : SUBSET Item, units : [Item -> Nat],
          todo : SUBSET Item, claimed : SUBSET Item, reserved : SUBSET Item,
          wants : BOOLEAN, coupon : BOOLEAN,
          item : Item \cup {None}, product : Product \cup {None}, n : Nat]

Orders == [state : {"none", "held", "released"}, lines : SUBSET Item,
           units : [Item -> Nat], coupon : BOOLEAN]

\* The variables have their types, and no product's quantity is negative.
TypeOK ==
    /\ rows \subseteq Item /\ used \subseteq Item /\ removed \subseteq Item
    /\ units \in [Item -> Nat]
    /\ quantity \in [Product -> Nat]
    /\ usedCount \in Nat
    /\ order \in [Order -> Orders]
    /\ call \in [Worker -> Calls]

\* Whatever requests interleave, each of them seems to buy in one step: every
\* line of an order left its cart, every unit left the shelf and the coupon use
\* was counted together, only when all were there, and nothing else happened
\* to a checkout that was refused, lost the race for the cart, ran out of
\* stock or was rolled back (orders.service.ts:185 "all items or nothing").
ImplementsSale == Sale!SaleSpec

\* Every line that was ever in a cart is still there, was removed by the
\* customer, or is in exactly one order: a double-submitted checkout neither
\* orders it twice nor loses it (orders.service.ts:187).
LinesAccounted ==
    \A i \in used :
        LET orders == {o \in Order : i \in order[o].lines}
        IN  \/ i \in rows \cup removed /\ orders = {}
            \/ i \notin rows \cup removed /\ \E o \in Order : orders = {o}

\* The coupon is counted once for each order that carries it and has not been
\* released, and no more often than allowed.
CouponCounted ==
    /\ usedCount = Cardinality({o \in Order : order[o].state = "held" /\ order[o].coupon})
    /\ usedCount <= MaxUses
================================================================================
