----------------------------- MODULE CheckoutProofs -----------------------------
(***************************************************************************)
(* A checkout seems to happen in one step, for any catalog, any number of  *)
(* customers, lines and concurrent requests. The inductive invariant is    *)
(* that the row locks protect what a transaction has read and checked.     *)
(***************************************************************************)
EXTENDS Checkout, FiniteSetTheorems, TLAPS

\* What a call knows while its transaction is open.
CallOK(w) ==
    LET c == call[w] IN
    /\ c.pc \in {"claim", "reserve"} =>
          /\ c.customer \in Customer
          /\ c.lines # {}
          /\ \A i \in c.lines : OwnerOf[i] = c.customer
          /\ \A i, j \in c.lines : ProductOf[i] = ProductOf[j] => i = j
    /\ c.pc \notin {"claim", "reserve"} => c.claimed = {}
    /\ c.pc # "reserve" => c.reserved = {} /\ ~c.coupon
    /\ c.pc = "reserve" => c.claimed = c.lines
    /\ c.pc = "create" => c.customer \in Customer
    /\ c.pc = "update" => c.item \in Item
    /\ c.todo \subseteq c.lines
    /\ c.claimed \subseteq c.lines \cap rows
    /\ c.reserved \subseteq c.lines
    /\ \A i \in c.reserved : quantity[ProductOf[i]] >= c.units[i]
    /\ c.coupon => usedCount < MaxUses

\* A row has one lock.
Exclusive(v, w) ==
    /\ call[v].claimed \cap call[w].claimed = {}
    /\ \A i \in call[v].reserved, j \in call[w].reserved : ProductOf[i] # ProductOf[j]
    /\ ~(call[v].coupon /\ call[w].coupon)

\* The unique key of a cart's lines, and where a line's id can be found.
RowsOK ==
    /\ \A i, j \in rows : OwnerOf[i] = OwnerOf[j] /\ ProductOf[i] = ProductOf[j] => i = j
    /\ rows \subseteq used /\ removed \subseteq used
    /\ rows \cap removed = {}
    /\ \A o \in Order : order[o].state = "none" => order[o] = Sale!NoOrder
    /\ \A o \in Order : order[o].lines \subseteq used \ (rows \cup removed)
    /\ \A o1, o2 \in Order : o1 # o2 => order[o1].lines \cap order[o2].lines = {}
    /\ \A i \in used : i \in rows \cup removed \/ \E o \in Order : i \in order[o].lines

Carrying == {o \in Order : order[o].state = "held" /\ order[o].coupon}

CouponOK == IsFiniteSet(Carrying) /\ CouponCounted

CheckoutInv ==
    /\ TypeOK
    /\ \A w \in Worker : CallOK(w)
    /\ \A v, w \in Worker : v # w => Exclusive(v, w)
    /\ RowsOK
    /\ CouponOK

-----------------------------------------------------------------------------
(* Facts about units and calls                                             *)

\* The units of a product among some lines are those of its line, or none.
LEMMA UnitsOfValue ==
    ASSUME NEW p, NEW lines \in SUBSET Item, NEW u \in [Item -> Nat]
    PROVE  \/ /\ \A i \in lines : ProductOf[i] # p
              /\ Sale!UnitsOf(p, lines, u) = 0
           \/ \E i \in lines : ProductOf[i] = p /\ Sale!UnitsOf(p, lines, u) = u[i]
<1>1. CASE \E i \in lines : ProductOf[i] = p
  <2> DEFINE i == CHOOSE i \in lines : ProductOf[i] = p
  <2>1. i \in lines /\ ProductOf[i] = p
    BY <1>1
  <2>2. Sale!UnitsOf(p, lines, u) = u[i]
    BY <1>1 DEF Sale!UnitsOf
  <2> QED BY <2>1, <2>2
<1>2. CASE ~ \E i \in lines : ProductOf[i] = p
  BY <1>2 DEF Sale!UnitsOf
<1> QED BY <1>1, <1>2

\* They are a number.
LEMMA UnitsOfNat ==
    ASSUME NEW p, NEW lines \in SUBSET Item, NEW u \in [Item -> Nat]
    PROVE  Sale!UnitsOf(p, lines, u) \in Nat
BY UnitsOfValue

LEMMA IdleCall == Idle \in Calls
BY DEF Idle, Calls, Sale!NoUnits

\* A step of w that leaves the committed rows alone keeps the invariant, if
\* it does for w's own call and its locks.
LEMMA LocalStep ==
    ASSUME CheckoutInv, NEW w \in Worker, NEW c \in Calls,
           call' = [call EXCEPT ![w] = c],
           UNCHANGED <<rows, used, removed, storeVars>>,
           units' \in [Item -> Nat],
           CallOK(w)',
           \A v \in Worker \ {w} :
              /\ call[v].claimed \cap c.claimed = {}
              /\ \A i \in call[v].reserved, j \in c.reserved : ProductOf[i] # ProductOf[j]
              /\ ~(call[v].coupon /\ c.coupon)
    PROVE  CheckoutInv'
<1>1. call'[w] = c /\ \A v \in Worker \ {w} : call'[v] = call[v]
  BY DEF CheckoutInv, TypeOK
<1>2. TypeOK'
  BY DEF CheckoutInv, TypeOK, storeVars
<1>3. ASSUME NEW v \in Worker PROVE CallOK(v)'
  <2>1. CASE v = w
    BY <2>1
  <2>2. CASE v # w
    BY <1>1, <2>2 DEF CheckoutInv, CallOK, storeVars
  <2> QED BY <2>1, <2>2
<1>4. ASSUME NEW v1 \in Worker, NEW v2 \in Worker, v1 # v2 PROVE Exclusive(v1, v2)'
  BY <1>1, <1>4 DEF CheckoutInv, Exclusive
<1>5. RowsOK' /\ CouponOK'
  BY DEF CheckoutInv, RowsOK, CouponOK, CouponCounted, Carrying, storeVars
<1> QED BY <1>2, <1>3, <1>4, <1>5 DEF CheckoutInv

\* A call that ends gives up its locks.
LEMMA EndOfCall ==
    ASSUME CheckoutInv, NEW w \in Worker, GoTo(w, Idle),
           UNCHANGED <<rows, used, removed, storeVars>>, units' \in [Item -> Nat]
    PROVE  CheckoutInv'
<1>1. call' = [call EXCEPT ![w] = Idle] /\ call'[w] = Idle
  BY DEF GoTo, CheckoutInv, TypeOK
<1>2. CallOK(w)'
  BY <1>1 DEF CallOK, Idle
<1>3. Idle.claimed = {} /\ Idle.reserved = {} /\ ~Idle.coupon
  BY DEF Idle
<1> QED BY <1>1, <1>2, <1>3, IdleCall, LocalStep

LEMMA RollbackInv ==
    ASSUME CheckoutInv, NEW w \in Worker, Rollback(w)
    PROVE  CheckoutInv'
<1>1. units' \in [Item -> Nat] /\ UNCHANGED <<rows, used, removed, storeVars>> /\ GoTo(w, Idle)
  BY DEF Rollback, RowsAfterRollback, CheckoutInv, TypeOK
<1> QED BY <1>1, EndOfCall

-----------------------------------------------------------------------------
(* The steps that write no row of the store                                *)

\* Where a call of w stands, and what it will have after the step.
LEMMA AddItemInv ==
    ASSUME CheckoutInv, NEW w \in Worker, NEW k \in Customer, NEW p \in Product,
           NEW n \in Nat, AddItem(w, k, p, n)
    PROVE  CheckoutInv'
<1>1. units' \in [Item -> Nat] /\ UNCHANGED <<rows, used, removed, storeVars>>
  BY DEF AddItem, CheckoutInv, TypeOK, cartVars
<1>2. PICK c \in Calls :
        /\ call' = [call EXCEPT ![w] = c]
        /\ c.pc \in {"create", "update"}
        /\ c.pc = "create" => c.customer \in Customer
        /\ c.pc = "update" => c.item \in Item
        /\ c.todo = {} /\ c.claimed = {} /\ c.reserved = {} /\ ~c.coupon
  <2> DEFINE new == [Idle EXCEPT !.pc = "create", !.customer = k, !.product = p, !.n = n]
             upd(i) == [Idle EXCEPT !.pc = "update", !.item = i, !.n = units[i] + n]
  <2>1. new \in Calls /\ new.pc = "create" /\ new.customer = k
            /\ new.todo = {} /\ new.claimed = {}
            /\ new.reserved = {} /\ ~new.coupon
    BY IdleCall DEF Idle, Calls
  <2>2. ASSUME NEW i \in InCart(k)
        PROVE  upd(i) \in Calls /\ upd(i).pc = "update" /\ upd(i).item \in Item
                  /\ upd(i).todo = {} /\ upd(i).claimed = {} /\ upd(i).reserved = {} /\ ~upd(i).coupon
    <3>1. i \in Item /\ units[i] + n \in Nat
      BY DEF InCart, CheckoutInv, TypeOK
    <3> QED BY <3>1, IdleCall DEF Idle, Calls
  <2>3. \/ GoTo(w, new)
        \/ \E i \in InCart(k) : GoTo(w, upd(i))
    BY DEF AddItem
  <2> QED BY <2>1, <2>2, <2>3 DEF GoTo
<1>3. call'[w] = c
  BY <1>2 DEF CheckoutInv, TypeOK
<1>4. CallOK(w)'
  BY <1>2, <1>3 DEF CallOK
<1> QED BY <1>1, <1>2, <1>4, LocalStep

LEMMA UpdateItemInv ==
    ASSUME CheckoutInv, NEW w \in Worker, NEW i \in Item, NEW n \in Nat, UpdateItem(w, i, n)
    PROVE  CheckoutInv'
<1> DEFINE c == [Idle EXCEPT !.pc = "update", !.item = i, !.n = n]
<1>1. units' \in [Item -> Nat] /\ UNCHANGED <<rows, used, removed, storeVars>>
  BY DEF UpdateItem, CheckoutInv, TypeOK, cartVars
<1>2. /\ c \in Calls /\ c.pc = "update" /\ c.item = i
      /\ c.todo = {} /\ c.claimed = {} /\ c.reserved = {} /\ ~c.coupon
  BY IdleCall DEF Idle, Calls
<1>3. call' = [call EXCEPT ![w] = c] /\ call'[w] = c
  BY DEF UpdateItem, GoTo, CheckoutInv, TypeOK
<1> HIDE DEF c
<1>4. CallOK(w)'
  BY <1>2, <1>3 DEF CallOK
<1> QED BY <1>1, <1>2, <1>3, <1>4, LocalStep

LEMMA UpdateLineInv ==
    ASSUME CheckoutInv, NEW w \in Worker, UpdateLine(w)
    PROVE  CheckoutInv'
<1>1. call[w].n \in Nat
  BY DEF CheckoutInv, TypeOK, Calls
<1>2. units' \in [Item -> Nat] /\ UNCHANGED <<rows, used, removed, storeVars>> /\ GoTo(w, Idle)
  BY <1>1 DEF UpdateLine, CheckoutInv, TypeOK
<1> QED BY <1>2, EndOfCall

LEMMA ReadCartInv ==
    ASSUME CheckoutInv, NEW w \in Worker, NEW k \in Customer, NEW coupon \in BOOLEAN,
           ReadCart(w, k, coupon)
    PROVE  CheckoutInv'
<1> DEFINE c == [Idle EXCEPT !.pc = "claim", !.customer = k, !.lines = InCart(k), !.todo = InCart(k),
                    !.units = [i \in Item |-> IF i \in InCart(k) THEN units[i] ELSE 0],
                    !.wants = coupon]
<1>1. units' \in [Item -> Nat] /\ UNCHANGED <<rows, used, removed, storeVars>>
  BY DEF ReadCart, CheckoutInv, TypeOK, cartVars
<1>2. InCart(k) \subseteq rows /\ rows \subseteq Item /\ InCart(k) # {}
  BY DEF InCart, CheckoutInv, TypeOK, ReadCart
<1>3. /\ c \in Calls /\ c.pc = "claim" /\ c.customer = k /\ c.lines = InCart(k) /\ c.todo = InCart(k)
      /\ c.claimed = {} /\ c.reserved = {} /\ ~c.coupon
  <2>1. [i \in Item |-> IF i \in InCart(k) THEN units[i] ELSE 0] \in [Item -> Nat]
    BY DEF CheckoutInv, TypeOK
  <2> QED BY <1>2, <2>1, IdleCall DEF Idle, Calls
<1>4. call' = [call EXCEPT ![w] = c] /\ call'[w] = c
  BY DEF ReadCart, GoTo, CheckoutInv, TypeOK
<1> HIDE DEF c
<1>5. CallOK(w)'
  <2>1. \A i \in InCart(k) : OwnerOf[i] = k
    BY DEF InCart
  <2>2. \A i, j \in InCart(k) : ProductOf[i] = ProductOf[j] => i = j
    BY <1>2, <2>1 DEF CheckoutInv, RowsOK
  <2> QED BY <1>2, <1>3, <1>4, <2>1, <2>2 DEF CallOK
<1> QED BY <1>1, <1>3, <1>4, <1>5, LocalStep

LEMMA ClaimLineInv ==
    ASSUME CheckoutInv, NEW w \in Worker, NEW i \in Item, ClaimLine(w, i)
    PROVE  CheckoutInv'
<1> DEFINE c == [call[w] EXCEPT !.todo = @ \ {i},
                    !.claimed = IF i \in rows THEN @ \cup {i} ELSE @]
<1>1. units' \in [Item -> Nat] /\ UNCHANGED <<rows, used, removed, storeVars>>
  BY DEF ClaimLine, CheckoutInv, TypeOK, cartVars
<1>2. call[w] \in Calls /\ call[w].pc = "claim" /\ CallOK(w)
  BY DEF ClaimLine, At, CheckoutInv, TypeOK
<1>3. /\ c \in Calls /\ c.pc = "claim" /\ c.customer = call[w].customer
      /\ c.lines = call[w].lines /\ c.reserved = call[w].reserved /\ c.coupon = call[w].coupon
      /\ c.todo = call[w].todo \ {i}
      /\ c.claimed = (IF i \in rows THEN call[w].claimed \cup {i} ELSE call[w].claimed)
  BY <1>2 DEF Calls
<1>4. call' = [call EXCEPT ![w] = c] /\ call'[w] = c
  BY DEF ClaimLine, GoTo, CheckoutInv, TypeOK
<1> HIDE DEF c
<1>5. i \in call[w].lines
  BY <1>2 DEF ClaimLine, CallOK
<1>6. CallOK(w)'
  BY <1>1, <1>2, <1>3, <1>4, <1>5 DEF CallOK, storeVars
<1>7. \A v \in Worker \ {w} :
         /\ call[v].claimed \cap c.claimed = {}
         /\ \A a \in call[v].reserved, b \in c.reserved : ProductOf[a] # ProductOf[b]
         /\ ~(call[v].coupon /\ c.coupon)
  BY <1>3 DEF ClaimLine, LineFree, CheckoutInv, Exclusive
<1> QED BY <1>1, <1>3, <1>4, <1>6, <1>7, LocalStep

LEMMA ClaimDoneInv ==
    ASSUME CheckoutInv, NEW w \in Worker, ClaimDone(w)
    PROVE  CheckoutInv'
<1> DEFINE c == [call[w] EXCEPT !.pc = "reserve"]
<1>1. units' \in [Item -> Nat] /\ UNCHANGED <<rows, used, removed, storeVars>>
  BY DEF ClaimDone, CheckoutInv, TypeOK, cartVars
<1>2. call[w] \in Calls /\ call[w].pc = "claim" /\ CallOK(w) /\ call[w].claimed = call[w].lines
  BY DEF ClaimDone, At, AllClaimed, CheckoutInv, TypeOK
<1>3. /\ c \in Calls /\ c.pc = "reserve" /\ c.customer = call[w].customer /\ c.todo = call[w].todo
      /\ c.lines = call[w].lines /\ c.reserved = call[w].reserved
      /\ c.coupon = call[w].coupon /\ c.claimed = call[w].claimed
  BY <1>2 DEF Calls
<1>4. call' = [call EXCEPT ![w] = c] /\ call'[w] = c
  BY DEF ClaimDone, GoTo, CheckoutInv, TypeOK
<1> HIDE DEF c
<1>5. CallOK(w)'
  BY <1>1, <1>2, <1>3, <1>4 DEF CallOK, storeVars
<1>6. \A v \in Worker \ {w} :
         /\ call[v].claimed \cap c.claimed = {}
         /\ \A a \in call[v].reserved, b \in c.reserved : ProductOf[a] # ProductOf[b]
         /\ ~(call[v].coupon /\ c.coupon)
  BY <1>3 DEF CheckoutInv, Exclusive
<1> QED BY <1>1, <1>3, <1>4, <1>5, <1>6, LocalStep

LEMMA ReserveInv ==
    ASSUME CheckoutInv, NEW w \in Worker, NEW i \in Item, Reserve(w, i)
    PROVE  CheckoutInv'
<1> DEFINE c == [call[w] EXCEPT !.reserved = @ \cup {i}]
<1>1. units' \in [Item -> Nat] /\ UNCHANGED <<rows, used, removed, storeVars>>
  BY DEF Reserve, CheckoutInv, TypeOK, cartVars
<1>2. call[w] \in Calls /\ call[w].pc = "reserve" /\ CallOK(w)
  BY DEF Reserve, At, CheckoutInv, TypeOK
<1>3. /\ c \in Calls /\ c.pc = "reserve" /\ c.customer = call[w].customer /\ c.todo = call[w].todo
      /\ c.lines = call[w].lines /\ c.reserved = call[w].reserved \cup {i}
      /\ c.coupon = call[w].coupon /\ c.claimed = call[w].claimed /\ c.units = call[w].units
  BY <1>2 DEF Calls
<1>4. call' = [call EXCEPT ![w] = c] /\ call'[w] = c
  BY DEF Reserve, GoTo, CheckoutInv, TypeOK
<1> HIDE DEF c
<1>5. i \in call[w].lines /\ quantity[ProductOf[i]] >= call[w].units[i]
  BY DEF Reserve, Enough
<1>6. CallOK(w)'
  BY <1>1, <1>2, <1>3, <1>4, <1>5 DEF CallOK, storeVars
<1>7. \A v \in Worker \ {w} :
         /\ call[v].claimed \cap c.claimed = {}
         /\ \A a \in call[v].reserved, b \in c.reserved : ProductOf[a] # ProductOf[b]
         /\ ~(call[v].coupon /\ c.coupon)
  BY <1>3 DEF Reserve, ProductFree, CheckoutInv, Exclusive
<1> QED BY <1>1, <1>3, <1>4, <1>6, <1>7, LocalStep

LEMMA UseCouponInv ==
    ASSUME CheckoutInv, NEW w \in Worker, UseCoupon(w)
    PROVE  CheckoutInv'
<1> DEFINE c == [call[w] EXCEPT !.coupon = TRUE]
<1>1. CASE usedCount < MaxUses
  <2>1. units' \in [Item -> Nat] /\ UNCHANGED <<rows, used, removed, storeVars>>
    BY <1>1 DEF UseCoupon, CheckoutInv, TypeOK, cartVars
  <2>2. call[w] \in Calls /\ call[w].pc = "reserve" /\ CallOK(w)
    BY DEF UseCoupon, At, CheckoutInv, TypeOK
  <2>3. /\ c \in Calls /\ c.pc = "reserve" /\ c.customer = call[w].customer /\ c.todo = call[w].todo
        /\ c.lines = call[w].lines /\ c.reserved = call[w].reserved
        /\ c.claimed = call[w].claimed /\ c.units = call[w].units
    BY <2>2 DEF Calls
  <2>4. call' = [call EXCEPT ![w] = c] /\ call'[w] = c
    BY <1>1 DEF UseCoupon, GoTo, CheckoutInv, TypeOK
  <2> HIDE DEF c
  <2>5. CallOK(w)'
    BY <1>1, <2>1, <2>2, <2>3, <2>4 DEF CallOK, storeVars
  <2>6. \A v \in Worker \ {w} :
           /\ call[v].claimed \cap c.claimed = {}
           /\ \A a \in call[v].reserved, b \in c.reserved : ProductOf[a] # ProductOf[b]
           /\ ~(call[v].coupon /\ c.coupon)
    BY <2>3 DEF UseCoupon, CouponFree, CheckoutInv, Exclusive
  <2> QED BY <2>1, <2>3, <2>4, <2>5, <2>6, LocalStep
<1>2. CASE ~(usedCount < MaxUses)
  BY <1>2, RollbackInv DEF UseCoupon
<1> QED BY <1>1, <1>2

-----------------------------------------------------------------------------
(* The steps that write the carts                                          *)

\* A step that ends w's call, if it does not keep it, and takes no line from
\* the carts that another call claimed, keeps what the calls know.
LEMMA CartStep ==
    ASSUME CheckoutInv, NEW w \in Worker, UNCHANGED storeVars,
           GoTo(w, Idle) \/ (UNCHANGED call /\ call[w].claimed = {}),
           \A v \in Worker \ {w} : call[v].claimed \subseteq rows',
           rows' \in SUBSET Item, used' \in SUBSET Item, removed' \in SUBSET Item,
           units' \in [Item -> Nat], RowsOK'
    PROVE  CheckoutInv'
<1>1. \A v \in Worker \ {w} : call'[v] = call[v]
  BY DEF GoTo, CheckoutInv, TypeOK
<1>2. call'[w] = Idle \/ (call'[w] = call[w] /\ call[w].claimed = {})
  BY DEF GoTo, CheckoutInv, TypeOK
<1>3. TypeOK'
  BY IdleCall DEF GoTo, CheckoutInv, TypeOK, storeVars
<1>4. Idle.claimed = {} /\ Idle.reserved = {} /\ ~Idle.coupon
  BY DEF Idle
<1>5. ASSUME NEW v \in Worker PROVE CallOK(v)'
  <2>1. CASE v # w
    BY <1>1, <2>1 DEF CheckoutInv, CallOK, storeVars
  <2>2. CASE v = w /\ call'[w] = Idle
    BY <2>2 DEF CallOK, Idle
  <2>3. CASE v = w /\ call'[w] = call[w] /\ call[w].claimed = {}
    BY <2>3 DEF CheckoutInv, CallOK, storeVars
  <2> QED BY <1>2, <2>1, <2>2, <2>3
<1>6. ASSUME NEW v1 \in Worker, NEW v2 \in Worker, v1 # v2 PROVE Exclusive(v1, v2)'
  BY <1>1, <1>2, <1>4, <1>6 DEF CheckoutInv, Exclusive
<1>7. CouponOK'
  BY DEF CheckoutInv, CouponOK, CouponCounted, Carrying, storeVars
<1> QED BY <1>3, <1>5, <1>6, <1>7 DEF CheckoutInv

LEMMA CreateLineInv ==
    ASSUME CheckoutInv, NEW w \in Worker, CreateLine(w)
    PROVE  CheckoutInv'
<1> USE DEF CreateLine
<1>1. UNCHANGED storeVars /\ GoTo(w, Idle) /\ removed' = removed
  OBVIOUS
<1>2. call[w].customer \in Customer /\ call[w].n \in Nat
  BY DEF At, CheckoutInv, TypeOK, Calls, CallOK
<1>3. CASE \E i \in Item \ used :
             /\ OwnerOf[i] = call[w].customer /\ ProductOf[i] = call[w].product
             /\ {j \in InCart(call[w].customer) : ProductOf[j] = call[w].product} = {}
             /\ rows' = rows \cup {i}
             /\ used' = used \cup {i}
             /\ units' = [units EXCEPT ![i] = call[w].n]
  <2>1. PICK i \in Item \ used :
             /\ OwnerOf[i] = call[w].customer /\ ProductOf[i] = call[w].product
             /\ {j \in InCart(call[w].customer) : ProductOf[j] = call[w].product} = {}
             /\ rows' = rows \cup {i}
             /\ used' = used \cup {i}
             /\ units' = [units EXCEPT ![i] = call[w].n]
    BY <1>3
  <2>2. units' \in [Item -> Nat] /\ rows' \in SUBSET Item /\ used' \in SUBSET Item
    BY <1>2, <2>1 DEF CheckoutInv, TypeOK
  <2>3. \A j \in rows : ~(OwnerOf[j] = OwnerOf[i] /\ ProductOf[j] = ProductOf[i])
    BY <2>1 DEF InCart
  <2>4. RowsOK'
    BY <1>1, <2>1, <2>3 DEF CheckoutInv, RowsOK, storeVars
  <2>5. \A v \in Worker \ {w} : call[v].claimed \subseteq rows'
    BY <2>1 DEF CheckoutInv, CallOK
  <2>6. removed' \in SUBSET Item
    BY <1>1 DEF CheckoutInv, TypeOK
  <2> QED BY <1>1, <2>2, <2>4, <2>5, <2>6, CartStep
<1>4. CASE UNCHANGED <<rows, used, units>>
  <2>1. units' \in [Item -> Nat]
    BY <1>4 DEF CheckoutInv, TypeOK
  <2> QED BY <1>1, <1>4, <2>1, EndOfCall
<1> QED BY <1>3, <1>4

LEMMA RemoveItemInv ==
    ASSUME CheckoutInv, NEW w \in Worker, NEW i \in Item, RemoveItem(w, i)
    PROVE  CheckoutInv'
<1>1. /\ UNCHANGED <<units, used, call>> /\ UNCHANGED storeVars
      /\ i \in rows /\ rows' = rows \ {i} /\ removed' = removed \cup {i}
  BY DEF RemoveItem
<1>2. call[w].claimed = {}
  BY DEF RemoveItem, At, CheckoutInv, CallOK
<1>3. \A v \in Worker \ {w} : call[v].claimed \subseteq rows'
  BY <1>1 DEF RemoveItem, LineFree, CheckoutInv, CallOK
<1>4. RowsOK'
  BY <1>1 DEF CheckoutInv, RowsOK, storeVars
<1>5. /\ rows' \in SUBSET Item /\ used' \in SUBSET Item /\ removed' \in SUBSET Item
      /\ units' \in [Item -> Nat]
  BY <1>1 DEF CheckoutInv, TypeOK
<1> QED BY <1>1, <1>2, <1>3, <1>4, <1>5, CartStep

-----------------------------------------------------------------------------
(* The steps that write the store: an order is created or released         *)

\* The commit of a checkout is Buy.
LEMMA CreateOrderBuys ==
    ASSUME CheckoutInv, NEW w \in Worker, NEW o \in Order, CreateOrder(w, o)
    PROVE  Sale!Buy(o)
<1> DEFINE c == call[w]
           new == [state |-> "held", lines |-> c.lines, units |-> c.units, coupon |-> c.coupon]
<1>1. c \in Calls /\ CallOK(w) /\ c.pc = "reserve"
  BY DEF CreateOrder, At, CheckoutInv, TypeOK
<1>2. /\ c.customer \in Customer /\ c.lines # {} /\ c.claimed = c.lines
      /\ \A i \in c.lines : OwnerOf[i] = c.customer
      /\ \A i, j \in c.lines : ProductOf[i] = ProductOf[j] => i = j
      /\ c.claimed \subseteq rows /\ c.reserved = c.lines
      /\ \A i \in c.reserved : quantity[ProductOf[i]] >= c.units[i]
      /\ c.coupon => usedCount < MaxUses
  BY <1>1 DEF CallOK, CreateOrder
<1>3. c.lines \in SUBSET Item /\ c.units \in [Item -> Nat]
  BY <1>1 DEF Calls
<1>4. \A p \in Product : quantity[p] >= Sale!UnitsOf(p, c.lines, c.units)
  <2>1. TAKE p \in Product
  <2>2. quantity[p] \in Nat
    BY DEF CheckoutInv, TypeOK
  <2> QED BY <1>2, <1>3, <2>2, UnitsOfValue
<1>5. order'[o] = new /\ order' = [order EXCEPT ![o] = new] /\ order[o] = Sale!NoOrder
  BY DEF CreateOrder, CheckoutInv, TypeOK
<1>6. /\ new.state = "held" /\ new.lines = c.lines /\ new.units = c.units
      /\ new.coupon = c.coupon
  OBVIOUS
<1>7. /\ rows' = rows \ c.claimed
      /\ quantity' = [p \in Product |-> quantity[p] - Sale!UnitsOf(p, c.reserved, c.units)]
      /\ usedCount' = IF c.coupon THEN usedCount + 1 ELSE usedCount
  BY DEF CreateOrder
<1> HIDE DEF c, new
<1> QED BY <1>2, <1>4, <1>5, <1>6, <1>7 DEF Sale!Buy

LEMMA CreateOrderInv ==
    ASSUME CheckoutInv, NEW w \in Worker, NEW o \in Order, CreateOrder(w, o)
    PROVE  CheckoutInv'
<1> DEFINE c == call[w]
           new == [state |-> "held", lines |-> c.lines, units |-> c.units, coupon |-> c.coupon]
<1>1. c \in Calls /\ CallOK(w) /\ c.pc = "reserve"
  BY DEF CreateOrder, At, CheckoutInv, TypeOK
<1>2. /\ c.lines # {} /\ c.claimed = c.lines /\ c.lines \subseteq rows /\ c.reserved = c.lines
      /\ c.lines \in SUBSET Item /\ c.units \in [Item -> Nat] /\ c.coupon \in BOOLEAN
      /\ \A i \in c.reserved : quantity[ProductOf[i]] >= c.units[i]
      /\ c.coupon => usedCount < MaxUses
  BY <1>1 DEF CallOK, CreateOrder, Calls
<1>3. /\ order[o] = Sale!NoOrder /\ order' = [order EXCEPT ![o] = new]
      /\ order'[o] = new /\ \A q \in Order \ {o} : order'[q] = order[q]
      /\ new.state = "held" /\ new.lines = c.lines /\ new.coupon = c.coupon
      /\ rows' = rows \ c.lines /\ used' = used /\ removed' = removed /\ units' = units
      /\ quantity' = [p \in Product |-> quantity[p] - Sale!UnitsOf(p, c.lines, c.units)]
      /\ usedCount' = IF c.coupon THEN usedCount + 1 ELSE usedCount
      /\ GoTo(w, Idle)
  BY <1>2 DEF CreateOrder, CheckoutInv, TypeOK
<1>4. new \in Orders
  BY <1>2 DEF Orders
<1> HIDE DEF new
<1>5. TypeOK'
  <2>1. \A p \in Product : quantity[p] - Sale!UnitsOf(p, c.lines, c.units) \in Nat
    <3>1. TAKE p \in Product
    <3>2. quantity[p] \in Nat
      BY DEF CheckoutInv, TypeOK
    <3> QED BY <1>2, <3>2, UnitsOfValue
  <2>2. quantity' \in [Product -> Nat] /\ usedCount' \in Nat
    BY <1>3, <2>1 DEF CheckoutInv, TypeOK
  <2>3. call' \in [Worker -> Calls] /\ order' \in [Order -> Orders]
    BY <1>3, <1>4, IdleCall DEF GoTo, CheckoutInv, TypeOK
  <2> QED BY <1>3, <2>2, <2>3 DEF CheckoutInv, TypeOK
<1>6. call'[w] = Idle /\ \A v \in Worker \ {w} : call'[v] = call[v]
  BY <1>3 DEF GoTo, CheckoutInv, TypeOK
<1>7. ASSUME NEW v \in Worker PROVE CallOK(v)'
  <2>1. CASE v = w
    BY <1>6, <2>1 DEF CallOK, Idle
  <2>2. CASE v # w
    <3>1. CallOK(v) /\ Exclusive(v, w) /\ call'[v] = call[v] /\ call[v] \in Calls
      BY <1>6, <2>2 DEF CheckoutInv, TypeOK
    <3>2. call[v].claimed \subseteq rows'
      BY <1>2, <1>3, <3>1 DEF CallOK, Exclusive
    <3>3. ASSUME NEW i \in call[v].reserved
          PROVE  quantity'[ProductOf[i]] = quantity[ProductOf[i]]
      <4>1. \A j \in c.lines : ProductOf[j] # ProductOf[i]
        BY <1>2, <3>1 DEF Exclusive
      <4>2. Sale!UnitsOf(ProductOf[i], c.lines, c.units) = 0
        BY <4>1 DEF Sale!UnitsOf
      <4>3. i \in Item /\ ProductOf[i] \in Product
        BY <3>1, CatalogAssumption DEF Calls
      <4> QED BY <1>3, <4>2, <4>3 DEF CheckoutInv, TypeOK
    <3>4. call[v].coupon => usedCount' = usedCount
      BY <1>3, <3>1 DEF Exclusive
    <3> QED BY <3>1, <3>2, <3>3, <3>4 DEF CallOK
  <2> QED BY <2>1, <2>2
<1>8. ASSUME NEW v1 \in Worker, NEW v2 \in Worker, v1 # v2 PROVE Exclusive(v1, v2)'
  <2>1. Idle.claimed = {} /\ Idle.reserved = {} /\ ~Idle.coupon
    BY DEF Idle
  <2> QED BY <1>6, <1>8, <2>1 DEF CheckoutInv, Exclusive
<1>9. RowsOK'
  <2>1. \A q \in Order : order[q].lines \cap c.lines = {}
    BY <1>2 DEF CheckoutInv, RowsOK
  <2>2. c.lines \subseteq used /\ c.lines \cap removed = {}
    BY <1>2 DEF CheckoutInv, RowsOK
  <2>3. \A q \in Order : order'[q].state = "none" => order'[q] = Sale!NoOrder
    BY <1>3 DEF CheckoutInv, RowsOK
  <2>4. \A q \in Order : order'[q].lines \subseteq used \ (rows' \cup removed)
    BY <1>3, <2>1, <2>2 DEF CheckoutInv, RowsOK
  <2>5. \A q1, q2 \in Order : q1 # q2 => order'[q1].lines \cap order'[q2].lines = {}
    BY <1>3, <2>1 DEF CheckoutInv, RowsOK
  <2>6. order[o].lines = {}
    BY <1>3 DEF Sale!NoOrder
  <2>7. \A i \in used : i \in rows' \cup removed \/ \E q \in Order : i \in order'[q].lines
    BY <1>3, <2>6 DEF CheckoutInv, RowsOK
  <2> QED BY <1>3, <2>3, <2>4, <2>5, <2>7 DEF CheckoutInv, RowsOK
<1>10. CouponOK'
  <2>1. o \notin Carrying
    BY <1>3 DEF Carrying, Sale!NoOrder
  <2>2. IsFiniteSet(Carrying) /\ usedCount = Cardinality(Carrying) /\ usedCount <= MaxUses
    BY DEF CheckoutInv, CouponOK, CouponCounted, Carrying
  <2>3. CASE c.coupon
    <3>1. Carrying' = Carrying \cup {o}
      BY <1>3, <2>3 DEF Carrying
    <3>2. IsFiniteSet(Carrying') /\ Cardinality(Carrying') = Cardinality(Carrying) + 1
      BY <2>1, <2>2, <3>1, FS_AddElement
    <3>3. usedCount' = usedCount + 1 /\ usedCount + 1 <= MaxUses
      BY <1>2, <1>3, <2>3, CatalogAssumption DEF CheckoutInv, TypeOK
    <3> QED BY <2>2, <3>2, <3>3 DEF CouponOK, CouponCounted, Carrying
  <2>4. CASE ~c.coupon
    <3>1. Carrying' = Carrying
      BY <1>3, <2>1, <2>4 DEF Carrying
    <3> QED BY <1>3, <2>2, <2>4, <3>1 DEF CouponOK, CouponCounted, Carrying
  <2> QED BY <2>3, <2>4
<1> QED BY <1>5, <1>7, <1>8, <1>9, <1>10 DEF CheckoutInv

\* An order that carries the coupon is counted.
LEMMA CarriedIsCounted ==
    ASSUME CheckoutInv, NEW o \in Carrying
    PROVE  usedCount > 0 /\ usedCount \in Nat
<1>1. IsFiniteSet(Carrying) /\ usedCount = Cardinality(Carrying)
  BY DEF CheckoutInv, CouponOK, CouponCounted, Carrying
<1>2. Cardinality(Carrying) # 0
  BY <1>1, FS_EmptySet
<1> QED BY <1>1, <1>2 DEF CheckoutInv, TypeOK

\* A transition that closes a pending order is Release.
LEMMA ReleaseOrderReleases ==
    ASSUME CheckoutInv, NEW o \in Order, ReleaseOrder(o)
    PROVE  Sale!Release(o)
<1>1. order[o].coupon => usedCount > 0
  BY CarriedIsCounted DEF ReleaseOrder, Carrying
<1> QED BY <1>1 DEF ReleaseOrder, Sale!Release, cartVars

LEMMA ReleaseOrderInv ==
    ASSUME CheckoutInv, NEW o \in Order, ReleaseOrder(o)
    PROVE  CheckoutInv'
<1> DEFINE new == [order[o] EXCEPT !.state = "released"]
<1>1. /\ order[o] \in Orders /\ order[o].state = "held"
      /\ order[o].lines \in SUBSET Item /\ order[o].units \in [Item -> Nat]
  BY DEF ReleaseOrder, CheckoutInv, TypeOK, Orders
<1>2. new \in Orders /\ new.state = "released" /\ new.lines = order[o].lines
  BY <1>1 DEF Orders
<1>3. /\ order'[o] = new /\ \A q \in Order \ {o} : order'[q] = order[q]
      /\ order' \in [Order -> Orders]
      /\ UNCHANGED <<rows, units, used, removed, call>>
  BY <1>2 DEF ReleaseOrder, CheckoutInv, TypeOK, cartVars
<1> HIDE DEF new
<1>4. /\ quantity' \in [Product -> Nat]
      /\ \A p \in Product : quantity'[p] >= quantity[p]
  <2>1. \A p \in Product : quantity[p] \in Nat
    BY DEF CheckoutInv, TypeOK
  <2>2. \A p \in Product : Sale!UnitsOf(p, order[o].lines, order[o].units) \in Nat
    BY <1>1, UnitsOfNat
  <2> QED BY <2>1, <2>2 DEF ReleaseOrder
<1>5. usedCount' \in Nat /\ usedCount' <= usedCount
  BY DEF ReleaseOrder, CheckoutInv, TypeOK
<1>6. TypeOK'
  BY <1>3, <1>4, <1>5 DEF CheckoutInv, TypeOK
<1>7. ASSUME NEW v \in Worker PROVE CallOK(v)'
  <2>1. CallOK(v) /\ call[v] \in Calls /\ call'[v] = call[v] /\ rows' = rows
    BY <1>3 DEF CheckoutInv, TypeOK
  <2>2. ASSUME NEW i \in call[v].reserved
        PROVE  quantity'[ProductOf[i]] >= call[v].units[i]
    <3>1. i \in Item /\ ProductOf[i] \in Product /\ call[v].units[i] \in Nat
      BY <2>1, CatalogAssumption DEF Calls
    <3>2. quantity[ProductOf[i]] >= call[v].units[i]
      BY <2>1 DEF CallOK
    <3> QED BY <1>4, <3>1, <3>2 DEF CheckoutInv, TypeOK
  <2>3. call[v].coupon => usedCount' < MaxUses
    BY <1>5, <2>1, CatalogAssumption DEF CallOK, CheckoutInv, TypeOK
  <2> QED BY <2>1, <2>2, <2>3 DEF CallOK
<1>8. ASSUME NEW v1 \in Worker, NEW v2 \in Worker, v1 # v2 PROVE Exclusive(v1, v2)'
  BY <1>3, <1>8 DEF CheckoutInv, Exclusive
<1>9. RowsOK'
  <2>1. \A q \in Order : order'[q].lines = order[q].lines
    BY <1>2, <1>3
  <2>2. \A q \in Order : order'[q].state = "none" => order'[q] = Sale!NoOrder
    BY <1>2, <1>3 DEF CheckoutInv, RowsOK
  <2> QED BY <1>3, <2>1, <2>2 DEF CheckoutInv, RowsOK
<1>10. CouponOK'
  <2>1. IsFiniteSet(Carrying) /\ usedCount = Cardinality(Carrying) /\ usedCount <= MaxUses
    BY DEF CheckoutInv, CouponOK, CouponCounted, Carrying
  <2>2. Carrying' = Carrying \ {o}
    BY <1>2, <1>3 DEF Carrying
  <2>3. usedCount' <= MaxUses
    BY <1>5, <2>1, CatalogAssumption DEF CheckoutInv, TypeOK
  <2>4. CASE order[o].coupon
    <3>1. o \in Carrying
      BY <1>1, <2>4 DEF Carrying
    <3>2. IsFiniteSet(Carrying') /\ Cardinality(Carrying') = Cardinality(Carrying) - 1
      BY <2>1, <2>2, <3>1, FS_RemoveElement
    <3>3. usedCount' = usedCount - 1
      BY <2>4, <3>1, CarriedIsCounted DEF ReleaseOrder
    <3> QED BY <2>1, <2>3, <3>2, <3>3 DEF CouponOK, CouponCounted, Carrying
  <2>5. CASE ~order[o].coupon
    <3>1. Carrying' = Carrying
      BY <2>2, <2>5 DEF Carrying
    <3>2. usedCount' = usedCount
      BY <2>5 DEF ReleaseOrder
    <3> QED BY <2>1, <3>1, <3>2 DEF CouponOK, CouponCounted, Carrying
  <2> QED BY <2>4, <2>5
<1> QED BY <1>6, <1>7, <1>8, <1>9, <1>10 DEF CheckoutInv

-----------------------------------------------------------------------------
(* The invariant holds                                                     *)

LEMMA InitInv == Init => CheckoutInv
<1> SUFFICES ASSUME Init PROVE CheckoutInv
  OBVIOUS
<1> USE DEF Init, Sale!SaleInit
<1>1. \A o \in Order : order[o] = Sale!NoOrder
  OBVIOUS
<1>2. TypeOK
  <2>1. Sale!NoOrder \in Orders
    BY DEF Sale!NoOrder, Sale!NoUnits, Orders
  <2> QED BY <2>1, IdleCall, CatalogAssumption DEF TypeOK, Sale!NoUnits
<1>3. \A w \in Worker : CallOK(w)
  BY DEF CallOK, Idle
<1>4. \A v, w \in Worker : v # w => Exclusive(v, w)
  BY DEF Exclusive, Idle
<1>5. RowsOK
  BY <1>1 DEF RowsOK, Sale!NoOrder
<1>6. CouponOK
  <2>1. Carrying = {}
    BY <1>1 DEF Carrying, Sale!NoOrder
  <2>2. IsFiniteSet(Carrying) /\ Cardinality(Carrying) = 0
    BY <2>1, FS_EmptySet
  <2>3. usedCount = Cardinality(Carrying) /\ usedCount <= MaxUses
    BY <2>2, CatalogAssumption
  <2> QED BY <2>2, <2>3 DEF CouponOK, CouponCounted, Carrying
<1> QED BY <1>2, <1>3, <1>4, <1>5, <1>6 DEF CheckoutInv

LEMMA StutterInv ==
    ASSUME CheckoutInv, UNCHANGED vars
    PROVE  CheckoutInv'
BY DEF vars, cartVars, storeVars, CheckoutInv, TypeOK, CallOK, Exclusive, RowsOK,
       CouponOK, CouponCounted, Carrying

LEMMA NextInv == CheckoutInv /\ [Next]_vars => CheckoutInv'
<1> SUFFICES ASSUME CheckoutInv, [Next]_vars PROVE CheckoutInv'
  OBVIOUS
<1>1. CASE \E w \in Worker : CartRequest(w)
  <2>1. PICK w \in Worker : CartRequest(w)
    BY <1>1
  <2>2. ASSUME NEW k \in Customer, NEW p \in Product, NEW n \in 1 .. InitialStock[p],
               AddItem(w, k, p, n)
        PROVE  CheckoutInv'
    <3>1. n \in Nat
      BY CatalogAssumption
    <3> QED BY <2>2, <3>1, AddItemInv
  <2>3. ASSUME NEW i \in Item, NEW n \in 1 .. InitialStock[ProductOf[i]], UpdateItem(w, i, n)
        PROVE  CheckoutInv'
    <3>1. n \in Nat
      BY CatalogAssumption
    <3> QED BY <2>3, <3>1, UpdateItemInv
  <2> QED BY <2>1, <2>2, <2>3, RemoveItemInv, CreateLineInv, UpdateLineInv DEF CartRequest
<1>2. CASE \E w \in Worker : CheckoutStep(w)
  <2>1. PICK w \in Worker : CheckoutStep(w)
    BY <1>2
  <2> QED BY <2>1, ReadCartInv, ClaimLineInv, ClaimDoneInv, ReserveInv, UseCouponInv,
             CreateOrderInv, RollbackInv DEF CheckoutStep, OutOfStock, ClaimLost, Abort
<1>3. CASE \E o \in Order : ReleaseOrder(o)
  BY <1>3, ReleaseOrderInv
<1>4. CASE UNCHANGED vars
  BY <1>4, StutterInv
<1> QED BY <1>1, <1>2, <1>3, <1>4 DEF Next

LEMMA InvHolds == Spec => []CheckoutInv
BY InitInv, NextInv, PTL DEF Spec

\* Every row keeps its type, and no product's quantity falls below zero.
THEOREM CheckoutTypeCorrect == Spec => []TypeOK
<1>1. CheckoutInv => TypeOK
  BY DEF CheckoutInv
<1> QED BY <1>1, InvHolds, PTL

\* A line that was in a cart is there, was removed, or is in one order.
THEOREM LinesKept == Spec => []LinesAccounted
<1>1. CheckoutInv => LinesAccounted
  <2> SUFFICES ASSUME CheckoutInv, NEW i \in used
               PROVE  LET orders == {o \in Order : i \in order[o].lines}
                      IN  \/ i \in rows \cup removed /\ orders = {}
                          \/ i \notin rows \cup removed /\ \E o \in Order : orders = {o}
    BY DEF LinesAccounted
  <2> DEFINE orders == {o \in Order : i \in order[o].lines}
  <2>1. CASE i \in rows \cup removed
    <3>1. orders = {}
      BY <2>1 DEF CheckoutInv, RowsOK
    <3> QED BY <2>1, <3>1
  <2>2. CASE i \notin rows \cup removed
    <3>1. PICK o \in Order : i \in order[o].lines
      BY <2>2 DEF CheckoutInv, RowsOK
    <3>2. \A q \in Order : i \in order[q].lines => q = o
      BY <3>1 DEF CheckoutInv, RowsOK
    <3>3. orders = {o}
      BY <3>1, <3>2
    <3> QED BY <2>2, <3>3
  <2> QED BY <2>1, <2>2
<1> QED BY <1>1, InvHolds, PTL

\* The coupon is counted once for each order that carries it.
THEOREM CouponNeverOverused == Spec => []CouponCounted
<1>1. CheckoutInv => CouponCounted
  BY DEF CheckoutInv, CouponOK
<1> QED BY <1>1, InvHolds, PTL

-----------------------------------------------------------------------------
(* Every step is one of AtomicSale's, or changes nothing it speaks of      *)

LEMMA RollbackStutters ==
    ASSUME NEW w \in Worker, Rollback(w)
    PROVE  UNCHANGED Sale!saleVars
BY DEF Rollback, RowsAfterRollback, storeVars, Sale!saleVars

LEMMA CartRequestRefines ==
    ASSUME CheckoutInv, NEW w \in Worker, CartRequest(w)
    PROVE  [Sale!SaleNext]_Sale!saleVars
<1> USE DEF cartVars, storeVars, Sale!saleVars
<1>1. ASSUME NEW k \in Customer, NEW p \in Product, NEW n \in 1 .. InitialStock[p],
             AddItem(w, k, p, n)
      PROVE  UNCHANGED Sale!saleVars
  BY <1>1 DEF AddItem
<1>2. ASSUME NEW i \in Item, NEW n \in 1 .. InitialStock[ProductOf[i]], UpdateItem(w, i, n)
      PROVE  UNCHANGED Sale!saleVars
  BY <1>2 DEF UpdateItem
<1>3. CASE UpdateLine(w)
  BY <1>3 DEF UpdateLine
<1>4. ASSUME NEW i \in Item, RemoveItem(w, i) PROVE Sale!RemoveLine(i)
  BY <1>4 DEF RemoveItem, Sale!RemoveLine
<1>5. CASE CreateLine(w)
  <2>1. CASE \E i \in Item \ used : rows' = rows \cup {i}
    <3>1. PICK i \in Item \ used : rows' = rows \cup {i}
      BY <2>1
    <3>2. i \notin rows /\ \A o \in Order : i \notin order[o].lines
      BY DEF CheckoutInv, RowsOK
    <3>3. Sale!AddLine(i)
      BY <1>5, <3>1, <3>2 DEF CreateLine, Sale!AddLine
    <3> QED BY <3>3 DEF Sale!SaleNext
  <2>2. CASE UNCHANGED rows
    BY <1>5, <2>2 DEF CreateLine
  <2> QED BY <1>5, <2>1, <2>2 DEF CreateLine
<1> QED BY <1>1, <1>2, <1>3, <1>4, <1>5 DEF CartRequest, Sale!SaleNext

LEMMA CheckoutStepRefines ==
    ASSUME CheckoutInv, NEW w \in Worker, CheckoutStep(w)
    PROVE  [Sale!SaleNext]_Sale!saleVars
<1>1. ASSUME NEW o \in Order, CreateOrder(w, o) PROVE Sale!SaleNext
  BY <1>1, CreateOrderBuys DEF Sale!SaleNext
<1>2. CASE Rollback(w)
  BY <1>2, RollbackStutters
<1>3. CASE UNCHANGED <<cartVars, storeVars>>
  BY <1>3 DEF cartVars, storeVars, Sale!saleVars
<1>4. \/ \E o \in Order : CreateOrder(w, o)
      \/ Rollback(w)
      \/ UNCHANGED <<cartVars, storeVars>>
  BY DEF CheckoutStep, ReadCart, ClaimLine, ClaimDone, ClaimLost, Reserve, OutOfStock,
         UseCoupon, Abort
<1> QED BY <1>1, <1>2, <1>3, <1>4

\* A checkout, statement by statement among all other requests, implements
\* the sale in one step.
THEOREM SaleIsAtomic == Spec => ImplementsSale
<1>1. Init => Sale!SaleInit
  BY DEF Init
<1>2. CheckoutInv /\ [Next]_vars => [Sale!SaleNext]_Sale!saleVars
  <2> SUFFICES ASSUME CheckoutInv, [Next]_vars PROVE [Sale!SaleNext]_Sale!saleVars
    OBVIOUS
  <2>1. CASE \E o \in Order : ReleaseOrder(o)
    BY <2>1, ReleaseOrderReleases DEF Sale!SaleNext
  <2>2. CASE UNCHANGED vars
    BY <2>2 DEF vars, cartVars, storeVars, Sale!saleVars
  <2> QED BY <2>1, <2>2, CartRequestRefines, CheckoutStepRefines DEF Next
<1> QED BY <1>1, <1>2, InvHolds, PTL DEF Spec, ImplementsSale, Sale!SaleSpec
================================================================================
