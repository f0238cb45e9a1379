------------------------------- MODULE Purchase -------------------------------
(***************************************************************************)
(* The two pages a customer buys on, one at a time: the cart, and the page *)
(* of the order that was placed.  Each is loaded anew, so each starts from *)
(* its own states while the other stays as it was.                         *)
(***************************************************************************)
EXTENDS CartPage, OrderPage

VARIABLE at                 \* the page the customer is on

purchaseVars == <<at, cartPageVars, orderPageVars>>

PurchaseInit ==
    /\ at \in {"cart", "order"} /\ CartPageInit
    /\ IF at = "order" THEN OrderPageInit ELSE OrderPageNotOpened

OnCart(A) == at = "cart" /\ A /\ UNCHANGED <<at, orderPageVars>>
OnOrder(A) == at = "order" /\ A /\ UNCHANGED <<at, cartPageVars>>

PurchaseNext == OnCart(CartPageNext) \/ OnOrder(OrderPageNext)

\* The fairness of each page, while the customer is on it.
PurchaseFairness ==
    /\ WF_purchaseVars(OnCart(Answers) \/ OnOrder(Arrives))
    /\ WF_purchaseVars(OnOrder(pollTick))

PurchaseSpec == PurchaseInit /\ [][PurchaseNext]_purchaseVars /\ PurchaseFairness
-------------------------------------------------------------------------------
\* Submitting an order, polling for its payment and loading its page all end.
PagesSettle == SubmitSettles /\ PollingStops /\ LoadingEnds
===============================================================================
