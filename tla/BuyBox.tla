--------------------------------- MODULE BuyBox ---------------------------------
(***************************************************************************)
(* The buy box of a product page: two buttons that add the part to the     *)
(* cart, the modal that signs a visitor in on the way, and the number of   *)
(* items beside the cart's icon.  Sources: AddToCartButton.tsx of          *)
(* apps/frontend/src/app/[locale]/products/[slug]/, AuthModal.tsx and      *)
(* StickyActionBar.tsx in components/, context/CartContext.tsx, and        *)
(* addItem of apps/backend/src/cart/cart.service.ts.                       *)
(*                                                                         *)
(* The cart holds one product, and nobody else changes it: the units on    *)
(* the shelf stay.  A handler goes on with the functions of the render it  *)
(* was started from, so an add started by a guest refreshes as a guest     *)
(* (CartContext.tsx:43-48, 63-71).  One login is sent at a time.           *)
(***************************************************************************)
EXTENDS Integers, FiniteSets

CONSTANTS Units,            \* Product.quantity
          MaxPresses,       \* bound: presses of a button
          MaxMisfires       \* bound: requests that reject, served or not

ASSUME BuyBoxAssumption == {Units, MaxPresses, MaxMisfires} \subseteq Nat

VARIABLES signedIn,         \* AuthContext has a user
          line,             \* database: quantity of the cart's line, 0 without one
          badge,            \* CartContext.itemCount
          buttons,          \* of each button: idle, adding or added
          resets,           \* of each button: timers that will set it idle
          modal, signing,   \* the button whose modal is open, and that login is sent from
          adds,             \* presses under way
          gets,             \* GET /cart on its way, read or not
          presses, begun, misfires,     \* begun: adds, which numbers them
          stored,           \* what the properties remember: adds that were stored,
          met, answers,     \* two read the line before either wrote, how old the answers shown were,
          fromGuest         \* an add began before signing in

buyBoxVars == <<signedIn, line, badge, buttons, resets, modal, signing, adds, gets, presses, begun, misfires, stored, met, answers, fromGuest>>

Buttons == {"box", "bar"}
Add(n, b, as) == [n |-> n, button |-> b, as |-> as, pc |-> "sent", seen |-> 0]
\* GET /cart after add n, or with -n after the login that led to add n.
Get(n) == [n |-> n, read |-> FALSE, quantity |-> 0, at |-> 0]
goesTo(a, pc) == adds' = (adds \ {a}) \cup {[a EXCEPT !.pc = pc]}
misfire == misfires < MaxMisfires /\ misfires' = misfires + 1
-------------------------------------------------------------------------------
BuyBoxInit ==
    /\ signedIn \in BOOLEAN
    /\ line \in 0 .. 1 /\ badge = 0 /\ gets = IF signedIn THEN {Get(0)} ELSE {}
    /\ buttons = [b \in Buttons |-> "idle"] /\ resets = [b \in Buttons |-> 0]
    /\ modal = "closed" /\ signing = "nobody" /\ adds = {}
    /\ presses = 0 /\ begun = 0 /\ misfires = 0 /\ stored = line /\ met = FALSE /\ answers = [last |-> 0, newest |-> 0] /\ fromGuest = FALSE

BuyBoxNotOpened ==
    /\ signedIn = FALSE /\ line = 0 /\ badge = 0 /\ gets = {}
    /\ buttons = [b \in Buttons |-> "idle"] /\ resets = [b \in Buttons |-> 0]
    /\ modal = "closed" /\ signing = "nobody" /\ adds = {}
    /\ presses = 0 /\ begun = 0 /\ misfires = 0 /\ stored = 0 /\ met = FALSE /\ answers = [last |-> 0, newest |-> 0] /\ fromGuest = FALSE

doAdd(b, as) ==
    /\ buttons' = [buttons EXCEPT ![b] = "adding"]
    /\ begun' = begun + 1 /\ adds' = adds \cup {Add(begun', b, as)}
    /\ fromGuest' = (fromGuest \/ as = "guest")

\* The bar takes presses while the box is out of view; the modal covers both.
handleClick(b) ==
    /\ Units > 0 /\ buttons[b] # "adding" /\ modal = "closed"
    /\ presses < MaxPresses /\ presses' = presses + 1
    /\ IF signedIn THEN doAdd(b, "customer") /\ UNCHANGED modal
       ELSE modal' = b /\ UNCHANGED <<buttons, adds, begun, fromGuest>>
    /\ UNCHANGED <<signedIn, line, badge, resets, signing, gets, misfires, stored, met, answers>>

AuthModal ==
    /\ modal # "closed"
    /\ \/ modal' = "closed" /\ UNCHANGED signing
       \/ signing = "nobody" /\ signing' = modal /\ UNCHANGED modal
    /\ UNCHANGED <<signedIn, line, badge, buttons, resets, adds, gets, presses, begun, misfires, stored, met, answers, fromGuest>>

onAuthenticated ==          \* the user is set, and the add goes on, the modal open or not
    /\ signing # "nobody" /\ signing' = "nobody" /\ modal' = IF modal = signing THEN "closed" ELSE modal
    /\ doAdd(signing, IF signedIn THEN "customer" ELSE "guest")
    /\ signedIn' = TRUE /\ gets' = gets \cup {Get(-begun')}
    /\ UNCHANGED <<line, badge, resets, presses, misfires, stored, met, answers>>

notAuthenticated ==
    /\ signing # "nobody" /\ signing' = "nobody"
    /\ UNCHANGED <<signedIn, line, badge, buttons, resets, modal, adds, gets, presses, begun, misfires, stored, met, answers, fromGuest>>
-------------------------------------------------------------------------------
(* addItem: two reads, then a write of what was read plus one.             *)
notEnough == Units < line + 1
existing(a) ==
    /\ a.pc = "sent"
    /\ adds' = (adds \ {a}) \cup {[a EXCEPT !.pc = IF notEnough THEN "refused" ELSE "read", !.seen = line]}
    /\ met' = (met \/ \E other \in adds : other.pc = "read")
    /\ UNCHANGED <<signedIn, line, badge, buttons, resets, modal, signing, gets, presses, begun, misfires, stored, answers, fromGuest>>

newQuantity(a) == a.seen + 1
addItem(a) ==               \* a second create breaks the unique key
    /\ a.pc = "read"
    /\ LET fails == a.seen = 0 /\ line > 0 IN
       /\ goesTo(a, IF fails THEN "refused" ELSE "stored")
       /\ line' = IF fails THEN line ELSE newQuantity(a)
       /\ stored' = stored + (IF fails THEN 0 ELSE 1)
    /\ UNCHANGED <<signedIn, badge, buttons, resets, modal, signing, gets, presses, begun, misfires, met, answers, fromGuest>>
-------------------------------------------------------------------------------
(* The answers.                                                            *)
refused(a) == buttons' = [buttons EXCEPT ![a.button] = "idle"]
addRefused(a) ==
    /\ a.pc = "refused" /\ refused(a) /\ adds' = adds \ {a}
    /\ UNCHANGED <<signedIn, line, badge, resets, modal, signing, gets, presses, begun, misfires, stored, met, answers, fromGuest>>

added(a) ==
    /\ buttons' = [buttons EXCEPT ![a.button] = "added"] /\ resets' = [resets EXCEPT ![a.button] = @ + 1]
    /\ adds' = adds \ {a}
\* mutant: the cart is not read again.
refreshNothing(a) == added(a) /\ UNCHANGED <<badge, gets>>
\* refresh of the render that addToCart is from: a guest has no items.
refreshAfter(a) ==
    IF a.as = "guest" THEN added(a) /\ badge' = 0 /\ UNCHANGED gets
    ELSE goesTo(a, "refreshing") /\ gets' = gets \cup {Get(a.n)} /\ UNCHANGED <<badge, buttons, resets>>
addToCart(a) ==
    /\ a.pc = "stored" /\ refreshAfter(a)
    /\ UNCHANGED <<signedIn, line, modal, signing, presses, begun, misfires, stored, met, answers, fromGuest>>

cartRead(g) ==
    /\ ~g.read /\ gets' = (gets \ {g}) \cup {[g EXCEPT !.read = TRUE, !.quantity = line, !.at = stored]}
    /\ UNCHANGED <<signedIn, line, badge, buttons, resets, modal, signing, adds, presses, begun, misfires, stored, met, answers, fromGuest>>

Awaits(g) == {a \in adds : a.pc = "refreshing" /\ a.n = g.n}
cartShown(g) ==
    /\ g.read /\ gets' = gets \ {g} /\ badge' = g.quantity
    /\ answers' = [last |-> g.at, newest |-> IF g.at > answers.newest THEN g.at ELSE answers.newest]
    /\ IF Awaits(g) = {} THEN UNCHANGED <<buttons, resets, adds>> ELSE \A a \in Awaits(g) : added(a)
    /\ UNCHANGED <<signedIn, line, modal, signing, presses, begun, misfires, stored, met, fromGuest>>

rejected ==                 \* the handler ends there, the button is left adding
    /\ misfire
    /\ \/ \E a \in adds : a.pc # "refreshing" /\ adds' = adds \ {a} /\ UNCHANGED gets
       \/ \E g \in gets : gets' = gets \ {g} /\ adds' = adds \ Awaits(g)
    /\ UNCHANGED <<signedIn, line, badge, buttons, resets, modal, signing, presses, begun, stored, met, answers, fromGuest>>

wearsOff(b) ==              \* 1500 ms after it was added, whatever the button does then
    /\ resets[b] > 0 /\ resets' = [resets EXCEPT ![b] = @ - 1] /\ buttons' = [buttons EXCEPT ![b] = "idle"]
    /\ UNCHANGED <<signedIn, line, badge, modal, signing, adds, gets, presses, begun, misfires, stored, met, answers, fromGuest>>
-------------------------------------------------------------------------------
Serves ==
    \/ \E a \in adds : existing(a) \/ addItem(a) \/ addRefused(a) \/ addToCart(a)
    \/ \E g \in gets : cartRead(g) \/ cartShown(g)
BuyBoxNext ==
    \/ \E b \in Buttons : handleClick(b) \/ wearsOff(b)
    \/ AuthModal \/ onAuthenticated \/ notAuthenticated \/ rejected \/ Serves

\* Requests that do not reject are served and answered.
BuyBoxFairness == WF_buyBoxVars(Serves)
BuyBoxSpec == BuyBoxInit /\ [][BuyBoxNext]_buyBoxVars /\ BuyBoxFairness
-------------------------------------------------------------------------------
AtRest == signedIn /\ adds = {} /\ gets = {} /\ misfires = 0 /\ answers.last = answers.newest

\* Every add that is answered as done is in the cart, unless two met, and at
\* rest a customer sees the number of items she has without a reload, unless an
\* add rejected, an older answer came last, or she was a guest when she pressed.
BadgeIsTheCart ==
    /\ met \/ line = stored
    /\ AtRest /\ ~fromGuest => badge = line

\* A guest who signs in on the way finds the part in her cart, too
\* (AuthModal.tsx:23 "without leaving the page").
GuestsAddIsShown == AtRest => badge = line

\* A press ends: the button does not stay on "Adding", unless a request rejected.
ButtonComesBack == \A b \in Buttons : buttons[b] = "adding" ~> buttons[b] # "adding" \/ misfires > 0
===============================================================================
