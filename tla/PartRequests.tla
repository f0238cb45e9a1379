------------------------------ MODULE PartRequests ------------------------------
(***************************************************************************)
(* "Can't find it? tell us": a visitor asks the store for a part, with an  *)
(* account or without, and an admin follows it up.                         *)
(* Sources: apps/backend/src/product-requests/, OptionalJwtAuthGuard of    *)
(* auth/guards/, and components/RequestProductForm.tsx of                  *)
(* apps/frontend/src.                                                      *)
(*                                                                         *)
(* The description and the phone are required by the form and the DTO, and *)
(* are left out; what matters is who is asking and under what name.        *)
(***************************************************************************)
EXTENDS Integers, FiniteSets

CONSTANTS PerVisitor,       \* requests taken in ten minutes (5 in the code)
          MaxSends,         \* bound: times the form is sent
          MaxNoReply        \* bound: requests that reject

ASSUME PartRequestsAssumption == {PerVisitor, MaxSends, MaxNoReply} \subseteq Nat

VARIABLES caller,           \* guest, customer, or expired: signed in, the access token is not
          form,             \* closed, open, sending or done
          field,            \* what is filled in: the name, the honeypot
          requests,         \* requests under way
          received,         \* database: the rows
          counted,          \* by the throttler, in these ten minutes
          toNotify,         \* mails to the admin that are not sent yet
          sends, noReply

requestVars == <<caller, form, field, requests, received, counted, toNotify, sends, noReply>>

Row(n, named, linked) == [n |-> n, named |-> named, linked |-> linked, status |-> "OPEN", note |-> FALSE]
reply(r, a) == requests' = (requests \ {r}) \cup {[r EXCEPT !.answer = a]}

PartRequestsInit ==
    /\ caller \in {"guest", "customer"} /\ form \in {"closed", "open"}      \* open on a part out of stock
    /\ field = [name |-> FALSE, website |-> FALSE]
    /\ requests = {} /\ received = {} /\ counted = 0 /\ toNotify = {} /\ sends = 0 /\ noReply = 0

PartRequestsNotOpened ==
    /\ caller = "guest" /\ form = "closed" /\ field = [name |-> FALSE, website |-> FALSE]
    /\ requests = {} /\ received = {} /\ counted = 0 /\ toNotify = {} /\ sends = 0 /\ noReply = 0
-------------------------------------------------------------------------------
(* The form.                                                               *)
asksForName == caller = "guest"
RequestProductForm ==
    /\ form \in {"closed", "open"}
    /\ \/ form = "closed" /\ form' = "open" /\ UNCHANGED field
       \/ /\ form = "open" /\ \E f \in {"website"} \cup (IF asksForName THEN {"name"} ELSE {}) :
               ~field[f] /\ field' = [field EXCEPT ![f] = TRUE]             \* a bot fills them all
          /\ UNCHANGED form
    /\ UNCHANGED <<caller, requests, received, counted, toNotify, sends, noReply>>

\* mutant: the button takes presses while the form is sent.
enabledAlways == form \in {"open", "sending"}
enabled == form = "open"
submitRequest ==
    /\ enabled /\ (asksForName => field.name) /\ sends < MaxSends
    /\ sends' = sends + 1 /\ form' = "sending"
    /\ requests' = requests \cup {[n |-> sends', name |-> field.name, website |-> field.website, from |-> caller,
                               heard |-> TRUE, answer |-> "none"]}
    /\ UNCHANGED <<caller, field, received, counted, toNotify, noReply>>

tokenExpires ==             \* or is renewed, by another request or the heartbeat
    /\ caller # "guest" /\ caller' = IF caller = "customer" THEN "expired" ELSE "customer"
    /\ UNCHANGED <<form, field, requests, received, counted, toNotify, sends, noReply>>
-------------------------------------------------------------------------------
(* The service.  An expired token makes a guest of a customer.             *)
contactName(r) == r.name \/ r.from = "customer"
rowFails(r) == reply(r, "refused")
throttled(r) ==
    /\ r.answer = "none" /\ counted = PerVisitor /\ reply(r, "refused")
    /\ UNCHANGED <<caller, form, field, received, counted, toNotify, sends, noReply>>
createRequest(r) ==
    /\ r.answer = "none" /\ counted < PerVisitor /\ counted' = counted + 1
    /\ \/ r.website /\ reply(r, "ok") /\ UNCHANGED <<received, toNotify>>
       \/ ~r.website /\ ~contactName(r) /\ reply(r, "refused") /\ UNCHANGED <<received, toNotify>>
       \/ ~r.website /\ contactName(r) /\ rowFails(r) /\ UNCHANGED <<received, toNotify>>
       \/ /\ ~r.website /\ contactName(r) /\ reply(r, "ok") /\ toNotify' = toNotify \cup {r.n}
          /\ received' = received \cup {Row(r.n, r.name \/ r.from = "customer", r.from = "customer")}
    /\ UNCHANGED <<caller, form, field, sends, noReply>>

throttleEnds ==             \* ten minutes
    /\ counted > 0 /\ counted' = 0
    /\ UNCHANGED <<caller, form, field, requests, received, toNotify, sends, noReply>>

notifyAdmin ==              \* sent or not, nothing waits for it
    /\ \E n \in toNotify : toNotify' = toNotify \ {n}
    /\ UNCHANGED <<caller, form, field, requests, received, counted, sends, noReply>>

updateAdmin ==              \* the status is picked, or the note is left
    /\ \E x \in received : \E y \in {[x EXCEPT !.status = "FULFILLED"], [x EXCEPT !.note = TRUE]} :
         y # x /\ received' = (received \ {x}) \cup {y}
    /\ UNCHANGED <<caller, form, field, requests, counted, toNotify, sends, noReply>>
-------------------------------------------------------------------------------
(* The answers.                                                            *)
requestAnswered(r) ==
    /\ r.answer # "none" /\ requests' = requests \ {r}
    /\ form' = IF ~r.heard THEN form ELSE IF r.answer = "ok" THEN "done" ELSE "open"
    /\ UNCHANGED <<caller, field, received, counted, toNotify, sends, noReply>>

caught == form' = "open"
requestLost(r) ==           \* served or yet to be served
    /\ r.heard /\ noReply < MaxNoReply /\ noReply' = noReply + 1
    /\ requests' = (requests \ {r}) \cup {[r EXCEPT !.heard = FALSE]} /\ caught
    /\ UNCHANGED <<caller, field, received, counted, toNotify, sends>>
-------------------------------------------------------------------------------
Requested == \E r \in requests : throttled(r) \/ createRequest(r) \/ requestAnswered(r)
PartRequestsNext ==
    \/ RequestProductForm \/ submitRequest \/ tokenExpires \/ throttleEnds \/ notifyAdmin \/ updateAdmin
    \/ Requested \/ \E r \in requests : requestLost(r)

PartRequestsFairness == WF_requestVars(Requested)
PartRequestsSpec == PartRequestsInit /\ [][PartRequestsNext]_requestVars /\ PartRequestsFairness
-------------------------------------------------------------------------------
\* A request is stored once, unless it was sent again for want of an answer,
\* and with a name to ask for, also when a customer's token has expired and the
\* form did not ask hers.  "We have your request" is said only when the store
\* has it, or to a bot.
RequestArrivesOnce ==
    /\ Cardinality(received) <= 1 \/ noReply > 0
    /\ \A x \in received : x.named
    /\ form = "done" => field.website \/ \E x \in received : x.n = sends

\* The form does not stay on "sending", whatever becomes of the request.
SendingEnds == form = "sending" ~> form # "sending"
===============================================================================
