-------------------------------- MODULE Reviews --------------------------------
(***************************************************************************)
(* A customer's review of a part: written, changed within ten minutes,     *)
(* removed by her or by an admin, from pages opened in several tabs.       *)
(* Sources: apps/backend/src/reviews/reviews.service.ts, and               *)
(* ReviewsSection.tsx of apps/frontend/src/app/[locale]/products/[slug]/.  *)
(*                                                                         *)
(* What other customers write never changes what she may do and is left    *)
(* out.  Rating and comment are one number, that of the form they were     *)
(* sent with.  Every handler of the service reads and decides first, and   *)
(* writes in a later step.                                                 *)
(***************************************************************************)
EXTENDS Integers, Sequences, FiniteSets

CONSTANTS Tabs,             \* the pages she has open
          MaxSubmits,       \* bound: forms sent and removals asked for
          MaxUnanswered     \* bound: requests that reject

ASSUME ReviewsAssumption == {MaxSubmits, MaxUnanswered} \subseteq Nat

VARIABLES rows,             \* database: her reviews of the part
          aged,             \* of which these are older than EDIT_WINDOW_MS
          bought,           \* she has a paid order with the part
          section,          \* of each tab: reviews of hers shown, the one edited, submitting
          posts,            \* requests under way
          submits, unanswered,
          apart             \* what the properties remember: tabs that were not told

reviewVars == <<rows, aged, bought, section, posts, submits, unanswered, apart>>

Nothing == -1
Earlier == 0                \* the review of an earlier visit; others are numbered by their form
Review(id, text) == [id |-> id, text |-> text]
Page(list) == [list |-> list, editing |-> Nothing, submitting |-> FALSE]
\* The page lists each stored review, once.
Shows(tab) ==
    LET list == section[tab].list
    IN  Len(list) = Cardinality(rows) /\ {list[i] : i \in DOMAIN list} = rows
becomes(r, pc) == posts' = (posts \ {r}) \cup {[r EXCEPT !.pc = pc]}

ReviewsInit ==
    /\ rows \in {{}, {Review(Earlier, 0)}} /\ aged \in SUBSET {x.id : x \in rows} /\ bought \in BOOLEAN
    /\ section \in [Tabs -> {Page(<<>>)} \cup {Page(<<x>>) : x \in rows}]     \* from the cache, perhaps without it
    /\ apart = {tab \in Tabs : ~Shows(tab)}
    /\ posts = {} /\ submits = 0 /\ unanswered = 0

ReviewsNotOpened ==
    /\ rows = {} /\ aged = {} /\ bought = FALSE /\ section = [tab \in Tabs |-> Page(<<>>)] /\ apart = {}
    /\ posts = {} /\ submits = 0 /\ unanswered = 0
-------------------------------------------------------------------------------
(* The page.                                                               *)
Own(tab) == {section[tab].list[i].id : i \in DOMAIN section[tab].list}
canModify(id) == id \notin aged
send(tab, does, id) ==
    /\ submits < MaxSubmits /\ submits' = submits + 1
    /\ posts' = posts \cup {[n |-> submits', tab |-> tab, does |-> does, id |-> id, pc |-> "sent"]}

startEdit(tab, id) ==
    /\ id \in Own(tab) /\ canModify(id) /\ section' = [section EXCEPT ![tab].editing = id]
    /\ UNCHANGED <<rows, aged, bought, posts, submits, unanswered, apart>>
cancelEdit(tab) ==
    /\ section[tab].editing # Nothing /\ section' = [section EXCEPT ![tab].editing = Nothing]
    /\ UNCHANGED <<rows, aged, bought, posts, submits, unanswered, apart>>

handleSubmit(tab) ==        \* the form is there without a review of her own, or to edit it
    /\ Own(tab) = {} \/ section[tab].editing # Nothing
    /\ ~section[tab].submitting /\ section' = [section EXCEPT ![tab].submitting = TRUE]
    /\ IF section[tab].editing # Nothing THEN send(tab, "update", section[tab].editing) ELSE send(tab, "create", submits + 1)
    /\ UNCHANGED <<rows, aged, bought, unanswered, apart>>

handleDelete(tab, id) ==
    /\ id \in Own(tab) /\ canModify(id) /\ send(tab, "remove", id)
    /\ UNCHANGED <<rows, aged, bought, section, unanswered, apart>>
-------------------------------------------------------------------------------
(* The service.                                                            *)
findOwnedWithinWindow(r) == canModify(r.id) /\ \E x \in rows : x.id = r.id
mayCreate == bought /\ rows = {}
check(r) ==
    /\ r.pc = "sent"
    /\ becomes(r, IF (IF r.does = "create" THEN mayCreate ELSE findOwnedWithinWindow(r)) THEN "checked" ELSE "refused")
    /\ UNCHANGED <<rows, aged, bought, section, submits, unanswered, apart>>

unique == rows = {}
\* The row a write is about is there, or for a new one is not.
writable(r) == IF r.does = "create" THEN unique ELSE \E x \in rows : x.id = r.id
write(r) ==
    /\ r.pc = "checked"
    /\ LET others == {x \in rows : x.id # r.id} IN
       IF ~writable(r) THEN becomes(r, "refused") /\ UNCHANGED <<rows, apart>>
       ELSE /\ becomes(r, "saved") /\ apart' = apart \cup (Tabs \ {r.tab})
            /\ rows' = IF r.does = "remove" THEN others ELSE others \cup {Review(r.id, r.n)}
    /\ UNCHANGED <<aged, bought, section, submits, unanswered>>

removeAdmin ==
    /\ rows # {} /\ rows' = {} /\ apart' = Tabs
    /\ UNCHANGED <<aged, bought, section, posts, submits, unanswered>>

Meanwhile ==                \* ten minutes pass; an order is paid, or refunded
    /\ \/ aged' = {x.id : x \in rows} /\ aged' # aged /\ UNCHANGED bought
       \/ bought' = ~bought /\ UNCHANGED aged
    /\ UNCHANGED <<rows, section, posts, submits, unanswered, apart>>
-------------------------------------------------------------------------------
(* The answers.                                                            *)
Without(list, id) ==        \* reviews.filter
    LET kept == {i \in DOMAIN list : list[i].id # id}
    IN  [n \in 1 .. Cardinality(kept) |-> list[CHOOSE i \in kept : Cardinality({j \in kept : j < i}) = n - 1]]
setReviews(list, r) ==
    CASE r.does = "create" -> <<Review(r.id, r.n)>> \o list
      [] r.does = "update" -> [i \in DOMAIN list |-> IF list[i].id = r.id THEN Review(r.id, r.n) ELSE list[i]]
      [] r.does = "remove" -> Without(list, r.id)

\* mutant: a removal is not taken from the page.
savedKeepsRemoved(r) == IF r.does = "remove" THEN section[r.tab] ELSE Page(setReviews(section[r.tab].list, r))
saved(r) == IF r.does = "remove" THEN [section[r.tab] EXCEPT !.list = setReviews(@, r)] ELSE Page(setReviews(section[r.tab].list, r))
reviewRefused(r) == IF r.does = "remove" THEN section[r.tab] ELSE [section[r.tab] EXCEPT !.submitting = FALSE]
reviewAnswered(r) ==
    /\ r.pc \in {"saved", "refused"} /\ posts' = posts \ {r}
    /\ section' = [section EXCEPT ![r.tab] = IF r.pc = "saved" THEN saved(r) ELSE reviewRefused(r)]
    /\ UNCHANGED <<rows, aged, bought, submits, unanswered, apart>>

reviewLost(r) ==            \* served or not; the handler ends there
    /\ unanswered < MaxUnanswered /\ unanswered' = unanswered + 1
    /\ r.pc # "checked" /\ posts' = posts \ {r} /\ apart' = apart \cup {r.tab}
    /\ UNCHANGED <<rows, aged, bought, section, submits>>
-------------------------------------------------------------------------------
Reviewed == \E r \in posts : check(r) \/ write(r) \/ reviewAnswered(r)
ReviewsNext ==
    \/ removeAdmin \/ Meanwhile \/ Reviewed
    \/ \E r \in posts : reviewLost(r)
    \/ \E tab \in Tabs :
         \/ cancelEdit(tab) \/ handleSubmit(tab)
         \/ \E id \in Own(tab) : startEdit(tab, id) \/ handleDelete(tab, id)

ReviewsFairness == WF_reviewVars(Reviewed)
ReviewsSpec == ReviewsInit /\ [][ReviewsNext]_reviewVars /\ ReviewsFairness
-------------------------------------------------------------------------------
\* One review of a customer is stored, whatever is sent from several tabs at
\* once, and with no request under way a page shows it as it is stored, unless it
\* was changed elsewhere, an answer was lost, or the page came from the cache.
PageShowsTheReview ==
    /\ Cardinality(rows) <= 1
    /\ posts = {} => \A tab \in Tabs \ apart : Shows(tab)

\* "Saving" ends, unless the request rejected.
SavingEnds == \A tab \in Tabs : section[tab].submitting ~> ~section[tab].submitting \/ unanswered > 0
===============================================================================
