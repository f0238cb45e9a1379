------------------------------ MODULE AdminBoard ------------------------------
(***************************************************************************)
(* The admin lists: one page of rows read from the backend, the buttons of *)
(* each row, and the reload after every change.  Five pages use the hook   *)
(* useAdminList, which pages, filters and numbers its requests; four read  *)
(* their whole list with a plain load().  Sources:                         *)
(* apps/frontend/src/lib/admin-list.ts,                                    *)
(* apps/frontend/src/components/admin/ListControls.tsx and the pages under *)
(* apps/frontend/src/app/admin/.                                           *)
(*                                                                         *)
(* A row is in one place: the tab it shows under, or gone.  A button moves *)
(* it on, to the other tab or away; the backend refuses the move when the  *)
(* row is no longer where the list said.  A typed search counts once its   *)
(* delay is over, and then as a filter.                                    *)
(***************************************************************************)
EXTENDS Integers, Sequences, FiniteSets, FiniteSetsExt, SequencesExt

CONSTANTS Row,              \* rows, in the order of the list
          Board,            \* which pages of the back office are opened
          Limit,            \* rows on a page
          MaxTurns,         \* bound: times the filter or page is changed
          MaxActs,          \* bound: buttons pressed
          MaxOthers,        \* bound: changes made by other people
          MaxLost           \* bound: requests without an answer

ASSUME BoardAssumption ==
    /\ Limit \in Nat \ {0} /\ Row \in Seq(ToSet(Row))
    /\ {MaxTurns, MaxActs, MaxOthers, MaxLost} \subseteq Nat

VARIABLES board,            \* the page opened
          place,            \* database: where each row is
          key, pageNo,      \* what the list is asked for
          latest,           \* number of the newest request
          asked,            \* requests of the list on their way, read or not
          data,             \* what is shown: rows, key, page, number of the request
          acts,             \* handlers running
          busyRow,          \* the row whose buttons are disabled
          spent,            \* turns, acts, others, lost
          overtaken         \* what the properties remember: an old page was reloaded

boardVars == <<board, place, key, pageNo, latest, asked, data, acts, busyRow, spent, overtaken>>

Key == {"todo", "done"}
NoRow == "none"
-------------------------------------------------------------------------------
(* The pages: do they page and filter, is the list read again when the     *)
(* backend refused, and are the buttons back before it is read.            *)
listPage(paged, reloads, early) == [paged |-> paged, reloadsRefused |-> reloads, releasesEarly |-> early]
AdminOrdersPage     == listPage(TRUE, TRUE, FALSE)
AdminProductsPage   == listPage(TRUE, TRUE, FALSE)
AdminRequestsPage   == listPage(TRUE, TRUE, FALSE)
AdminReviewsPage    == listPage(TRUE, TRUE, FALSE)
AdminCouponsPage    == listPage(FALSE, TRUE, FALSE)
AdminBrandsPage     == listPage(FALSE, TRUE, FALSE)
AdminVehiclesPage   == listPage(FALSE, TRUE, FALSE)
AdminCategoriesPage == listPage(FALSE, FALSE, TRUE)
Pages == [orders |-> AdminOrdersPage, products |-> AdminProductsPage, requests |-> AdminRequestsPage,
          reviews |-> AdminReviewsPage, coupons |-> AdminCouponsPage, brands |-> AdminBrandsPage,
          vehicles |-> AdminVehiclesPage, categories |-> AdminCategoriesPage]
ASSUME BoardPages == Board \subseteq DOMAIN Pages
This == Pages[board]
-------------------------------------------------------------------------------
(* The backend's page of a list.                                           *)
totalPages(total) == IF total <= Limit THEN 1 ELSE (total + Limit - 1) \div Limit

\* The rows of page p under k when they are where `at` says.
pageOf(paged, at, k, p) ==
    LET holds(r) == IF paged THEN at[r] = k ELSE at[r] # "gone"
        items == SelectSeq(Row, holds)
        total == Cardinality({i \in DOMAIN Row : holds(Row[i])})
        skip == IF paged THEN (p - 1) * Limit ELSE 0
        size == Min({total - skip, IF paged THEN Limit ELSE total})
    IN  [rows |-> [i \in 1 .. size |-> <<items[skip + i], at[items[skip + i]]>>], pages |-> totalPages(total)]
paginate(k, p) == pageOf(This.paged, place, k, p)

NoAnswer == [rows |-> <<>>, pages |-> 0]
Request(n, k, p) == [n |-> n, key |-> k, page |-> p, answer |-> NoAnswer]
BoardInit ==
    /\ board \in Board /\ place \in [ToSet(Row) -> {"todo", "done"}]
    /\ key = "todo" /\ pageNo = 1 /\ latest = 1 /\ asked = {Request(1, "todo", 1)}
    /\ data = Request(0, "todo", 1) /\ acts = {} /\ busyRow = NoRow
    /\ spent = [turns |-> 0, acts |-> 0, others |-> 0, lost |-> 0] /\ overtaken = FALSE

spend(what, bound) == spent[what] < bound /\ spent' = [spent EXCEPT ![what] = @ + 1]
reload(k, p, rest) == latest' = latest + 1 /\ asked' = rest \cup {Request(latest + 1, k, p)}
-------------------------------------------------------------------------------
(* The list.                                                               *)
\* A filter, or a search once typed: back to page 1.
setFilter ==
    /\ This.paged /\ spend("turns", MaxTurns)
    /\ \E k \in Key \ {key} : key' = k /\ reload(k, 1, asked)
    /\ pageNo' = 1 /\ overtaken' = FALSE
    /\ UNCHANGED <<board, place, data, acts, busyRow>>

Pager ==
    /\ This.paged /\ spend("turns", MaxTurns)
    /\ \E p \in {data.page - 1, data.page + 1} : p \in 1 .. data.answer.pages /\ p # pageNo /\ pageNo' = p /\ reload(key, p, asked)
    /\ overtaken' = FALSE
    /\ UNCHANGED <<board, place, key, data, acts, busyRow>>

readList(q) ==
    /\ q.answer = NoAnswer
    /\ asked' = (asked \ {q}) \cup {[q EXCEPT !.answer = paginate(q.key, q.page)]}
    /\ UNCHANGED <<board, place, key, pageNo, latest, data, acts, busyRow, spent, overtaken>>

\* The handlers that wait for this request are over.
finished(n) == {a \in acts : a.pc = "loading" /\ a.n = n}
release(n) ==
    /\ acts' = acts \ finished(n)
    /\ busyRow' = IF finished(n) = {} \/ This.releasesEarly THEN busyRow ELSE NoRow

\* mutant: every answer is shown, whatever was asked since.
isLatestAny(q) == TRUE
isLatest(q) == This.paged => q.n = latest

listAnswered(q) ==
    LET passedTheEnd == This.paged /\ q.answer.rows = <<>> /\ q.page > q.answer.pages IN
    /\ q.answer # NoAnswer /\ release(q.n)
    /\ IF isLatest(q) /\ passedTheEnd
       THEN /\ pageNo' = q.answer.pages /\ data' = data
            /\ IF pageNo = q.answer.pages THEN asked' = asked \ {q} /\ latest' = latest
               ELSE reload(key, q.answer.pages, asked \ {q})
       ELSE /\ data' = IF isLatest(q) THEN q ELSE data
            /\ asked' = asked \ {q} /\ UNCHANGED <<latest, pageNo>>
    /\ UNCHANGED <<board, place, key, spent, overtaken>>

listFailed(q) ==            \* an error status: what is shown stays
    /\ spend("lost", MaxLost) /\ asked' = asked \ {q} /\ release(q.n)
    /\ UNCHANGED <<board, place, key, pageNo, latest, data, overtaken>>
-------------------------------------------------------------------------------
(* The buttons of a row.                                                   *)
act ==
    /\ spend("acts", MaxActs)
    /\ \E i \in DOMAIN data.answer.rows :
         LET r == data.answer.rows[i][1] IN
         /\ busyRow # r /\ busyRow' = r
         /\ acts' = acts \cup {[row |-> r, from |-> data.answer.rows[i][2], key |-> key, page |-> pageNo,
                                pc |-> "sent", refused |-> FALSE, n |-> spent.acts]}
    /\ UNCHANGED <<board, place, key, pageNo, latest, asked, data, overtaken>>

onward(from) == IF This.paged /\ from = "todo" THEN {"done", "gone"} ELSE {"gone"}
actServed(a) ==
    /\ a.pc = "sent"
    /\ IF place[a.row] = a.from THEN \E p \in onward(a.from) : place' = [place EXCEPT ![a.row] = p]
       ELSE place' = place
    /\ acts' = (acts \ {a}) \cup {[a EXCEPT !.pc = "served", !.refused = place[a.row] # a.from]}
    /\ UNCHANGED <<board, key, pageNo, latest, asked, data, busyRow, spent, overtaken>>

reloads(a) == ~a.refused \/ This.reloadsRefused

\* The list is read again as it was when the button was pressed.
actAnswered(a) ==
    /\ a.pc = "served"
    /\ IF reloads(a)
       THEN /\ reload(a.key, a.page, asked)
            /\ acts' = (acts \ {a}) \cup {[a EXCEPT !.pc = "loading", !.n = latest + 1]}
            /\ busyRow' = IF This.releasesEarly THEN NoRow ELSE busyRow
            /\ overtaken' = (overtaken \/ a.key # key \/ a.page # pageNo)
       ELSE acts' = acts \ {a} /\ busyRow' = NoRow /\ UNCHANGED <<latest, asked, overtaken>>
    /\ UNCHANGED <<board, place, key, pageNo, data, spent>>

actLost(a) ==               \* no answer: the handler stops, the row stays busy
    /\ a.pc # "loading" /\ spend("lost", MaxLost) /\ acts' = acts \ {a}
    /\ UNCHANGED <<board, place, key, pageNo, latest, asked, data, busyRow, overtaken>>

someoneElse ==              \* another admin, or a customer
    /\ spend("others", MaxOthers)
    /\ \E r \in ToSet(Row), p \in {"done", "gone"} : place[r] # p /\ place[r] # "gone" /\ place' = [place EXCEPT ![r] = p]
    /\ UNCHANGED <<board, key, pageNo, latest, asked, data, acts, busyRow, overtaken>>

BoardNext ==
    \/ setFilter \/ Pager \/ act \/ someoneElse
    \/ \E q \in asked : readList(q) \/ listAnswered(q) \/ listFailed(q)
    \/ \E a \in acts : actServed(a) \/ actAnswered(a) \/ actLost(a)

BoardSpec == BoardInit /\ [][BoardNext]_boardVars
-------------------------------------------------------------------------------
Quiet == asked = {} /\ acts = {} /\ spent.lost = 0

\* Once nothing is on its way, the rows shown are those of the page and filter
\* asked for, unless a handler reloaded an old page after the list had moved on.
\* And they are what the database holds: an admin sees the effect of each of
\* her buttons.  On the plain lists this needs loads that do not cross.
ShowsWhatIsAsked ==
    Quiet /\ ~overtaken =>
        /\ data.key = key /\ data.page = pageNo
        /\ spent.others = 0 /\ (This.paged \/ spent.acts <= 1) => data.answer = paginate(data.key, data.page)
===============================================================================
