-------------------------------- MODULE Listing --------------------------------
(***************************************************************************)
(* The public catalog on /products: the listing query, and a visitor who   *)
(* filters, sorts, searches and turns the pages of what it returns.        *)
(* Sources: apps/backend/src/products/product-listing.ts and               *)
(* products.service.ts (findAll); apps/frontend/src/components/catalog/,   *)
(* lib/catalog.ts, and in components/ Navbar.tsx (the search form) and     *)
(* NavigationSkeleton.tsx.                                                 *)
(*                                                                         *)
(* One search term, one category, one truck and the in-stock box stand for *)
(* all filters.  A navigation replaces the one before it, as Next's router *)
(* does.  The cache between the two servers is in CatalogCache.            *)
(***************************************************************************)
EXTENDS Integers, Sequences, FiniteSets

CONSTANTS Parts, Facts,     \* what a part is: see FactsOf
          PageSize,         \* PAGE_SIZE, the limit of a page
          Landings,         \* the queries of the links a visit begins with, which name no page
          MaxMoves,         \* bound: navigations
          MaxShopEdits,     \* bound: sales and edits meanwhile
          MaxUnavailable,   \* bound: answers the API fails to give
          MaxEvents         \* bound: all of these together

\* relevance: 0 to 3 when the term matches it exactly; likeness: how close it is
\* to the term, 0 too far; made: when it was created.
FactsOf == [relevance : 0 .. 4, likeness : Nat, price : Nat, made : Nat, category : BOOLEAN, truck : BOOLEAN]
Queries == [search : BOOLEAN, category : BOOLEAN, truck : BOOLEAN, inStock : BOOLEAN, sort : {"newest", "price_asc"}, page : Nat \ {0}]
ASSUME ListingAssumption ==
    /\ Facts \in [Parts -> FactsOf] /\ IsFiniteSet(Parts)
    /\ \A q \in Landings : q \in Queries /\ q.page = 1
    /\ PageSize \in Nat \ {0} /\ {MaxMoves, MaxShopEdits, MaxUnavailable, MaxEvents} \subseteq Nat

VARIABLES shop,             \* quantity of each part, Hidden or Deleted
          asked,            \* the query in the URL of the page shown
          ticked,           \* the inputs of the filter form
          screen,           \* the page shown
          request,          \* the navigation under way, and how far its answer is
          inTransition, announced,      \* CatalogNav
          covered,          \* NavigationSkeleton: no, soon or shown
          moves, shopEdits, unavailable,
          walk              \* what the properties remember: pages turned from the first on

listingVars == <<shop, asked, ticked, screen, request, inTransition, announced, covered, moves, shopEdits, unavailable, walk>>

Hidden == -1
Deleted == -2
Filters == {"search", "category", "truck", "inStock"}
NoFilters == [search |-> FALSE, category |-> FALSE, truck |-> FALSE, inStock |-> FALSE, sort |-> "newest", page |-> 1]
InForm(q) == [category |-> q.category, inStock |-> q.inStock]
NoRequest == [by |-> "nobody", query |-> NoFilters, mode |-> "exact", ids |-> <<>>, gotIds |-> FALSE, total |-> -1]
Blank == [kind |-> "blank", items |-> <<>>, total |-> 0, fuzzy |-> FALSE, options |-> TRUE]

Request(by, q) == [NoRequest EXCEPT !.by = by, !.query = q]
-------------------------------------------------------------------------------
(* The query.                                                              *)
baseConditions(p, q) ==
    /\ shop[p] >= 0 /\ (q.inStock => shop[p] > 0)
    /\ (q.category => Facts[p].category) /\ (q.truck => Facts[p].truck)

wordCondition(p, mode) == IF mode = "exact" THEN Facts[p].relevance < 4 ELSE Facts[p].likeness > 0
Matching(q, mode) == {p \in Parts : baseConditions(p, q) /\ (q.search => wordCondition(p, mode))}

\* mutant: parts of one price come in any order.
tieBreakOnlyNewest(p, q) == IF q.sort = "newest" THEN -Facts[p].made ELSE 0
tieBreak(p, q) == -Facts[p].made
inStockFirst(p, q) == IF shop[p] > 0 THEN 0 ELSE 1
orderBy(p, q, mode) ==
    CASE mode = "fuzzy" -> <<inStockFirst(p, q), -Facts[p].likeness>>
      [] mode = "exact" /\ q.sort = "price_asc" -> <<inStockFirst(p, q), Facts[p].price, tieBreak(p, q)>>
      [] mode = "exact" /\ q.sort = "newest" /\ q.search -> <<inStockFirst(p, q), Facts[p].relevance, tieBreak(p, q)>>
      [] OTHER -> <<inStockFirst(p, q), tieBreak(p, q)>>

Before(a, b) == \E i \in DOMAIN a : a[i] < b[i] /\ \A j \in 1 .. i - 1 : a[j] = b[j]
NoneTwice(s) == \A i, j \in DOMAIN s : s[i] = s[j] => i = j
\* The database may return tied rows in any order.
Sorted(q, mode) ==
    LET rows == Matching(q, mode) IN
    {s \in [1 .. Cardinality(rows) -> rows] :
        /\ NoneTwice(s)
        /\ \A i, j \in DOMAIN s : i < j => ~Before(orderBy(s[j], q, mode), orderBy(s[i], q, mode))}

limit(s, from) == IF from + PageSize < Len(s) THEN from + PageSize ELSE Len(s)
buildListingQuery(s, q) == LET offset == (q.page - 1) * PageSize IN SubSeq(s, offset + 1, limit(s, offset))
totalPages(total) == IF total = 0 THEN 1 ELSE (total + PageSize - 1) \div PageSize
-------------------------------------------------------------------------------
ListingInit ==
    /\ shop \in [Parts -> {0, 1}]
    /\ asked \in Landings
    /\ ticked = InForm(asked) /\ screen = Blank /\ request = Request("link", asked)
    /\ inTransition = FALSE /\ announced = FALSE /\ covered = "no"
    /\ moves = 0 /\ shopEdits = 0 /\ unavailable = 0 /\ walk = [upTo |-> 0, items |-> <<>>]

ListingNotOpened ==
    /\ shop = [p \in Parts |-> 0] /\ asked = NoFilters
    /\ ticked = InForm(asked) /\ screen = Blank /\ request = NoRequest
    /\ inTransition = FALSE /\ announced = FALSE /\ covered = "no"
    /\ moves = 0 /\ shopEdits = 0 /\ unavailable = 0 /\ walk = [upTo |-> 0, items |-> <<>>]

Room == moves + shopEdits + unavailable < MaxEvents
CanClick == screen.kind \in {"results", "none", "unavailable"} /\ covered # "shown" /\ moves < MaxMoves /\ Room

\* CatalogNav.go: a transition, over whatever was under way.
go(by, q) ==
    /\ CanClick /\ moves' = moves + 1
    /\ request' = Request(by, q) /\ inTransition' = TRUE
    /\ UNCHANGED <<shop, asked, screen, announced, covered, shopEdits, unavailable, walk>>
-------------------------------------------------------------------------------
(* The visitor.                                                            *)
\* mutant: the page is carried along too.
navigateSamePage(t) == [asked EXCEPT !.category = t.category /\ screen.options, !.inStock = t.inStock]
\* What the form sends: its inputs, the fields carried along, and no page.
navigate(t) == [asked EXCEPT !.category = t.category /\ screen.options, !.inStock = t.inStock, !.page = 1]
CatalogFilters ==
    \E f \in {"category", "inStock"} :
        /\ f = "category" => screen.options
        /\ ticked' = [ticked EXCEPT ![f] = ~@] /\ go("form", navigate(ticked'))

SortSelect ==
    /\ screen.total > 1 /\ UNCHANGED ticked
    /\ \E s \in {"newest", "price_asc"} \ {asked.sort} : go("sort", [asked EXCEPT !.sort = s, !.page = 1])

without(f) == [asked EXCEPT ![f] = FALSE, !.page = 1]
pills == {f \in Filters \ {"truck"} : asked[f] /\ (f = "category" => screen.options)}
removePill == UNCHANGED ticked /\ \E f \in pills : go("pill", without(f))
clearAll == pills # {} /\ UNCHANGED ticked /\ go("clear", [NoFilters EXCEPT !.truck = asked.truck])

\* First, last, the neighbours, and a page that alone is missing between two.
pageNumbers(page, total) ==
    LET wanted == {1, total, page - 1, page, page + 1} \cap 1 .. total IN
    wanted \cup {n \in 2 .. total - 1 : {n - 1, n + 1} \subseteq wanted}
Pagination ==
    /\ screen.kind = "results" /\ UNCHANGED ticked
    /\ LET last == totalPages(screen.total) IN
       \E n \in (pageNumbers(asked.page, last) \cup ({asked.page - 1, asked.page + 1} \cap 1 .. last)) \ {asked.page} :
           last > 1 /\ go("page", [asked EXCEPT !.page = n])

SearchForm ==               \* the header's, announced when it changes the query
    LET q == [NoFilters EXCEPT !.search = TRUE] IN
    /\ CanClick /\ moves' = moves + 1 /\ request' = Request("search", q)
    /\ announced' = (announced \/ q # asked)
    /\ UNCHANGED <<shop, asked, ticked, screen, inTransition, covered, shopEdits, unavailable, walk>>

openPart ==                 \* a link to another page: its skeleton, when it is not there at once
    /\ screen.kind = "results" /\ CanClick /\ moves' = moves + 1
    /\ request' = Request("part", asked) /\ covered' = "soon"
    /\ UNCHANGED <<shop, asked, ticked, screen, inTransition, announced, shopEdits, unavailable, walk>>

NavigationSkeleton ==
    /\ covered = "soon" /\ covered' = "shown"
    /\ UNCHANGED <<shop, asked, ticked, screen, request, inTransition, announced, moves, shopEdits, unavailable, walk>>

\* mutant: what was announced is waited for.
announcedUntilAnswered == UNCHANGED announced
announcedGivesUp == announced' = FALSE
giveUp ==                   \* ten seconds
    /\ \/ announced /\ announcedGivesUp /\ UNCHANGED covered
       \/ covered # "no" /\ covered' = "no" /\ UNCHANGED announced
    /\ UNCHANGED <<shop, asked, ticked, screen, request, inTransition, moves, shopEdits, unavailable, walk>>
-------------------------------------------------------------------------------
(* The answer.                                                             *)
Asking == request.by \notin {"nobody", "part"}
idsRead ==
    /\ Asking /\ ~request.gotIds
    /\ \E s \in Sorted(request.query, request.mode) :
         request' = [request EXCEPT !.gotIds = TRUE, !.ids = buildListingQuery(s, request.query)]
    /\ UNCHANGED <<shop, asked, ticked, screen, inTransition, announced, covered, moves, shopEdits, unavailable, walk>>

countRead ==                \* beside the first query, or after it in one transaction
    /\ Asking /\ request.total = -1 /\ (request.mode = "fuzzy" => request.gotIds)
    /\ request' = [request EXCEPT !.total = Cardinality(Matching(request.query, request.mode))]
    /\ UNCHANGED <<shop, asked, ticked, screen, inTransition, announced, covered, moves, shopEdits, unavailable, walk>>

BothRead == Asking /\ request.gotIds /\ request.total >= 0
triesFuzzy == request.mode = "exact" /\ request.total = 0 /\ request.query.search
fuzzy ==
    /\ BothRead /\ triesFuzzy /\ request' = [Request(request.by, request.query) EXCEPT !.mode = "fuzzy"]
    /\ UNCHANGED <<shop, asked, ticked, screen, inTransition, announced, covered, moves, shopEdits, unavailable, walk>>

\* CatalogView, rendered for the query of the request.
show(kind, items, options) ==
    LET q == request.query IN
    /\ screen' = [kind |-> kind, items |-> items, total |-> IF kind = "unavailable" THEN 0 ELSE request.total,
                  fuzzy |-> request.mode = "fuzzy" /\ kind # "unavailable", options |-> options]
    /\ asked' = q /\ request' = NoRequest
    /\ ticked' = IF q = asked /\ screen # Blank THEN ticked ELSE InForm(q)      \* key={query}
    /\ inTransition' = FALSE /\ announced' = (announced /\ q = asked)           \* [urlKey]
    /\ covered' = IF q = asked THEN covered ELSE "no"
    /\ walk' = CASE kind # "results" -> [upTo |-> 0, items |-> <<>>]
                 [] kind = "results" /\ q.page = 1 -> [upTo |-> 1, items |-> items]
                 [] kind = "results" /\ walk.upTo > 0 /\ q = [asked EXCEPT !.page = walk.upTo + 1] ->
                      [upTo |-> q.page, items |-> walk.items \o items]
                 [] OTHER -> [upTo |-> 0, items |-> <<>>]

\* A part deleted meanwhile has no card.
Cards(ids) ==
    LET found == {i \in DOMAIN ids : shop[ids[i]] # Deleted}
        position(n) == CHOOSE i \in found : Cardinality({j \in found : j < i}) = n - 1 IN
    [n \in 1 .. Cardinality(found) |-> ids[position(n)]]
cardsInOrder ==
    LET items == Cards(request.ids)
        page == request.query.page
    IN  /\ BothRead /\ ~triesFuzzy
        /\ \E lost \in BOOLEAN :        \* the categories and brands
             /\ lost => unavailable < MaxUnavailable /\ Room
             /\ unavailable' = unavailable + (IF lost THEN 1 ELSE 0)
             /\ show(IF items # <<>> THEN "results" ELSE IF page > 1 THEN "notFound" ELSE "none", items, ~lost)
        /\ UNCHANGED <<shop, moves, shopEdits>>

listLost ==
    /\ Asking /\ unavailable < MaxUnavailable /\ Room /\ unavailable' = unavailable + 1
    /\ show("unavailable", <<>>, TRUE)
    /\ UNCHANGED <<shop, moves, shopEdits>>

partShown ==
    /\ request.by = "part" /\ request' = NoRequest /\ screen' = [Blank EXCEPT !.kind = "left"]
    /\ covered' = "no" /\ announced' = FALSE /\ inTransition' = FALSE
    /\ UNCHANGED <<shop, asked, ticked, moves, shopEdits, unavailable, walk>>

shopEdit ==                 \* a sale, or an admin
    /\ shopEdits < MaxShopEdits /\ Room /\ shopEdits' = shopEdits + 1
    /\ \E p \in Parts : shop[p] # Deleted /\ \E n \in {Deleted, Hidden, 0, 1} \ {shop[p]} : shop' = [shop EXCEPT ![p] = n]
    /\ UNCHANGED <<asked, ticked, screen, request, inTransition, announced, covered, moves, unavailable, walk>>
-------------------------------------------------------------------------------
Responds == idsRead \/ countRead \/ fuzzy \/ cardsInOrder \/ partShown
Visits == CatalogFilters \/ SortSelect \/ removePill \/ clearAll \/ Pagination \/ SearchForm \/ openPart
ListingNext == Visits \/ NavigationSkeleton \/ giveUp \/ listLost \/ shopEdit \/ Responds

\* The server answers, and the timers run.
ListingFairness == WF_listingVars(Responds) /\ WF_listingVars(giveUp)
ListingSpec == ListingInit /\ [][ListingNext]_listingVars /\ ListingFairness
-------------------------------------------------------------------------------
\* The rows no sort key tells apart: near-matches equally close, and parts
\* created in the same millisecond.
Tied(q, mode) ==
    \E p, r \in Matching(q, mode) :
        p # r /\ IF mode = "fuzzy" THEN inStockFirst(p, q) = inStockFirst(r, q) /\ Facts[p].likeness = Facts[r].likeness
                 ELSE Facts[p].made = Facts[r].made

\* Turning the pages from the first to the last shows every part that matches,
\* once, those in stock first (product-listing.ts:101 "In stock first, always"),
\* while the shop stays as it is, and unless some of them have no order.
PagesShowEachPartOnce ==
    LET mode == IF screen.fuzzy THEN "fuzzy" ELSE "exact" IN
    (/\ screen.kind = "results" /\ walk.upTo = totalPages(screen.total) /\ shopEdits = 0 /\ ~Tied(asked, mode))
    => /\ NoneTwice(walk.items) /\ {walk.items[i] : i \in DOMAIN walk.items} = Matching(asked, mode)
       /\ \A i, j \in DOMAIN walk.items : i < j /\ shop[walk.items[j]] > 0 => shop[walk.items[i]] > 0

\* While the shop stays as it is no link of the catalog leads to a 404, and "No
\* results" and the near-matches are shown only when nothing better matches.
NoDeadEnds ==
    shopEdits = 0 =>
        /\ screen.kind # "notFound"
        /\ screen.kind = "none" => Matching(asked, "exact") = {} /\ (asked.search => Matching(asked, "fuzzy") = {})
        /\ screen.kind = "results" /\ screen.fuzzy => Matching(asked, "exact") = {}

\* The skeletons give way to a page, also when a navigation was replaced.
SkeletonsEnd == (inTransition \/ announced \/ covered = "shown") ~> ~(inTransition \/ announced \/ covered = "shown")
================================================================================
