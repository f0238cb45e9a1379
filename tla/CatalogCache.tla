----------------------------- MODULE CatalogCache -----------------------------
(***************************************************************************)
(* How an admin's edit reaches a cached public page: the backend's notice  *)
(* that the catalog changed, the frontend's data cache and its visitors.   *)
(* Sources: apps/backend/src/common/catalog-cache/ and, under              *)
(* apps/frontend/src/, lib/server-api.ts and app/api/revalidate/route.ts.  *)
(*                                                                         *)
(* Several edits are one change the caches have not seen, so a page and    *)
(* the answer on its way to it are either current or not.  A tick is long  *)
(* beside the timer, a notice and a fill, which end before it.             *)
(***************************************************************************)
EXTENDS Integers

CONSTANTS Ttl,              \* the revalidate time of serverFetch, in ticks
          MaxChanges,       \* bound: edits
          MaxFailures       \* bound: notices that fail, restarts of the backend

ASSUME CacheAssumption == Ttl \in Nat \ {0} /\ {MaxChanges, MaxFailures} \subseteq Nat

VARIABLES changes, failures,
          timer,            \* CatalogCacheService.timer
          notices,          \* requests to /api/revalidate under way
          entry,            \* the cached response: none, current or stale
          age,              \* ticks since it was stored
          answer,           \* the response on its way to the cache
          overlooked            \* the entry outlived a notice, or none will come

cacheVars == <<changes, failures, timer, notices, entry, age, answer, overlooked>>

CacheInit ==
    /\ changes = 0 /\ failures = 0 /\ timer = FALSE /\ notices = 0
    /\ entry = "none" /\ age = 0 /\ answer = "none" /\ overlooked = FALSE

outdated(x) == IF x = "current" THEN "stale" ELSE x

\* mutant: a write that lacks @RevalidatesCatalog.
catalogChangedSilently == UNCHANGED timer
catalogChanged == timer' = TRUE
edit ==
    /\ changes < MaxChanges /\ changes' = changes + 1
    /\ entry' = outdated(entry) /\ answer' = outdated(answer)
    /\ catalogChanged
    /\ UNCHANGED <<failures, notices, age, overlooked>>

timerFired == timer' = FALSE
notifyFrontend ==
    /\ timer /\ timerFired /\ notices' = notices + 1
    /\ UNCHANGED <<changes, failures, entry, age, answer, overlooked>>

\* Once a notice is through, an answer read before it can still be stored.
revalidate ==
    /\ notices > 0 /\ notices' = notices - 1
    /\ entry' = "none" /\ age' = 0
    /\ overlooked' = (answer = "stale")
    /\ UNCHANGED <<changes, failures, timer, answer>>

noticeLost ==               \* an error, five seconds without an answer, a restart
    /\ failures < MaxFailures /\ failures' = failures + 1
    /\ \/ notices > 0 /\ notices' = notices - 1 /\ UNCHANGED timer
       \/ timer /\ timer' = FALSE /\ UNCHANGED notices
    /\ overlooked' = TRUE
    /\ UNCHANGED <<changes, entry, age, answer>>

expired == entry = "none" \/ age >= Ttl
serverFetch ==              \* a visitor; the old entry is served meanwhile
    /\ expired /\ answer = "none" /\ answer' = "current"
    /\ UNCHANGED <<changes, failures, timer, notices, entry, age, overlooked>>

store ==
    /\ answer # "none" /\ answer' = "none"
    /\ entry' = answer /\ age' = 0
    /\ overlooked' = (overlooked /\ answer = "stale")
    /\ UNCHANGED <<changes, failures, timer, notices>>

tick ==
    /\ ~timer /\ notices = 0 /\ answer = "none" /\ entry # "none" /\ age < Ttl
    /\ age' = age + 1
    /\ UNCHANGED <<changes, failures, timer, notices, entry, answer, overlooked>>

Proceeds == notifyFrontend \/ revalidate \/ serverFetch \/ store \/ tick
CacheNext == edit \/ noticeLost \/ Proceeds

\* The process and the network go on, time passes, and someone visits.
CacheFairness == WF_cacheVars(Proceeds)
CacheSpec == CacheInit /\ [][CacheNext]_cacheVars /\ CacheFairness
-------------------------------------------------------------------------------
\* A page shows what an admin has since changed only while the notice of the
\* change is under way, or when it was lost or overtaken by a slower answer.
StaleForAReason == entry = "stale" => timer \/ notices > 0 \/ overlooked

\* Even then not for good: the entry expires and a visit replaces it.
PagesCatchUp == entry = "stale" ~> entry # "stale"
===============================================================================
