--------------------------- MODULE StorefrontProofs ---------------------------
(***************************************************************************)
(* What the pages of the store show, for any shelf, any times to live and  *)
(* any number of presses, forms and failures.  A page is reasoned about by *)
(* its own specification, which every behaviour of the store satisfies:    *)
(* while the visitor is elsewhere, the page stutters.                      *)
(***************************************************************************)
EXTENDS Storefront, FiniteSetTheorems, FunctionTheorems, SequenceTheorems, WellFoundedInduction, TLAPS

LEMMA StoreSteps ==
    ASSUME [StoreNext]_storeVars
    PROVE  /\ [CacheNext]_cacheVars /\ [ListingNext]_listingVars /\ [BuyBoxNext]_buyBoxVars
           /\ [ReviewsNext]_reviewVars /\ [PartRequestsNext]_requestVars
BY DEF StoreNext, OnCatalog, OnListing, OnBuyBox, OnReviews, OnRequest, storeVars

-----------------------------------------------------------------------------
(* The catalog page                                                        *)

CacheTyped ==
    /\ timer \in BOOLEAN /\ notices \in Nat /\ overlooked \in BOOLEAN
    /\ entry \in {"none", "current", "stale"} /\ answer \in {"none", "current", "stale"}

\* Also of an answer that is stale on its way to the cache a notice is coming.
CacheInv == CacheTyped /\ (entry = "stale" \/ answer = "stale" => timer \/ notices > 0 \/ overlooked)

LEMMA InitCache == CacheInit => CacheInv
<1> SUFFICES ASSUME CacheInit PROVE CacheInv
  OBVIOUS
<1>1. timer \in BOOLEAN /\ overlooked \in BOOLEAN
  BY ZenonT(20) DEF CacheInit
<1>2. notices \in Nat /\ entry = "none" /\ answer = "none"
  BY DEF CacheInit
<1> QED
  BY <1>1, <1>2 DEF CacheInv, CacheTyped

LEMMA NextCache == CacheInv /\ [CacheNext]_cacheVars => CacheInv'
<1> SUFFICES ASSUME CacheInv, [CacheNext]_cacheVars PROVE CacheInv'
  OBVIOUS
<1> USE DEF CacheInv, CacheTyped
<1>0. \A n \in Nat : n + 1 \in Nat /\ n + 1 > 0 /\ (n > 0 => n - 1 \in Nat)
  OBVIOUS
<1>1. CASE edit
  BY <1>1 DEF edit, outdated, catalogChanged
<1>2. CASE noticeLost
  <2>1. overlooked' = TRUE /\ UNCHANGED <<entry, answer>>
    BY <1>2 DEF noticeLost
  <2>2. (notices > 0 /\ notices' = notices - 1 /\ UNCHANGED timer) \/ (timer' = FALSE /\ UNCHANGED notices)
    BY <1>2, Zenon DEF noticeLost
  <2>3. notices' \in Nat /\ timer' \in BOOLEAN
    BY <1>0, <2>2, Zenon
  <2> QED
    BY <2>1, <2>3, Zenon
<1>3. CASE notifyFrontend
  <2>1. notices' = notices + 1 /\ timer' = FALSE /\ UNCHANGED <<overlooked, entry, answer>>
    BY <1>3, Zenon DEF notifyFrontend, timerFired
  <2>2. notices' \in Nat /\ notices' > 0
    BY <1>0, <2>1, Zenon
  <2> QED
    BY <2>1, <2>2, Zenon
<1>4. CASE revalidate
  <2>1. notices > 0 /\ notices' = notices - 1 /\ UNCHANGED <<timer, answer>> /\ entry' = "none" /\ overlooked' = (answer = "stale")
    BY <1>4, Zenon DEF revalidate
  <2>2. notices' \in Nat
    BY <1>0, <2>1, Zenon
  <2>3. overlooked' \in BOOLEAN /\ (overlooked' <=> answer = "stale")
    BY <2>1, Zenon
  <2> QED
    BY <2>1, <2>2, <2>3, Zenon
<1>5. CASE serverFetch \/ tick
  BY <1>5 DEF serverFetch, tick
<1>6. CASE store
  BY <1>6 DEF store
<1>7. CASE UNCHANGED cacheVars
  BY <1>7 DEF cacheVars
<1> QED
  BY <1>1, <1>2, <1>3, <1>4, <1>5, <1>6, <1>7 DEF CacheNext, Proceeds

\* A cached page shows what an admin has since changed only while the notice of
\* the change is under way, or when it was lost or overtaken by a slower answer
\* (CatalogCacheService and /api/revalidate).
THEOREM StalenessIsExplained == StoreSpec => []StaleForAReason
<1>1. StoreInit => CacheInv
  BY InitCache DEF StoreInit
<1>2. CacheInv /\ [StoreNext]_storeVars => CacheInv'
  BY NextCache, StoreSteps
<1>3. CacheInv => StaleForAReason
  BY DEF CacheInv, StaleForAReason
<1> QED
  BY <1>1, <1>2, <1>3, PTL DEF StoreSpec

-----------------------------------------------------------------------------
(* A request for a part                                                    *)

Letters == [n : Nat, name : BOOLEAN, website : BOOLEAN, from : {"guest", "customer", "expired"},
            heard : BOOLEAN, answer : {"none", "ok", "refused"}]
Rows == [n : Nat, named : BOOLEAN, linked : BOOLEAN, status : {"OPEN", "FULFILLED"}, note : BOOLEAN]

RequestTyped ==
    /\ caller \in {"guest", "customer", "expired"} /\ form \in {"closed", "open", "sending", "done"}
    /\ field \in [name : BOOLEAN, website : BOOLEAN]
    /\ requests \in SUBSET Letters /\ received \in SUBSET Rows
    /\ sends \in Nat /\ noReply \in Nat

\* The form waits for one request, the last that was sent.
FormWaits ==
    /\ \A r \in requests : r.heard => form = "sending" /\ r.n = sends /\ (r.website => field.website)
    /\ \A r, s \in requests : r.heard /\ s.heard => r = s
    /\ form = "sending" => \E r \in requests : r.heard

\* A request that was answered "ok" is stored, or a bot's.
OkIsStored ==
    /\ \A r \in requests : r.answer = "ok" => r.website \/ \E x \in received : x.n = r.n
    /\ form = "done" => field.website \/ \E x \in received : x.n = sends

\* As long as every answer came, what is stored was answered, or is about to be.
StoredOnce ==
    noReply = 0 =>
        /\ \A r \in requests : r.heard
        /\ \A x, y \in received : x = y
        /\ received # {} => form = "done" \/ \E r \in requests : r.answer = "ok"

RequestInv == RequestTyped /\ FormWaits /\ OkIsStored /\ StoredOnce /\ (\A x \in received : x.named)

LEMMA InitRequest == PartRequestsInit \/ PartRequestsNotOpened => RequestInv
<1> SUFFICES ASSUME PartRequestsInit \/ PartRequestsNotOpened PROVE RequestInv
  OBVIOUS
<1>1. /\ caller \in {"guest", "customer"} /\ form \in {"closed", "open"} /\ field = [name |-> FALSE, website |-> FALSE]
      /\ requests = {} /\ received = {} /\ sends = 0 /\ noReply = 0
  BY DEF PartRequestsInit, PartRequestsNotOpened
<1>2. field \in [name : BOOLEAN, website : BOOLEAN]
  BY <1>1
<1> QED
  BY <1>1, <1>2 DEF RequestInv, RequestTyped, FormWaits, OkIsStored, StoredOnce

\* A reply changes the answer of its request alone.
LEMMA ReplyDoes ==
    ASSUME RequestTyped, NEW r \in requests, NEW a \in {"none", "ok", "refused"}, reply(r, a)
    PROVE  /\ requests' \in SUBSET Letters
           /\ \E q \in requests' :
                 /\ q.answer = a /\ q.n = r.n /\ q.heard = r.heard /\ q.website = r.website
                 /\ \A s \in requests' : s # q => s \in requests /\ s # r
                 /\ \A s \in requests : s # r => s \in requests'
<1> DEFINE q == [r EXCEPT !.answer = a]
<1>1. r \in Letters
  BY DEF RequestTyped
<1>2. q \in Letters /\ q.answer = a /\ q.n = r.n /\ q.heard = r.heard /\ q.website = r.website
  BY <1>1 DEF Letters
<1>3. requests' = (requests \ {r}) \cup {q}
  BY DEF reply
<1> HIDE DEF q
<1> QED
  BY <1>2, <1>3 DEF RequestTyped

LEMMA SubmitKeeps == RequestInv /\ submitRequest => RequestInv'
<1> SUFFICES ASSUME RequestInv, submitRequest PROVE RequestInv'
  OBVIOUS
<1> USE DEF RequestInv
<1> DEFINE r == [n |-> sends + 1, name |-> field.name, website |-> field.website, from |-> caller,
                 heard |-> TRUE, answer |-> "none"]
<1>1. /\ form = "open" /\ sends' = sends + 1 /\ form' = "sending" /\ requests' = requests \cup {r}
      /\ UNCHANGED <<caller, field, received, counted, toNotify, noReply>>
  BY DEF submitRequest, enabled
<1>2. sends + 1 \in Nat /\ field.name \in BOOLEAN /\ field.website \in BOOLEAN
  BY DEF RequestTyped
<1>3. r \in Letters
  BY <1>2 DEF RequestTyped, Letters
<1>4. r.n = sends + 1 /\ r.heard = TRUE /\ r.website = field.website /\ r.answer = "none"
  OBVIOUS
<1> HIDE DEF r
<1>5. \A s \in requests : ~s.heard
  BY <1>1 DEF FormWaits
<1>6. RequestTyped'
  BY <1>1, <1>2, <1>3 DEF RequestTyped
<1>7. FormWaits'
  BY <1>1, <1>4, <1>5 DEF FormWaits
<1>8. OkIsStored'
  BY <1>1, <1>4 DEF OkIsStored
<1>9. StoredOnce'
  BY <1>1, <1>4 DEF StoredOnce
<1> QED
  BY <1>1, <1>6, <1>7, <1>8, <1>9

LEMMA CreateKeeps ==
    ASSUME RequestInv, NEW r \in requests, throttled(r) \/ createRequest(r)
    PROVE  RequestInv'
<1> USE DEF RequestInv
<1>1. r.answer = "none" /\ UNCHANGED <<caller, form, field, sends, noReply>>
  BY DEF throttled, createRequest
<1> DEFINE x == Row(r.n, r.name \/ r.from = "customer", r.from = "customer")
<1>2. \/ reply(r, "refused") /\ received' = received
      \/ r.website /\ reply(r, "ok") /\ received' = received
      \/ contactName(r) /\ reply(r, "ok") /\ received' = received \cup {x}
  BY DEF throttled, createRequest, rowFails
<1>3. r \in Letters
  BY DEF RequestTyped
<1>4. r.n \in Nat /\ r.name \in BOOLEAN
  BY <1>3 DEF Letters
<1>5. x.n = r.n /\ x.named = (r.name \/ r.from = "customer")
  BY DEF Row
<1>6. x \in Rows
  <2>1. (r.name \/ r.from = "customer") \in BOOLEAN /\ (r.from = "customer") \in BOOLEAN
    BY Zenon
  <2> QED
    BY <1>4, <2>1 DEF Row, Rows
<1> HIDE DEF x
<1>7. contactName(r) => x.named
  BY <1>5 DEF contactName
<1>8. PICK a \in {"ok", "refused"} : reply(r, a) /\ (a = "refused" => received' = received)
                                  /\ (a = "ok" => r.website \/ x \in received')
                                  /\ (received' = received \/ (a = "ok" /\ received' = received \cup {x} /\ x.named))
  BY <1>2, <1>7
<1>9. requests' \in SUBSET Letters
  BY <1>8, ReplyDoes
<1>10. PICK q \in requests' :
          /\ q.answer = a /\ q.n = r.n /\ q.heard = r.heard /\ q.website = r.website
          /\ \A s \in requests' : s # q => s \in requests /\ s # r
          /\ \A s \in requests : s # r => s \in requests'
  BY <1>8, ReplyDoes
<1>11. RequestTyped'
  BY <1>1, <1>6, <1>8, <1>9 DEF RequestTyped
<1>12. FormWaits'
  BY <1>1, <1>10 DEF FormWaits
<1>13. OkIsStored'
  BY <1>1, <1>5, <1>8, <1>10 DEF OkIsStored
<1>14. StoredOnce'
  <2> SUFFICES ASSUME noReply = 0
               PROVE  /\ \A s \in requests' : s.heard
                      /\ \A y, z \in received' : y = z
                      /\ received' # {} => form = "done" \/ \E s \in requests' : s.answer = "ok"
    BY <1>1 DEF StoredOnce
  <2>1. \A s \in requests : s.heard /\ s = r
    BY DEF StoredOnce, FormWaits
  <2>2. received = {}
    <3>1. form = "sending"
      BY <2>1 DEF FormWaits
    <3> QED
      BY <1>1, <2>1, <3>1 DEF StoredOnce
  <2> QED
    BY <1>8, <1>10, <2>1, <2>2
<1>15. \A y \in received' : y.named
  BY <1>8
<1> QED
  BY <1>11, <1>12, <1>13, <1>14, <1>15

LEMMA AnswerKeeps ==
    ASSUME RequestInv, NEW r \in requests, requestAnswered(r)
    PROVE  RequestInv'
<1> USE DEF RequestInv
<1>1. /\ r.answer # "none" /\ requests' = requests \ {r}
      /\ form' = IF ~r.heard THEN form ELSE IF r.answer = "ok" THEN "done" ELSE "open"
      /\ UNCHANGED <<caller, field, received, counted, toNotify, sends, noReply>>
  BY DEF requestAnswered
<1>2. r.answer \in {"ok", "refused"}
  BY <1>1 DEF RequestTyped, Letters
<1>3. RequestTyped'
  BY <1>1 DEF RequestTyped
<1>4. CASE r.heard
  <2>1. \A s \in requests' : ~s.heard
    BY <1>1, <1>4 DEF FormWaits
  <2>2. FormWaits'
    BY <1>1, <1>4, <2>1 DEF FormWaits
  <2>3. OkIsStored'
    BY <1>1, <1>2, <1>4 DEF OkIsStored, FormWaits
  <2>4. StoredOnce'
    BY <1>1, <1>2, <1>4, <2>1 DEF StoredOnce, FormWaits
  <2> QED
    BY <1>1, <1>3, <2>2, <2>3, <2>4
<1>5. CASE ~r.heard
  BY <1>1, <1>3, <1>5 DEF FormWaits, OkIsStored, StoredOnce
<1> QED
  BY <1>4, <1>5

LEMMA LossKeeps ==
    ASSUME RequestInv, NEW r \in requests, requestLost(r)
    PROVE  RequestInv'
<1> USE DEF RequestInv
<1> DEFINE q == [r EXCEPT !.heard = FALSE]
<1>1. /\ r.heard /\ noReply' = noReply + 1 /\ requests' = (requests \ {r}) \cup {q} /\ form' = "open"
      /\ UNCHANGED <<caller, field, received, counted, toNotify, sends>>
  BY DEF requestLost, caught
<1>2. r \in Letters
  BY DEF RequestTyped
<1>3. q \in Letters /\ q.heard = FALSE /\ q.n = r.n /\ q.website = r.website /\ q.answer = r.answer
  BY <1>2 DEF Letters
<1> HIDE DEF q
<1>4. RequestTyped'
  BY <1>1, <1>3 DEF RequestTyped
<1>5. FormWaits'
  BY <1>1, <1>3 DEF FormWaits
<1>6. OkIsStored'
  BY <1>1, <1>3 DEF OkIsStored
<1>7. noReply' # 0
  BY <1>1 DEF RequestTyped
<1> QED
  BY <1>1, <1>4, <1>5, <1>6, <1>7 DEF StoredOnce

LEMMA NextRequest == RequestInv /\ [PartRequestsNext]_requestVars => RequestInv'
<1> SUFFICES ASSUME RequestInv, [PartRequestsNext]_requestVars PROVE RequestInv'
  OBVIOUS
<1>1. CASE RequestProductForm
  <2>1. /\ form \in {"closed", "open"} /\ UNCHANGED <<caller, requests, received, counted, toNotify, sends, noReply>>
        /\ \/ form' = "open" /\ field' = field
           \/ form' = form /\ \E f \in {"name", "website"} : field' = [field EXCEPT ![f] = TRUE]
    BY <1>1 DEF RequestProductForm
  <2>2. field' \in [name : BOOLEAN, website : BOOLEAN] /\ (field.website => field'.website)
    BY <2>1 DEF RequestInv, RequestTyped
  <2> QED
    BY <2>1, <2>2 DEF RequestInv, RequestTyped, FormWaits, OkIsStored, StoredOnce
<1>2. CASE submitRequest
  BY <1>2, SubmitKeeps
<1>3. CASE tokenExpires \/ throttleEnds \/ notifyAdmin
  BY <1>3 DEF tokenExpires, throttleEnds, notifyAdmin, RequestInv, RequestTyped, FormWaits, OkIsStored, StoredOnce
<1>4. CASE updateAdmin
  <2>1. PICK x \in received : \E y \in {[x EXCEPT !.status = "FULFILLED"], [x EXCEPT !.note = TRUE]} :
           received' = (received \ {x}) \cup {y}
    BY <1>4 DEF updateAdmin
  <2>2. UNCHANGED <<caller, form, field, requests, counted, toNotify, sends, noReply>>
    BY <1>4 DEF updateAdmin
  <2>3. PICK y \in {[x EXCEPT !.status = "FULFILLED"], [x EXCEPT !.note = TRUE]} : received' = (received \ {x}) \cup {y}
    BY <2>1
  <2>4. x \in Rows
    BY DEF RequestInv, RequestTyped
  <2>5. y \in Rows /\ y.n = x.n /\ y.named = x.named
    BY <2>4 DEF Rows
  <2>6. RequestTyped' /\ (\A z \in received' : z.named) /\ FormWaits'
    BY <2>2, <2>3, <2>5 DEF RequestInv, RequestTyped, FormWaits
  <2>7. OkIsStored' /\ StoredOnce'
    BY <2>2, <2>3, <2>5 DEF RequestInv, OkIsStored, StoredOnce
  <2> QED
    BY <2>6, <2>7 DEF RequestInv
<1>5. CASE Requested
  BY <1>5, CreateKeeps, AnswerKeeps DEF Requested
<1>6. CASE \E r \in requests : requestLost(r)
  BY <1>6, LossKeeps
<1>7. CASE UNCHANGED requestVars
  BY <1>7 DEF requestVars, RequestInv, RequestTyped, FormWaits, OkIsStored, StoredOnce
<1> QED
  BY <1>1, <1>2, <1>3, <1>4, <1>5, <1>6, <1>7 DEF PartRequestsNext

\* A request is stored once, unless it was sent again for want of an answer, and
\* with a name to ask for; "We have your request" is said only when the store has
\* it, or to a bot (RequestProductForm and ProductRequestsService.create).
THEOREM RequestsArriveOnce == StoreSpec => []RequestArrivesOnce
<1>1. StoreInit => RequestInv
  BY InitRequest DEF StoreInit
<1>2. RequestInv /\ [StoreNext]_storeVars => RequestInv'
  BY NextRequest, StoreSteps
<1>3. RequestInv => RequestArrivesOnce
  <2> SUFFICES ASSUME RequestInv PROVE RequestArrivesOnce
    OBVIOUS
  <2>1. CASE noReply > 0
    BY <2>1 DEF RequestInv, OkIsStored, RequestArrivesOnce
  <2>2. CASE noReply = 0
    <3>1. received = {} \/ \E x : received = {x}
      BY <2>2 DEF RequestInv, StoredOnce
    <3>2. Cardinality(received) = 0 \/ Cardinality(received) = 1
      BY <3>1, FS_EmptySet, FS_Singleton, Zenon
    <3> QED
      BY <3>2 DEF RequestInv, OkIsStored, RequestArrivesOnce
  <2> QED
    BY <2>1, <2>2 DEF RequestInv, RequestTyped
<1> QED
  BY <1>1, <1>2, <1>3, PTL DEF StoreSpec

-----------------------------------------------------------------------------
(* The buy box                                                             *)

Adds == [n : Nat, button : Buttons, as : {"guest", "customer"},
         pc : {"sent", "read", "refused", "stored", "refreshing"}, seen : Nat]
Gets == [n : Int, read : BOOLEAN, quantity : Nat, at : Nat]

BoxTyped ==
    /\ adds \in SUBSET Adds /\ gets \in SUBSET Gets
    /\ line \in Nat /\ stored \in Nat /\ begun \in Nat /\ misfires \in Nat
    /\ answers \in [last : Nat, newest : Nat]
    /\ modal \in Buttons \cup {"closed"} /\ signing \in Buttons \cup {"nobody"}

\* Unless two met, the one that is about to write has read the line as it is.
ReadersCurrent ==
    ~met =>
        /\ line = stored
        /\ \A a \in adds : a.pc = "read" => a.seen = line
        /\ \A a, b \in adds : a.pc = "read" /\ b.pc = "read" => a = b

\* An answer that read the line after the latest write has it as it is.
AnswersTrue ==
    /\ \A g \in gets : g.read => g.at <= stored /\ (g.at = stored => g.quantity = line)
    /\ answers.last <= answers.newest /\ answers.newest <= stored
    /\ ~fromGuest /\ answers.last = stored => badge = line

\* An answer that is as new as the latest write was shown, or is to come.
AnswerToCome ==
    signedIn /\ ~fromGuest /\ misfires = 0 =>
        \/ answers.newest = stored
        \/ \E g \in gets : ~g.read \/ g.at = stored
        \/ \E a \in adds : a.pc = "stored"

BoxInv ==
    /\ BoxTyped /\ ReadersCurrent /\ AnswersTrue /\ AnswerToCome
    /\ ~fromGuest => \A a \in adds : a.as = "customer"

LEMMA InitBox == BuyBoxInit \/ BuyBoxNotOpened => BoxInv
<1> SUFFICES ASSUME BuyBoxInit \/ BuyBoxNotOpened PROVE BoxInv
  OBVIOUS
<1>1. /\ line \in 0 .. 1 /\ badge = 0 /\ adds = {} /\ begun = 0 /\ misfires = 0 /\ stored = line
      /\ answers = [last |-> 0, newest |-> 0] /\ modal = "closed" /\ signing = "nobody"
      /\ gets = IF signedIn THEN {Get(0)} ELSE {}
  BY DEF BuyBoxInit, BuyBoxNotOpened
<1>2. Get(0) \in Gets /\ Get(0).read = FALSE
  BY DEF Get, Gets
<1>3. BoxTyped
  BY <1>1, <1>2 DEF BoxTyped
<1>4. ReadersCurrent
  BY <1>1 DEF ReadersCurrent
<1>5. AnswersTrue
  BY <1>1, <1>2 DEF AnswersTrue
<1>6. AnswerToCome
  BY <1>1, <1>2 DEF AnswerToCome
<1> QED
  BY <1>1, <1>3, <1>4, <1>5, <1>6 DEF BoxInv

\* A press begins an add, and touches nothing else that the invariant is about.
LEMMA AddBegins ==
    ASSUME BoxTyped, NEW b \in Buttons, NEW as \in {"guest", "customer"}, doAdd(b, as)
    PROVE  /\ begun' \in Nat /\ adds' \in SUBSET Adds /\ adds \subseteq adds'
           /\ \A a \in adds' \ adds : a.pc = "sent" /\ a.as = as
           /\ (fromGuest' <=> fromGuest \/ as = "guest")
<1>1. begun' = begun + 1 /\ adds' = adds \cup {Add(begun + 1, b, as)}
  BY DEF doAdd
<1>2. fromGuest' = (fromGuest \/ as = "guest")
  BY DEF doAdd
<1>3. (fromGuest' <=> fromGuest \/ as = "guest")
  BY <1>2, Zenon
<1> DEFINE c == Add(begun + 1, b, as)
<1>4. begun + 1 \in Nat /\ adds \in SUBSET Adds
  BY DEF BoxTyped
<1>5. c = [n |-> begun + 1, button |-> b, as |-> as, pc |-> "sent", seen |-> 0]
  BY DEF Add
<1>6. adds' = adds \cup {c}
  BY <1>1
<1> HIDE DEF c
<1>7. c \in Adds /\ c.pc = "sent" /\ c.as = as
  BY <1>4, <1>5 DEF Adds
<1>8. begun' \in Nat /\ adds' \in SUBSET Adds /\ adds \subseteq adds'
  BY <1>1, <1>4, <1>6, <1>7
<1>9. \A a \in adds' \ adds : a.pc = "sent" /\ a.as = as
  BY <1>6, <1>7
<1> QED
  BY <1>3, <1>8, <1>9

LEMMA ClickKeeps ==
    ASSUME BoxInv, NEW b \in Buttons, handleClick(b)
    PROVE  BoxInv'
<1>1. UNCHANGED <<signedIn, line, badge, signing, gets, misfires, stored, met, answers>>
  BY DEF handleClick
<1>2. CASE signedIn
  <2>1. doAdd(b, "customer") /\ modal' = modal
    BY <1>2 DEF handleClick
  <2>2. /\ begun' \in Nat /\ adds' \in SUBSET Adds /\ adds \subseteq adds'
        /\ \A a \in adds' \ adds : a.pc = "sent" /\ a.as = "customer"
        /\ (fromGuest' <=> fromGuest)
    BY <2>1, AddBegins DEF BoxInv
  <2> QED
    BY <1>1, <2>1, <2>2 DEF BoxInv, BoxTyped, ReadersCurrent, AnswersTrue, AnswerToCome
<1>3. CASE ~signedIn
  <2>1. modal' = b /\ UNCHANGED <<adds, begun, fromGuest>>
    BY <1>3 DEF handleClick
  <2> QED
    BY <1>1, <2>1 DEF BoxInv, BoxTyped, ReadersCurrent, AnswersTrue, AnswerToCome
<1> QED
  BY <1>2, <1>3

LEMMA LoginKeeps == BoxInv /\ onAuthenticated => BoxInv'
<1> SUFFICES ASSUME BoxInv, onAuthenticated PROVE BoxInv'
  OBVIOUS
<1> DEFINE as == IF signedIn THEN "customer" ELSE "guest"
           g == Get(-begun')
<1>1. /\ signing # "nobody" /\ signing' = "nobody" /\ modal' = IF modal = signing THEN "closed" ELSE modal
      /\ doAdd(signing, as) /\ signedIn' = TRUE /\ gets' = gets \cup {g}
      /\ UNCHANGED <<line, badge, misfires, stored, met, answers>>
  BY DEF onAuthenticated
<1>2. signing \in Buttons /\ as \in {"guest", "customer"}
  BY <1>1 DEF BoxInv, BoxTyped
<1>3. /\ begun' \in Nat /\ adds' \in SUBSET Adds /\ adds \subseteq adds'
      /\ \A a \in adds' \ adds : a.pc = "sent" /\ a.as = as
      /\ (fromGuest' <=> fromGuest \/ as = "guest")
  BY <1>1, <1>2, AddBegins DEF BoxInv
<1>4. g \in Gets /\ g.read = FALSE
  BY <1>3 DEF Get, Gets
<1>5. (fromGuest' <=> fromGuest \/ ~signedIn) /\ (signedIn => as = "customer")
  BY <1>3
<1> HIDE DEF as, g
<1>6. BoxTyped'
  BY <1>1, <1>2, <1>3, <1>4 DEF BoxInv, BoxTyped
<1>7. ReadersCurrent'
  BY <1>1, <1>3 DEF BoxInv, ReadersCurrent
<1>8. AnswersTrue'
  BY <1>1, <1>4, <1>5 DEF BoxInv, AnswersTrue
<1>9. AnswerToCome'
  BY <1>1, <1>4 DEF AnswerToCome
<1>10. ~fromGuest' => \A a \in adds' : a.as = "customer"
  BY <1>3, <1>5 DEF BoxInv
<1> QED
  BY <1>6, <1>7, <1>8, <1>9, <1>10 DEF BoxInv

LEMMA ExistingKeeps ==
    ASSUME BoxInv, NEW a \in adds, existing(a)
    PROVE  BoxInv'
<1> DEFINE pc == IF notEnough THEN "refused" ELSE "read"
           c == [a EXCEPT !.pc = pc, !.seen = line]
<1>1. /\ a.pc = "sent" /\ adds' = (adds \ {a}) \cup {c}
      /\ UNCHANGED <<signedIn, line, badge, buttons, resets, modal, signing, gets, presses, begun, misfires, stored, answers, fromGuest>>
  BY DEF existing
<1>2. met' <=> met \/ \E other \in adds : other.pc = "read"
  <2>1. met' = (met \/ \E other \in adds : other.pc = "read")
    BY DEF existing
  <2> QED
    BY <2>1, Zenon
<1>3. a \in Adds /\ line \in Nat /\ pc \in {"refused", "read"}
  BY DEF BoxInv, BoxTyped
<1> HIDE DEF pc
<1>4. c \in Adds /\ c.pc = pc /\ c.seen = line /\ c.as = a.as
  BY <1>3 DEF Adds
<1> HIDE DEF c
<1>5. BoxTyped'
  BY <1>1, <1>4 DEF BoxInv, BoxTyped
<1>6. ReadersCurrent'
  <2> SUFFICES ASSUME ~met' PROVE ReadersCurrent'
    BY DEF ReadersCurrent
  <2>1. ~met /\ \A other \in adds : other.pc # "read"
    BY <1>2
  <2> QED
    BY <1>1, <1>4, <2>1 DEF BoxInv, ReadersCurrent
<1>7. AnswersTrue'
  BY <1>1 DEF BoxInv, AnswersTrue
<1>8. AnswerToCome'
  BY <1>1 DEF BoxInv, AnswerToCome
<1>9. ~fromGuest' => \A b \in adds' : b.as = "customer"
  BY <1>1, <1>4 DEF BoxInv
<1> QED
  BY <1>5, <1>6, <1>7, <1>8, <1>9 DEF BoxInv

LEMMA AddItemKeeps ==
    ASSUME BoxInv, NEW a \in adds, addItem(a)
    PROVE  BoxInv'
<1>1. a.pc = "read" /\ UNCHANGED <<signedIn, badge, buttons, resets, modal, signing, gets, presses, begun, misfires, met, answers, fromGuest>>
  BY DEF addItem
<1>2. a \in Adds /\ line \in Nat /\ stored \in Nat /\ a.seen \in Nat
  BY DEF BoxInv, BoxTyped, Adds
<1>3. CASE a.seen = 0 /\ line > 0
  <2> DEFINE c == [a EXCEPT !.pc = "refused"]
  <2>1. adds' = (adds \ {a}) \cup {c} /\ line' = line /\ stored' = stored + 0
    BY <1>3 DEF addItem, goesTo
  <2>2. c \in Adds /\ c.pc = "refused" /\ c.as = a.as
    BY <1>2 DEF Adds
  <2>3. stored' = stored
    BY <1>2, <2>1
  <2> HIDE DEF c
  <2> QED
    BY <1>1, <2>1, <2>2, <2>3 DEF BoxInv, BoxTyped, ReadersCurrent, AnswersTrue, AnswerToCome
<1>4. CASE ~ (a.seen = 0 /\ line > 0)
  <2> DEFINE c == [a EXCEPT !.pc = "stored"]
  <2>1. adds' = (adds \ {a}) \cup {c} /\ line' = a.seen + 1 /\ stored' = stored + 1
    BY <1>4 DEF addItem, goesTo, newQuantity
  <2>2. c \in Adds /\ c.pc = "stored" /\ c.as = a.as
    BY <1>2 DEF Adds
  <2> HIDE DEF c
  <2>3. BoxTyped'
    BY <1>1, <1>2, <2>1, <2>2 DEF BoxInv, BoxTyped
  <2>4. ReadersCurrent'
    BY <1>1, <1>2, <2>1, <2>2 DEF BoxInv, ReadersCurrent
  <2>5. AnswersTrue'
    BY <1>1, <1>2, <2>1 DEF BoxInv, BoxTyped, AnswersTrue, Gets
  <2>6. AnswerToCome'
    BY <2>1, <2>2 DEF AnswerToCome
  <2>7. ~fromGuest' => \A b \in adds' : b.as = "customer"
    BY <1>1, <2>1, <2>2 DEF BoxInv
  <2> QED
    BY <2>3, <2>4, <2>5, <2>6, <2>7 DEF BoxInv
<1> QED
  BY <1>3, <1>4

LEMMA ResponseKeeps ==
    ASSUME BoxInv, NEW a \in adds, addRefused(a) \/ addToCart(a)
    PROVE  BoxInv'
<1>1. UNCHANGED <<signedIn, line, modal, signing, presses, begun, misfires, stored, met, answers, fromGuest>>
  BY DEF addRefused, addToCart
<1>2. CASE addRefused(a)
  BY <1>1, <1>2 DEF addRefused, BoxInv, BoxTyped, ReadersCurrent, AnswersTrue, AnswerToCome
<1>3. CASE addToCart(a) /\ a.as = "guest"
  <2>1. adds' = adds \ {a} /\ UNCHANGED gets
    BY <1>3 DEF addToCart, refreshAfter, added
  <2>2. fromGuest
    BY <1>3 DEF BoxInv
  <2> QED
    BY <1>1, <2>1, <2>2 DEF BoxInv, BoxTyped, ReadersCurrent, AnswersTrue, AnswerToCome
<1>4. CASE addToCart(a) /\ a.as # "guest"
  <2> DEFINE c == [a EXCEPT !.pc = "refreshing"]
             g == Get(a.n)
  <2>1. adds' = (adds \ {a}) \cup {c} /\ gets' = gets \cup {g} /\ badge' = badge
    BY <1>4 DEF addToCart, refreshAfter, goesTo
  <2>2. a \in Adds
    BY DEF BoxInv, BoxTyped
  <2>3. c \in Adds /\ c.pc = "refreshing" /\ c.as = a.as
    BY <2>2 DEF Adds
  <2>4. a.n \in Int
    BY <2>2 DEF Adds
  <2>5. g \in Gets /\ g.read = FALSE
    BY <2>4 DEF Get, Gets
  <2> HIDE DEF c, g
  <2>6. BoxTyped'
    BY <1>1, <2>1, <2>3, <2>5 DEF BoxInv, BoxTyped
  <2>7. ReadersCurrent'
    BY <1>1, <2>1, <2>3 DEF BoxInv, ReadersCurrent
  <2>8. AnswersTrue'
    BY <1>1, <2>1, <2>5 DEF BoxInv, AnswersTrue
  <2>9. AnswerToCome'
    BY <2>1, <2>5 DEF AnswerToCome
  <2>10. ~fromGuest' => \A b \in adds' : b.as = "customer"
    BY <1>1, <2>1, <2>3 DEF BoxInv
  <2> QED
    BY <2>6, <2>7, <2>8, <2>9, <2>10 DEF BoxInv
<1> QED
  BY <1>2, <1>3, <1>4

LEMMA CartReadKeeps ==
    ASSUME BoxInv, NEW g \in gets, cartRead(g)
    PROVE  BoxInv'
<1> DEFINE h == [g EXCEPT !.read = TRUE, !.quantity = line, !.at = stored]
<1>1. /\ ~g.read /\ gets' = (gets \ {g}) \cup {h}
      /\ UNCHANGED <<signedIn, line, badge, buttons, resets, modal, signing, adds, presses, begun, misfires, stored, met, answers, fromGuest>>
  BY DEF cartRead
<1>2. g \in Gets /\ line \in Nat /\ stored \in Nat
  BY DEF BoxInv, BoxTyped
<1>3. h \in Gets /\ h.quantity = line /\ h.at = stored
  BY <1>2 DEF Gets
<1> HIDE DEF h
<1>4. BoxTyped' /\ ReadersCurrent'
  BY <1>1, <1>3 DEF BoxInv, BoxTyped, ReadersCurrent
<1>5. AnswersTrue'
  BY <1>1, <1>2, <1>3 DEF BoxInv, AnswersTrue
<1>6. AnswerToCome'
  BY <1>1, <1>3 DEF AnswerToCome
<1> QED
  BY <1>1, <1>4, <1>5, <1>6 DEF BoxInv

LEMMA CartShownKeeps ==
    ASSUME BoxInv, NEW g \in gets, cartShown(g)
    PROVE  BoxInv'
<1> DEFINE newest == IF g.at > answers.newest THEN g.at ELSE answers.newest
<1>1. /\ g.read /\ gets' = gets \ {g} /\ badge' = g.quantity
      /\ answers' = [last |-> g.at, newest |-> newest]
      /\ UNCHANGED <<signedIn, line, modal, signing, presses, begun, misfires, stored, met, fromGuest>>
  BY DEF cartShown
<1>2. adds' \subseteq adds /\ \A a \in adds : a.pc = "stored" => a \in adds'
  <2>1. CASE Awaits(g) = {}
    BY <2>1 DEF cartShown
  <2>2. CASE Awaits(g) # {}
    <3>1. PICK a \in Awaits(g) : added(a)
      BY <2>2 DEF cartShown
    <3> QED
      BY <3>1 DEF Awaits, added
  <2> QED
    BY <2>1, <2>2
<1>3. /\ g.at \in Nat /\ stored \in Nat /\ answers.newest \in Nat /\ answers.last \in Nat
      /\ g.at <= stored /\ (g.at = stored => g.quantity = line) /\ answers.newest <= stored
  BY <1>1 DEF BoxInv, BoxTyped, Gets, AnswersTrue
<1>4. newest \in Nat /\ g.at <= newest /\ newest <= stored /\ (g.at = stored \/ answers.newest = stored => newest = stored)
  BY <1>3
<1>5. answers'.last = g.at /\ answers'.newest = newest
  BY <1>1
<1> HIDE DEF newest
<1>6. answers' \in [last : Nat, newest : Nat]
  BY <1>1, <1>3, <1>4
<1>7. BoxTyped' /\ ReadersCurrent'
  BY <1>1, <1>2, <1>6 DEF BoxInv, BoxTyped, ReadersCurrent
<1>8. AnswersTrue'
  BY <1>1, <1>3, <1>4, <1>5 DEF BoxInv, AnswersTrue
<1>9. AnswerToCome'
  BY <1>1, <1>2, <1>4, <1>5 DEF BoxInv, AnswerToCome
<1> QED
  BY <1>1, <1>2, <1>7, <1>8, <1>9 DEF BoxInv

LEMMA NextBox == BoxInv /\ [BuyBoxNext]_buyBoxVars => BoxInv'
<1> SUFFICES ASSUME BoxInv, [BuyBoxNext]_buyBoxVars PROVE BoxInv'
  OBVIOUS
<1>1. CASE \E b \in Buttons : handleClick(b)
  BY <1>1, ClickKeeps
<1>2. CASE (\E b \in Buttons : wearsOff(b)) \/ UNCHANGED buyBoxVars
  BY <1>2 DEF wearsOff, buyBoxVars, BoxInv, BoxTyped, ReadersCurrent, AnswersTrue, AnswerToCome
<1>3. CASE AuthModal \/ notAuthenticated
  <2>1. /\ UNCHANGED <<signedIn, line, badge, adds, gets, begun, misfires, stored, met, answers, fromGuest>>
        /\ modal' \in {modal, "closed"} /\ signing' \in {signing, modal, "nobody"} /\ (signing' = modal => modal # "closed" \/ signing' = signing)
    BY <1>3 DEF AuthModal, notAuthenticated
  <2> QED
    BY <2>1 DEF BoxInv, BoxTyped, ReadersCurrent, AnswersTrue, AnswerToCome
<1>4. CASE onAuthenticated
  BY <1>4, LoginKeeps
<1>5. CASE rejected
  <2>1. /\ misfires' = misfires + 1 /\ adds' \subseteq adds /\ gets' \subseteq gets
        /\ UNCHANGED <<signedIn, line, badge, modal, signing, begun, stored, met, answers, fromGuest>>
    BY <1>5 DEF rejected, misfire
  <2>2. misfires' \in Nat /\ misfires' # 0
    BY <2>1 DEF BoxInv, BoxTyped
  <2> QED
    BY <2>1, <2>2 DEF BoxInv, BoxTyped, ReadersCurrent, AnswersTrue, AnswerToCome
<1>6. CASE Serves
  BY <1>6, ExistingKeeps, AddItemKeeps, ResponseKeeps, CartReadKeeps, CartShownKeeps DEF Serves
<1> QED
  BY <1>1, <1>2, <1>3, <1>4, <1>5, <1>6 DEF BuyBoxNext

\* An add that is answered as done is in the cart, unless two met, and at rest a
\* customer sees the number of items she has, unless an add rejected, an older
\* answer came last, or she was a guest when she pressed (CartContext.refresh,
\* CartService.addItem).
THEOREM BadgeFollowsTheCart == StoreSpec => []BadgeIsTheCart
<1>1. StoreInit => BoxInv
  BY InitBox DEF StoreInit
<1>2. BoxInv /\ [StoreNext]_storeVars => BoxInv'
  BY NextBox, StoreSteps
<1>3. BoxInv => BadgeIsTheCart
  BY DEF BoxInv, BadgeIsTheCart, AtRest, ReadersCurrent, AnswersTrue, AnswerToCome
<1> QED
  BY <1>1, <1>2, <1>3, PTL DEF StoreSpec

-----------------------------------------------------------------------------
(* A review                                                                *)

IsPost(r) ==
    /\ r = [n |-> r.n, tab |-> r.tab, does |-> r.does, id |-> r.id, pc |-> r.pc]
    /\ r.tab \in Tabs /\ r.does \in {"create", "update", "remove"}
ArePosts(some) == \A r \in some : IsPost(r)
IsReview(x) == x = Review(x.id, x.text)
IsPage(p) == p = [list |-> p.list, editing |-> p.editing, submitting |-> p.submitting]

ReviewsTyped ==
    /\ ArePosts(posts) /\ submits \in Nat /\ DOMAIN section = Tabs
    /\ rows = {} \/ \E x : rows = {x} /\ IsReview(x)

Saved(mine) == {r \in mine : r.pc = "saved"}
Kinds(mine) == {r.does : r \in mine}

\* A page shows one review, or none.
ShowsOneOf(list, last) == list = <<>> \/ \E y : list = <<y>> /\ y.id \in Int /\ y.id <= last

\* A form is sent once at a time, and what is sent names a review the page had,
\* or a new one.  (p: the page, mine: its requests, last: the last form's number)
FormsAre(p, mine, last) ==
    /\ IsPage(p) /\ p.submitting \in BOOLEAN /\ p.editing \in Int /\ p.editing <= last
    /\ ShowsOneOf(p.list, last)
    /\ \A r \in mine :
         /\ r.id \in Int /\ r.id <= last
         /\ r.does # "remove" => p.submitting
         /\ r.does = "create" => p.list = <<>> /\ \A s \in mine \ {r} : s.does = "remove" /\ s.id # r.id
         /\ r.does = "update" => \A s \in mine \ {r} : s.does = "remove"

\* With its saved requests answered, a page that was told of every write would
\* show what is stored.
CatchesUp(reviews, list, done) ==
    \/ \E x : /\ reviews = {x}
              /\ \/ list = <<x>> /\ done = {}
                 \/ \E r : done = {r} /\ x = Review(r.id, r.n)
                        /\ \/ r.does = "create" /\ list = <<>>
                           \/ r.does = "update" /\ \E y : list = <<y>> /\ y.id = r.id
    \/ /\ reviews = {}
       /\ \/ list = <<>> /\ \A r \in done : r.does = "update"
          \/ \E y : /\ list = <<y>>
                    /\ \E m \in done : m.does = "remove" /\ m.id = y.id
                         /\ \A r \in done : r = m \/ (r.does = "update" /\ r.id = y.id)

Of(tab) == {r \in posts : r.tab = tab}
TabIsRight(tab) ==
    FormsAre(section[tab], Of(tab), submits) /\ CatchesUp(rows, section[tab].list, Saved(Of(tab)))
ReviewsInv == ReviewsTyped /\ \A tab \in Tabs \ apart : TabIsRight(tab)

LEMMA RemovedFrom ==
    /\ \A id : Without(<<>>, id) = <<>>
    /\ \A y : Without(<<y>>, y.id) = <<>>
<1>1. ASSUME NEW list, NEW id, {i \in DOMAIN list : list[i].id # id} = {}
      PROVE  Without(list, id) = <<>>
  <2> DEFINE kept == {i \in DOMAIN list : list[i].id # id}
  <2>1. kept = {} /\ Cardinality(kept) = 0
    BY <1>1, FS_EmptySet
  <2>2. Without(list, id) = [n \in 1 .. Cardinality(kept) |-> list[CHOOSE i \in kept : Cardinality({j \in kept : j < i}) = n - 1]]
    BY DEF Without
  <2> HIDE DEF kept
  <2>3. 1 .. Cardinality(kept) = {}
    BY <2>1
  <2> QED
    BY <2>2, <2>3
<1>2. \A y : DOMAIN <<y>> = {1} /\ <<y>>[1] = y
  OBVIOUS
<1>3. DOMAIN <<>> = {}
  OBVIOUS
<1> QED
  BY <1>1, <1>2, <1>3

\* Which pages show what is stored, as long as the list has at most one review.
LEMMA ShowsOne ==
    ASSUME NEW tab
    PROVE  /\ rows = {} /\ section[tab].list = <<>> => Shows(tab)
           /\ \A x : rows = {x} /\ section[tab].list = <<x>> => Shows(tab)
<1>1. Cardinality({}) = 0 /\ \A x : Cardinality({x}) = 1
  BY FS_EmptySet, FS_Singleton
<1>2. Len(<<>>) = 0 /\ {<<>>[i] : i \in DOMAIN <<>>} = {}
  OBVIOUS
<1>3. \A x : Len(<<x>>) = 1 /\ {<<x>>[i] : i \in DOMAIN <<x>>} = {x}
  OBVIOUS
<1>4. rows = {} /\ section[tab].list = <<>> => Shows(tab)
  BY <1>1, <1>2, Zenon DEF Shows
<1>5. ASSUME NEW x, rows = {x}, section[tab].list = <<x>> PROVE Shows(tab)
  <2>1. Len(<<x>>) = Cardinality({x}) /\ {<<x>>[i] : i \in DOMAIN <<x>>} = {x}
    BY <1>1, <1>3
  <2> QED
    BY <1>5, <2>1, Zenon DEF Shows
<1> QED
  BY <1>4, <1>5

LEMMA InitReviews == ReviewsInit \/ ReviewsNotOpened => ReviewsInv
<1> SUFFICES ASSUME ReviewsInit \/ ReviewsNotOpened PROVE ReviewsInv
  OBVIOUS
<1>1. posts = {} /\ submits = 0
  BY DEF ReviewsInit, ReviewsNotOpened
<1>2. rows = {} \/ rows = {Review(Earlier, 0)}
  BY DEF ReviewsInit, ReviewsNotOpened
<1>3. IsReview(Review(Earlier, 0)) /\ Review(Earlier, 0).id = 0
  BY DEF IsReview, Review, Earlier
<1>4. /\ DOMAIN section = Tabs
      /\ \A tab \in Tabs : section[tab] = Page(<<>>) \/ \E x \in rows : section[tab] = Page(<<x>>)
      /\ \A tab \in Tabs \ apart : Shows(tab) \/ rows = {}
  BY DEF ReviewsInit, ReviewsNotOpened
<1>5. ReviewsTyped
  BY <1>1, <1>2, <1>3, <1>4 DEF ReviewsTyped, ArePosts
<1>6. ASSUME NEW tab \in Tabs \ apart
      PROVE  TabIsRight(tab)
  <2>1. \A list : /\ IsPage(Page(list)) /\ Page(list).list = list /\ Page(list).editing = -1 /\ Page(list).submitting = FALSE
    BY DEF IsPage, Page, Nothing
  <2>2. PICK list : section[tab] = Page(list) /\ (list = <<>> \/ \E x \in rows : list = <<x>>)
    BY <1>4, Zenon
  <2>3. /\ IsPage(section[tab]) /\ section[tab].editing = -1 /\ section[tab].submitting = FALSE
        /\ section[tab].list = list
    BY <2>1, <2>2, Zenon
  <2>4. section[tab].submitting \in BOOLEAN
    BY <2>3, Zenon
  <2>5. Of(tab) = {} /\ Saved(Of(tab)) = {}
    BY <1>1 DEF Of, Saved
  <2>6. CASE rows = {}
    <3>1. section[tab].list = <<>>
      BY <2>2, <2>3, <2>6
    <3> QED
      BY <1>1, <2>3, <2>4, <2>5, <2>6, <3>1 DEF TabIsRight, FormsAre, CatchesUp, ShowsOneOf
  <2>7. CASE rows = {Review(Earlier, 0)}
    <3>1. PICK x : x = Review(Earlier, 0)
      OBVIOUS
    <3>2. Shows(tab) /\ (section[tab].list = <<>> \/ section[tab].list = <<x>>)
      BY <1>4, <2>2, <2>3, <2>7, <3>1
    <3>3. section[tab].list # <<>>
      <4>1. Cardinality(rows) = 1 /\ Len(<<>>) = 0
        BY <2>7, FS_Singleton
      <4> QED
        BY <3>2, <4>1 DEF Shows
    <3>4. section[tab].list = <<x>> /\ rows = {x} /\ x.id = 0
      BY <1>3, <2>7, <3>1, <3>2, <3>3
    <3> QED
      BY <1>1, <2>3, <2>4, <2>5, <3>4 DEF TabIsRight, FormsAre, CatchesUp, ShowsOneOf
  <2> QED
    BY <1>2, <2>6, <2>7
<1> QED
  BY <1>5, <1>6 DEF ReviewsInv

-----------------------------------------------------------------------------

\* More numbers given out change nothing.
LEMMA LaterForms ==
    ASSUME NEW p, NEW mine, ArePosts(mine), NEW last \in Nat, NEW later \in Nat, later >= last, FormsAre(p, mine, last)
    PROVE  FormsAre(p, mine, later)
BY DEF FormsAre, IsPost, ArePosts, ShowsOneOf

\* A tab that an action does not concern.
LEMMA TabAside ==
    ASSUME NEW tab, TabIsRight(tab), ArePosts(posts), submits \in Nat, submits' \in Nat, submits' >= submits,
           UNCHANGED rows, section'[tab] = section[tab], Of(tab)' = Of(tab)
    PROVE  TabIsRight(tab)'
<1>1. ArePosts(Of(tab))
  BY DEF Of, ArePosts
<1>2. FormsAre(section[tab], Of(tab), submits')
  BY <1>1, LaterForms DEF TabIsRight
<1> QED
  BY <1>2 DEF TabIsRight

\* A request goes on to its next step.
LEMMA RequestMoves ==
    ASSUME ReviewsTyped, NEW r \in posts, NEW pc \in {"sent", "checked", "saved", "refused"}, becomes(r, pc)
    PROVE  \E moved : /\ IsPost(moved) /\ posts' = (posts \ {r}) \cup {moved} /\ moved.pc = pc
                               /\ moved.n = r.n /\ moved.tab = r.tab /\ moved.does = r.does /\ moved.id = r.id
<1>1. PICK moved : moved = [r EXCEPT !.pc = pc] /\ posts' = (posts \ {r}) \cup {moved}
  BY DEF becomes
<1>2. IsPost(r)
  BY DEF ReviewsTyped, ArePosts
<1>3. /\ IsPost(moved) /\ moved.pc = pc /\ moved.n = r.n /\ moved.tab = r.tab /\ moved.does = r.does /\ moved.id = r.id
  BY <1>1, <1>2 DEF IsPost, ArePosts
<1> QED
  BY <1>1, <1>3

LEMMA FormsOfMoved ==
    ASSUME NEW p, NEW mine, NEW last, FormsAre(p, mine, last), NEW r \in mine, NEW moved,
           moved.does = r.does, moved.id = r.id
    PROVE  FormsAre(p, (mine \ {r}) \cup {moved}, last)
<1> DEFINE then == (mine \ {r}) \cup {moved}
<1>1. \A s \in then : s \in mine \ {r} \/ s = moved
  OBVIOUS
<1>2. ASSUME NEW s \in then
      PROVE  \E t \in mine : t.does = s.does /\ t.id = s.id /\ \A u \in then \ {s} : \E v \in mine \ {t} : v.does = u.does /\ v.id = u.id
  <2>1. CASE s = moved
    <3>1. \A u \in then \ {s} : u \in mine \ {r}
      BY <2>1
    <3> QED
      BY <2>1, <3>1
  <2>2. CASE s \in mine \ {r} /\ s # moved
    <3>1. ASSUME NEW u \in then \ {s} PROVE \E v \in mine \ {s} : v.does = u.does /\ v.id = u.id
      BY <2>2
    <3> QED
      BY <2>2, <3>1
  <2> QED
    BY <1>1, <2>1, <2>2
<1> HIDE DEF then
<1> QED
  BY <1>2 DEF FormsAre

LEMMA OfMoved ==
    ASSUME NEW r \in posts, NEW moved, moved.tab = r.tab, posts' = (posts \ {r}) \cup {moved}
    PROVE  /\ Of(r.tab)' = (Of(r.tab) \ {r}) \cup {moved}
           /\ \A tab : tab # r.tab => Of(tab)' = Of(tab)
BY DEF Of

\* A write that the database takes, seen from the tab that sent it.
LEMMA WriteIsCaughtUp ==
    ASSUME NEW p, NEW mine, NEW last, FormsAre(p, mine, last), NEW reviews, CatchesUp(reviews, p.list, Saved(mine)),
           NEW r \in mine, r.pc # "saved", r.does \in {"create", "update", "remove"},
           NEW moved, moved.does = r.does, moved.id = r.id, moved.n = r.n,
           IF r.does = "create" THEN reviews = {} ELSE \E x \in reviews : x.id = r.id,
           NEW after, after = IF r.does = "remove" THEN {x \in reviews : x.id # r.id}
                              ELSE {x \in reviews : x.id # r.id} \cup {Review(r.id, r.n)}
    PROVE  CatchesUp(after, p.list, Saved(mine) \cup {moved})
<1>1. \A s \in Saved(mine) : s \in mine \ {r} /\ s \in mine
  BY DEF Saved
<1>2. \A id, n : Review(id, n).id = id
  BY DEF Review
<1>3. CASE r.does = "create"
  <2>1. reviews = {} /\ p.list = <<>> /\ after = {Review(r.id, r.n)}
    BY <1>3 DEF FormsAre
  <2>2. \A s \in Saved(mine) : s.does = "remove" /\ s.does = "update"
    <3>1. \A s \in Saved(mine) : s.does = "remove"
      BY <1>1, <1>3 DEF FormsAre
    <3>2. \A y : <<>> # <<y>>
      OBVIOUS
    <3> QED
      BY <2>1, <3>1, <3>2, Zenon DEF CatchesUp
  <2>3. Saved(mine) \cup {moved} = {moved}
    BY <2>2
  <2> QED
    BY <1>3, <2>1, <2>3, Zenon DEF CatchesUp
<1>4. CASE r.does = "update"
  <2>1. PICK x : reviews = {x} /\ x.id = r.id
    BY <1>4 DEF CatchesUp
  <2>2. after = {Review(r.id, r.n)}
    BY <1>4, <2>1
  <2>3. \A s \in Saved(mine) : s.does = "remove"
    BY <1>1, <1>4 DEF FormsAre
  <2>4. p.list = <<x>> /\ Saved(mine) = {}
    BY <2>1, <2>3 DEF CatchesUp
  <2>5. Saved(mine) \cup {moved} = {moved}
    BY <2>4
  <2>6. moved.does = "update" /\ x.id = moved.id /\ Review(r.id, r.n) = Review(moved.id, moved.n)
    BY <1>4, <2>1
  <2> QED
    BY <2>2, <2>4, <2>5, <2>6, Zenon DEF CatchesUp
<1>5. CASE r.does = "remove"
  <2>1. PICK x : reviews = {x} /\ x.id = r.id
    BY <1>5 DEF CatchesUp
  <2>2. after = {}
    BY <1>5, <2>1
  <2>3. \A s \in Saved(mine) : s.does = "create" => s.id # r.id
    BY <1>1 DEF FormsAre
  <2>4. \/ p.list = <<x>> /\ Saved(mine) = {}
        \/ \E s, y : Saved(mine) = {s} /\ s.does = "update" /\ p.list = <<y>> /\ y.id = s.id /\ s.id = r.id
    BY <1>2, <2>1, <2>3 DEF CatchesUp
  <2>5. CASE p.list = <<x>> /\ Saved(mine) = {}
    <3>1. Saved(mine) \cup {moved} = {moved}
      BY <2>5
    <3> QED
      BY <1>5, <2>1, <2>2, <2>5, <3>1, Zenon DEF CatchesUp
  <2>6. CASE \E s, y : Saved(mine) = {s} /\ s.does = "update" /\ p.list = <<y>> /\ y.id = s.id /\ s.id = r.id
    <3>1. PICK s, y : Saved(mine) = {s} /\ s.does = "update" /\ p.list = <<y>> /\ y.id = s.id /\ s.id = r.id
      BY <2>6
    <3>2. \A t \in Saved(mine) \cup {moved} : t = moved \/ (t.does = "update" /\ t.id = y.id)
      BY <3>1
    <3>3. moved \in Saved(mine) \cup {moved} /\ moved.does = "remove" /\ moved.id = y.id
      BY <1>5, <3>1
    <3> QED
      BY <2>2, <3>1, <3>2, <3>3, Zenon DEF CatchesUp
  <2> QED
    BY <2>4, <2>5, <2>6
<1> QED
  BY <1>3, <1>4, <1>5

\* The answer to a write, on the page that sent it.
LEMMA AnswerIsCaughtUp ==
    ASSUME NEW p, NEW mine, ArePosts(mine), NEW last \in Nat, FormsAre(p, mine, last),
           NEW reviews, CatchesUp(reviews, p.list, Saved(mine)),
           NEW r \in mine, r.pc = "saved", NEW list,
           list = setReviews(p.list, r)
    PROVE  /\ CatchesUp(reviews, list, Saved(mine \ {r}))
           /\ ShowsOneOf(list, last)
           /\ "create" \notin Kinds(mine \ {r})
           /\ r.does # "remove" => Kinds(mine \ {r}) \subseteq {"remove"}
<1>1. r \in Saved(mine) /\ IsPost(r) /\ Saved(mine \ {r}) = Saved(mine) \ {r}
  BY DEF Saved, ArePosts
<1>2. \A id, n : Review(id, n).id = id
  BY DEF Review
<1>3. r.id \in Int /\ r.id <= last /\ r.does \in {"create", "update", "remove"}
  BY <1>1 DEF FormsAre, IsPost, ArePosts
<1>4. CASE r.does = "create"
  <2>1. p.list = <<>> /\ list = <<Review(r.id, r.n)>>
    <3>1. p.list = <<>>
      BY <1>4 DEF FormsAre
    <3>2. list = <<Review(r.id, r.n)>> \o p.list
      BY <1>4 DEF setReviews
    <3> QED
      BY <3>1, <3>2
  <2>2. \A s \in mine \ {r} : s.does = "remove"
    BY <1>4 DEF FormsAre
  <2>3. reviews = {Review(r.id, r.n)} /\ Saved(mine) = {r}
    BY <1>1, <1>4, <2>1 DEF CatchesUp
  <2>4. Saved(mine \ {r}) = {}
    BY <1>1, <2>3
  <2>5. CatchesUp(reviews, list, Saved(mine \ {r}))
    BY <2>1, <2>3, <2>4, Zenon DEF CatchesUp
  <2> QED
    BY <1>2, <1>3, <2>1, <2>2, <2>5 DEF ShowsOneOf, Kinds
<1>5. CASE r.does = "update"
  <2>1. \A s \in mine \ {r} : s.does = "remove"
    BY <1>5 DEF FormsAre
  <2>2. ASSUME NEW y, p.list = <<y>>, y.id = r.id PROVE list = <<Review(r.id, r.n)>>
    BY <1>5, <2>2 DEF setReviews
  <2>3. ASSUME p.list = <<>> PROVE list = <<>>
    BY <1>5, <2>3 DEF setReviews
  <2>4. CASE \E x : reviews = {x}
    <3>1. PICK x, y : reviews = {x} /\ x = Review(r.id, r.n) /\ Saved(mine) = {r} /\ p.list = <<y>> /\ y.id = r.id
      BY <1>1, <1>5, <2>4 DEF CatchesUp
    <3>2. list = <<x>> /\ Saved(mine \ {r}) = {}
      BY <1>1, <2>2, <3>1
    <3>3. CatchesUp(reviews, list, Saved(mine \ {r}))
      BY <3>1, <3>2, Zenon DEF CatchesUp
    <3>4. x.id = r.id
      BY <1>2, <3>1
    <3>5. x.id \in Int /\ x.id <= last
      BY <1>3, <3>4
    <3>6. list = <<>> \/ \E z : list = <<z>> /\ z.id \in Int /\ z.id <= last
      BY <3>2, <3>5, Zenon
    <3> QED
      BY <1>5, <2>1, <3>3, <3>6 DEF ShowsOneOf, Kinds
  <2>5. CASE reviews = {} /\ p.list = <<>>
    <3>1. \A s \in Saved(mine \ {r}) : s.does = "update"
      <4>1. \A y : <<>> # <<y>>
        OBVIOUS
      <4>2. \A x : {x} # {}
        OBVIOUS
      <4>3. \A s \in Saved(mine) : s.does = "update"
        BY <2>5, <4>1, <4>2, Zenon DEF CatchesUp
      <4> QED
        BY <1>1, <4>3
    <3>2. CatchesUp(reviews, list, Saved(mine \ {r}))
      BY <2>3, <2>5, <3>1, Zenon DEF CatchesUp
    <3> QED
      BY <1>5, <2>1, <2>3, <2>5, <3>2 DEF ShowsOneOf, Kinds
  <2>6. CASE reviews = {} /\ \E y : /\ p.list = <<y>>
                                    /\ \E m \in Saved(mine) : m.does = "remove" /\ m.id = y.id
                                         /\ \A s \in Saved(mine) : s = m \/ (s.does = "update" /\ s.id = y.id)
    <3>1. PICK y, m : p.list = <<y>> /\ m \in Saved(mine) /\ m.does = "remove" /\ m.id = y.id
                                   /\ \A s \in Saved(mine) : s = m \/ (s.does = "update" /\ s.id = y.id)
      BY <2>6
    <3>2. r # m /\ y.id = r.id /\ m \in Saved(mine \ {r})
      BY <1>1, <1>5, <3>1
    <3>3. PICK z : z = Review(r.id, r.n)
      OBVIOUS
    <3>4. list = <<z>> /\ z.id = r.id /\ m.id = z.id
      BY <1>2, <2>2, <3>1, <3>2, <3>3
    <3>5. \A s \in Saved(mine \ {r}) : s = m \/ (s.does = "update" /\ s.id = z.id)
      BY <1>1, <3>1, <3>2, <3>4
    <3>6. CatchesUp(reviews, list, Saved(mine \ {r}))
      BY <2>6, <3>1, <3>2, <3>4, <3>5, Zenon DEF CatchesUp
    <3> QED
      BY <1>3, <1>5, <2>1, <3>4, <3>6 DEF ShowsOneOf, Kinds
  <2> QED
    BY <2>4, <2>5, <2>6, Zenon DEF CatchesUp
<1>6. CASE r.does = "remove"
  <2>1. PICK y : reviews = {} /\ p.list = <<y>> /\ r.id = y.id /\ \A s \in Saved(mine) \ {r} : s.does = "update"
    BY <1>1, <1>6 DEF CatchesUp
  <2>2. list = <<>>
    BY <1>6, <2>1, RemovedFrom DEF setReviews
  <2>3. \A s \in Saved(mine \ {r}) : s.does = "update"
    BY <1>1, <2>1
  <2>4. CatchesUp(reviews, list, Saved(mine \ {r}))
    BY <2>1, <2>2, <2>3, Zenon DEF CatchesUp
  <2>5. \A s \in mine \ {r} : s.does # "create"
    <3>1. p.list # <<>>
      BY <2>1
    <3> QED
      BY <3>1 DEF FormsAre
  <2> QED
    BY <1>6, <2>2, <2>4, <2>5 DEF ShowsOneOf, Kinds
<1> QED
  BY <1>3, <1>4, <1>5, <1>6

-----------------------------------------------------------------------------

\* A request that is checked or refused, neither answered nor written.
LEMMA RequestDecided ==
    ASSUME ReviewsInv, NEW r \in posts, r.pc # "saved", NEW pc \in {"checked", "refused"}, becomes(r, pc),
           UNCHANGED <<rows, section, submits, apart>>
    PROVE  ReviewsInv'
<1>1. PICK moved : /\ IsPost(moved) /\ posts' = (posts \ {r}) \cup {moved} /\ moved.pc = pc
                             /\ moved.n = r.n /\ moved.tab = r.tab /\ moved.does = r.does /\ moved.id = r.id
  BY RequestMoves DEF ReviewsInv
<1>2. ReviewsTyped'
  BY <1>1 DEF ReviewsInv, ReviewsTyped, ArePosts
<1>3. ASSUME NEW tab \in Tabs \ apart PROVE TabIsRight(tab)'
  <2>1. TabIsRight(tab) /\ ArePosts(posts) /\ submits \in Nat
    BY <1>3 DEF ReviewsInv, ReviewsTyped
  <2>2. CASE tab # r.tab
    <3>1. Of(tab)' = Of(tab)
      BY <1>1, <2>2, OfMoved
    <3> QED
      BY <2>1, <3>1, TabAside
  <2>3. CASE tab = r.tab
    <3>1. Of(tab)' = (Of(tab) \ {r}) \cup {moved} /\ r \in Of(tab)
      BY <1>1, <2>3, OfMoved DEF Of
    <3>2. FormsAre(section[tab], (Of(tab) \ {r}) \cup {moved}, submits)
      BY <1>1, <2>1, <3>1, FormsOfMoved DEF TabIsRight
    <3>3. Saved((Of(tab) \ {r}) \cup {moved}) = Saved(Of(tab))
      BY <1>1 DEF Saved
    <3> QED
      BY <2>1, <3>1, <3>2, <3>3 DEF TabIsRight
  <2> QED
    BY <2>2, <2>3
<1> QED
  BY <1>2, <1>3 DEF ReviewsInv

LEMMA ReviewWritten ==
    ASSUME ReviewsInv, NEW r \in posts, write(r), writable(r)
    PROVE  ReviewsInv'
<1>1. /\ r.pc = "checked" /\ UNCHANGED <<section, submits>> /\ becomes(r, "saved") /\ apart' = apart \cup (Tabs \ {r.tab})
      /\ rows' = IF r.does = "remove" THEN {x \in rows : x.id # r.id} ELSE {x \in rows : x.id # r.id} \cup {Review(r.id, r.n)}
  BY DEF write
<1>2. IF r.does = "create" THEN rows = {} ELSE \E x \in rows : x.id = r.id
  BY DEF writable, unique
<1>3. PICK moved : /\ IsPost(moved) /\ posts' = (posts \ {r}) \cup {moved} /\ moved.pc = "saved"
                             /\ moved.n = r.n /\ moved.tab = r.tab /\ moved.does = r.does /\ moved.id = r.id
  BY <1>1, RequestMoves DEF ReviewsInv
<1>4. ReviewsTyped'
  <2>1. rows' = {} \/ rows' = {Review(r.id, r.n)}
    BY <1>1, <1>2 DEF ReviewsInv, ReviewsTyped
  <2>2. IsReview(Review(r.id, r.n))
    BY DEF IsReview, Review
  <2>3. ArePosts(posts') /\ submits' \in Nat /\ DOMAIN section' = Tabs
    BY <1>1, <1>3 DEF ReviewsInv, ReviewsTyped, ArePosts
  <2> QED
    BY <2>1, <2>2, <2>3 DEF ReviewsTyped
<1>5. ASSUME NEW tab \in Tabs \ apart' PROVE TabIsRight(tab)'
  <2>1. tab = r.tab /\ tab \in Tabs \ apart
    BY <1>1, <1>5
  <2>2. TabIsRight(tab) /\ IsPost(r)
    BY <2>1 DEF ReviewsInv, ReviewsTyped, ArePosts
  <2>3. Of(tab)' = (Of(tab) \ {r}) \cup {moved} /\ r \in Of(tab)
    BY <1>3, <2>1, OfMoved DEF Of
  <2>4. FormsAre(section[tab], (Of(tab) \ {r}) \cup {moved}, submits)
    BY <1>3, <2>2, <2>3, FormsOfMoved DEF TabIsRight
  <2>5. Saved((Of(tab) \ {r}) \cup {moved}) = Saved(Of(tab)) \cup {moved}
    BY <1>1, <1>3 DEF Saved
  <2>6. CatchesUp(rows', section[tab].list, Saved(Of(tab)) \cup {moved})
    <3>1. r.does \in {"create", "update", "remove"} /\ r.pc # "saved"
      BY <1>1, <2>2 DEF IsPost, ArePosts
    <3>2. FormsAre(section[tab], Of(tab), submits) /\ CatchesUp(rows, section[tab].list, Saved(Of(tab)))
      BY <2>2 DEF TabIsRight
    <3>3. PICK after : after = rows'
      OBVIOUS
    <3>4. CatchesUp(after, section[tab].list, Saved(Of(tab)) \cup {moved})
      BY <1>1, <1>2, <1>3, <2>3, <3>1, <3>2, <3>3, WriteIsCaughtUp
    <3> QED
      BY <3>3, <3>4
  <2> QED
    BY <1>1, <2>3, <2>4, <2>5, <2>6 DEF TabIsRight
<1> QED
  BY <1>4, <1>5 DEF ReviewsInv

\* The page that is told: its list, with a new form or with the one it had.
LEMMA PageSettles ==
    ASSUME NEW p, NEW mine, ArePosts(mine), NEW last \in Nat, FormsAre(p, mine, last), NEW r \in mine,
           NEW reviews, NEW q, IsPage(q), q.submitting \in BOOLEAN, q.editing \in {Nothing, p.editing},
           ShowsOneOf(q.list, last),
           q.list = p.list \/ "create" \notin Kinds(mine \ {r}),
           q.submitting = p.submitting \/ Kinds(mine \ {r}) \subseteq {"remove"},
           CatchesUp(reviews, q.list, Saved(mine \ {r}))
    PROVE  FormsAre(q, mine \ {r}, last)
<1>1. (q.editing \in Int /\ q.editing <= last) \/ q.editing = -1
  BY DEF FormsAre, Nothing
<1>2. -1 \in Int /\ -1 <= last
  OBVIOUS
<1>3. ASSUME NEW s \in mine \ {r}
      PROVE  /\ s.id <= last
             /\ s.does # "remove" => q.submitting
             /\ s.does = "create" => q.list = <<>> /\ \A t \in (mine \ {r}) \ {s} : t.does = "remove" /\ t.id # s.id
             /\ s.does = "update" => \A t \in (mine \ {r}) \ {s} : t.does = "remove"
  <2>1. /\ s.id <= last
        /\ s.does # "remove" => p.submitting
        /\ s.does = "create" => p.list = <<>> /\ \A t \in mine \ {s} : t.does = "remove" /\ t.id # s.id
        /\ s.does = "update" => \A t \in mine \ {s} : t.does = "remove"
    BY DEF FormsAre
  <2>2. s.does # "remove" => q.submitting
    BY <2>1, Zenon DEF Kinds
  <2>3. s.does = "create" => q.list = <<>>
    BY <2>1 DEF Kinds
  <2> QED
    BY <2>1, <2>2, <2>3
<1> QED
  BY <1>1, <1>2, <1>3 DEF FormsAre

LEMMA ReviewAnswered ==
    ASSUME ReviewsInv, NEW r \in posts, reviewAnswered(r)
    PROVE  ReviewsInv'
<1>1. /\ r.pc \in {"saved", "refused"} /\ posts' = posts \ {r} /\ UNCHANGED <<rows, submits, apart>>
      /\ section' = [section EXCEPT ![r.tab] = IF r.pc = "saved" THEN saved(r) ELSE reviewRefused(r)]
  BY DEF reviewAnswered
<1>2. IsPost(r) /\ ArePosts(posts) /\ submits \in Nat /\ DOMAIN section = Tabs /\ r.tab \in Tabs
  BY DEF ReviewsInv, ReviewsTyped, IsPost, ArePosts
<1>3. ReviewsTyped'
  BY <1>1 DEF ReviewsInv, ReviewsTyped, ArePosts
<1>4. ASSUME NEW tab \in Tabs \ apart, tab # r.tab PROVE TabIsRight(tab)'
  <2>1. Of(tab)' = Of(tab) /\ section'[tab] = section[tab]
    BY <1>1, <1>2, <1>4 DEF Of
  <2> QED
    BY <1>1, <1>2, <1>4, <2>1, TabAside DEF ReviewsInv
<1>5. ASSUME NEW tab \in Tabs \ apart, tab = r.tab PROVE TabIsRight(tab)'
  <2>1. /\ FormsAre(section[tab], Of(tab), submits) /\ CatchesUp(rows, section[tab].list, Saved(Of(tab)))
        /\ ArePosts(Of(tab)) /\ r \in Of(tab)
    BY <1>2, <1>5 DEF ReviewsInv, TabIsRight, Of, ArePosts
  <2>2. Of(tab)' = Of(tab) \ {r}
    BY <1>1 DEF Of
  <2>3. PICK p, q, mine : p = section[tab] /\ q = section'[tab] /\ mine = Of(tab)
    OBVIOUS
  <2>4. /\ FormsAre(p, mine, submits) /\ CatchesUp(rows, p.list, Saved(mine)) /\ ArePosts(mine) /\ r \in mine
        /\ Of(tab)' = mine \ {r}
    BY <2>1, <2>2, <2>3
  <2>5. IsPage(p) /\ p.submitting \in BOOLEAN
    BY <2>4 DEF FormsAre
  <2>6. ShowsOneOf(p.list, submits)
    BY <2>4 DEF FormsAre
  <2>7. CASE r.pc = "saved"
    <3>1. PICK list : list = setReviews(p.list, r)
      OBVIOUS
    <3>3. /\ CatchesUp(rows, list, Saved(mine \ {r}))
          /\ ShowsOneOf(list, submits)
          /\ "create" \notin Kinds(mine \ {r})
          /\ r.does # "remove" => Kinds(mine \ {r}) \subseteq {"remove"}
      <4>1. /\ ArePosts(mine) /\ submits \in Nat /\ FormsAre(p, mine, submits) /\ CatchesUp(rows, p.list, Saved(mine))
            /\ r \in mine /\ r.pc = "saved" /\ list = setReviews(p.list, r)
        BY <1>2, <2>4, <2>7, <3>1
      <4> QED
        BY <4>1, AnswerIsCaughtUp
    <3>4. q = IF r.does = "remove" THEN [p EXCEPT !.list = list] ELSE Page(list)
      BY <1>1, <1>2, <1>5, <2>3, <2>7, <3>1 DEF saved
    <3>5. CASE r.does = "remove"
      <4>1. /\ IsPage(q) /\ q.list = list /\ q.editing = p.editing /\ q.submitting = p.submitting
        BY <2>5, <3>4, <3>5 DEF IsPage
      <4>2. q.submitting \in BOOLEAN /\ (q.submitting = p.submitting \/ Kinds(mine \ {r}) \subseteq {"remove"})
        BY <2>5, <4>1, Zenon
      <4>3. FormsAre(q, mine \ {r}, submits)
        BY <1>2, <2>4, <3>3, <4>1, <4>2, PageSettles
      <4> QED
        BY <1>1, <2>3, <2>4, <3>3, <4>1, <4>3 DEF TabIsRight
    <3>6. CASE r.does # "remove"
      <4>1. /\ IsPage(q) /\ q.list = list /\ q.editing = Nothing /\ q.submitting = FALSE
        BY <3>4, <3>6 DEF IsPage, Page
      <4>2. q.submitting \in BOOLEAN /\ Kinds(mine \ {r}) \subseteq {"remove"}
        BY <3>3, <3>6, <4>1, Zenon
      <4>3. FormsAre(q, mine \ {r}, submits)
        BY <1>2, <2>4, <3>3, <4>1, <4>2, PageSettles
      <4> QED
        BY <1>1, <2>3, <2>4, <3>3, <4>1, <4>3 DEF TabIsRight
    <3> QED
      BY <3>5, <3>6
  <2>8. CASE r.pc = "refused"
    <3>1. q = IF r.does = "remove" THEN p ELSE [p EXCEPT !.submitting = FALSE]
      BY <1>1, <1>2, <1>5, <2>3, <2>8 DEF reviewRefused
    <3>2. IsPage(q) /\ q.list = p.list /\ q.editing = p.editing
      BY <2>5, <3>1 DEF IsPage
    <3>3. q.submitting \in BOOLEAN
      BY <2>5, <3>1 DEF IsPage
    <3>4. q.submitting = p.submitting \/ Kinds(mine \ {r}) \subseteq {"remove"}
      <4>1. CASE r.does = "remove"
        BY <3>1, <4>1, Zenon
      <4>2. CASE r.does # "remove"
        BY <1>2, <2>4, <4>2 DEF FormsAre, IsPost, ArePosts, Kinds
      <4> QED
        BY <4>1, <4>2
    <3>5. CatchesUp(rows, q.list, Saved(mine \ {r}))
      <4>1. Saved(mine \ {r}) = Saved(mine)
        BY <2>8 DEF Saved
      <4> QED
        BY <2>4, <3>2, <4>1
    <3>6. FormsAre(q, mine \ {r}, submits)
      BY <1>2, <2>4, <2>6, <3>2, <3>3, <3>4, <3>5, PageSettles
    <3> QED
      BY <1>1, <2>3, <2>4, <3>5, <3>6 DEF TabIsRight
  <2> QED
    BY <1>1, <2>7, <2>8
<1> QED
  BY <1>1, <1>3, <1>4, <1>5 DEF ReviewsInv

LEMMA ReviewLost ==
    ASSUME ReviewsInv, NEW r \in posts, reviewLost(r)
    PROVE  ReviewsInv'
<1>1. posts' = posts \ {r} /\ apart' = apart \cup {r.tab} /\ UNCHANGED <<rows, section, submits>>
  BY DEF reviewLost
<1>2. ReviewsTyped'
  BY <1>1 DEF ReviewsInv, ReviewsTyped, ArePosts
<1>3. ASSUME NEW tab \in Tabs \ apart' PROVE TabIsRight(tab)'
  <2>1. Of(tab)' = Of(tab) /\ tab \in Tabs \ apart
    BY <1>1, <1>3 DEF Of
  <2> QED
    BY <1>1, <2>1, TabAside DEF ReviewsInv, ReviewsTyped
<1> QED
  BY <1>2, <1>3 DEF ReviewsInv

\* A request that is sent.
LEMMA RequestSent ==
    ASSUME ReviewsInv, NEW tab \in Tabs, NEW does \in {"create", "update", "remove"}, NEW id, send(tab, does, id),
           UNCHANGED <<rows, apart>>, DOMAIN section' = Tabs, \A other \in Tabs \ {tab} : section'[other] = section[other],
           section'[tab].list = section[tab].list,
           \A n : tab \notin apart /\ n.does = does /\ n.id = id => FormsAre(section'[tab], Of(tab) \cup {n}, submits + 1)
    PROVE  ReviewsInv'
<1>1. PICK n : /\ posts' = posts \cup {n} /\ submits' = submits + 1
               /\ n = [n |-> submits + 1, tab |-> tab, does |-> does, id |-> id, pc |-> "sent"]
  BY DEF send
<1>2. submits \in Nat /\ submits' \in Nat /\ submits' >= submits /\ ArePosts(posts)
  BY <1>1 DEF ReviewsInv, ReviewsTyped
<1>3. IsPost(n) /\ n.tab = tab /\ n.does = does /\ n.id = id /\ n.pc = "sent"
  BY <1>1, <1>2 DEF IsPost, ArePosts
<1>4. ReviewsTyped'
  BY <1>1, <1>2, <1>3 DEF ReviewsInv, ReviewsTyped, ArePosts
<1>5. ASSUME NEW other \in Tabs \ apart, other # tab PROVE TabIsRight(other)'
  <2>1. Of(other)' = Of(other)
    BY <1>1, <1>3, <1>5 DEF Of
  <2> QED
    BY <1>2, <1>5, <2>1, TabAside DEF ReviewsInv
<1>6. ASSUME tab \notin apart PROVE TabIsRight(tab)'
  <2>1. Of(tab)' = Of(tab) \cup {n}
    BY <1>1, <1>3 DEF Of
  <2>2. Saved(Of(tab) \cup {n}) = Saved(Of(tab))
    BY <1>3 DEF Saved
  <2>3. FormsAre(section'[tab], Of(tab) \cup {n}, submits + 1)
    BY <1>3, <1>6
  <2>4. CatchesUp(rows, section[tab].list, Saved(Of(tab)))
    BY <1>6 DEF ReviewsInv, TabIsRight
  <2> QED
    BY <1>1, <2>1, <2>2, <2>3, <2>4 DEF TabIsRight
<1> QED
  BY <1>4, <1>5, <1>6 DEF ReviewsInv

\* What a list with at most one review says of the reviews of her own.
LEMMA OneShown ==
    ASSUME NEW tab, NEW mine, NEW last, FormsAre(section[tab], mine, last)
    PROVE  /\ Own(tab) = {} => section[tab].list = <<>>
           /\ \A id \in Own(tab) : section[tab].list # <<>> /\ id \in Int /\ id <= last
<1>1. CASE section[tab].list = <<>>
  BY <1>1 DEF Own
<1>2. CASE \E y : section[tab].list = <<y>> /\ y.id \in Int /\ y.id <= last
  <2>1. PICK y : section[tab].list = <<y>> /\ y.id \in Int /\ y.id <= last
    BY <1>2
  <2>2. Own(tab) = {y.id}
    BY <2>1 DEF Own
  <2> QED
    BY <2>1, <2>2
<1> QED
  BY <1>1, <1>2 DEF FormsAre, ShowsOneOf

LEMMA FormSent ==
    ASSUME ReviewsInv, NEW tab \in Tabs, handleSubmit(tab)
    PROVE  ReviewsInv'
<1>1. /\ Own(tab) = {} \/ section[tab].editing # Nothing
      /\ ~section[tab].submitting /\ section' = [section EXCEPT ![tab].submitting = TRUE] /\ UNCHANGED <<rows, apart>>
      /\ \/ section[tab].editing # Nothing /\ send(tab, "update", section[tab].editing)
         \/ section[tab].editing = Nothing /\ send(tab, "create", submits + 1)
  BY DEF handleSubmit
<1>2. DOMAIN section' = Tabs /\ (\A other \in Tabs \ {tab} : section'[other] = section[other])
      /\ section'[tab] = [section[tab] EXCEPT !.submitting = TRUE] /\ section'[tab].list = section[tab].list
  BY <1>1 DEF ReviewsInv, ReviewsTyped
<1>3. submits \in Nat /\ ArePosts(posts)
  BY DEF ReviewsInv, ReviewsTyped
<1>4. PICK does, id : /\ does \in {"create", "update"} /\ send(tab, does, id)
                      /\ does = "update" => id = section[tab].editing
                      /\ does = "create" => id = submits + 1 /\ Own(tab) = {}
  BY <1>1
<1>5. ASSUME tab \notin apart, NEW n, n.does = does, n.id = id
      PROVE  FormsAre(section'[tab], Of(tab) \cup {n}, submits + 1)
  <2>1. FormsAre(section[tab], Of(tab), submits) /\ ArePosts(Of(tab))
    BY <1>3, <1>5 DEF ReviewsInv, TabIsRight, Of, ArePosts
  <2>2. PICK p, q, mine : p = section[tab] /\ q = section'[tab] /\ mine = Of(tab)
    OBVIOUS
  <2>3. FormsAre(p, mine, submits) /\ ArePosts(mine) /\ IsPage(p) /\ ~p.submitting
    BY <1>1, <2>1, <2>2 DEF FormsAre
  <2>4. IsPage(q) /\ q.list = p.list /\ q.editing = p.editing /\ q.submitting = TRUE
    BY <1>2, <2>2, <2>3 DEF IsPage
  <2>5. \A s \in mine : s.does = "remove" /\ s.id \in Int /\ s.id <= submits
    BY <2>3 DEF FormsAre, IsPost, ArePosts
  <2>6. n.id \in Int /\ n.id <= submits + 1 /\ (n.does = "create" => p.list = <<>> /\ n.id = submits + 1)
    <3>1. n.does = "create" => p.list = <<>>
      BY <1>4, <1>5, <2>1, <2>2, OneShown
    <3> QED
      BY <1>3, <1>4, <1>5, <2>2, <2>3, <3>1 DEF FormsAre
  <2>7. \A s \in (mine \cup {n}) \ {n} : s.does = "remove" /\ (n.does = "create" => s.id # n.id)
    BY <1>3, <2>5, <2>6
  <2>8. q.submitting \in BOOLEAN /\ q.submitting
    BY <2>4, Zenon
  <2>9. ASSUME NEW s \in mine \cup {n}
        PROVE  /\ s.id \in Int /\ s.id <= submits + 1
               /\ s.does = "create" => q.list = <<>> /\ \A t \in (mine \cup {n}) \ {s} : t.does = "remove" /\ t.id # s.id
               /\ s.does = "update" => \A t \in (mine \cup {n}) \ {s} : t.does = "remove"
    <3>1. CASE s = n
      BY <2>4, <2>6, <2>7, <3>1
    <3>2. CASE s \in mine
      BY <1>3, <2>5, <3>2
    <3> QED
      BY <3>1, <3>2
  <2>10. /\ q.editing \in Int /\ q.editing <= submits + 1
         /\ ShowsOneOf(q.list, submits + 1)
    BY <1>3, <2>3, <2>4 DEF FormsAre, ShowsOneOf
  <2>11. FormsAre(q, mine \cup {n}, submits + 1)
    BY <2>4, <2>8, <2>9, <2>10, Zenon DEF FormsAre
  <2> QED
    BY <2>2, <2>11
<1> QED
  BY <1>1, <1>2, <1>4, <1>5, RequestSent

LEMMA RemovalSent ==
    ASSUME ReviewsInv, NEW tab \in Tabs, NEW id \in Own(tab), handleDelete(tab, id)
    PROVE  ReviewsInv'
<1>1. send(tab, "remove", id) /\ UNCHANGED <<rows, section, apart>>
  BY DEF handleDelete
<1>2. submits \in Nat /\ DOMAIN section = Tabs
  BY DEF ReviewsInv, ReviewsTyped
<1>3. ASSUME tab \notin apart, NEW n, n.does = "remove", n.id = id
      PROVE  FormsAre(section[tab], Of(tab) \cup {n}, submits + 1)
  <2>1. FormsAre(section[tab], Of(tab), submits) /\ ArePosts(Of(tab))
    BY <1>3 DEF ReviewsInv, TabIsRight, ReviewsTyped, Of, ArePosts
  <2>2. section[tab].list # <<>> /\ id \in Int /\ id <= submits
    BY <2>1, OneShown
  <2>3. FormsAre(section[tab], Of(tab), submits + 1)
    BY <1>2, <2>1, LaterForms
  <2>4. \A s \in Of(tab) : s.does # "create"
    BY <2>1, <2>2 DEF FormsAre
  <2>5. id <= submits + 1
    BY <1>2, <2>2
  <2> QED
    BY <1>3, <2>2, <2>3, <2>4, <2>5 DEF FormsAre
<1> QED
  BY <1>1, <1>2, <1>3, RequestSent

LEMMA NextReviews == ReviewsInv /\ [ReviewsNext]_reviewVars => ReviewsInv'
<1> SUFFICES ASSUME ReviewsInv, [ReviewsNext]_reviewVars PROVE ReviewsInv'
  OBVIOUS
<1>1. ASSUME NEW r \in posts, check(r) PROVE ReviewsInv'
  <2>1. r.pc = "sent" /\ UNCHANGED <<rows, section, submits, apart>> /\ \E pc \in {"checked", "refused"} : becomes(r, pc)
    BY <1>1 DEF check
  <2> QED
    BY <2>1, RequestDecided
<1>2. ASSUME NEW r \in posts, write(r) PROVE ReviewsInv'
  <2>1. CASE writable(r)
    BY <1>2, <2>1, ReviewWritten
  <2>2. CASE ~writable(r)
    <3>1. r.pc = "checked" /\ UNCHANGED <<rows, section, submits, apart>> /\ becomes(r, "refused")
      BY <1>2, <2>2 DEF write
    <3> QED
      BY <3>1, RequestDecided
  <2> QED
    BY <2>1, <2>2
<1>3. CASE removeAdmin
  <2>1. rows' = {} /\ apart' = Tabs /\ UNCHANGED <<section, posts, submits>>
    BY <1>3 DEF removeAdmin
  <2> QED
    BY <2>1 DEF ReviewsInv, ReviewsTyped, ArePosts
<1>4. ASSUME NEW tab \in Tabs, cancelEdit(tab) \/ \E id \in Own(tab) : startEdit(tab, id)
      PROVE  ReviewsInv'
  <2>1. PICK edited \in {Nothing} \cup Own(tab) :
           section' = [section EXCEPT ![tab].editing = edited] /\ UNCHANGED <<rows, posts, submits, apart>>
    BY <1>4 DEF cancelEdit, startEdit
  <2>2. /\ ReviewsTyped' /\ DOMAIN section = Tabs /\ ArePosts(posts) /\ submits \in Nat
    BY <2>1 DEF ReviewsInv, ReviewsTyped, ArePosts
  <2>3. ASSUME NEW other \in Tabs \ apart, other # tab PROVE TabIsRight(other)'
    <3>1. section'[other] = section[other] /\ Of(other)' = Of(other)
      BY <2>1, <2>2, <2>3 DEF Of
    <3> QED
      BY <2>1, <2>2, <2>3, <3>1, TabAside DEF ReviewsInv
  <2>4. ASSUME tab \notin apart PROVE TabIsRight(tab)'
    <3>1. FormsAre(section[tab], Of(tab), submits) /\ CatchesUp(rows, section[tab].list, Saved(Of(tab)))
      BY <2>4 DEF ReviewsInv, TabIsRight
    <3>2. edited \in Int /\ edited <= submits
      <4>1. \A id \in Own(tab) : id \in Int /\ id <= submits
        BY <3>1, OneShown
      <4> QED
        BY <2>2, <4>1 DEF Nothing
    <3>3. section'[tab] = [section[tab] EXCEPT !.editing = edited] /\ Of(tab)' = Of(tab)
      BY <2>1, <2>2 DEF Of
    <3>4. PICK p, q : p = section[tab] /\ q = section'[tab]
      OBVIOUS
    <3>5. FormsAre(p, Of(tab), submits) /\ IsPage(p) /\ p.submitting \in BOOLEAN
      BY <3>1, <3>4 DEF FormsAre
    <3>6. IsPage(q) /\ q.list = p.list /\ q.editing = edited /\ q.submitting = p.submitting
      BY <3>3, <3>4, <3>5 DEF IsPage
    <3>7. FormsAre(q, Of(tab), submits)
      BY <3>2, <3>5, <3>6, Zenon DEF FormsAre
    <3> QED
      BY <2>1, <3>1, <3>3, <3>4, <3>6, <3>7 DEF TabIsRight
  <2> QED
    BY <2>1, <2>2, <2>3, <2>4 DEF ReviewsInv
<1>5. CASE Meanwhile \/ UNCHANGED reviewVars
  <2>1. UNCHANGED <<rows, section, posts, submits, apart>>
    BY <1>5 DEF Meanwhile, reviewVars
  <2>2. ReviewsTyped' /\ \A tab : TabIsRight(tab)' = TabIsRight(tab)
    BY <2>1 DEF ReviewsInv, ReviewsTyped, TabIsRight, Of
  <2> QED
    BY <2>1, <2>2 DEF ReviewsInv
<1> QED
  BY <1>1, <1>2, <1>3, <1>4, <1>5, ReviewAnswered, ReviewLost, FormSent, RemovalSent DEF ReviewsNext, Reviewed

\* One review of a customer is stored, whatever is sent from several tabs at once,
\* and with no request under way a page that was told of every write lists the
\* stored review, once (ReviewsService, and setReviews of ReviewsSection.tsx).
THEOREM ReviewIsShown == StoreSpec => []PageShowsTheReview
<1>1. StoreInit => ReviewsInv
  BY InitReviews DEF StoreInit
<1>2. ReviewsInv /\ [StoreNext]_storeVars => ReviewsInv'
  BY NextReviews, StoreSteps
<1>3. ReviewsInv => PageShowsTheReview
  <2> SUFFICES ASSUME ReviewsInv PROVE PageShowsTheReview
    OBVIOUS
  <2>1. Cardinality(rows) <= 1
    <3>1. Cardinality({}) = 0 /\ \A x : Cardinality({x}) = 1
      BY FS_EmptySet, FS_Singleton
    <3>2. Cardinality(rows) \in {0, 1}
      BY <3>1 DEF ReviewsInv, ReviewsTyped
    <3> QED
      BY <3>2
  <2>2. ASSUME posts = {}, NEW tab \in Tabs \ apart PROVE Shows(tab)
    <3>1. CatchesUp(rows, section[tab].list, {})
      <4>1. Saved(Of(tab)) = {}
        BY <2>2 DEF Saved, Of
      <4> QED
        BY <2>2, <4>1 DEF ReviewsInv, TabIsRight
    <3>2. (rows = {} /\ section[tab].list = <<>>) \/ \E x : rows = {x} /\ section[tab].list = <<x>>
      BY <3>1 DEF CatchesUp
    <3> QED
      BY <3>2, ShowsOne
  <2> QED
    BY <2>1, <2>2 DEF PageShowsTheReview
<1> QED
  BY <1>1, <1>2, <1>3, PTL DEF StoreSpec

-----------------------------------------------------------------------------
(* The listing: the pages of the rows in one order                         *)

LEMMA ArePages ==
    ASSUME NEW t \in Nat, t > 0
    PROVE  /\ totalPages(t) \in Nat \ {0} /\ t <= totalPages(t) * PageSize
           /\ \A n \in 1 .. totalPages(t) : (n - 1) * PageSize < t
<1> PageSize \in Nat \ {0}
  BY ListingAssumption
<1> DEFINE m == (t + PageSize - 1) \div PageSize
<1>1. totalPages(t) = m
  BY DEF totalPages
<1>2. m \in Nat /\ PageSize * m <= t + PageSize - 1 /\ t + PageSize - 1 < PageSize * m + PageSize
  OBVIOUS
<1> HIDE DEF m
<1>3. m \in Nat \ {0}
  BY <1>2
<1>4. PageSize * m = m * PageSize
  BY <1>2
<1>5. t <= m * PageSize
  BY <1>2, <1>4
<1>6. ASSUME NEW n \in 1 .. m PROVE (n - 1) * PageSize < t
  <2>1. \A d \in Nat : d * PageSize >= 0
    OBVIOUS
  <2>2. m - n \in Nat /\ n \in Nat
    BY <1>2
  <2>3. (m - n) * PageSize >= 0
    BY <2>1, <2>2
  <2>4. (m - n) * PageSize = m * PageSize - n * PageSize /\ (n - 1) * PageSize = n * PageSize - PageSize
    BY <1>2, <2>2
  <2>5. n * PageSize \in Nat /\ m * PageSize \in Nat /\ (n - 1) * PageSize \in Int /\ (m - n) * PageSize \in Int
    BY <1>2, <2>2
  <2> QED
    BY <1>2, <1>4, <2>3, <2>4, <2>5
<1> QED
  BY <1>1, <1>3, <1>5, <1>6

\* k rows of s, after the first o.
SliceOf(ids, s, o, k, hits) == ids \in [1 .. k -> hits] /\ \A i \in 1 .. k : ids[i] = s[o + i]

LEMMA RowsFrom ==
    ASSUME NEW hits, NEW n \in Nat, NEW s \in [1 .. n -> hits], NEW o \in Nat,
           NEW k, k = IF o + PageSize < n THEN PageSize ELSE IF o < n THEN n - o ELSE 0
    PROVE  k \in Nat /\ SliceOf(SubSeq(s, o + 1, limit(s, o)), s, o, k, hits)
<1> PageSize \in Nat \ {0}
  BY ListingAssumption
<1>1. k \in Nat
  OBVIOUS
<1>2. Len(s) = n
  OBVIOUS
<1>3. PICK l : l = limit(s, o)
  OBVIOUS
<1>4. l = (IF o + PageSize < n THEN o + PageSize ELSE n)
  BY <1>2, <1>3 DEF limit
<1>5. SubSeq(s, o + 1, l) = [i \in 1 .. k |-> s[o + i]]
  <2>1. l \in Int /\ l - o <= k /\ (k = l - o \/ k = 0)
    BY <1>1, <1>4
  <2>2. 1 .. l - (o + 1) + 1 = 1 .. k
    BY <1>1, <2>1
  <2>3. SubSeq(s, o + 1, l) = [i \in 1 .. l - (o + 1) + 1 |-> s[(o + 1) + i - 1]]
    BY <1>1, <2>1
  <2>4. \A i \in 1 .. k : (o + 1) + i - 1 = o + i
    BY <1>1
  <2> QED
    BY <2>2, <2>3, <2>4
<1>6. \A i \in 1 .. k : o + i \in 1 .. n
  BY <1>1
<1> QED
  BY <1>1, <1>3, <1>5, <1>6 DEF SliceOf

LEMMA LeastOf ==
    ASSUME NEW some, some # {}, some \subseteq Nat
    PROVE  \E i \in some : \A j \in some : i <= j
<1>1. PICK less : less = {pair \in Nat \X Nat : pair[1] < pair[2]}
  OBVIOUS
<1>2. IsWellFoundedOn(less, Nat)
  BY <1>1, NatLessThanWellFounded DEF OpToRel
<1>3. PICK i \in some : \A j \in some : ~(<<j, i>> \in less)
  BY <1>2, WFMin
<1>4. \A j \in some : ~(j < i)
  BY <1>1, <1>3
<1> QED
  BY <1>4

FirstApart(s, t, i) == i \in DOMAIN s /\ s[i] # t[i] /\ \A j \in DOMAIN s : j < i => s[j] = t[j]

LEMMA FirstDifference ==
    ASSUME NEW n \in Nat, NEW hits, NEW s \in [1 .. n -> hits], NEW t \in [1 .. n -> hits], s # t
    PROVE  \E i : FirstApart(s, t, i)
<1>1. PICK differs : differs = {i \in 1 .. n : s[i] # t[i]}
  OBVIOUS
<1>2. \E i \in 1 .. n : s[i] # t[i]
  OBVIOUS
<1>3. differs # {} /\ differs \subseteq Nat
  BY <1>1, <1>2
<1>4. PICK i \in differs : \A j \in differs : i <= j
  BY <1>3, LeastOf
<1>5. \A j \in 1 .. n : j < i => j \notin differs
  BY <1>1, <1>4
<1> QED
  BY <1>1, <1>4, <1>5 DEF FirstApart

Modes == {"exact", "fuzzy"}

LEMMA TuplesCompare ==
    /\ \A a, b, c, d \in Int : a # c \/ b # d => Before(<<a, b>>, <<c, d>>) \/ Before(<<c, d>>, <<a, b>>)
    /\ \A a, b, c, d, e, f \in Int : c # f => Before(<<a, b, c>>, <<d, e, f>>) \/ Before(<<d, e, f>>, <<a, b, c>>)
<1>1. ASSUME NEW a \in Int, NEW b \in Int, NEW c \in Int, NEW d \in Int, a < c \/ (a = c /\ b < d)
      PROVE  Before(<<a, b>>, <<c, d>>)
  <2>1. CASE a < c
    BY <2>1 DEF Before
  <2>2. CASE a = c /\ b < d
    BY <2>2 DEF Before
  <2> QED
    BY <1>1, <2>1, <2>2
<1>2. ASSUME NEW a \in Int, NEW b \in Int, NEW c \in Int, NEW d \in Int, NEW e \in Int, NEW f \in Int,
             a < d \/ (a = d /\ (b < e \/ (b = e /\ c < f)))
      PROVE  Before(<<a, b, c>>, <<d, e, f>>)
  <2>1. CASE a < d
    BY <2>1 DEF Before
  <2>2. CASE a = d /\ b < e
    BY <2>2 DEF Before
  <2>3. CASE a = d /\ b = e /\ c < f
    BY <2>3 DEF Before
  <2> QED
    BY <1>2, <2>1, <2>2, <2>3
<1>3. ASSUME NEW a \in Int, NEW b \in Int, NEW c \in Int, NEW d \in Int, a # c \/ b # d
      PROVE  Before(<<a, b>>, <<c, d>>) \/ Before(<<c, d>>, <<a, b>>)
  <2>1. CASE a < c \/ (a = c /\ b < d)
    BY <1>1, <2>1
  <2>2. CASE c < a \/ (c = a /\ d < b)
    BY <1>1, <2>2
  <2> QED
    BY <1>3, <2>1, <2>2
<1>4. ASSUME NEW a \in Int, NEW b \in Int, NEW c \in Int, NEW d \in Int, NEW e \in Int, NEW f \in Int, c # f
      PROVE  Before(<<a, b, c>>, <<d, e, f>>) \/ Before(<<d, e, f>>, <<a, b, c>>)
  <2>1. CASE a < d \/ (a = d /\ (b < e \/ (b = e /\ c < f)))
    BY <1>2, <2>1
  <2>2. CASE d < a \/ (d = a /\ (e < b \/ (e = b /\ f < c)))
    BY <1>2, <2>2
  <2> QED
    BY <1>4, <2>1, <2>2
<1> QED
  BY <1>3, <1>4

\* Two rows that are not tied are in order, one way or the other.
LEMMA InOneOrder ==
    ASSUME NEW q \in Queries, NEW mode \in Modes, ~Tied(q, mode),
           NEW p \in Matching(q, mode), NEW r \in Matching(q, mode), p # r
    PROVE  Before(orderBy(p, q, mode), orderBy(r, q, mode)) \/ Before(orderBy(r, q, mode), orderBy(p, q, mode))
<1>1. p \in Parts /\ r \in Parts
  BY DEF Matching
<1>2. PICK fp \in FactsOf : fp = Facts[p]
  BY <1>1, ListingAssumption
<1>3. PICK fr \in FactsOf : fr = Facts[r]
  BY <1>1, ListingAssumption
<1>4. /\ fp.price \in Int /\ fp.relevance \in Int /\ fp.made \in Nat /\ fp.likeness \in Nat
      /\ fr.price \in Int /\ fr.relevance \in Int /\ fr.made \in Nat /\ fr.likeness \in Nat
  BY DEF FactsOf
<1>5. PICK a \in Int : a = inStockFirst(p, q)
  BY DEF inStockFirst
<1>6. PICK c \in Int : c = inStockFirst(r, q)
  BY DEF inStockFirst
<1>7. CASE mode = "fuzzy"
  <2>1. PICK b \in Int : b = -fp.likeness
    BY <1>4
  <2>2. PICK d \in Int : d = -fr.likeness
    BY <1>4
  <2>3. orderBy(p, q, mode) = <<a, b>> /\ orderBy(r, q, mode) = <<c, d>>
    BY <1>2, <1>3, <1>5, <1>6, <1>7, <2>1, <2>2 DEF orderBy
  <2>4. a # c \/ fp.likeness # fr.likeness
    BY <1>2, <1>3, <1>5, <1>6, <1>7 DEF Tied
  <2>5. a # c \/ b # d
    BY <1>4, <2>1, <2>2, <2>4
  <2> QED
    BY <2>3, <2>5, TuplesCompare
<1>8. CASE mode = "exact"
  <2>1. PICK b \in Int : b = -fp.made
    BY <1>4
  <2>2. PICK d \in Int : d = -fr.made
    BY <1>4
  <2>3. b # d
    <3>1. fp.made # fr.made
      BY <1>2, <1>3, <1>8 DEF Tied
    <3> QED
      BY <1>4, <2>1, <2>2, <3>1
  <2>4. tieBreak(p, q) = b /\ tieBreak(r, q) = d
    BY <1>2, <1>3, <2>1, <2>2 DEF tieBreak
  <2>5. CASE q.sort = "price_asc"
    <3>1. orderBy(p, q, mode) = <<a, fp.price, b>> /\ orderBy(r, q, mode) = <<c, fr.price, d>>
      BY <1>2, <1>3, <1>5, <1>6, <1>8, <2>4, <2>5 DEF orderBy
    <3> QED
      BY <1>4, <2>3, <3>1, TuplesCompare
  <2>6. CASE q.sort = "newest" /\ q.search
    <3>1. orderBy(p, q, mode) = <<a, fp.relevance, b>> /\ orderBy(r, q, mode) = <<c, fr.relevance, d>>
      BY <1>2, <1>3, <1>5, <1>6, <1>8, <2>4, <2>6 DEF orderBy
    <3> QED
      BY <1>4, <2>3, <3>1, TuplesCompare
  <2>7. CASE q.sort = "newest" /\ ~q.search
    <3>1. orderBy(p, q, mode) = <<a, b>> /\ orderBy(r, q, mode) = <<c, d>>
      BY <1>2, <1>3, <1>5, <1>6, <1>8, <2>4, <2>7 DEF orderBy
    <3> QED
      BY <2>3, <3>1, TuplesCompare
  <2> QED
    BY <2>5, <2>6, <2>7 DEF Queries
<1> QED
  BY <1>7, <1>8 DEF Modes

\* The rows of a query are finite, and each way to sort them has each of them.
LEMMA RowsSorted ==
    ASSUME NEW q, NEW mode, NEW s \in Sorted(q, mode),
           NEW hits, hits = Matching(q, mode), NEW n, n = Cardinality(hits)
    PROVE  /\ IsFiniteSet(hits) /\ n \in Nat /\ s \in [1 .. n -> hits] /\ NoneTwice(s)
           /\ \A x \in hits : \E i \in 1 .. n : x = s[i]
<1>1. IsFiniteSet(hits) /\ n \in Nat
  <2>1. hits \in SUBSET Parts
    BY DEF Matching
  <2> QED
    BY <2>1, FS_Subset, FS_CardinalityType, ListingAssumption
<1>2. s \in [1 .. n -> hits] /\ NoneTwice(s)
  BY DEF Sorted
<1>3. s \in Injection(1 .. n, hits)
  <2>1. \A i, j \in 1 .. n : s[i] = s[j] => i = j
    BY <1>2 DEF NoneTwice
  <2> QED
    BY <1>2, <2>1 DEF Injection, IsInjective
<1>4. Cardinality(1 .. n) = n
  <2>1. 1 \in Int /\ n \in Int
    BY <1>1
  <2>2. Cardinality(1 .. n) = IF 1 > n THEN 0 ELSE n - 1 + 1
    BY <2>1, FS_Interval
  <2> QED
    BY <1>1, <2>2
<1>5. s \in Surjection(1 .. n, hits)
  BY <1>1, <1>3, <1>4, FS_Injection
<1>6. \A x \in hits : \E i \in 1 .. n : x = s[i]
  BY <1>5 DEF Surjection
<1> QED
  BY <1>1, <1>2, <1>6

\* Rows of which no two are tied come in one order.
LEMMA OneOrder ==
    ASSUME NEW q \in Queries, NEW mode \in Modes, ~Tied(q, mode), NEW s \in Sorted(q, mode), NEW t \in Sorted(q, mode)
    PROVE  s = t
<1> SUFFICES ASSUME s # t PROVE FALSE
  OBVIOUS
<1>1. PICK hits : hits = Matching(q, mode)
  OBVIOUS
<1>2. PICK n : n = Cardinality(hits)
  OBVIOUS
<1>3. /\ n \in Nat /\ s \in [1 .. n -> hits] /\ t \in [1 .. n -> hits] /\ NoneTwice(s) /\ NoneTwice(t)
      /\ \A x \in hits : \E i \in 1 .. n : x = s[i]
      /\ \A x \in hits : \E i \in 1 .. n : x = t[i]
  BY <1>1, <1>2, RowsSorted
<1>4. PICK i \in 1 .. n : s[i] # t[i] /\ \A j \in 1 .. n : j < i => s[j] = t[j]
  <2>1. n \in Nat /\ s \in [1 .. n -> hits] /\ t \in [1 .. n -> hits] /\ s # t
    BY <1>3
  <2>2. PICK i : FirstApart(s, t, i)
    BY <2>1, FirstDifference
  <2>3. DOMAIN s = 1 .. n
    BY <2>1
  <2> QED
    BY <2>2, <2>3 DEF FirstApart
<1>5. s[i] \in hits /\ t[i] \in hits
  BY <1>3
<1>6. PICK k \in 1 .. n : s[i] = t[k]
  BY <1>3, <1>5
<1>7. PICK m \in 1 .. n : t[i] = s[m]
  BY <1>3, <1>5
<1>8. k # i /\ m # i
  BY <1>4, <1>6, <1>7
<1>9. ~(k < i)
  <2> SUFFICES ASSUME k < i PROVE FALSE
    OBVIOUS
  <2>1. s[k] = s[i] /\ k \in DOMAIN s /\ i \in DOMAIN s
    BY <1>3, <1>4, <1>6
  <2> QED
    BY <1>3, <1>8, <2>1, Zenon DEF NoneTwice
<1>10. ~(m < i)
  <2> SUFFICES ASSUME m < i PROVE FALSE
    OBVIOUS
  <2>1. t[m] = t[i] /\ m \in DOMAIN t /\ i \in DOMAIN t
    BY <1>3, <1>4, <1>7
  <2> QED
    BY <1>3, <1>8, <2>1, Zenon DEF NoneTwice
<1>11. i < k /\ i < m
  BY <1>3, <1>8, <1>9, <1>10
<1>12. ~Before(orderBy(t[k], q, mode), orderBy(t[i], q, mode))
  <2>1. i \in DOMAIN t /\ k \in DOMAIN t
    BY <1>3
  <2> QED
    BY <1>11, <2>1, Zenon DEF Sorted
<1>13. ~Before(orderBy(s[m], q, mode), orderBy(s[i], q, mode))
  <2>1. i \in DOMAIN s /\ m \in DOMAIN s
    BY <1>3
  <2> QED
    BY <1>11, <2>1, Zenon DEF Sorted
<1>14. ~Before(orderBy(s[i], q, mode), orderBy(t[i], q, mode)) /\ ~Before(orderBy(t[i], q, mode), orderBy(s[i], q, mode))
  BY <1>6, <1>7, <1>12, <1>13, Zenon
<1> QED
  BY <1>1, <1>4, <1>5, <1>14, InOneOrder, Zenon

\* With no part deleted every id has its card, in its place.
LEMMA CardsOfAll ==
    ASSUME shop \in [Parts -> {0, 1}], NEW n \in Nat, NEW ids \in [1 .. n -> Parts]
    PROVE  Cards(ids) = ids
<1> DEFINE found == {i \in DOMAIN ids : shop[ids[i]] # Deleted}
<1>0. Cards(ids) = [m \in 1 .. Cardinality(found) |-> ids[CHOOSE i \in found : Cardinality({j \in found : j < i}) = m - 1]]
  BY DEF Cards
<1>1. found = 1 .. n
  BY DEF Deleted
<1> HIDE DEF found
<1>2. 1 \in Int /\ n \in Int
  OBVIOUS
<1>3. Cardinality(1 .. n) = n
  <2>1. Cardinality(1 .. n) = IF 1 > n THEN 0 ELSE n - 1 + 1
    BY <1>2, FS_Interval
  <2> QED
    BY <2>1
<1>4. ASSUME NEW i \in 1 .. n PROVE Cardinality({j \in 1 .. n : j < i}) = i - 1
  <2>1. 1 \in Int /\ i - 1 \in Int
    OBVIOUS
  <2>2. PICK lower : lower = {j \in 1 .. n : j < i}
    OBVIOUS
  <2>3. lower = 1 .. i - 1
    BY <2>2
  <2>4. Cardinality(1 .. i - 1) = IF 1 > i - 1 THEN 0 ELSE (i - 1) - 1 + 1
    BY <2>1, FS_Interval
  <2>5. Cardinality(lower) = i - 1
    BY <2>3, <2>4
  <2> QED
    BY <2>2, <2>5, Zenon
<1>5. ASSUME NEW m \in 1 .. n
      PROVE  (CHOOSE i \in 1 .. n : Cardinality({j \in 1 .. n : j < i}) = m - 1) = m
  <2>1. Cardinality({j \in 1 .. n : j < m}) = m - 1
    BY <1>4
  <2>2. PICK c : c = (CHOOSE i \in 1 .. n : Cardinality({j \in 1 .. n : j < i}) = m - 1)
    OBVIOUS
  <2>3. c \in 1 .. n /\ Cardinality({j \in 1 .. n : j < c}) = m - 1
    BY <2>1, <2>2, Zenon
  <2>4. c - 1 = m - 1
    BY <1>4, <2>3
  <2>5. c = m
    BY <2>3, <2>4
  <2> QED
    BY <2>2, <2>5
<1>6. Cards(ids) = [m \in 1 .. n |-> ids[CHOOSE i \in 1 .. n : Cardinality({j \in 1 .. n : j < i}) = m - 1]]
  BY <1>0, <1>1, <1>3, Zenon
<1>7. Cards(ids) = [m \in 1 .. n |-> ids[m]]
  BY <1>5, <1>6, Zenon
<1> QED
  BY <1>7

-----------------------------------------------------------------------------
\* What the server reads of the shop: the rows that match and the ways to sort
\* them, the same for each page of a query.
Found == [q \in Queries |-> [mode \in Modes |-> Matching(q, mode)]]
Orders == [q \in Queries |-> [mode \in Modes |-> Sorted(q, mode)]]
Regular(found, orders) ==
    \A q \in Queries, mode \in Modes :
      /\ IsFiniteSet(found[q][mode]) /\ Cardinality(found[q][mode]) \in Nat /\ found[q][mode] \subseteq Parts
      /\ \A s \in orders[q][mode] : s \in [1 .. Cardinality(found[q][mode]) -> found[q][mode]]
      /\ \A r \in Queries, n \in Nat : r = [q EXCEPT !.page = n] => found[r] = found[q] /\ orders[r] = orders[q]

LEMMA ShopIsRegular == Regular(Found, Orders)
<1>1. ASSUME NEW q \in Queries, NEW mode \in Modes
      PROVE  /\ IsFiniteSet(Found[q][mode]) /\ Cardinality(Found[q][mode]) \in Nat /\ Found[q][mode] \subseteq Parts
             /\ \A s \in Orders[q][mode] : s \in [1 .. Cardinality(Found[q][mode]) -> Found[q][mode]]
  <2>1. Found[q][mode] = Matching(q, mode) /\ Orders[q][mode] = Sorted(q, mode)
    BY DEF Found, Orders
  <2>2. Matching(q, mode) \in SUBSET Parts
    BY DEF Matching
  <2>3. IsFiniteSet(Matching(q, mode)) /\ Cardinality(Matching(q, mode)) \in Nat
    BY <2>2, FS_Subset, FS_CardinalityType, ListingAssumption
  <2>4. \A s \in Sorted(q, mode) : s \in [1 .. Cardinality(Matching(q, mode)) -> Matching(q, mode)]
    BY DEF Sorted
  <2> QED
    BY <2>1, <2>2, <2>3, <2>4
<1>2. ASSUME NEW q \in Queries, NEW r \in Queries, NEW n \in Nat, r = [q EXCEPT !.page = n]
      PROVE  Found[r] = Found[q] /\ Orders[r] = Orders[q]
  <2>1. r.search = q.search /\ r.category = q.category /\ r.truck = q.truck /\ r.inStock = q.inStock /\ r.sort = q.sort
    BY <1>2 DEF Queries
  <2>2. ASSUME NEW mode \in Modes PROVE Matching(r, mode) = Matching(q, mode)
    BY <2>1 DEF Matching, baseConditions
  <2>3. ASSUME NEW mode \in Modes, NEW p PROVE orderBy(p, r, mode) = orderBy(p, q, mode)
    BY <2>1, Zenon DEF orderBy, inStockFirst, tieBreak
  <2>4. ASSUME NEW mode \in Modes PROVE Sorted(r, mode) = Sorted(q, mode)
    BY <2>2, <2>3 DEF Sorted
  <2> QED
    BY <2>2, <2>4 DEF Found, Orders
<1> QED
  BY <1>1, <1>2 DEF Regular

\* The mode whose answer is shown in the end, and how many rows it has.
InTheEnd(q, found) == IF q.search /\ found[q]["exact"] = {} THEN "fuzzy" ELSE "exact"
Total(q, found) == Cardinality(found[q][InTheEnd(q, found)])

IsRequest(r) == DOMAIN r = {"by", "query", "mode", "ids", "gotIds", "total"}
\* What is asked for has rows, unless it is the first page, and what was read so
\* far is of the rows that match.
RequestRight(r, found, orders) ==
    r.by \notin {"nobody", "part"} =>
      /\ r.query.page = 1 \/ (r.query.page - 1) * PageSize < Total(r.query, found)
      /\ r.mode \in Modes /\ (r.mode = "fuzzy" => InTheEnd(r.query, found) = "fuzzy")
      /\ r.gotIds => \E s \in orders[r.query][r.mode] : r.ids = buildListingQuery(s, r.query)
      /\ r.total # -1 => r.total = Cardinality(found[r.query][r.mode])

\* (sc: the page shown, q: its query)
ScreenRight(sc, q, found) ==
    /\ sc.kind # "notFound"
    /\ sc.kind \in {"none", "results"} => (sc.fuzzy <=> InTheEnd(q, found) = "fuzzy")
    /\ sc.kind = "none" => Total(q, found) = 0
    /\ sc.kind = "results" => sc.total = Total(q, found) /\ sc.total > 0

\* The pages turned so far are the rows in their order, from the first on.
OneOf(ways) == \A s, t \in ways : s = t
Front(s, n) == [i \in 1 .. n |-> s[i]]
PagesOf(items, s, n) == items = Front(s, limit(s, (n - 1) * PageSize))
WalkRight(w, q, found, orders) ==
    /\ w = [upTo |-> w.upTo, items |-> w.items] /\ w.upTo \in Nat
    /\ w.upTo > 0 =>
         /\ q.page = w.upTo
         /\ OneOf(orders[q][InTheEnd(q, found)]) => \E s \in orders[q][InTheEnd(q, found)] : PagesOf(w.items, s, w.upTo)

ListingTyped ==
    /\ shopEdits \in Nat /\ asked \in Queries /\ ticked \in [category : BOOLEAN, inStock : BOOLEAN]
    /\ screen.options \in BOOLEAN /\ IsRequest(request) /\ request.query \in Queries
ListingInv ==
    /\ ListingTyped
    /\ shopEdits = 0 => /\ shop \in [Parts -> {0, 1}]
                        /\ RequestRight(request, Found, Orders)
                        /\ ScreenRight(screen, asked, Found)
                        /\ WalkRight(walk, asked, Found, Orders)


LEMMA QueryWith ==
    /\ NoFilters \in Queries /\ NoFilters.page = 1
    /\ \A q \in Queries, f \in Filters, x \in BOOLEAN : [q EXCEPT ![f] = x] \in Queries /\ [q EXCEPT ![f] = x].page = q.page
    /\ \A q \in Queries, o \in {"newest", "price_asc"} : [q EXCEPT !.sort = o] \in Queries
    /\ \A q \in Queries : [q EXCEPT !.page = 1] \in Queries /\ [q EXCEPT !.page = 1].page = 1
<1>1. NoFilters \in Queries /\ NoFilters.page = 1
  BY DEF NoFilters, Queries
<1>2. ASSUME NEW q \in Queries, NEW f \in Filters, NEW x \in BOOLEAN PROVE [q EXCEPT ![f] = x] \in Queries /\ [q EXCEPT ![f] = x].page = q.page
  BY DEF Queries, Filters
<1>3. ASSUME NEW q \in Queries, NEW o \in {"newest", "price_asc"} PROVE [q EXCEPT !.sort = o] \in Queries
  BY DEF Queries
<1>4. ASSUME NEW q \in Queries PROVE [q EXCEPT !.page = 1] \in Queries /\ [q EXCEPT !.page = 1].page = 1
  BY DEF Queries
<1> QED
  BY <1>1, <1>2, <1>3, <1>4

LEMMA QueryTurned ==
    ASSUME NEW q \in Queries, NEW n \in Nat \ {0}, NEW r, r = [q EXCEPT !.page = n]
    PROVE  r \in Queries /\ r.page = n
BY DEF Queries

\* What the rows of an answer are, when both queries were read and no other is to come.
LEMMA AnswerIs ==
    ASSUME NEW found, NEW orders, Regular(found, orders),
           NEW r, RequestRight(r, found, orders), r.by \notin {"nobody", "part"},
           NEW q \in Queries, q = r.query,
           r.gotIds, r.total >= 0, ~(r.mode = "exact" /\ r.total = 0 /\ r.query.search)
    PROVE  /\ r.mode = InTheEnd(q, found) /\ r.total = Total(q, found) /\ Total(q, found) \in Nat
           /\ \E s \in orders[q][InTheEnd(q, found)] :
                /\ s \in [1 .. Total(q, found) -> Parts] /\ r.ids = buildListingQuery(s, q)
<1>1. r.mode \in Modes /\ r.total = Cardinality(found[q][r.mode])
  BY DEF RequestRight
<1>2. IsFiniteSet(found[q][r.mode]) /\ IsFiniteSet(found[q]["exact"])
  BY <1>1 DEF Regular, Modes
<1>3. r.mode = InTheEnd(q, found)
  <2>1. CASE r.mode = "fuzzy"
    BY <2>1 DEF RequestRight
  <2>2. CASE r.mode = "exact"
    <3>1. q.search => r.total # 0
      BY <2>2
    <3>2. q.search => found[q]["exact"] # {}
      BY <1>1, <2>2, <3>1, FS_EmptySet
    <3> QED
      BY <2>2, <3>2 DEF InTheEnd
  <2> QED
    BY <1>1, <2>1, <2>2 DEF Modes
<1>4. Total(q, found) = r.total
  BY <1>1, <1>3 DEF Total
<1>5. Total(q, found) \in Nat
  BY <1>1, <1>4 DEF Regular
<1>6. PICK s \in orders[q][r.mode] : r.ids = buildListingQuery(s, q)
  BY DEF RequestRight
<1>7. s \in [1 .. Total(q, found) -> Parts]
  BY <1>1, <1>4, <1>6 DEF Regular
<1> QED
  BY <1>3, <1>4, <1>5, <1>6, <1>7

\* The ids of a page, when it is the first or there are rows before its end.
LEMMA PageIs ==
    ASSUME NEW n \in Nat, NEW s \in [1 .. n -> Parts], NEW q \in Queries
    PROVE  \E o \in Nat, k \in Nat :
             /\ o = (q.page - 1) * PageSize /\ (q.page = 1 => o = 0)
             /\ k = (IF o + PageSize < n THEN PageSize ELSE IF o < n THEN n - o ELSE 0)
             /\ SliceOf(buildListingQuery(s, q), s, o, k, Parts)
<1>1. PICK p \in Nat : p = q.page - 1
  BY DEF Queries
<1>2. PageSize \in Nat \ {0}
  BY ListingAssumption
<1>3. PICK o : o = p * PageSize
  OBVIOUS
<1>4. o \in Nat
  <2>1. \A a, b \in Nat : a * b \in Nat
    OBVIOUS
  <2> QED
    BY <1>2, <1>3, <2>1
<1>5. q.page = 1 => o = 0
  <2> SUFFICES ASSUME q.page = 1 PROVE o = 0
    OBVIOUS
  <2>1. p = 0
    BY <1>1
  <2> QED
    BY <1>2, <1>3, <2>1
<1>6. PICK k : k = (IF o + PageSize < n THEN PageSize ELSE IF o < n THEN n - o ELSE 0)
  OBVIOUS
<1>7. buildListingQuery(s, q) = SubSeq(s, o + 1, limit(s, o))
  BY <1>1, <1>3, Zenon DEF buildListingQuery
<1>8. k \in Nat /\ SliceOf(buildListingQuery(s, q), s, o, k, Parts)
  BY <1>4, <1>6, <1>7, RowsFrom
<1>9. o = (q.page - 1) * PageSize
  BY <1>1, <1>3
<1> QED
  BY <1>4, <1>5, <1>6, <1>8, <1>9

LEMMA PagesJoin ==
    ASSUME NEW n \in Nat, NEW s \in [1 .. n -> Parts], NEW o \in Nat, o < n,
           NEW k, k = IF o + PageSize < n THEN PageSize ELSE IF o < n THEN n - o ELSE 0,
           NEW some, SliceOf(some, s, o, k, Parts)
    PROVE  Front(s, o) \o some = Front(s, limit(s, o))
<1>0. PICK before : before = Front(s, o)
  OBVIOUS
<1>1. PageSize \in Nat \ {0}
  BY ListingAssumption
<1>2. k \in Nat /\ Len(s) = n
  BY <1>1
<1>3. limit(s, o) = o + k
  BY <1>1, <1>2 DEF limit
<1>4. before \in Seq(Parts) /\ Len(before) = o /\ some \in Seq(Parts) /\ Len(some) = k
  <2>1. before \in [1 .. o -> Parts]
    BY <1>0 DEF Front
  <2>2. some \in [1 .. k -> Parts]
    BY DEF SliceOf
  <2>3. \A m \in Nat : \A t \in [1 .. m -> Parts] : t \in Seq(Parts) /\ Len(t) = m
    OBVIOUS
  <2> QED
    BY <1>2, <2>1, <2>2, <2>3
<1>5. PICK all : all = before \o some
  OBVIOUS
<1>6. all \in Seq(Parts) /\ Len(all) = o + k /\ \A i \in 1 .. o + k : all[i] = IF i <= o THEN before[i] ELSE some[i - o]
  <2>1. /\ before \o some \in Seq(Parts)
        /\ Len(before \o some) = Len(before) + Len(some)
        /\ \A i \in 1 .. Len(before) + Len(some) : (before \o some)[i] = IF i <= Len(before) THEN before[i] ELSE some[i - Len(before)]
    BY <1>4, ConcatProperties, Zenon
  <2> QED
    BY <1>4, <1>5, <2>1
<1>7. ASSUME NEW i \in 1 .. o + k PROVE all[i] = s[i]
  <2>1. CASE i <= o
    <3>1. i \in 1 .. o
      BY <2>1
    <3>2. before[i] = s[i]
      BY <1>0, <3>1 DEF Front
    <3> QED
      BY <1>6, <2>1, <3>2
  <2>2. CASE ~(i <= o)
    <3>1. i - o \in 1 .. k /\ o + (i - o) = i
      BY <1>2, <2>2
    <3>2. all[i] = some[i - o]
      BY <1>6, <2>2
    <3>3. some[i - o] = s[o + (i - o)]
      BY <3>1 DEF SliceOf
    <3> QED
      BY <3>1, <3>2, <3>3
  <2> QED
    BY <2>1, <2>2
<1>8. all = [i \in 1 .. o + k |-> all[i]]
  BY <1>6
<1>9. all = [i \in 1 .. o + k |-> s[i]]
  BY <1>7, <1>8
<1> QED
  BY <1>0, <1>3, <1>5, <1>9 DEF Front

-----------------------------------------------------------------------------
LEMMA SameShop == ASSUME shop' = shop PROVE Found' = Found /\ Orders' = Orders
<1>1. \A q, mode : Matching(q, mode)' = Matching(q, mode)
  BY DEF Matching, baseConditions, wordCondition
<1>2. \A p, q, mode : orderBy(p, q, mode)' = orderBy(p, q, mode)
  BY Zenon DEF orderBy, inStockFirst, tieBreak
<1>3. \A q, mode : Sorted(q, mode)' = Sorted(q, mode)
  BY <1>1, <1>2, Zenon DEF Sorted
<1> QED
  BY <1>1, <1>3, Zenon DEF Found, Orders

\* An answer begun, or dropped, on the page that is shown.
LEMMA AnswerMoves ==
    ASSUME ListingInv, UNCHANGED <<shop, asked, screen, shopEdits, walk>>, ticked' \in [category : BOOLEAN, inStock : BOOLEAN],
           IsRequest(request'), request'.query \in Queries,
           shopEdits = 0 => RequestRight(request', Found, Orders)
    PROVE  ListingInv'
<1>1. Found' = Found /\ Orders' = Orders
  BY SameShop
<1>2. ListingTyped'
  BY DEF ListingInv, ListingTyped
<1>3. ASSUME shopEdits' = 0
      PROVE  /\ shop' \in [Parts -> {0, 1}] /\ RequestRight(request', Found', Orders')
             /\ ScreenRight(screen', asked', Found') /\ WalkRight(walk', asked', Found', Orders')
  BY <1>1, <1>3 DEF ListingInv
<1> QED
  BY <1>2, <1>3 DEF ListingInv

LEMMA RequestMade ==
    ASSUME NEW by, NEW q \in Queries
    PROVE  /\ IsRequest(Request(by, q)) /\ Request(by, q).query = q
           /\ \A found, orders : q.page = 1 \/ (q.page - 1) * PageSize < Total(q, found) \/ by = "part" => RequestRight(Request(by, q), found, orders)
<1>1. PICK none : none = NoRequest
  OBVIOUS
<1>2. IsRequest(none) /\ none.mode = "exact" /\ none.gotIds = FALSE /\ none.total = -1
  BY <1>1 DEF NoRequest, IsRequest
<1>3. PICK r : r = [none EXCEPT !.by = by, !.query = q]
  OBVIOUS
<1>4. r = [[none EXCEPT !.by = by] EXCEPT !.query = q]
  BY <1>3
<1>5. IsRequest(r) /\ r.by = by /\ r.query = q /\ r.mode = "exact" /\ r.gotIds = FALSE /\ r.total = -1
  BY <1>2, <1>4 DEF IsRequest
<1>6. Request(by, q) = r
  BY <1>1, <1>3 DEF Request
<1> QED
  BY <1>5, <1>6 DEF RequestRight, Modes

LEMMA GoKeeps ==
    ASSUME ListingInv, NEW by, NEW q \in Queries, go(by, q), ticked' \in [category : BOOLEAN, inStock : BOOLEAN],
           shopEdits = 0 => q.page = 1 \/ (q.page - 1) * PageSize < Total(q, Found)
    PROVE  ListingInv'
<1>1. request' = Request(by, q) /\ UNCHANGED <<shop, asked, screen, shopEdits, walk>>
  BY DEF go
<1> QED
  BY <1>1, RequestMade, AnswerMoves

LEMMA VisitKeeps == ListingInv /\ Visits => ListingInv'
<1> SUFFICES ASSUME ListingInv, Visits PROVE ListingInv'
  OBVIOUS
<1>1. /\ asked \in Queries /\ ticked \in [category : BOOLEAN, inStock : BOOLEAN] /\ screen.options \in BOOLEAN
      /\ shopEdits = 0 => ScreenRight(screen, asked, Found)
  BY DEF ListingInv, ListingTyped
<1>2. CASE CatalogFilters
  <2>1. PICK f \in {"category", "inStock"} : ticked' = [ticked EXCEPT ![f] = ~@] /\ go("form", navigate(ticked'))
    BY <1>2 DEF CatalogFilters
  <2>2. ticked' \in [category : BOOLEAN, inStock : BOOLEAN]
    BY <1>1, <2>1
  <2>3. PICK q : q = [asked EXCEPT !.category = ticked'.category /\ screen.options, !.inStock = ticked'.inStock, !.page = 1]
    OBVIOUS
  <2>4. go("form", q)
    BY <2>1, <2>3 DEF navigate
  <2>5. q \in Queries /\ q.page = 1
    <3>1. PICK x \in BOOLEAN : x = (ticked'.category /\ screen.options)
      OBVIOUS
    <3>2. PICK y \in BOOLEAN : y = ticked'.inStock
      BY <2>2
    <3>3. PICK a : a = [asked EXCEPT !["category"] = x]
      OBVIOUS
    <3>4. PICK b : b = [a EXCEPT !["inStock"] = y]
      OBVIOUS
    <3>5. q = [b EXCEPT !.page = 1]
      BY <2>3, <3>1, <3>2, <3>3, <3>4
    <3>6. a \in Queries /\ b \in Queries
      BY <1>1, <3>3, <3>4, QueryWith DEF Filters
    <3> QED
      BY <3>5, <3>6, QueryWith
  <2> QED
    BY <2>2, <2>4, <2>5, GoKeeps
<1>3. CASE SortSelect
  <2>1. PICK o \in {"newest", "price_asc"} : go("sort", [asked EXCEPT !.sort = o, !.page = 1]) /\ ticked' = ticked
    BY <1>3 DEF SortSelect
  <2>2. PICK q : q = [asked EXCEPT !.sort = o, !.page = 1]
    OBVIOUS
  <2>3. q \in Queries /\ q.page = 1
    <3>1. PICK a : a = [asked EXCEPT !.sort = o]
      OBVIOUS
    <3>2. q = [a EXCEPT !.page = 1] /\ a \in Queries
      BY <1>1, <2>2, <3>1, QueryWith
    <3> QED
      BY <3>2, QueryWith
  <2> QED
    BY <1>1, <2>1, <2>2, <2>3, GoKeeps
<1>4. CASE removePill
  <2>1. PICK f \in Filters : go("pill", [asked EXCEPT ![f] = FALSE, !.page = 1]) /\ ticked' = ticked
    BY <1>4 DEF removePill, pills, without
  <2>2. PICK q : q = [asked EXCEPT ![f] = FALSE, !.page = 1]
    OBVIOUS
  <2>3. q \in Queries /\ q.page = 1
    <3>1. PICK a : a = [asked EXCEPT ![f] = FALSE]
      OBVIOUS
    <3>2. q = [a EXCEPT !.page = 1] /\ a \in Queries
      BY <1>1, <2>2, <3>1, QueryWith
    <3> QED
      BY <3>2, QueryWith
  <2> QED
    BY <1>1, <2>1, <2>2, <2>3, GoKeeps
<1>5. CASE clearAll
  <2>1. go("clear", [NoFilters EXCEPT !.truck = asked.truck]) /\ ticked' = ticked
    BY <1>5 DEF clearAll
  <2>2. PICK q : q = [NoFilters EXCEPT !.truck = asked.truck]
    OBVIOUS
  <2>3. q \in Queries /\ q.page = 1
    <3>1. PICK x \in BOOLEAN : x = asked.truck
      BY <1>1 DEF Queries
    <3>2. q = [NoFilters EXCEPT !["truck"] = x]
      BY <2>2, <3>1
    <3> QED
      BY <3>2, QueryWith DEF Filters
  <2> QED
    BY <1>1, <2>1, <2>2, <2>3, GoKeeps
<1>6. CASE Pagination
  <2>1. PICK last : last = totalPages(screen.total)
    OBVIOUS
  <2>2. PICK n \in (pageNumbers(asked.page, last) \cup ({asked.page - 1, asked.page + 1} \cap 1 .. last)) : go("page", [asked EXCEPT !.page = n])
    BY <1>6, <2>1 DEF Pagination
  <2>3. screen.kind = "results" /\ ticked' = ticked
    BY <1>6 DEF Pagination
  <2>4. n \in Nat \ {0} /\ (last \in Int => n \in 1 .. last)
    BY <2>2 DEF pageNumbers
  <2>5. PICK q : q = [asked EXCEPT !.page = n]
    OBVIOUS
  <2>6. q \in Queries /\ q.page = n
    BY <1>1, <2>4, <2>5, QueryTurned
  <2>7. ASSUME shopEdits = 0 PROVE (q.page - 1) * PageSize < Total(q, Found)
    <3>1. Found[q] = Found[asked]
      BY <1>1, <2>4, <2>5, <2>6, ShopIsRegular DEF Regular, Modes
    <3>2. Total(q, Found) = Total(asked, Found)
      <4>1. q.search = asked.search
        BY <1>1, <2>5 DEF Queries
      <4> QED
        BY <3>1, <4>1 DEF Total, InTheEnd
    <3>3. screen.total = Total(asked, Found) /\ screen.total > 0
      BY <1>1, <2>3, <2>7 DEF ScreenRight
    <3>4. Total(asked, Found) \in Nat
      BY <1>1, ShopIsRegular DEF Regular, Total, InTheEnd, Modes
    <3>5. PICK t \in Nat : t = screen.total /\ t > 0
      BY <3>3, <3>4
    <3>6. last \in Nat /\ \A m \in 1 .. last : (m - 1) * PageSize < t
      BY <2>1, <3>5, ArePages
    <3>7. (n - 1) * PageSize < t
      BY <2>4, <3>6
    <3> QED
      BY <2>6, <3>2, <3>3, <3>5, <3>7
  <2> QED
    BY <1>1, <2>2, <2>3, <2>5, <2>6, <2>7, GoKeeps
<1>7. CASE SearchForm
  <2>1. PICK q : q = [NoFilters EXCEPT !.search = TRUE]
    OBVIOUS
  <2>2. q \in Queries /\ q.page = 1
    <3>1. q = [NoFilters EXCEPT !["search"] = TRUE]
      BY <2>1
    <3> QED
      BY <3>1, QueryWith DEF Filters
  <2>3. request' = Request("search", q) /\ UNCHANGED <<shop, asked, ticked, screen, shopEdits, walk>>
    BY <1>7, <2>1 DEF SearchForm
  <2> QED
    BY <1>1, <2>2, <2>3, RequestMade, AnswerMoves
<1>8. CASE openPart
  <2>1. request' = Request("part", asked) /\ UNCHANGED <<shop, asked, ticked, screen, shopEdits, walk>>
    BY <1>8 DEF openPart
  <2> QED
    BY <1>1, <2>1, RequestMade, AnswerMoves
<1> QED
  BY <1>2, <1>3, <1>4, <1>5, <1>6, <1>7, <1>8 DEF Visits

LEMMA ReadKeeps == ListingInv /\ (idsRead \/ countRead \/ fuzzy) => ListingInv'
<1> SUFFICES ASSUME ListingInv, idsRead \/ countRead \/ fuzzy PROVE ListingInv'
  OBVIOUS
<1>1. UNCHANGED <<shop, asked, ticked, screen, shopEdits, walk>> /\ Asking
  BY DEF idsRead, countRead, fuzzy, BothRead
<1>2. PICK r : r = request
  OBVIOUS
<1>3. /\ IsRequest(r) /\ r.query \in Queries /\ ticked \in [category : BOOLEAN, inStock : BOOLEAN]
      /\ shopEdits = 0 => RequestRight(r, Found, Orders)
  BY <1>2 DEF ListingInv, ListingTyped
<1>4. r.by \notin {"nobody", "part"}
  BY <1>1, <1>2 DEF Asking
<1>5. /\ \A mode \in Modes : Found[r.query][mode] = Matching(r.query, mode)
      /\ \A mode \in Modes : Orders[r.query][mode] = Sorted(r.query, mode)
  BY <1>3 DEF Found, Orders
<1>6. CASE idsRead
  <2>1. PICK s \in Sorted(r.query, r.mode) : request' = [r EXCEPT !.gotIds = TRUE, !.ids = buildListingQuery(s, r.query)]
    BY <1>2, <1>6 DEF idsRead
  <2>2. PICK x : x = [r EXCEPT !.gotIds = TRUE]
    OBVIOUS
  <2>3. PICK y : y = [x EXCEPT !.ids = buildListingQuery(s, r.query)]
    OBVIOUS
  <2>4. request' = y
    BY <2>1, <2>2, <2>3
  <2>5. IsRequest(y) /\ y.by = r.by /\ y.query = r.query /\ y.mode = r.mode /\ y.total = r.total /\ y.ids = buildListingQuery(s, r.query)
    BY <1>3, <2>2, <2>3 DEF IsRequest
  <2>6. ASSUME shopEdits = 0 PROVE RequestRight(y, Found, Orders)
    <3>1. r.mode \in Modes
      BY <1>3, <1>4, <2>6 DEF RequestRight
    <3>2. s \in Orders[r.query][r.mode]
      BY <1>5, <3>1
    <3> QED
      BY <1>3, <1>4, <2>5, <2>6, <3>2 DEF RequestRight
  <2> QED
    BY <1>1, <1>3, <2>4, <2>5, <2>6, AnswerMoves
<1>7. CASE countRead
  <2>1. request' = [r EXCEPT !.total = Cardinality(Matching(r.query, r.mode))]
    BY <1>2, <1>7 DEF countRead
  <2>2. PICK y : y = [r EXCEPT !.total = Cardinality(Matching(r.query, r.mode))]
    OBVIOUS
  <2>3. IsRequest(y) /\ y.by = r.by /\ y.query = r.query /\ y.mode = r.mode /\ y.gotIds = r.gotIds /\ y.ids = r.ids
        /\ y.total = Cardinality(Matching(r.query, r.mode))
    BY <1>3, <2>2 DEF IsRequest
  <2>4. ASSUME shopEdits = 0 PROVE RequestRight(y, Found, Orders)
    BY <1>3, <1>4, <1>5, <2>3, <2>4 DEF RequestRight
  <2> QED
    BY <1>1, <1>3, <2>1, <2>2, <2>3, <2>4, AnswerMoves
<1>8. CASE fuzzy
  <2>1. request' = [Request(r.by, r.query) EXCEPT !.mode = "fuzzy"] /\ r.mode = "exact" /\ r.total = 0 /\ r.query.search
    BY <1>2, <1>8 DEF fuzzy, triesFuzzy
  <2>2. PICK x : x = Request(r.by, r.query)
    OBVIOUS
  <2>3. /\ IsRequest(x) /\ x.query = r.query /\ x.by = r.by /\ x.gotIds = FALSE /\ x.total = -1
    <3>1. PICK none : none = NoRequest
      OBVIOUS
    <3>2. IsRequest(none) /\ none.gotIds = FALSE /\ none.total = -1
      BY <3>1 DEF NoRequest, IsRequest
    <3>3. x = [[none EXCEPT !.by = r.by] EXCEPT !.query = r.query]
      BY <2>2, <3>1 DEF Request
    <3> QED
      BY <3>2, <3>3 DEF IsRequest
  <2>4. PICK y : y = [x EXCEPT !.mode = "fuzzy"]
    OBVIOUS
  <2>5. IsRequest(y) /\ y.by = r.by /\ y.query = r.query /\ y.mode = "fuzzy" /\ y.gotIds = FALSE /\ y.total = -1
    BY <2>3, <2>4 DEF IsRequest
  <2>6. ASSUME shopEdits = 0 PROVE RequestRight(y, Found, Orders)
    <3>1. IsFiniteSet(Found[r.query]["exact"]) /\ Cardinality(Found[r.query]["exact"]) = 0
      BY <1>3, <1>4, <2>1, <2>6, ShopIsRegular DEF RequestRight, Regular, Modes
    <3>2. Found[r.query]["exact"] = {}
      BY <3>1, FS_EmptySet
    <3>3. InTheEnd(r.query, Found) = "fuzzy"
      BY <2>1, <3>2 DEF InTheEnd
    <3> QED
      BY <1>3, <1>4, <2>5, <2>6, <3>3 DEF RequestRight, Modes
  <2> QED
    BY <1>1, <1>3, <2>1, <2>2, <2>4, <2>5, <2>6, AnswerMoves
<1> QED
  BY <1>6, <1>7, <1>8

\* What show leaves, whatever it shows.
LEMMA ShowDoes ==
    ASSUME ListingTyped, NEW kind, NEW items, NEW options \in BOOLEAN, show(kind, items, options), UNCHANGED <<shop, shopEdits>>
    PROVE  /\ ListingTyped' /\ asked' = request.query /\ request'.by = "nobody"
           /\ screen'.kind = kind /\ (kind # "unavailable" => screen'.total = request.total /\ (screen'.fuzzy <=> request.mode = "fuzzy"))
<1>1. PICK r : r = request
  OBVIOUS
<1>2. IsRequest(r) /\ r.query \in Queries /\ asked \in Queries /\ shopEdits \in Nat
  BY <1>1 DEF ListingTyped
<1>3. /\ screen' = [kind |-> kind, items |-> items, total |-> IF kind = "unavailable" THEN 0 ELSE r.total,
                     fuzzy |-> r.mode = "fuzzy" /\ kind # "unavailable", options |-> options]
      /\ asked' = r.query /\ request' = NoRequest
      /\ ticked' = IF r.query = asked /\ screen # Blank THEN ticked ELSE InForm(r.query)
  BY <1>1 DEF show
<1>4. IsRequest(NoRequest) /\ NoRequest.by = "nobody" /\ NoRequest.query \in Queries
  <2>1. NoRequest.query = NoFilters /\ IsRequest(NoRequest) /\ NoRequest.by = "nobody"
    BY DEF NoRequest, IsRequest
  <2> QED
    BY <2>1, QueryWith
<1>5. ticked' \in [category : BOOLEAN, inStock : BOOLEAN]
  <2>1. InForm(r.query) \in [category : BOOLEAN, inStock : BOOLEAN]
    BY <1>2 DEF InForm, Queries
  <2> QED
    BY <1>3, <2>1 DEF ListingTyped
<1>6. screen'.kind = kind /\ screen'.options = options
  BY <1>3
<1>7. kind # "unavailable" => screen'.total = r.total /\ (screen'.fuzzy <=> r.mode = "fuzzy")
  BY <1>3
<1> QED
  BY <1>1, <1>2, <1>3, <1>4, <1>5, <1>6, <1>7 DEF ListingTyped

LEMMA LossKeepsListing == ListingInv /\ listLost => ListingInv'
<1> SUFFICES ASSUME ListingInv, listLost PROVE ListingInv'
  OBVIOUS
<1>1. show("unavailable", <<>>, TRUE) /\ UNCHANGED <<shop, shopEdits>>
  BY DEF listLost
<1>2. ListingTyped' /\ asked' = request.query /\ request'.by = "nobody" /\ screen'.kind = "unavailable"
  BY <1>1, ShowDoes DEF ListingInv
<1>3. walk' = [upTo |-> 0, items |-> <<>>]
  BY <1>1 DEF show
<1>4. \A found, orders, q : WalkRight(walk', q, found, orders)
  BY <1>3 DEF WalkRight
<1>5. \A found, orders, q : ScreenRight(screen', q, found) /\ RequestRight(request', found, orders)
  BY <1>2 DEF ScreenRight, RequestRight
<1> QED
  BY <1>1, <1>2, <1>4, <1>5 DEF ListingInv

\* The page of a query has rows, unless it is the first, where n match.
Reaches(q, n) == q.page = 1 \/ (q.page - 1) * PageSize < n

\* The page of the rows in their order s, and the walk it adds to.
LEMMA PageShown ==
    ASSUME NEW n \in Nat, NEW s \in [1 .. n -> Parts], NEW q \in Queries, Reaches(q, n),
           NEW items, items = buildListingQuery(s, q)
    PROVE  /\ items = <<>> => q.page = 1 /\ n = 0
           /\ items # <<>> => n > 0
           /\ q.page = 1 => PagesOf(items, s, 1)
           /\ \A before : items # <<>> /\ q.page - 1 > 0 /\ PagesOf(before, s, q.page - 1) => PagesOf(before \o items, s, q.page)
<1>0. PageSize \in Nat \ {0} /\ q.page \in Nat \ {0} /\ Len(s) = n
  BY ListingAssumption DEF Queries
<1>1. PICK o \in Nat, k \in Nat :
        /\ o = (q.page - 1) * PageSize /\ (q.page = 1 => o = 0)
        /\ k = (IF o + PageSize < n THEN PageSize ELSE IF o < n THEN n - o ELSE 0)
        /\ SliceOf(items, s, o, k, Parts)
  BY PageIs
<1>2. q.page = 1 => o = 0
  BY <1>1
<1>3. q.page # 1 => o < n
  BY <1>1 DEF Reaches
<1>4. k = IF o + PageSize < n THEN PageSize ELSE IF o < n THEN n - o ELSE 0
  BY <1>1
<1>5. items \in [1 .. k -> Parts] /\ \A i \in 1 .. k : items[i] = s[o + i]
  BY <1>1 DEF SliceOf
<1>6. items = <<>> <=> k = 0
  <2>1. items = <<>> => k = 0
    BY <1>5
  <2>2. k = 0 => items = <<>>
    BY <1>5
  <2> QED
    BY <2>1, <2>2
<1>7. k = 0 <=> n <= o
  BY <1>0, <1>4
<1>8. items = <<>> => q.page = 1 /\ n = 0
  BY <1>2, <1>3, <1>6, <1>7
<1>9. items # <<>> => n > 0
  BY <1>6, <1>7
<1>10. ASSUME q.page = 1 PROVE PagesOf(items, s, 1)
  <2>1. (1 - 1) * PageSize = 0
    BY <1>0
  <2>2. limit(s, 0) = k
    BY <1>0, <1>2, <1>4, <1>10 DEF limit
  <2>3. \A i \in 1 .. k : items[i] = s[i]
    BY <1>2, <1>5, <1>10
  <2>4. items = [i \in 1 .. k |-> s[i]]
    BY <1>5, <2>3
  <2> QED
    BY <2>1, <2>2, <2>4, Zenon DEF PagesOf, Front
<1>11. ASSUME NEW before, items # <<>>, q.page - 1 > 0, PagesOf(before, s, q.page - 1)
       PROVE  PagesOf(before \o items, s, q.page)
  <2>1. o < n
    BY <1>6, <1>7, <1>11
  <2>2. PICK p \in Nat : p = q.page - 1 /\ p > 0
    BY <1>0, <1>11
  <2>3. PICK b : b = (p - 1) * PageSize
    OBVIOUS
  <2>4. b \in Nat /\ o = b + PageSize
    <3>1. \A x \in Nat : x * PageSize \in Nat
      BY <1>0
    <3>2. p - 1 \in Nat
      BY <2>2
    <3>3. p * PageSize = (p - 1) * PageSize + PageSize
      BY <1>0, <2>2
    <3>4. o = p * PageSize
      BY <1>1, <2>2
    <3> QED
      BY <2>3, <3>1, <3>2, <3>3, <3>4
  <2>5. limit(s, b) = o
    BY <1>0, <2>1, <2>4 DEF limit
  <2>6. before = Front(s, o)
    BY <1>11, <2>2, <2>3, <2>5, Zenon DEF PagesOf
  <2>7. SliceOf(items, s, o, k, Parts)
    BY <1>1
  <2>8. Front(s, o) \o items = Front(s, limit(s, o))
    BY <1>4, <2>1, <2>7, PagesJoin
  <2> QED
    BY <1>1, <2>6, <2>8, Zenon DEF PagesOf
<1> QED
  BY <1>8, <1>9, <1>10, <1>11

LEMMA CardsKeep == ListingInv /\ cardsInOrder => ListingInv'
<1> SUFFICES ASSUME ListingInv, cardsInOrder PROVE ListingInv'
  OBVIOUS
<1>1. PICK items : items = Cards(request.ids)
  OBVIOUS
<1>2. PICK r : r = request
  OBVIOUS
<1>3. PICK q : q = r.query
  OBVIOUS
<1>4. PICK kind : kind = IF items # <<>> THEN "results" ELSE IF q.page > 1 THEN "notFound" ELSE "none"
  OBVIOUS
<1>5. /\ BothRead /\ ~triesFuzzy /\ UNCHANGED <<shop, moves, shopEdits>>
      /\ \E options \in BOOLEAN : show(kind, items, options)
  BY <1>1, <1>2, <1>3, <1>4 DEF cardsInOrder
<1>6. PICK options \in BOOLEAN : show(kind, items, options)
  BY <1>5
<1>7. /\ ListingTyped' /\ asked' = q /\ request'.by = "nobody" /\ screen'.kind = kind
      /\ screen'.total = r.total /\ (screen'.fuzzy <=> r.mode = "fuzzy")
  BY <1>2, <1>3, <1>4, <1>5, <1>6, ShowDoes DEF ListingInv
<1> SUFFICES ASSUME shopEdits' = 0
             PROVE  /\ shop' \in [Parts -> {0, 1}] /\ RequestRight(request', Found', Orders')
                    /\ ScreenRight(screen', asked', Found') /\ WalkRight(walk', asked', Found', Orders')
  BY <1>7 DEF ListingInv
<1>8. PICK found, orders : found = Found /\ orders = Orders
  OBVIOUS
<1>9. /\ shop \in [Parts -> {0, 1}] /\ RequestRight(r, found, orders) /\ WalkRight(walk, asked, found, orders)
      /\ q \in Queries /\ asked \in Queries /\ Regular(found, orders) /\ Found' = found /\ Orders' = orders
  BY <1>2, <1>3, <1>5, <1>8, SameShop, ShopIsRegular DEF ListingInv, ListingTyped
<1>10. r.by \notin {"nobody", "part"} /\ r.gotIds /\ r.total >= 0 /\ ~(r.mode = "exact" /\ r.total = 0 /\ r.query.search)
  BY <1>2, <1>5 DEF BothRead, Asking, triesFuzzy
<1>11. PICK mode, n : mode = InTheEnd(q, found) /\ n = Total(q, found)
  OBVIOUS
<1>12. /\ r.mode = mode /\ r.total = n /\ n \in Nat
       /\ \E s \in orders[q][mode] : s \in [1 .. n -> Parts] /\ r.ids = buildListingQuery(s, q)
  BY <1>3, <1>9, <1>10, <1>11, AnswerIs
<1>13. PICK s \in orders[q][mode] : s \in [1 .. n -> Parts] /\ r.ids = buildListingQuery(s, q)
  BY <1>12
<1>14. items = buildListingQuery(s, q)
  <2>1. \E k \in Nat : r.ids \in [1 .. k -> Parts]
    BY <1>9, <1>12, <1>13, PageIs DEF SliceOf
  <2> QED
    BY <1>1, <1>2, <1>9, <1>13, <2>1, CardsOfAll
<1>15. Reaches(q, n)
  BY <1>3, <1>9, <1>10, <1>11 DEF RequestRight, Reaches
<1>16. /\ items = <<>> => q.page = 1 /\ n = 0
       /\ items # <<>> => n > 0
       /\ q.page = 1 => PagesOf(items, s, 1)
       /\ \A before : items # <<>> /\ q.page - 1 > 0 /\ PagesOf(before, s, q.page - 1) => PagesOf(before \o items, s, q.page)
  BY <1>9, <1>12, <1>13, <1>14, <1>15, PageShown
<1>17. RequestRight(request', found, orders)
  BY <1>7 DEF RequestRight
<1>18. ScreenRight(screen', q, found)
  BY <1>4, <1>7, <1>11, <1>12, <1>16 DEF ScreenRight
<1>19. WalkRight(walk', q, found, orders)
  <2>1. \/ walk' = [upTo |-> 0, items |-> <<>>]
        \/ q.page = 1 /\ walk' = [upTo |-> 1, items |-> items]
        \/ /\ items # <<>> /\ walk.upTo > 0 /\ q = [asked EXCEPT !.page = walk.upTo + 1]
           /\ walk' = [upTo |-> q.page, items |-> walk.items \o items]
    BY <1>2, <1>3, <1>4, <1>6 DEF show
  <2>2. CASE walk' = [upTo |-> 0, items |-> <<>>]
    BY <2>2 DEF WalkRight
  <2>3. CASE q.page = 1 /\ walk' = [upTo |-> 1, items |-> items]
    BY <1>11, <1>13, <1>16, <2>3 DEF WalkRight
  <2>4. CASE /\ items # <<>> /\ walk.upTo > 0 /\ q = [asked EXCEPT !.page = walk.upTo + 1]
             /\ walk' = [upTo |-> q.page, items |-> walk.items \o items]
    <3>1. PICK u \in Nat : u = walk.upTo /\ u > 0 /\ u + 1 \in Nat \ {0}
      BY <1>9, <2>4 DEF WalkRight
    <3>2. q.page = u + 1 /\ q.search = asked.search
      BY <1>9, <2>4, <3>1 DEF Queries
    <3>3. found[q] = found[asked] /\ orders[q] = orders[asked]
      BY <1>9, <2>4, <3>1 DEF Regular, Modes
    <3>4. InTheEnd(asked, found) = mode
      BY <1>11, <3>2, <3>3 DEF InTheEnd
    <3>5. ASSUME OneOf(orders[q][mode]) PROVE PagesOf(walk'.items, s, walk'.upTo)
      <4>1. PICK t \in orders[q][mode] : PagesOf(walk.items, t, u)
        BY <1>9, <3>1, <3>3, <3>4, <3>5 DEF WalkRight
      <4>2. t = s
        BY <1>13, <3>5, <4>1 DEF OneOf
      <4>3. q.page - 1 = u
        BY <3>2
      <4>4. PagesOf(walk.items \o items, s, q.page)
        BY <1>16, <2>4, <3>1, <4>1, <4>2, <4>3
      <4> QED
        BY <2>4, <4>4
    <3>6. walk' = [upTo |-> walk'.upTo, items |-> walk'.items] /\ walk'.upTo = q.page /\ walk'.upTo \in Nat
      BY <2>4, <3>1, <3>2
    <3> QED
      BY <1>11, <1>13, <3>5, <3>6 DEF WalkRight
  <2> QED
    BY <2>1, <2>2, <2>3, <2>4
<1> QED
  BY <1>5, <1>7, <1>9, <1>17, <1>18, <1>19

LEMMA InitListing == ListingInit \/ ListingNotOpened => ListingInv
<1> SUFFICES ASSUME ListingInit \/ ListingNotOpened PROVE ListingInv
  OBVIOUS
<1>1. shop \in [Parts -> {0, 1}] /\ shopEdits = 0 /\ ticked = InForm(asked) /\ screen = Blank /\ walk = [upTo |-> 0, items |-> <<>>]
  BY DEF ListingInit, ListingNotOpened
<1>2. asked \in Queries /\ asked.page = 1
  BY ListingAssumption, QueryWith DEF ListingInit, ListingNotOpened
<1>3. ticked \in [category : BOOLEAN, inStock : BOOLEAN]
  BY <1>1, <1>2 DEF InForm, Queries
<1>4. screen.options \in BOOLEAN /\ \A q, found : ScreenRight(screen, q, found)
  BY <1>1 DEF Blank, ScreenRight
<1>5. \A q, found, orders : WalkRight(walk, q, found, orders)
  BY <1>1 DEF WalkRight
<1>6. IsRequest(request) /\ request.query \in Queries /\ \A found, orders : RequestRight(request, found, orders)
  <2>1. CASE request = Request("link", asked)
    BY <1>2, <2>1, RequestMade
  <2>2. CASE request = NoRequest
    <3>1. NoRequest.query = NoFilters /\ IsRequest(NoRequest) /\ NoRequest.by = "nobody"
      BY DEF NoRequest, IsRequest
    <3> QED
      BY <2>2, <3>1, QueryWith DEF RequestRight
  <2> QED
    BY <2>1, <2>2 DEF ListingInit, ListingNotOpened
<1> QED
  BY <1>1, <1>2, <1>3, <1>4, <1>5, <1>6 DEF ListingInv, ListingTyped

LEMMA NextListing == ListingInv /\ [ListingNext]_listingVars => ListingInv'
<1> SUFFICES ASSUME ListingInv, [ListingNext]_listingVars PROVE ListingInv'
  OBVIOUS
<1>1. CASE UNCHANGED <<shop, asked, ticked, screen, request, shopEdits, walk>>
  <2>1. ticked' \in [category : BOOLEAN, inStock : BOOLEAN] /\ IsRequest(request') /\ request'.query \in Queries
    BY <1>1 DEF ListingInv, ListingTyped
  <2>2. shopEdits = 0 => RequestRight(request', Found, Orders)
    BY <1>1 DEF ListingInv
  <2> QED
    BY <1>1, <2>1, <2>2, AnswerMoves
<1>2. CASE NavigationSkeleton \/ giveUp \/ UNCHANGED listingVars
  BY <1>1, <1>2 DEF NavigationSkeleton, giveUp, listingVars
<1>3. CASE partShown
  <2>1. UNCHANGED <<shop, asked, ticked, shopEdits, walk>> /\ screen' = [Blank EXCEPT !.kind = "left"] /\ request' = NoRequest
    BY <1>3 DEF partShown
  <2>2. Found' = Found /\ Orders' = Orders
    BY <2>1, SameShop
  <2>3. PICK none : none = NoRequest
    OBVIOUS
  <2>4. none.query \in Queries /\ IsRequest(none) /\ none.by = "nobody"
    <3>1. none.query = NoFilters /\ IsRequest(none) /\ none.by = "nobody"
      BY <2>3 DEF NoRequest, IsRequest
    <3> QED
      BY <3>1, QueryWith
  <2>5. PICK sc : sc = screen'
    OBVIOUS
  <2>6. sc.kind = "left" /\ sc.options = TRUE
    BY <2>1, <2>5 DEF Blank
  <2>7. ListingTyped'
    BY <2>1, <2>3, <2>4, <2>5, <2>6 DEF ListingInv, ListingTyped
  <2>8. \A found, orders, q : ScreenRight(sc, q, found) /\ RequestRight(none, found, orders)
    BY <2>4, <2>6 DEF ScreenRight, RequestRight
  <2> QED
    BY <2>1, <2>2, <2>3, <2>5, <2>7, <2>8 DEF ListingInv
<1>4. CASE shopEdit
  <2>1. shopEdits \in Nat /\ shopEdits' = shopEdits + 1 /\ UNCHANGED <<asked, ticked, screen, request>>
    BY <1>4 DEF shopEdit, ListingInv, ListingTyped
  <2>2. shopEdits' \in Nat /\ shopEdits' # 0
    BY <2>1
  <2> QED
    BY <2>1, <2>2 DEF ListingInv, ListingTyped
<1>5. CASE idsRead \/ countRead \/ fuzzy
  BY <1>5, ReadKeeps
<1>6. CASE cardsInOrder
  BY <1>6, CardsKeep
<1>7. CASE listLost
  BY <1>7, LossKeepsListing
<1>8. CASE Visits
  BY <1>8, VisitKeeps
<1> QED
  BY <1>2, <1>3, <1>4, <1>5, <1>6, <1>7, <1>8 DEF ListingNext, Responds

LEMMA ScreenHasNoDeadEnd == ListingInv => NoDeadEnds
<1> SUFFICES ASSUME ListingInv, shopEdits = 0
             PROVE  /\ screen.kind # "notFound"
                    /\ screen.kind = "none" => Matching(asked, "exact") = {} /\ (asked.search => Matching(asked, "fuzzy") = {})
                    /\ screen.kind = "results" /\ screen.fuzzy => Matching(asked, "exact") = {}
  BY DEF NoDeadEnds
<1>1. asked \in Queries /\ ScreenRight(screen, asked, Found)
  BY DEF ListingInv, ListingTyped
<1>2. \A mode \in Modes : Found[asked][mode] = Matching(asked, mode) /\ IsFiniteSet(Found[asked][mode])
  BY <1>1, ShopIsRegular DEF Found, Regular
<1>3. screen.kind # "notFound"
  BY <1>1 DEF ScreenRight
<1>4. ASSUME InTheEnd(asked, Found) = "fuzzy" PROVE asked.search /\ Matching(asked, "exact") = {}
  BY <1>2, <1>4 DEF InTheEnd, Modes
<1>5. ASSUME screen.kind = "none"
      PROVE  Matching(asked, "exact") = {} /\ (asked.search => Matching(asked, "fuzzy") = {})
  <2>1. Found[asked][InTheEnd(asked, Found)] = {}
    <3>1. Cardinality(Found[asked][InTheEnd(asked, Found)]) = 0
      BY <1>1, <1>5 DEF ScreenRight, Total
    <3>2. InTheEnd(asked, Found) \in Modes
      BY DEF InTheEnd, Modes
    <3> QED
      BY <1>2, <3>1, <3>2, FS_EmptySet
  <2>2. CASE InTheEnd(asked, Found) = "fuzzy"
    BY <1>2, <1>4, <2>1, <2>2 DEF Modes
  <2>3. CASE InTheEnd(asked, Found) # "fuzzy"
    <3>1. InTheEnd(asked, Found) = "exact" /\ (asked.search => Found[asked]["exact"] # {})
      BY <2>3 DEF InTheEnd
    <3> QED
      BY <1>2, <2>1, <3>1 DEF Modes
  <2> QED
    BY <2>2, <2>3
<1>6. screen.kind = "results" /\ screen.fuzzy => Matching(asked, "exact") = {}
  BY <1>1, <1>4 DEF ScreenRight
<1> QED
  BY <1>3, <1>5, <1>6

LEMMA WalkShowsEachOnce == ListingInv => PagesShowEachPartOnce
<1> DEFINE mode == IF screen.fuzzy THEN "fuzzy" ELSE "exact"
<1> SUFFICES ASSUME ListingInv, screen.kind = "results", walk.upTo = totalPages(screen.total), shopEdits = 0, ~Tied(asked, mode)
             PROVE  /\ NoneTwice(walk.items) /\ {walk.items[i] : i \in DOMAIN walk.items} = Matching(asked, mode)
                    /\ \A i, j \in DOMAIN walk.items : i < j /\ shop[walk.items[j]] > 0 => shop[walk.items[i]] > 0
  BY DEF PagesShowEachPartOnce
<1>1. /\ asked \in Queries /\ ScreenRight(screen, asked, Found) /\ WalkRight(walk, asked, Found, Orders)
      /\ shop \in [Parts -> {0, 1}]
  BY DEF ListingInv, ListingTyped
<1>2. InTheEnd(asked, Found) = mode /\ mode \in Modes
  BY <1>1 DEF ScreenRight, InTheEnd, Modes
<1> HIDE DEF mode
<1>3. Orders[asked][mode] = Sorted(asked, mode) /\ Found[asked][mode] = Matching(asked, mode)
  BY <1>1, <1>2 DEF Orders, Found
<1>4. OneOf(Orders[asked][mode])
  BY <1>1, <1>2, <1>3, OneOrder DEF OneOf
<1>5. PICK hits, n : hits = Matching(asked, mode) /\ n = Cardinality(hits)
  OBVIOUS
<1>6. screen.total = n /\ n > 0 /\ n \in Nat
  <2>1. Cardinality(Found[asked][mode]) \in Nat
    BY <1>1, <1>2, ShopIsRegular DEF Regular
  <2> QED
    BY <1>1, <1>2, <1>3, <1>5, <2>1 DEF ScreenRight, Total
<1>7. walk.upTo \in Nat \ {0} /\ n <= walk.upTo * PageSize /\ \A m \in 1 .. walk.upTo : (m - 1) * PageSize < n
  BY <1>6, ArePages
<1>8. PICK s \in Sorted(asked, mode) : PagesOf(walk.items, s, walk.upTo)
  BY <1>1, <1>2, <1>3, <1>4, <1>7 DEF WalkRight
<1>9. /\ s \in [1 .. n -> hits] /\ NoneTwice(s) /\ \A x \in hits : \E i \in 1 .. n : x = s[i]
  BY <1>5, RowsSorted
<1>10. walk.items = s
  <2>1. PICK u \in Nat \ {0} : u = walk.upTo
    BY <1>7
  <2>2. PageSize \in Nat \ {0}
    BY ListingAssumption
  <2>3. PICK o : o = (u - 1) * PageSize
    OBVIOUS
  <2>4. o \in Nat /\ o < n /\ n <= o + PageSize
    <3>1. \A x \in Nat : x * PageSize \in Nat
      BY <2>2
    <3>2. u - 1 \in Nat /\ u \in 1 .. u
      BY <2>1
    <3>3. u * PageSize = (u - 1) * PageSize + PageSize
      BY <2>2
    <3>4. (u - 1) * PageSize < n
      BY <1>7, <2>1, <3>2
    <3>5. n <= u * PageSize
      BY <1>7, <2>1
    <3> QED
      BY <1>6, <2>2, <2>3, <3>1, <3>2, <3>3, <3>4, <3>5
  <2>5. Len(s) = n
    BY <1>6, <1>9
  <2>6. limit(s, o) = n
    BY <1>6, <2>2, <2>4, <2>5 DEF limit
  <2>7. walk.items = Front(s, n)
    BY <1>8, <2>1, <2>3, <2>6, Zenon DEF PagesOf
  <2> QED
    BY <1>9, <2>7 DEF Front
<1>11. {s[i] : i \in DOMAIN s} = hits
  BY <1>9
<1>12. ASSUME NEW i \in DOMAIN s, NEW j \in DOMAIN s, i < j, shop[s[j]] > 0 PROVE shop[s[i]] > 0
  <2>1. ~Before(orderBy(s[j], asked, mode), orderBy(s[i], asked, mode))
    BY <1>12, Zenon DEF Sorted
  <2>2. PICK f, g : f = orderBy(s[j], asked, mode) /\ g = orderBy(s[i], asked, mode)
    OBVIOUS
  <2>3. f[1] = inStockFirst(s[j], asked) /\ 1 \in DOMAIN f /\ g[1] = inStockFirst(s[i], asked)
    BY <2>2 DEF orderBy
  <2>4. ~(f[1] < g[1])
    <3>1. \A k \in 1 .. 1 - 1 : f[k] = g[k]
      OBVIOUS
    <3> QED
      BY <2>1, <2>2, <2>3, <3>1 DEF Before
  <2> QED
    BY <1>12, <2>3, <2>4 DEF inStockFirst
<1> QED
  BY <1>5, <1>9, <1>10, <1>11, <1>12

\* While the shop stays as it is no link of the catalog leads to a 404, whatever
\* is filtered, searched or turned to in the meantime, and "No results" and the
\* near-matches are shown only when nothing better matches (findAll of
\* products.service.ts, and the links of CatalogView.tsx).
THEOREM LinksLeadSomewhere == StoreSpec => []NoDeadEnds
<1>1. StoreInit => ListingInv
  BY InitListing DEF StoreInit
<1>2. ListingInv /\ [StoreNext]_storeVars => ListingInv'
  BY NextListing, StoreSteps
<1> QED
  BY <1>1, <1>2, ScreenHasNoDeadEnd, PTL DEF StoreSpec

\* For any parts and any size of a page, turning the pages from the first to the
\* last shows every part that matches, once, those in stock first, while the shop
\* stays as it is and the order tells the parts apart (product-listing.ts).
THEOREM PagesAreComplete == StoreSpec => []PagesShowEachPartOnce
<1>1. StoreInit => ListingInv
  BY InitListing DEF StoreInit
<1>2. ListingInv /\ [StoreNext]_storeVars => ListingInv'
  BY NextListing, StoreSteps
<1> QED
  BY <1>1, <1>2, WalkShowsEachOnce, PTL DEF StoreSpec
===============================================================================
