------------------------------ MODULE Storefront ------------------------------
(***************************************************************************)
(* The pages a visitor browses, one at a time: a catalog page served from  *)
(* the cache, the listing that is filtered and turned page by page, a      *)
(* part's buy box, her review of it, and a request for a part she did not  *)
(* find.  Each is loaded anew, so each starts from its own states while    *)
(* the others stay as they were.                                           *)
(***************************************************************************)
EXTENDS CatalogCache, Listing, BuyBox, Reviews, PartRequests

VARIABLE at                 \* the page the visitor is on

storeVars == <<at, cacheVars, listingVars, buyBoxVars, reviewVars, requestVars>>

StoreInit ==
    /\ at \in {"catalog", "listing", "buyBox", "reviews", "request"}
    /\ CacheInit
    /\ IF at = "listing" THEN ListingInit ELSE ListingNotOpened
    /\ IF at = "buyBox" THEN BuyBoxInit ELSE BuyBoxNotOpened
    /\ IF at = "reviews" THEN ReviewsInit ELSE ReviewsNotOpened
    /\ IF at = "request" THEN PartRequestsInit ELSE PartRequestsNotOpened

OnCatalog(A) == at = "catalog" /\ A /\ UNCHANGED <<at, listingVars, buyBoxVars, reviewVars, requestVars>>
OnListing(A) == at = "listing" /\ A /\ UNCHANGED <<at, cacheVars, buyBoxVars, reviewVars, requestVars>>
OnBuyBox(A) == at = "buyBox" /\ A /\ UNCHANGED <<at, cacheVars, listingVars, reviewVars, requestVars>>
OnReviews(A) == at = "reviews" /\ A /\ UNCHANGED <<at, cacheVars, listingVars, buyBoxVars, requestVars>>
OnRequest(A) == at = "request" /\ A /\ UNCHANGED <<at, cacheVars, listingVars, buyBoxVars, reviewVars>>

StoreNext ==
    \/ OnCatalog(CacheNext) \/ OnListing(ListingNext)
    \/ OnBuyBox(BuyBoxNext) \/ OnReviews(ReviewsNext) \/ OnRequest(PartRequestsNext)

\* The fairness of each page, while the visitor is on it.
StoreFairness ==
    /\ WF_storeVars(\/ OnCatalog(Proceeds) \/ OnListing(Responds)
                    \/ OnBuyBox(Serves) \/ OnReviews(Reviewed) \/ OnRequest(Requested))
    /\ WF_storeVars(OnListing(giveUp))

StoreSpec == StoreInit /\ [][StoreNext]_storeVars /\ StoreFairness
-------------------------------------------------------------------------------
\* No page waits for ever: a page that shows what has since changed is replaced,
\* the skeletons give way, and "Adding", "Saving" and "Sending" end.
PagesSettle == PagesCatchUp /\ SkeletonsEnd /\ ButtonComesBack /\ SavingEnds /\ SendingEnds
===============================================================================
