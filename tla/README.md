# Verification of the truck-parts store

TLA+ modules, TLC configurations and TLAPS proofs about the store in `src/`: a
NestJS backend on PostgreSQL (Prisma), a Next.js frontend, and a mobile-money
provider that takes payments and calls back. Paths below are relative to
`src/apps/backend/src/` unless they start with `frontend:` (for
`src/apps/frontend/src/`) or `prisma:` (for `src/packages/prisma/`).

## 1. Inventory

| Component | State | Operations | Talks to | Hard part | Correct means |
|---|---|---|---|---|---|
| Order state machine (`orders/order-status.ts`) | none | `canTransition`, `releasesStock`, `reservesStock`, `releasesCoupon` | used by transitions | effects of every move agree | a closed order holds nothing, a sold one holds its units |
| Order transitions (`orders/orders.service.ts`) | `Order.status`, `Product.quantity`, `Coupon.usedCount`, `Payment.status` | `checkout`, `transition`, `selectCashPayment`, `confirmCashPayment`, `cancelOrder`, `updateStatus` | database, coupons, mail | many callers race on one row; reads before a conditional UPDATE | units taken once and put back once; a sale is final |
| Online payments (`orders/order-payments.service.ts`, `payment-webhooks.controller.ts`) | `Payment` rows | `startOnlinePayment`, `handleWebhook`, `reconcilePending`, `applyResult` | provider, transitions, mail | late, repeated, lost and reordered results; crashes between awaits | money is recorded once, on an order that was sold, or somebody is told |
| Expiry job (`orders/order-expiry.service.ts`) | none | `expireStaleOrders` every 5 minutes | payments, transitions | acts on a snapshot; batch of 100; several instances | due orders are closed, others are not |
| Payment provider (`payments/`) | at the provider | `createCheckout`, `fetchStatus`, webhook | HTTP | asynchronous, retries | |
| Coupons (`coupons/`) | `Coupon` | `validate`, `applyWithinTransaction`, admin edits | checkout | a limit shared by concurrent checkouts | never more uses than `maxUses`; discount within the total |
| Cart (`cart/`) | `Cart`, `CartItem` | `addItem`, `updateItem`, `removeItem`, claim by checkout | products | read-then-write without a transaction | a cart is ordered once |
| Authentication (`auth/`) | `Session`, `PasswordResetToken` | `login`, `touchSession`, `logout`, `changePassword`, `resetPassword` | users, mail | refreshes race, answers are lost | a revoked chain of tokens is dead |
| Accounts (`users/`, `frontend:app/admin/users`) | `User` | `create`, `updateProfile`, `setRole`, `remove` | sessions, orders | count-then-act | the store keeps an admin |
| Products, listing, import (`products/`) | `Product` and its images | CRUD, Excel import | catalog cache | absolute writes race reservations; slugs | one slug per product, no unit invented |
| Reviews, requests (`reviews/`, `product-requests/`) | rows | create, edit, moderate | | check-then-create | one review per customer and product |
| Reference data (`brands/`, `categories/`, `vehicles/`) | rows | CRUD | search text | | |
| Search text (`prisma:migrations/20261006165610_product_search_text`) | `Product.searchText` | triggers | products, brands, categories, vehicles | a rename racing a save | text matches the rows |
| Catalog cache (`common/catalog-cache/`, `frontend:app/api/revalidate`) | a pending timer; cached pages | `revalidate` | frontend | debounce, failed call | pages become fresh |
| Uploads, mail, insights, dashboard, request pipeline | | | | pure I/O or read-only | |
| Frontend client and contexts (`frontend:lib/api.ts`, `frontend:context/`) | access token, user, cart | refresh, fetch | backend | answers out of order, several tabs | a device stays signed in; the cart shown is the cart |
| Frontend checkout (`frontend:app/[locale]/cart/`) | form, coupon preview | validate, place, pay | backend | answers out of order | the price shown is the price charged |
| Order page (`frontend:app/[locale]/orders/[id]/`) | the order shown, a poll every 3 s | read, poll, pay | backend | polls overlap, answers are lost | it shows progress, gives up polling, offers a payment once |
| Public pages (`frontend:components/catalog/`, `Navbar`, `NavigationSkeleton`, `AddToCartButton`, `ReviewsSection`, `RequestProductForm`) | URL, form inputs, skeletons, buttons | filter, sort, turn pages, add, review, ask | backend, cache | a navigation replaces another; handlers of old renders | no dead end, nothing shown twice, no button waits for ever |
| Back office (`frontend:app/admin/`, `lib/admin-list.ts`) | lists, forms loaded earlier | list, edit, import | backend | two admins, slow answers | an admin sees the effect of what she did |

`PROJECT.json` lists every component with its files, and under `hazards` every
place found where this code is hard to test, with the properties that cover it.

## 2. What is modelled

```
orders and money
  StockLedger <- implements - OrderPaymentsProperties - OrderPaymentsProofs
                                |                        OrderMoneyProofs
                        OrderPaymentsService            MCOrderPayments
                                |
                          OrdersService
                                |
  OrderPage -------------- OrderStatus

  AtomicSale <- implements - Checkout - CheckoutProofs, MCCheckout
  OrderExpiry - OrderExpiryProofs, MCOrderExpiry

accounts        Sessions - SessionsProofs, MCSessions

pages, composed
  Accounts, Catalog, ProductImport, AdminBoard ........... BackOffice - BackOfficeProofs, MCBackOffice
  CatalogCache, Listing, BuyBox, Reviews, PartRequests ... Storefront - StorefrontProofs, MCStorefront
  CartPage, OrderPage .................................... Purchase - PurchaseProofs, MCPurchase
```

The modules look at the same store at different grain: the payments group has
one step per `await` of every caller of an order, Checkout one step per SQL
statement of one transaction, OrderExpiry a clock, and the pages one step per
request sent, served and answered. What a module does not look into it takes as
one step (`PlaceOrder` in OrdersService, `ReleaseOrder` in Checkout, `Recorded`
in OrderExpiry, `checkout` in CartPage, `backend` in OrderPage, `sell` in
Catalog).

**BackOffice**, **Storefront** and **Purchase** put together the desks of the
back office, the pages a visitor browses, and the two pages she buys on. At the
grain they are modelled with, the desks and pages share no row: each is loaded
anew and runs on its own (`desk`, `at`) while the others stay as they were, and
the runs check every one of them, from all of its initial states.

### Orders and money

**OrderStatus** is the table of `order-status.ts` as relations: the moves the
system and an admin may make, and what a move does to stock and coupon.

**OrdersService** holds the database rows as variables (`status`, `quantity`,
`usedCount`, `payStatus`) and the effects of the two transactions. `PlaceOrder`
is `checkout()`; `Commit` is everything `transition()` does once its
conditional UPDATE matched: stock, coupon, payments and the caller's
`inTransaction` write, or nothing when a unit is missing. `debited` and
`handedOver` are history variables: they only record what happened and no
guard reads them.

**OrderPaymentsService** interleaves the callers. Each `Worker` is one request
or job; `call[w]` is where it stands and its local variables, so everything
that was read before an `await` and is used after it can be stale:

| Code | Actions |
|---|---|
| `startOnlinePayment` | `PayOnline` (read) → `CreateRow` → `CheckoutCreated` or `CheckoutFailed` |
| `selectCashPayment` | `PayCash` (read) → `CreateCash` |
| `confirmCashPayment`, `updateStatus`, `cancelOrder` | `ConfirmCash`, `UpdateStatus`, `CancelOrder` → the transition |
| `transition` | `TxRead`/`TxRefused` → `TxCommit`, `TxLost` (0 rows), `TxNoStock`, `TxAlreadyProcessed` |
| `reconcilePending`, from the order page or the expiry job | `View`, `Expire` → `Fetch`/`FetchNothing` for each attempt → `Reconciled` |
| `handleWebhook` | `Webhook`, for any result the provider holds, at any time, any number of times |
| `applyResult` | `ApplyFailed`, `ApplyUnderpaid`, `ApplyPaid` → the transition, or `Claim`/`ClaimLost` → the dispute |
| process death, a throwing await | `Crash`, `Throw` (at most `MaxFaults`) |
| provider and customer (external) | `CustomerPays`, `ProviderFails` |

**StockLedger** is the abstract promise about stock: the units of an order are
taken all together or not at all, only when they are there, and put back at
most once per time they were taken. `ImplementsLedger` maps `holding` to the
orders whose units are out.

**AtomicSale** is what a checkout promises: all the lines of an order leave the
cart, all their units leave the shelf and a coupon use is counted in one step,
or nothing happens.

**Checkout** is the cart and `checkout()`'s transaction, a step per statement:

| Code | Actions |
|---|---|
| `addItem` | `AddItem` (reads) → `CreateLine` or `UpdateLine` |
| `updateItem`, `removeItem` | `UpdateItem` (reads) → `UpdateLine`; `RemoveItem` |
| `checkout`: `cartItem.findMany` | `ReadCart` |
| `cartItem.deleteMany`, `claimed.count` | `ClaimLine` for each line → `ClaimDone` or `ClaimLost` |
| `product.updateMany` | `Reserve` or `OutOfStock`, for each line |
| `applyWithinTransaction` | `UseCoupon` |
| `order.create`, COMMIT | `CreateOrder` |
| rollback by the database | `Abort` |

The variables are the committed rows; `call[w]` holds what a transaction has
written so far, and from it follow the row locks (`LineFree`, `ProductFree`,
`CouponFree`). `ImplementsSale` maps committed rows to AtomicSale unchanged.

**OrderExpiry** is `expireStaleOrders` with its clock: `StartRun` is the query
and the decision about each row it returned (the order of `createdAt` is the
order of checkouts, and `Head` the next in it), `Reconcile` and `Expire` are the
two awaits per due order, `Tick` is time. Between any two of them customers
choose cash, start payments and pay, webhooks come or do not, admins act, and
other instances run.

### Accounts and sessions

**Sessions** is one account on several devices, each with a cookie jar and tabs
that share it. `sess` is the `Session` table, `password` and `link` are the
user's; `cookie`, `ref`, `act` and `user` are the browser's.

| Code | Actions |
|---|---|
| `refreshSession` (api.ts), one promise per tab, and its attempts | `refreshSession` → `refreshAnswered`, `refreshFailed`, `refreshLost` → `retryRefresh` |
| `AuthProvider` on load, the heartbeat | `AuthProvider`, `heartbeat` |
| `touchSession`, then `rotate` | `touchSession` (check) → `rotate` (commit): another request may commit between |
| `login`, `logout`, `changePassword`, `resetPassword` | the form, → `checkCredentials` → `login`, `setPassword`, or `logout` → `actAnswered`, `actLost` |
| `REUSE_GRACE_MS`, `SESSION_INACTIVITY_MS`, `SESSION_ABSOLUTE_MS` | `pastGrace`, `pastWindow` |

**Accounts** is `users/` with roles and access tokens, and the admin's page: who
counts, reads or decides first commits later.

| Code | Actions |
|---|---|
| register, login and refresh, the access token's role | `register`; `personRequests` → `readAccount` → `signToken`; `useToken`, `tokenExpires` |
| `createUser` | `AdminUsersPage` → `createUser` |
| `setRole`, `assertNotLastAdmin` | `AdminUsersPage` → `findActive` → `refuseLastAdmin` or `setRole` |
| `remove`: orders and reviews counted, then deleted or anonymised | `findActive` → `countOrders` → `removeUser` |

### The back office

**Catalog** is a product with its category, brand and truck, and the forms that
edit them. `shelf` is a history variable: what is really there.

| Code | Actions |
|---|---|
| products page, its quick edits; ProductForm | `ProductsBoard`, `QuickEdit`, `EditProductPage`, `CreateProductPage`, `ProductForm` |
| `create`, `update`, `remove` of products | `create`; `findByIdAdmin` → `update`; `countOrderItems` → `remove` (archived when ordered) |
| `remove` of a category, brand, truck | `confirmDelete` → `countProducts` → `removeRow` (Restrict, SetNull, Cascade) |
| a checkout | `sell` |

**ProductImport** is the spreadsheet import: `preview`, `previewAnswered`,
`commit` are the page, `planTx`, `uniqueSlug`, `apply`, `abort` the
transaction, statement by statement; `parseProductCsv` and `plan` are pure
operators translated from the parser and the planner. A row's slug gets the
smallest number that is taken neither in the shop nor by an earlier row of the
file (`freeSlug`), and `inserted` appends the created rows in the file's order.

**AdminBoard** is any of the nine lists: five on `useAdminList`, which numbers
its requests, and four with a plain `load()`. `listPage` holds what differs
between them. `setFilter` and `Pager` ask, `readList` is the backend's read,
`listAnswered` shows it when it is the latest; `act` → `actServed` →
`actAnswered` is a row's button and the reload after it.

### The storefront

**CatalogCache**: `edit` starts the debounce timer, `notifyFrontend` calls the
frontend, `revalidate` marks the entry, `serverFetch` and `store` fill it, and
`noticeLost` is an error, a timeout or a restart with the timer pending.

**Listing**: `buildListingQuery` with `orderBy`, `tieBreak` and the fuzzy retry,
read in several queries (`idsRead`, `countRead`, `fuzzy`, `cardsInOrder`)
between which the shop may change; and the visitor's side, where each of
`CatalogFilters`, `SortSelect`, `removePill`, `clearAll`, `Pagination` and
`SearchForm` builds its query from what it has, and `NavigationSkeleton` covers
the page until it changes or ten seconds pass (`giveUp`). A visit begins with one
of the site's links (`Landings`), none of which names a page but those of
`Pagination`.

**BuyBox**: two buttons, `handleClick` → `existing` → `addItem` → `addToCart` →
`cartRead` → `cartShown`, and `AuthModal` → `onAuthenticated` for a guest. An
add carries `as`, the visitor its handler's render knew.

**Reviews**: `handleSubmit`, `handleDelete` → `check` → `write` →
`reviewAnswered`, from several tabs; **PartRequests**: `submitRequest` →
`throttled` or `createRequest` → `requestAnswered`, then `notifyAdmin` and
`updateAdmin`.

### Cart and order page

**CartPage**: `CartLine` → `updateItem` → `updateQuantity` → `getCart` →
`refreshed`, which checks the coupon again (`recheck`); `applyCoupon` →
`validate` → `validated`; `submit` → `checkout` → `ordered` or `failed` →
`payOrder`. Requests have no number, so answers may cross.

**OrderPage**: `load`, `pollTick`, `findOne` (the read), `answered`; `pay` →
`payServed` → `payAnswered`; `backend` moves the order along the relations of
OrderStatus. `visitAgain` opens the page anew; a payment that has not been served
by then is lost first (`payLost`), and an answer on its way reaches nobody.

### Modelling decisions

- *Transactions.* PostgreSQL at READ COMMITTED: a transaction that matched its
  conditional UPDATE keeps that row locked until it commits, and every later
  write is itself conditional on the row it locks. It is one step from that
  UPDATE on; the reads before it are earlier steps. In Checkout every statement
  is a step and locks are kept from one to the next.
- *Deadlocks.* Two checkouts may wait for each other's rows. PostgreSQL then
  aborts one; `Abort` may end any open transaction, for this reason, for
  Prisma's time limit, a lost connection or a dead process. That PostgreSQL
  detects the cycle is taken as given.
- *Cart lines.* `Item` is the pool of line ids that may be created; `OwnerOf` and
  `ProductOf` say what each would be. A line's quantity may change between
  the checkout's read and its claim; the order keeps what was read, as the code
  does. Prices, discounts and `getOrCreateCart` are left out.
- *Time.* `age` and `idle` are ticks since `createdAt` and since the latest
  payment, capped at `Cap`, which lies beyond every comparison. `Period` and
  `JobTime` bound the schedule: a run begins every `Period` ticks and ends within
  `JobTime`. Instances start with any offset (`since`). Without `JobTime` the
  lateness of an expiry has no bound at all. `BATCH_SIZE` and the limits are
  scaled down.
- *Payments pool.* `OnlineRow` and `CashRow` are the rows that requests may
  create; their number bounds the attempts of a behaviour. `OrderOf` says whose
  they are. References and their numbering are abstracted: `CreateRow` may also
  lose to the unique constraint.
- *Provider.* `gateway[r]` is what the provider would report for an attempt. A
  customer can pay only at the URL `createCheckout` returned, so an attempt the
  call never finished cannot be paid. An attempt that failed or whose order
  is closed can still be paid.
- *Amounts* are three results: the full amount, another amount, failed.
- *Coupons* have one code with a limit. Unlimited coupons, their expiry, minimum
  total and an admin's edits are not modelled.
- *PAYMENT_FAILED* is in the table and handled by the code, but no code moves an
  order there; it stays in the relations so that they match the source.
- *Order expiry* may try any pending order at any time: whether it is due is
  abstracted, which adds behaviours and hides none.
- *Mail* is the fact that an admin was alerted about a payment.
- *Sessions.* One account; several tabs may share a jar, and then share its
  cookie but not the promise of api.ts. A refused CSRF check is a refused
  refresh. A request takes less time than `REUSE_GRACE_MS`.
- *A person's data* (names, phones, addresses, those on her orders too) is one flag,
  `personal`: the code erases it all in one transaction.
- *One product stands for the catalog* in Catalog, BuyBox and CartPage: the
  hazards are between its row and its neighbours, or its answers and one another.
- *One search term, one category, one truck and the in-stock box* stand for all
  filters of the listing; `Facts` gives each part its relevance, likeness, price
  and age. What PostgreSQL's trigram search finds is an input.
- *A new navigation replaces the one before it*, as the router of Next does: only
  the latest is answered.
- *Amounts in CartPage* are whole; the coupon takes half off from `MinOrder` on.
  Rounding of per-cent discounts is left out.
- *What properties remember* (`raced`, `overwrote`, `met`, `crossings`, ...) are
  history variables. No guard reads them; they name the race in which a promise
  does not hold, so that it is shown to hold in every other.

## 3. Properties and runs

| Run | Instance | Shows |
|---|---|---|
| `two_attempts` | one order, two online attempts and cash | `PaidOrderHasMoney`, `NoStrandedMoney`, `ExtraPaymentsFlagged`, `SucceededNeverUndone`, `SoldNeverFallsBack` |
| `last_unit` | two orders, one unit, one coupon, an attempt each: expiry, resale and revival all happen | `TypeOK`, `ReservedExactlyOnce`, `CouponUsesAccounted`, `ImplementsLedger`, `LeftTheStoreStaysOut` |
| `redelivery` | one order, one attempt, one fault, fairness | `MoneyIsRecorded` |
| `double_submit` | two carts, three lines of two products, units and a coupon use too few for all | `TypeOK`, `LinesAccounted`, `CouponCounted`, `ImplementsSale` |
| `expiry_schedule` | two orders, two instances, one failure, batches that hold both orders | `ExpiredOnTime`, `ExpiredWhenDue` |
| `sessions` | two tabs on one device or two, three rows, two forms, one lost answer | `NoDeviceLosesItsSession`, `NoFalseAlarm`, `OnlyOvertakenSurvive`, `SignedOutIsFinal` |
| `back_office` | three people; two admins at each desk; a list of two rows, one on a page | `KeepsAnAdmin`, `AnonymisedHoldsNothing`, `TokensCarryTheRole`; `ReferencesHold`, `StockMatchesShelf`; `NoTwinParts`, `PlanIsOfTheFile`; `ShowsWhatIsAsked` |
| `storefront` | three parts, one on a page, three moves; two presses, two tabs | `StaleForAReason`; `PagesShowEachPartOnce`, `NoDeadEnds`; `BadgeIsTheCart`; `PageShowsTheReview`; `RequestArrivesOnce`; `PagesSettle` |
| `purchase` | two units, a coupon with a minimum, three clicks; an order that goes through four statuses | `ShownIsCharged`; `CashChosenOnce`, `TrackerNeverGoesBack`; `PagesSettle` |

*Bounds.* The runs of `MCOrderPayments` use two workers: every hazard
there needs two calls that overlap (a stale reader and one that overtakes it), and
one worker may run any number of calls, so a third actor can act between any
two steps of one worker by way of the other. `double_submit` has two lines in one
cart, so that a checkout can fail half-way and two of them can lock the same
rows; a second cart competes for one of the products. In `expiry_schedule` the
limits differ by less than a period, and the instances' runs overlap in every
way. `sessions` needs two tabs for a race, a row for each login and one for the
rotation; the third row lets the loser of a race rotate again. In `back_office` three
people allow two admins to act on each other and on a third; each desk has
room for one form more than a race takes; the files hold a twin in the shop, a
twin in the file, a row without part number and one without brand. In
`storefront` two of three parts tie on each order key, so that a page boundary
falls between them, and a third navigation may lead back before two others were
answered (`MaxEvents` bounds moves, edits and lost answers together); the cache sees enough changes
for an answer and a notice to cross twice. In `purchase` three clicks let a
quantity, a coupon and a submit cross. `CHECK_DEADLOCK FALSE`: a shop with
nothing left to do may stop, and so may a page.

*Faults.* Safety of payments is checked without faults (`MaxFaults = 0`):
`NoStrandedMoney` is false with one (see below). It and `ExtraPaymentsFlagged`
are proved for every behaviour until its first fault, the others for every
`MaxFaults`, and `redelivery` and `expiry_schedule` have one fault. `sessions`, `back_office`, `storefront`
and `purchase` lose answers and requests (`MaxLost`, `MaxUnanswered`,
`MaxMisfires`, `MaxNoReply`, `MaxMissed`, `MaxLostReads`, `MaxFailures`).

*Fairness.* `LiveSpec` of the payments: a call that began takes its next step,
because nothing in the code waits for anything but its own awaits (weak
fairness of `Step(w)`); the provider repeats a success webhook until it is
answered 200, so it is delivered again whenever it can be received infinitely
often (strong fairness, since a worker is not free all the time). OrderExpiry:
the clock ticks and the job runs. The pages: a request that is not lost
is served and answered (`Proceeds`, `Responds`, `Serves`, `Reviewed`,
`Requested`, `Answers`, `Arrives`), and a timer of the browser fires (`giveUp`,
`pollTick`); `PagesCatchUp` also needs visits, without which a cached page is
shown to nobody. Nobody is obliged to press, pay, edit or cancel, and
no lost answer is promised.

### Findings

Three runs end in a counterexample, each against a statement in the repository:

| Run | What happens |
|---|---|
| `lost_success` | A success whose transition to PAID returned null twice (the order expired, then another attempt revived it) is dropped by `applyResult`, and the webhook is answered 200: the payment is never recorded and nobody is told. |
| `idle_device` | A device that was away for an hour has its row revoked by its first check, and keeps the cookie; its next page replays the token, `touchSession` takes it for stolen, and every session of the account ends. |
| `guest_adds` | A guest who signs in from "Add to cart" has the part in her cart, but the handler refreshes as the guest it began as: the badge shows none. |

Met while modelling, without a run of their own. About orders and payments:

- For a closed order the payment is claimed (`orders/order-payments.service.ts:178-179`)
  outside the transaction that disputes it (:189). A crash between the two leaves
  money on the closed order, and the repeated webhook finds the payment claimed;
  this is why `NoStrandedMoney` needs `MaxFaults = 0`.
- Two `pay-cash` requests both find no pending cash payment
  (`orders/orders.service.ts:280`) and both create one (:288).
- Expiry gives a coupon use back; a late payment revives the order with its
  discount and takes no use (`orders/orders.service.ts:128`).
- PAID → DISPUTED → REFUNDED (`orders/order-status.ts:57`) keeps units out of
  stock that never left the store, and EXPIRED → DISPUTED → DELIVERED delivers
  units that were given back.
- The expiry job decides on payments it read before it worked through its batch
  (`orders/order-expiry.service.ts:50`): an order whose customer chose cash in
  between is expired at once, against the comment at :16-19.
- The job takes the `BATCH_SIZE` oldest pending orders before it asks which are
  due, so a hundred cash orders that are not due keep younger online orders from
  being expired: `ExpiredOnTime` fails as soon as `BatchSize` is smaller than the
  number of candidates.
- Polling covers pending orders only, so a payment made as its order is closed is
  never recorded if its webhook is lost (`redelivery` assumes that it is
  repeated).
- README.md:34 says that a failed payment puts the stock back, where the code
  keeps the order and its units for another attempt, as the comment at
  `orders/order-payments.service.ts:23` says.

About accounts and the back office:

- Two admins who demote each other at once leave none (`raced`): the count and
  the change are separate statements.
- A product form saved after a sale writes the quantity it showed (`overwrote`).
- A product form leaves out the fields that were emptied
  (`frontend:components/admin/ProductForm.tsx:152-159`), so an edit cannot clear them.
- A tab that does not know of the session its jar holds may log in over it:
  `createSession` adds a row, and the logout that follows ends the row it names,
  so the older one lives on with no holder (`auth/auth.service.ts:182`). With
  two forms the `sessions` run cannot reach it; the attempt to prove
  `SignedOutIsFinal` did, and `Races` now counts such a login as an overlap.
- An import always creates the rows without a part number, and two commits that
  overlap may create one part twice; SQL and JavaScript normalise accents of the
  key differently.

About the pages:

- `frontend:app/[locale]/cart/use-checkout.ts:69-71` keeps the discount honest
  only while answers do not cross (`crossings`), and a refresh that rejects leaves
  `submitting` on (:118-120).
- Near-matches that are equally close have no order, nor have parts created in the
  same millisecond, since `createdAt` is the only tie-break
  (`products/product-listing.ts:106-111`): such a part may be on two pages or on
  none, so `PagesShowEachPartOnce` excepts them (`Tied`). A page past the
  end is a 404 when it is loaded again after the shop shrank.
- The category filter is dropped when its options failed to load
  (`frontend:components/catalog/CatalogFilters.tsx:44`), and the form keeps
  ticks of a navigation that another one took back (:29-31).
- The timer of the "Added" button may end a later press's state
  (`AddToCartButton.tsx:39`), and a request that rejects leaves a button on
  "Adding" or a review on "Saving"; a slow `GET /cart` answered after a logout
  shows its items.
- A signed-in customer whose access token has expired sends a part request without
  a name and is taken for a guest: the request is refused
  (`product-requests/product-requests.controller.ts:18-19`).
- A review does not revalidate the cached product page.

## 4. Proofs

Checked by TLAPS for every value of the constants that satisfies the modules'
assumptions: sets of orders, products, rows, workers, tabs, devices and people
of any size, and every bound. Each proof has an inductive invariant, which TLC
checked on the run's instance first.

- **OrderPaymentsProofs**: `TypeCorrect`: `Spec => [](TypeOK /\ CallsOK)`. That
  `quantity` stays natural is not a matter of typing: it needs `CallsOK`, which
  says what the locals of a call mean at each program counter (which rows belong
  to its order, which moves may be pending), so that a commit with
  `reservesStock` has checked the shelf. On it rest `ReservedOnce` and
  `RefinesLedger`, whose inductive invariant is `ReservedExactlyOnce` with the
  types: a move in the table changes `debited` exactly when it crosses between
  holding and not holding. A step then maps to `Take`, `PutBack` or a stutter of
  StockLedger. `StaysOut` is an action property of the same table.
  `CouponAccounted` counts: a commit moves `usedCount` and the set of orders that
  hold a use by one each, or neither.
- **OrderMoneyProofs**: `PaidHasMoney`, `SaleStands`, `RecordStands`. The
  inductive invariant `MoneyInv` adds to `PaidOrderHasMoney` what the calls carry: a call
  that is about to claim a row has a result the provider really gave; a row that
  is not registered with the provider is not paid; and only PAID is reached from
  an unsold status together with a payment. The two action properties follow
  from it and from the table of legal moves (`LegalMoves`).
  `NothingStranded` and `ExtrasFlagged` hold while `faults = 0`, which is what
  the code promises: a crash between the claim and the dispute strands the money.
  Their invariant `FlagInv` says that a claimed row is in the hand of one call,
  that what a call read is not staler than the conditional UPDATE that follows
  allows, and that at most one success is unflagged.
- **CheckoutProofs**: `CheckoutTypeCorrect`, `LinesKept`, `CouponNeverOverused`,
  `SaleIsAtomic`. The inductive invariant `CheckoutInv` says what a transaction in
  progress may rely on: the rows it claimed, the decrements it made and its
  coupon use are still possible and nobody else's (`Exclusive`), every line it read
  belongs to its customer, one per product (`CallOK`, `RowsOK`), and the coupon
  count is that of the open orders (`CouponOK`). With it each step maps to a step
  of AtomicSale or a stutter; only `CreateOrder` is a `Buy`.
- **SessionsProofs**: `RowsHaveOneHolder`, and on it the four properties of the
  run. `Base`: a row is named by the jar and the requests of one device
  (`OneHolder`), and the row of an answer by that answer alone (`AnswersNew`), so
  a rotation or a logout touches no other device. `DevicesStaySignedIn` adds
  that answers bring live rows and that a logout's device is excused (`Working`);
  `RacesAreNoTheft` that a token leaves every jar and request within its grace
  (`Calm`); `LogoutIsFinal` that the requests of a device that never raced
  each replace the token they were sent with, so no live row loses its holder
  (`Orderly`). `PasswordEndsSessions` needs the types alone.
- **BackOfficeProofs**, all of BackOffice's specification: `AnAdminStays`
  (`OthersStay`: unless two calls passed one count, which is `raced`, whoever was
  let past it leaves an admin it does not act on), `RemovalLeavesNothing`,
  `TokensAreOfTheRole` (`RolesInv`: a refresh that has read an account signs the
  role the account has, since a change of role takes its session away),
  `ReferencesStand` and `ShelfIsMatched` (`CatalogInv`: a brand whose products
  were counted still has none, or one was saved since and is marked), and
  `ConfirmedPlanIsOfTheFile`. `ImportMakesNoTwins` (`TwinsInv`): a transaction past
  its plan has a file without twins and slugs that differ, and unless two commits
  overlapped, the shop holds none of the parts it is about to create.
  `ListsShowWhatIsAsked` (`BoardInv`): a list that numbers its requests has one
  newest, which asks for what the screen's filters say; as long as nobody else
  changed a row, its answer is what the database holds or a reload is coming. A list
  with a plain `load()` is asked for in one way only, and its one button and its
  requests take turns.
- **OrderExpiryProofs**: `NoneTooSoon` and `UnitsComeBack`. `DueSince`: an order a
  run holds was due when the run began or has been active since. `OnTime` bounds
  the lateness for each instance by itself: a period for every failure, one more
  while its run holds the order, and what has passed since the run began; so one
  instance suffices, and others neither help nor harm. The premise of
  `UnitsComeBack`, `[]BatchHolds`, says that the candidates never outnumber a
  batch, whatever the number of orders.
- **StorefrontProofs** proves about a page by its own specification, which every
  behaviour of the store satisfies (`StoreSteps`). `StalenessIsExplained`: a
  notice is coming also for an answer that went stale on its way to the cache.
  `RequestsArriveOnce`: a form waits for one request, the last that was sent, and
  an "ok" is stored. `BadgeFollowsTheCart`: unless two met, the add about to write
  has read the line as it is (`ReadersCurrent`), and an answer as new as the
  latest write was shown or is to come (`AnswerToCome`). `ReviewIsShown`
  (`ReviewsInv`): in a tab no other tab interfered with, a form is sent once at a
  time (`FormsAre`), and with its saved requests answered the page would show what
  is stored (`CatchesUp`); the page and the table hold one review or none.
  `LinksLeadSomewhere` and `PagesAreComplete` share `ListingInv`. While the shop
  does not change, every page asked for is the first or has rows (`RequestRight`),
  so a link on the screen, which follows from the total shown (`ScreenRight`),
  leads to rows. The pages turned so far are the front of the sorted rows
  (`WalkRight`), so the last page completes them. That they do not overlap needs
  one order of the rows, which `OneOrder` proves for rows that are not tied: of two
  orders, the first place where they differ would be a tie.
- **PurchaseProofs**, each page by its own specification. `TrackerGoesForward`: a
  move of the state machine never takes an order out of reach of what was shown
  (`Reach`). `CashIsChosenOnce` (`OrderPageInv`): once cash is recorded the order no
  longer asks for it, nor does the page, save between the answer and the read
  that follows it. `WhatIsShownIsCharged` (`CartPageInv`): unless answers crossed,
  what the page shows is the cart, or a click, a refresh or a check under way will
  make it so (`UpToDate`, `CouponFits`); a submit that finds all of them settled
  sends the total the backend computes, and later clicks do not change it
  (`SentIsKept`).

Every property of the passing runs is stated by a theorem but two, which are
liveness and stay with TLC, as does all that rests on fairness or ENABLED:
`MoneyIsRecorded` and `PagesSettle`. The three counterexamples are of course
TLC's too. Several theorems are about behaviours in which a named race or
failure did not happen (`raced`, `crossings`, `shopEdits = 0`, `faults = 0`, ...),
as the properties themselves say: the findings above show what happens in the
others. Units on the shelf and units of orders add up to what the store started
with because every step is one of StockLedger's.

## 5. What is left

The runs' safety properties are proved. The models could be extended by
unlimited and expiring coupons and an admin's edits of them; cash requests that
overlap, with the two pending rows they leave (`orders/orders.service.ts:288`); more
pages of the frontend, which hold little state of their own.

### Not modelled

- *Search text triggers* and the search itself: SQL text processing; the listing
  takes what they find as an input.
- *Uploads, photos, mail, insights, dashboard figures, sitemap*: I/O or
  read-only; nothing in the store depends on their outcome. That nothing waits
  for a mail is modelled (`notifyAdmin`).
- *Request pipeline* (guards' wiring, validation pipes, CSRF comparison, Helmet),
  bcrypt and JWT: framework configuration without state of its own.
- *Seed and maintenance scripts*: run by hand, once.
- *Rendering, translation, static pages, banners, analytics*: no state that a
  property here is about.
- *Money's arithmetic* (per-cent rounding, currency formatting) and the spelling of
  slugs: data that no property tells apart; the slug's number is modelled.
- *`getOrCreateCart`* (two first requests of a customer may both create the cart;
  the unique key refuses the second) and renaming of reference rows.
