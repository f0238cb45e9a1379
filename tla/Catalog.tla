------------------------------- MODULE Catalog -------------------------------
(***************************************************************************)
(* One product, the category, brand and truck it refers to, the admins who *)
(* edit them from forms loaded earlier, and the customers who meanwhile    *)
(* buy it.  Sources: products.service.ts, categories/, brands/, vehicles/  *)
(* of apps/backend/src/, the foreign keys of the first migration, and the  *)
(* admin pages under apps/frontend/src/.                                   *)
(*                                                                         *)
(* A handler looks first and writes later; a form sends what it showed.    *)
(* Prices, texts and photos are left out (ProductForm has the photos).     *)
(***************************************************************************)
EXTENDS Integers, FiniteSets

CONSTANTS Admin,
          MaxStock,         \* bound: units an admin types in
          MaxSales,         \* bound: orders placed
          MaxEdits          \* bound: admin requests

ASSUME CatalogAssumption == {MaxStock, MaxSales, MaxEdits} \subseteq Nat

VARIABLES row,              \* which rows exist: category, brand, truck, product
          product,          \* status, its brand, whether it fits the truck, quantity
          ordered,          \* an order item refers to it
          form,             \* per admin: the page open, what it shows, its request
          sales, edits,
          \* What the properties remember.
          shelf,            \* units physically there and not sold
          overwrote,        \* a form wrote over units sold after it was loaded
          wanted,           \* an accepted save chose the brand
          brandRaced        \* a save came between the count and the brand's delete

catalogVars == <<row, product, ordered, form, sales, edits, shelf, overwrote, wanted, brandRaced>>

Table == {"category", "brand", "truck"}
NoForm == [pc |-> "closed", kind |-> "edit", status |-> "DRAFT", brand |-> FALSE, fits |-> FALSE,
           seen |-> 0, quantity |-> 0, sold |-> FALSE]
Exists(t) == t \in row

CatalogInit ==
    /\ row \in {Table, Table \cup {"product"}}
    /\ \E b \in BOOLEAN, n \in 0 .. MaxStock :
         product = [status |-> "PUBLISHED", brand |-> Exists("product") /\ b, fits |-> Exists("product"),
                    quantity |-> IF Exists("product") THEN n ELSE 0]
    /\ ordered = FALSE
    /\ form = [a \in Admin |-> NoForm]
    /\ sales = 0 /\ edits = 0
    /\ shelf = product.quantity /\ overwrote = FALSE
    /\ wanted = product.brand /\ brandRaced = FALSE

to(a, f) == form' = [form EXCEPT ![a] = f]
close(a) == to(a, NoForm)
step(a, pc) == to(a, [form[a] EXCEPT !.pc = pc])
\* An error is shown in the form, which stays open; a board just shows it.
refusal(a) == IF form[a].kind \in {"create", "edit", "quick"} THEN step(a, "open") ELSE close(a)
ghosts == <<shelf, overwrote, wanted, brandRaced>>
stored == <<row, product, ordered>>
-------------------------------------------------------------------------------
(* Customers, from StockLedger: reserve, and release on a cancellation.    *)
sell ==
    /\ Exists("product") /\ product.status = "PUBLISHED" /\ product.quantity > 0 /\ sales < MaxSales
    /\ product' = [product EXCEPT !.quantity = @ - 1]
    /\ ordered' = TRUE /\ sales' = sales + 1 /\ shelf' = shelf - 1
    /\ form' = [a \in Admin |-> [form[a] EXCEPT !.sold = @ \/ form[a].pc # "closed"]]
    /\ UNCHANGED <<row, edits, overwrote, wanted, brandRaced>>
-------------------------------------------------------------------------------
(* The pages.  A page that edits shows the product as loaded.              *)
open(a, kind) ==
    /\ form[a].pc = "closed" /\ edits < MaxEdits /\ edits' = edits + 1
    /\ to(a, [NoForm EXCEPT !.pc = "open", !.kind = kind, !.status = product.status, !.brand = product.brand,
                            !.fits = product.fits, !.seen = product.quantity, !.quantity = product.quantity])
    /\ UNCHANGED <<stored, sales, ghosts>>

ProductsBoard(a) == Exists("product") /\ \E kind \in {"quick", "remove"} : open(a, kind)
EditProductPage(a) == Exists("product") /\ open(a, "edit")
CreateProductPage(a) == ~Exists("product") /\ ~ordered /\ open(a, "create")
AdminRows(a) == \E t \in Table : Exists(t) /\ open(a, t)

\* What is typed and picked before the save.  An archived product may stay so.
QuickEdit(a) ==
    /\ form[a].kind = "quick" /\ form[a].pc = "open"
    /\ \E q \in {form[a].quantity, MaxStock}, s \in {"PUBLISHED", "DRAFT", form[a].status} :
         to(a, [form[a] EXCEPT !.pc = "sent", !.quantity = q, !.status = s])
    /\ UNCHANGED <<stored, sales, edits, ghosts>>

\* The full form offers the rows that existed when it was loaded, and sends no
\* status but for a new product.
ProductForm(a) ==
    /\ form[a].pc = "open"
    /\ \/ /\ form[a].kind = "edit"
          /\ \E q \in {form[a].quantity, MaxStock}, b, f \in BOOLEAN :
               to(a, [form[a] EXCEPT !.pc = "sent", !.quantity = q, !.brand = b, !.fits = f])
       \/ /\ form[a].kind = "create"
          /\ \E s \in {"PUBLISHED", "DRAFT"}, q \in 0 .. MaxStock, b \in BOOLEAN :
               to(a, [form[a] EXCEPT !.pc = "sent", !.quantity = q, !.status = s, !.brand = b, !.fits = TRUE, !.seen = 0])
    /\ UNCHANGED <<stored, sales, edits, ghosts>>

confirmDelete(a) ==
    /\ form[a].kind \in Table \cup {"remove"} /\ form[a].pc = "open" /\ step(a, "sent")
    /\ UNCHANGED <<stored, sales, edits, ghosts>>

leave(a) == form[a].pc = "open" /\ close(a) /\ UNCHANGED <<stored, sales, edits, ghosts>>
-------------------------------------------------------------------------------
(* products.service: create, update and remove.                            *)
\* The rows a save refers to, by their foreign keys.
refersToRows(a) ==
    /\ form[a].kind = "create" => Exists("category")
    /\ form[a].kind \in {"create", "edit"} => (form[a].brand => Exists("brand")) /\ (form[a].fits => Exists("truck"))

\* mutant: the number typed is added to the stock.
quantityAdded(f) == product.quantity + f.quantity
quantityWritten(f) == f.quantity
writes(a) ==
    LET f == form[a] IN
    /\ product' = [status |-> IF f.kind = "edit" THEN product.status ELSE f.status,
                   \* an emptied optional field is not sent: the brand stays
                   brand |-> IF f.kind = "quick" THEN product.brand ELSE f.brand \/ (f.kind = "edit" /\ product.brand),
                   fits |-> IF f.kind = "quick" THEN product.fits ELSE f.fits,
                   quantity |-> quantityWritten(f)]
    /\ shelf' = IF f.kind = "create" THEN f.quantity ELSE shelf + f.quantity - f.seen
    /\ overwrote' = (f.kind # "create" /\ (overwrote \/ f.sold \/ product.quantity # f.seen))
    /\ wanted' = product'.brand
    /\ brandRaced' = (brandRaced \/ \E b \in Admin : form[b].kind = "brand" /\ form[b].pc = "counted")

create(a) ==
    /\ form[a].kind = "create" /\ form[a].pc = "sent"
    /\ IF refersToRows(a) /\ ~Exists("product")
       THEN writes(a) /\ row' = row \cup {"product"} /\ close(a)
       ELSE refusal(a) /\ UNCHANGED <<row, product, ghosts>>
    /\ UNCHANGED <<ordered, sales, edits>>

findByIdAdmin(a) ==
    /\ form[a].kind \in {"quick", "edit", "remove"} /\ form[a].pc = "sent"
    /\ IF Exists("product") THEN step(a, "found") ELSE refusal(a)
    /\ UNCHANGED <<stored, sales, edits, ghosts>>

update(a) ==
    /\ form[a].kind \in {"quick", "edit"} /\ form[a].pc = "found"
    /\ IF refersToRows(a) /\ Exists("product")
       THEN /\ writes(a)        \* the panel of the board stays open, as typed
            /\ IF form[a].kind = "edit" THEN close(a)
               ELSE to(a, [form[a] EXCEPT !.pc = "open", !.seen = form[a].quantity, !.sold = FALSE])
       ELSE refusal(a) /\ UNCHANGED <<product, ghosts>>
    /\ UNCHANGED <<row, ordered, sales, edits>>

countOrderItems(a) ==
    /\ form[a].kind = "remove" /\ form[a].pc = "found"
    /\ step(a, IF ordered THEN "archive" ELSE "delete")
    /\ UNCHANGED <<stored, sales, edits, ghosts>>

onDeleteRestrict == ~ordered
remove(a) ==
    /\ form[a].kind = "remove"
    /\ \/ /\ form[a].pc = "archive" /\ Exists("product")
          /\ product' = [product EXCEPT !.status = "ARCHIVED"]
          /\ close(a) /\ UNCHANGED row
       \/ /\ form[a].pc = "delete" /\ Exists("product") /\ onDeleteRestrict
          /\ row' = row \ {"product"} /\ close(a) /\ UNCHANGED product
       \/ /\ form[a].pc \in {"archive", "delete"} /\ (Exists("product") => form[a].pc = "delete" /\ ~onDeleteRestrict)
          /\ refusal(a) /\ UNCHANGED <<row, product>>
    /\ UNCHANGED <<ordered, sales, edits, ghosts>>
-------------------------------------------------------------------------------
(* categories, brands, vehicles: remove looks and counts, then deletes.    *)
\* mutant: the products of a brand are not counted.
productsOfUncounted(t) == t = "category" /\ Exists("product")
productsOf(t) == Exists("product") /\ (t = "category" \/ (t = "brand" /\ product.brand))
countProducts(a) ==
    /\ form[a].kind \in Table /\ form[a].pc = "sent"
    /\ IF Exists(form[a].kind) /\ ~productsOf(form[a].kind) THEN step(a, "counted") ELSE refusal(a)
    /\ UNCHANGED <<stored, sales, edits, ghosts>>

\* products.categoryId restricts, products.brandId is set to null, and the
\* rows of product_compatibility cascade.
removeRow(a) ==
    LET t == form[a].kind
        refused == ~Exists(t) \/ (t = "category" /\ Exists("product")) IN
    /\ t \in Table /\ form[a].pc = "counted"
    /\ IF refused THEN refusal(a) /\ UNCHANGED <<row, product>>
       ELSE /\ row' = row \ {t} /\ close(a)
            /\ product' = [product EXCEPT !.brand = @ /\ t # "brand", !.fits = @ /\ t # "truck"]
    /\ UNCHANGED <<ordered, sales, edits, ghosts>>

createRow(a) ==             \* a second row of one name is refused
    /\ form[a].pc = "closed" /\ edits < MaxEdits /\ edits' = edits + 1
    /\ \E t \in Table \ row : row' = row \cup {t}
    /\ UNCHANGED <<product, ordered, form, sales, ghosts>>

CatalogNext ==
    \/ sell
    \/ \E a \in Admin :
         \/ ProductsBoard(a) \/ EditProductPage(a) \/ CreateProductPage(a) \/ AdminRows(a)
         \/ QuickEdit(a) \/ ProductForm(a) \/ confirmDelete(a) \/ leave(a)
         \/ create(a) \/ findByIdAdmin(a) \/ update(a) \/ countOrderItems(a) \/ remove(a)
         \/ countProducts(a) \/ removeRow(a) \/ createRow(a)

CatalogSpec == CatalogInit /\ [][CatalogNext]_catalogVars
-------------------------------------------------------------------------------
\* Whatever order the deletes and the saves commit in, a product keeps its
\* category, refers to no brand or truck that is gone, and stays once ordered.
\* It loses the brand it was saved with only to a delete that had counted before
\* the save: the count is the only thing in the way, for the foreign key sets
\* the brand to null (brands.service.ts:31 expects an error).
ReferencesHold ==
    /\ Exists("product") => /\ Exists("category")
                            /\ product.brand => Exists("brand")
                            /\ product.fits => Exists("truck")
    /\ ordered => Exists("product")
    /\ Exists("product") /\ wanted => product.brand \/ brandRaced

\* The quantity is what is on the shelf, unless a form loaded before a sale
\* was saved after it: it sends the quantity it showed, sold units included.
StockMatchesShelf == Exists("product") => product.quantity = shelf \/ overwrote
===============================================================================
