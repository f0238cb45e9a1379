---------------------------- MODULE ProductImport ----------------------------
(***************************************************************************)
(* The spreadsheet import: the page of each admin, which previews the file *)
(* chosen and then sends it again to commit, and the transaction that      *)
(* plans the rows against the catalog and applies them.  Sources:          *)
(* apps/backend/src/products/import/ and                                   *)
(* apps/frontend/src/app/admin/import/page.tsx.                            *)
(*                                                                         *)
(* A row is the name its slug is made from, its part number and brand (or  *)
(* none), and whether every cell is well formed.  The transaction reads    *)
(* what is committed, statement by statement: it plans, then picks slugs,  *)
(* then inserts, where a slug or brand taken meanwhile aborts it.          *)
(***************************************************************************)
EXTENDS Integers, Sequences, FiniteSets

CONSTANTS Importer,         \* admins
          File,             \* files they may choose: sequences of rows
          MaxChoices,       \* bound: files chosen, by all of them
          MaxProducts       \* bound: products stored

ASSUME ImportAssumption ==
    {MaxChoices, MaxProducts} \subseteq Nat /\ \A file \in File : file \in Seq({file[i] : i \in DOMAIN file})

VARIABLES stock,            \* the products: name and number of the slug, part, brand, archived
          brandRows,        \* brands that exist
          page,             \* per admin: file, plan shown, busy, previews unanswered, commit
          choices,
          \* What the properties remember.
          overlapped,       \* two commits, or a commit and a hand-made product, met
          crossed           \* admins who chose their file while an answer was still due

importVars == <<stock, brandRows, page, choices, overlapped, crossed>>

None == "none"
NoPlan == [errors |-> FALSE, actions |-> <<>>, of |-> <<>>]
NoTx == [pc |-> "idle", file |-> <<>>, actions |-> <<>>, slugs |-> <<>>]
NoPage == [file |-> <<>>, plan |-> NoPlan, busy |-> FALSE, asked |-> {}, tx |-> NoTx]

ImportInit ==
    /\ stock = <<>> /\ brandRows \in SUBSET {"b"}
    /\ page = [a \in Importer |-> NoPage]
    /\ choices = 0 /\ overlapped = FALSE /\ crossed = {}
-------------------------------------------------------------------------------
(* The parser and the plan.                                                *)
\* Any malformed cell, and a part number and brand given twice, is an error.
parseProductCsv(file) ==
    [rows |-> file,
     errors |-> \/ \E i \in DOMAIN file : ~file[i].ok
                \/ \E i, j \in DOMAIN file : i < j /\ file[i].part # None
                      /\ file[i].part = file[j].part /\ file[i].brand = file[j].brand]

\* mutant: a product that is archived is not looked for.
matchesShown(r) == {i \in DOMAIN stock : stock[i].part = r.part /\ stock[i].brand = r.brand /\ ~stock[i].archived}
\* The products of a row's part number and brand, archived or not.
matches(r) == {i \in DOMAIN stock : stock[i].part = r.part /\ stock[i].brand = r.brand}

action(r) == IF r.part # None /\ matches(r) # {} THEN "update" ELSE "create"
plan(file) ==
    LET parsed == parseProductCsv(file)
        twins == \E i \in DOMAIN file : file[i].part # None /\ Cardinality(matches(file[i])) > 1 IN
    [errors |-> parsed.errors \/ twins,
     actions |-> [i \in DOMAIN file |-> action(file[i])],
     of |-> file]
-------------------------------------------------------------------------------
(* The page.  A new choice clears the plan and asks for another; nothing   *)
(* tells the answers of two previews apart.                                *)
\* mutant: the plan of the file before stays until the answer.
clearedKept(a) == page[a].plan
cleared(a) == NoPlan
preview(a, file) ==
    /\ choices < MaxChoices /\ choices' = choices + 1
    /\ page' = [page EXCEPT ![a].file = file, ![a].plan = cleared(a), ![a].busy = TRUE, ![a].asked = @ \cup {file}]
    /\ crossed' = IF page[a].asked = {} /\ page[a].tx = NoTx THEN crossed \ {a} ELSE crossed \cup {a}
    /\ UNCHANGED <<stock, brandRows, overlapped>>

previewAnswered(a) ==       \* or failed: not a spreadsheet, or no answer at all
    /\ \E file \in page[a].asked : \E shown \in {plan(file), page[a].plan} :
         page' = [page EXCEPT ![a].asked = @ \ {file}, ![a].busy = FALSE, ![a].plan = shown]
    /\ UNCHANGED <<stock, brandRows, choices, overlapped, crossed>>

canImport(a) ==
    LET p == page[a].plan IN
    page[a].file # <<>> /\ p # NoPlan /\ ~p.errors /\ p.actions # <<>> /\ ~page[a].busy

commit(a) ==                \* the file is sent again
    /\ canImport(a) /\ page[a].tx = NoTx
    /\ page' = [page EXCEPT ![a].busy = TRUE, ![a].tx = [NoTx EXCEPT !.pc = "sent", !.file = page[a].file]]
    /\ UNCHANGED <<stock, brandRows, choices, overlapped, crossed>>
-------------------------------------------------------------------------------
(* The transaction.                                                        *)
running == {a \in Importer : page[a].tx.pc \in {"planned", "slugged"}}
tx(a, t) == page' = [page EXCEPT ![a].tx = t]
refused(a, shown) == page' = [page EXCEPT ![a].tx = NoTx, ![a].busy = FALSE, ![a].plan = shown]

planTx(a) ==                \* the data may have changed since the preview
    LET t == page[a].tx
        p == plan(t.file) IN
    /\ t.pc = "sent"
    /\ IF p.errors THEN refused(a, p) ELSE tx(a, [t EXCEPT !.pc = "planned", !.actions = p.actions])
    /\ overlapped' = (overlapped \/ (~p.errors /\ running \ {a} # {}))
    /\ UNCHANGED <<stock, brandRows, choices, crossed>>

Slugs == {stock[i].slug : i \in DOMAIN stock}
\* The slug of a name: with the smallest number that is not taken.
freeSlug(slug, name, taken) ==
    slug # <<>> /\ slug[1] = name /\ slug \notin taken /\ \A m \in 0 .. slug[2] - 1 : <<name, m>> \in taken
uniqueSlug(a) ==            \* one by one, reserving those of the rows before
    LET t == page[a].tx
        names == {t.file[i].name : i \in DOMAIN t.file} IN
    /\ t.pc = "planned"
    /\ \E slugs \in [DOMAIN t.file -> {<<>>} \cup (names \X (0 .. Len(stock) + Len(t.file)))] :
         /\ \A i \in DOMAIN t.file :
               IF t.actions[i] = "update" THEN slugs[i] = <<>>
               ELSE freeSlug(slugs[i], t.file[i].name, Slugs \cup {slugs[j] : j \in 1 .. i - 1})
         /\ tx(a, [t EXCEPT !.pc = "slugged", !.slugs = slugs])
    /\ UNCHANGED <<stock, brandRows, choices, overlapped, crossed>>

created(t) == {i \in DOMAIN t.file : t.actions[i] = "create"}
InOrder(is) == {s \in [1 .. Cardinality(is) -> is] : \A k, m \in DOMAIN s : k < m => s[k] < s[m]}
inserted(t, is) ==          \* the products of these rows
    [k \in DOMAIN is |-> [slug |-> t.slugs[is[k]], part |-> t.file[is[k]].part, brand |-> t.file[is[k]].brand, archived |-> FALSE]]
apply(a) ==
    LET t == page[a].tx
        newBrands == {t.file[i].brand : i \in DOMAIN t.file} \ (brandRows \cup {None})
        slugTaken == \E i \in DOMAIN t.slugs : t.slugs[i] \in Slugs IN
    /\ t.pc = "slugged" /\ Len(stock) + Cardinality(created(t)) <= MaxProducts
    /\ IF slugTaken
       THEN refused(a, page[a].plan) /\ UNCHANGED <<stock, brandRows>>
       ELSE /\ \E is \in InOrder(created(t)) : stock' = stock \o inserted(t, is)
            /\ brandRows' = brandRows \cup newBrands
            /\ page' = [page EXCEPT ![a] = [NoPage EXCEPT !.asked = page[a].asked]]
    /\ UNCHANGED <<choices, overlapped, crossed>>

abort(a) ==                 \* the time limit, or a brand another created meanwhile
    /\ a \in running /\ refused(a, page[a].plan)
    /\ UNCHANGED <<stock, brandRows, choices, overlapped, crossed>>

archive ==                  \* ProductsService.remove of an ordered product
    /\ \E i \in DOMAIN stock : ~stock[i].archived /\ stock' = [stock EXCEPT ![i].archived = TRUE]
    /\ UNCHANGED <<brandRows, page, choices, overlapped, crossed>>

ImportNext ==
    \/ \E a \in Importer :
         \/ \E file \in File : preview(a, file)
         \/ previewAnswered(a) \/ commit(a) \/ planTx(a) \/ uniqueSlug(a) \/ apply(a) \/ abort(a)
    \/ archive

ImportSpec == ImportInit /\ [][ImportNext]_importVars
-------------------------------------------------------------------------------
\* The master spreadsheet can be sent again and again: no two products have
\* one part number and brand, and no two one slug, unless two commits overlap.
NoTwinParts ==
    \A i, j \in DOMAIN stock : i < j =>
        /\ stock[i].slug # stock[j].slug
        /\ stock[i].part # None /\ stock[i].part = stock[j].part => stock[i].brand # stock[j].brand \/ overlapped

\* The plan the admin confirms is the plan of the file that will be sent,
\* unless it was chosen while the answer about another one was still due.
PlanIsOfTheFile == \A a \in Importer \ crossed : page[a].plan = NoPlan \/ page[a].plan.of = page[a].file
===============================================================================
