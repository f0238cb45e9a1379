------------------------------ MODULE BackOffice ------------------------------
(***************************************************************************)
(* The back office, one desk at a time: accounts, catalog, spreadsheet     *)
(* import, or a list with its buttons.  The desks share no row of state at *)
(* the grain they are modelled with, so each runs on its own while the     *)
(* others stay as they were opened.                                        *)
(***************************************************************************)
EXTENDS Accounts, Catalog, ProductImport, AdminBoard

VARIABLE desk               \* the desk in use

officeVars == <<desk, accountVars, catalogVars, importVars, boardVars>>

\* A desk starts in any state of its own; the others in one.
OfficeInit ==
    /\ desk \in {"accounts", "catalog", "import", "board"}
    /\ AccountsInit /\ CatalogInit /\ ImportInit /\ BoardInit
    /\ desk # "accounts" => Admins = Person
    /\ desk # "catalog" => row = Table /\ product.quantity = 0
    /\ desk # "import" => brandRows = {}
    /\ desk # "board" => board = (CHOOSE b \in Board : TRUE) /\ \A r \in ToSet(Row) : place[r] = "todo"

OfficeNext ==
    /\ UNCHANGED desk
    /\ \/ desk = "accounts" /\ AccountsNext /\ UNCHANGED <<catalogVars, importVars, boardVars>>
       \/ desk = "catalog" /\ CatalogNext /\ UNCHANGED <<accountVars, importVars, boardVars>>
       \/ desk = "import" /\ ImportNext /\ UNCHANGED <<accountVars, catalogVars, boardVars>>
       \/ desk = "board" /\ BoardNext /\ UNCHANGED <<accountVars, catalogVars, importVars>>

OfficeSpec == OfficeInit /\ [][OfficeNext]_officeVars
-------------------------------------------------------------------------------
===============================================================================
