\* Three people, two admins at each desk, two rows in a list of one per page.
SPECIFICATION OfficeSpec
CONSTANTS
    Person = {p1, p2, p3}
    MaxRequests = 4
    Admin = {a1, a2}
    MaxStock = 2
    MaxSales = 1
    MaxEdits = 3
    Importer = {a1, a2}
    File <- MCFiles
    MaxChoices = 3
    MaxProducts = 3
    Row <- MCRows
    Board = {"orders", "coupons", "categories"}
    Limit = 1
    MaxTurns = 2
    MaxActs = 2
    MaxOthers = 1
    MaxLost = 1
INVARIANTS KeepsAnAdmin AnonymisedHoldsNothing TokensCarryTheRole ReferencesHold StockMatchesShelf NoTwinParts PlanIsOfTheFile ShowsWhatIsAsked
CHECK_DEADLOCK FALSE
