\* Three parts, one on a page; two presses, forms or tabs at a time, and a request that rejects.
SPECIFICATION StoreSpec
CONSTANTS
    Ttl = 2
    MaxChanges = 4
    MaxFailures = 2
    Parts <- MCParts
    Facts <- MCFacts
    Landings <- MCLandings
    PageSize = 1
    MaxMoves = 3
    MaxShopEdits = 1
    MaxUnavailable = 1
    MaxEvents = 3
    Units = 2
    MaxPresses = 2
    MaxMisfires = 1
    Tabs = {1, 2}
    MaxSubmits = 2
    MaxUnanswered = 1
    PerVisitor = 2
    MaxSends = 3
    MaxNoReply = 1
INVARIANTS StaleForAReason PagesShowEachPartOnce NoDeadEnds BadgeIsTheCart PageShowsTheReview RequestArrivesOnce
PROPERTIES PagesSettle
CHECK_DEADLOCK FALSE
