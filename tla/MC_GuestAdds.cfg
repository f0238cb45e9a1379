\* A guest presses "Add to cart" and signs in on the way.
SPECIFICATION StoreSpec
CONSTANTS
    Ttl = 2
    MaxChanges = 4
    MaxFailures = 2
    Parts <- MCParts
    Facts <- MCFacts
    Landings <- MCLandings
    PageSize = 1
    MaxMoves = 3
    MaxShopEdits = 1
    MaxUnavailable = 1
    MaxEvents = 3
    Units = 2
    MaxPresses = 2
    MaxMisfires = 1
    Tabs = {1, 2}
    MaxSubmits = 2
    MaxUnanswered = 1
    PerVisitor = 2
    MaxSends = 3
    MaxNoReply = 1
INVARIANTS GuestsAddIsShown
CHECK_DEADLOCK FALSE
