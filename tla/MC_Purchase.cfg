\* One product, one coupon, one order; a few clicks, and an answer that is lost.
SPECIFICATION PurchaseSpec
CONSTANTS
    Shelf = 2
    MinOrder = 2
    MaxClicks = 3
    MaxElsewhere = 1
    MaxMissed = 1
    MaxPolls = 2
    Followed = {"PAYMENT_PENDING", "EXPIRED", "PAID", "SHIPPED"}
    MaxAsks = 2
    MaxLostReads = 1
INVARIANTS ShownIsCharged CashChosenOnce TrackerNeverGoesBack
PROPERTIES PagesSettle
CHECK_DEADLOCK FALSE
