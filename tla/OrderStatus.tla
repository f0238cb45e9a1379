------------------------------ MODULE OrderStatus ------------------------------
(***************************************************************************)
(* The order state machine: which actor may move an order from one status  *)
(* to another, and what a move does to stock and coupon.                   *)
(* Source: apps/backend/src/orders/order-status.ts.                        *)
(***************************************************************************)

\* OrderStatus of schema.prisma, without CART, which no code assigns.
OrderStatuses == {"PAYMENT_PENDING", "PAID", "PROCESSING", "SHIPPED", "DELIVERED",
                  "PAYMENT_FAILED", "EXPIRED", "CANCELLED", "REFUNDED",
                  "PARTIALLY_REFUNDED", "DISPUTED"}

Actors == {"system", "admin"}

Moves(froms, tos) == froms \X tos

AllowedSystem ==
    Moves({"PAYMENT_PENDING"}, {"PAID", "EXPIRED", "PAYMENT_FAILED"}) \cup
    Moves({"EXPIRED"}, {"PAID", "DISPUTED"}) \cup
    Moves({"PAYMENT_FAILED", "CANCELLED"}, {"DISPUTED"})

AllowedAdmin ==
    Moves({"PAYMENT_PENDING"}, {"CANCELLED"}) \cup
    Moves({"PAID"}, {"PROCESSING", "SHIPPED", "DELIVERED", "REFUNDED", "DISPUTED"}) \cup
    Moves({"PROCESSING"}, {"SHIPPED", "DELIVERED", "REFUNDED", "DISPUTED"}) \cup
    Moves({"SHIPPED"}, {"DELIVERED", "REFUNDED", "DISPUTED"}) \cup
    Moves({"DELIVERED"}, {"REFUNDED", "PARTIALLY_REFUNDED", "DISPUTED"}) \cup
    Moves({"PARTIALLY_REFUNDED"}, {"REFUNDED", "DISPUTED"}) \cup
    Moves({"DISPUTED"}, {"DELIVERED", "REFUNDED", "PARTIALLY_REFUNDED"})

canTransition(actor, from, to) ==
    <<from, to>> \in (IF actor = "system" THEN AllowedSystem ELSE AllowedAdmin)

\* Mutant: what was shipped still counts as held.
STOCK_HELDShipped == {"PAYMENT_PENDING", "PAID", "PROCESSING", "SHIPPED"}

\* The units are in the store and counted out of Product.quantity.
STOCK_HELD == {"PAYMENT_PENDING", "PAID", "PROCESSING"}

\* "This sale isn't happening."
RELEASED == {"PAYMENT_FAILED", "EXPIRED", "CANCELLED", "REFUNDED"}

releasesStock(from, to) == from \in STOCK_HELD /\ to \in RELEASED

reservesStock(from, to) == from \in RELEASED /\ to \in STOCK_HELD

\* Mutant: only the expiry job's move gives the coupon use back.
releasesCouponOnExpiry(from, to) == from = "PAYMENT_PENDING" /\ to = "EXPIRED"

releasesCoupon(from, to) == from = "PAYMENT_PENDING" /\ to \in RELEASED

================================================================================
