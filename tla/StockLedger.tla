------------------------------ MODULE StockLedger ------------------------------
(***************************************************************************)
(* What the store promises about stock, whatever happens to an order: the  *)
(* units of an order are taken from the shelf together or not at all, only *)
(* when they are all there, and are put back at most once for each time    *)
(* they were taken.                                                        *)
(***************************************************************************)
EXTENDS Naturals

CONSTANTS Order, Product,
          Need,             \* Need[o][p]: units of p that o's lines ask for
          InitialStock      \* InitialStock[p]: units of p on the shelf at the start

VARIABLES quantity,         \* units on the shelf, per product
          holding           \* the orders whose units are off the shelf

ledgerVars == <<quantity, holding>>

LedgerInit ==
    /\ quantity = InitialStock
    /\ holding = {}

Take(o) ==
    /\ o \notin holding
    /\ \A p \in Product : quantity[p] >= Need[o][p]
    /\ quantity' = [p \in Product |-> quantity[p] - Need[o][p]]
    /\ holding' = holding \cup {o}

PutBack(o) ==
    /\ o \in holding
    /\ quantity' = [p \in Product |-> quantity[p] + Need[o][p]]
    /\ holding' = holding \ {o}

LedgerNext == \E o \in Order : Take(o) \/ PutBack(o)

LedgerSpec == LedgerInit /\ [][LedgerNext]_ledgerVars
================================================================================
