------------------------------ MODULE MCPurchase ------------------------------
(* An instance of Purchase for TLC.                                         *)
EXTENDS Purchase
===============================================================================
