----------------------------- MODULE MCOrderExpiry -----------------------------
(* Instances of OrderExpiry for TLC.                                        *)
EXTENDS OrderExpiry, TLC

MCSymmetry == Permutations(Order) \cup Permutations(Runner)
================================================================================
