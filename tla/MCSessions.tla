------------------------------ MODULE MCSessions ------------------------------
(* Instances of Sessions for TLC: two tabs, of one device or of two.        *)
EXTENDS Sessions, TLC

MCSymmetry == Permutations(Tab) \cup Permutations(Device)
===============================================================================
