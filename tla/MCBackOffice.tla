----------------------------- MODULE MCBackOffice -----------------------------
(* An instance of BackOffice for TLC.                                       *)
EXTENDS BackOffice, TLC

MCRows == <<"r1", "r2">>

\* Spreadsheets: one part; two of which one has no part number; two twins in
\* one file; and one whose first row meets the part of the others unbranded.
R(n, p, b) == [name |-> n, part |-> p, brand |-> b, ok |-> TRUE]
MCFiles == { <<R("m", "p", "b")>>, <<R("n", "p", "b"), R("m", "none", "none")>>,
             <<R("m", "p", "none"), R("m", "p", "none")>>, <<R("m", "p", "none"), R("n", "none", "b")>> }
===============================================================================
