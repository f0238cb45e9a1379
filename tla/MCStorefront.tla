----------------------------- MODULE MCStorefront -----------------------------
(* An instance of Storefront for TLC: three parts, of which two match the   *)
(* search term equally well, two share a price and two fit the truck that   *)
(* the visit begins with.                                                   *)
EXTENDS Storefront

MCFacts ==
    [brake |-> [relevance |-> 1, likeness |-> 2, price |-> 5, made |-> 1, category |-> TRUE, truck |-> TRUE],
     filter |-> [relevance |-> 4, likeness |-> 2, price |-> 5, made |-> 2, category |-> FALSE, truck |-> TRUE],
     belt |-> [relevance |-> 4, likeness |-> 2, price |-> 4, made |-> 3, category |-> TRUE, truck |-> FALSE]]
MCParts == DOMAIN MCFacts
MCLandings == {[NoFilters EXCEPT !.truck = TRUE]}
===============================================================================
