--------------------------- MODULE MCDerivedReplay ---------------------------
(***************************************************************************)
(* g is a generated file and `bulk' touches too many files to pair any.    *)
(* With a and b merged x has the partners y and z (and g), with a support  *)
(* of at least 1; with c as well, of at least 2.                           *)
(***************************************************************************)
EXTENDS DerivedReplay, TLC

CONSTANTS a, b, c, bulk, x, y, z, g

Of == (a :> {x, y, g}) @@ (b :> {x, y, z}) @@ (c :> {x, z}) @@ (bulk :> {x, y, z, g})
Rank == (a :> 1) @@ (bulk :> 2) @@ (b :> 3) @@ (c :> 4)

Changes == [k \in Commits |-> Of[k]]
Dates == [k \in Commits |-> Rank[k]]
=============================================================================
