----------------------------- MODULE MCCatalog -----------------------------
(***************************************************************************)
(* The catalog for TLC: one form without a status, two that are refused.   *)
(***************************************************************************)
EXTENDS Catalog, TLC

CONSTANTS c1

MCForms == {[price |-> 1, status |-> "active", category |-> c1],
            [price |-> 2, status |-> "", category |-> None],
            [price |-> 0, status |-> "draft", category |-> None],
            [price |-> 1, status |-> "sold", category |-> None]}

Symmetry == Permutations(Admins) \cup Permutations(Names)
=============================================================================
