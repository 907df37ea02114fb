----------------------------- MODULE MCDataTree -----------------------------
(* Small instances of DataTree for TLC.                                    *)
EXTENDS DataTree

CONSTANTS b1, b2, f1, e1, e2, i1

(* No document, and one with two containers and two list entries.          *)
SmallDocuments ==
    {[top |-> <<>>, kids |-> <<>>],
     [top |-> <<b1, b2>>, kids |-> b1 :> <<f1, e1, e2>> @@ e1 :> <<i1>>]}

Symmetry == Permutations(Trees) \cup Permutations(Handles)
=============================================================================
