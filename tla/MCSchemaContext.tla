--------------------------- MODULE MCSchemaContext ---------------------------
(* Small instances of SchemaContext for TLC.                               *)
EXTENDS SchemaContext

CONSTANTS A, B, C, d1, d2, nsx, nsy, nsz

Src(n, r, ns, d, imports) ==
    [name |-> n, rev |-> r, ns |-> ns, dir |-> d, plain |-> r = 0, imports |-> imports,
     amends |-> {}, refs |-> {}, dangling |-> FALSE, feature |-> n = A, fault |-> "none"]

On(n, r) == [name |-> n, rev |-> r]

(* A augments B, C names A in a leafref and pins the older revision of B;  *)
(* the newer revision of B imports A, so that a load may close a cycle.    *)
(* The second revision of C has the namespace of A and a dangling leafref. *)
(* A second revision of A is given as a string.  The submodule of the      *)
(* older B cannot always be read.                                          *)
Amendments ==
    {[Src(A, 0, nsx, d1, <<On(B, 0)>>) EXCEPT !.amends = {1}],
     Src(A, 1, nsx, Memory, <<On(B, 0)>>),
     [Src(B, 1, nsy, d1, <<>>) EXCEPT !.fault = "include"],
     Src(B, 2, nsy, d2, <<On(A, 0)>>),
     [Src(C, 0, nsz, d1, <<On(B, 1), On(A, 0)>>) EXCEPT !.refs = {2}],
     [Src(C, 1, nsx, d2, <<On(B, 0)>>) EXCEPT !.dangling = TRUE]}

(* A imports B; the first revision of B imports nothing, the second A.     *)
Cyclic ==
    {Src(A, 0, nsx, d1, <<On(B, 0)>>), Src(B, 1, nsy, d1, <<>>), Src(B, 2, nsy, d2, <<On(A, 0)>>)}

(* B names A in a leafref and imports nothing else; C names B.             *)
Leafrefs ==
    {Src(A, 0, nsx, d1, <<>>),
     [Src(B, 0, nsy, d1, <<On(A, 0)>>) EXCEPT !.refs = {1}],
     [Src(C, 0, nsz, d1, <<On(B, 0)>>) EXCEPT !.refs = {1}],
     Src(C, 1, nsz, d2, <<On(B, 0)>>)}
=============================================================================
