-------------------------- MODULE ContextLifecycle --------------------------
(***************************************************************************)
(* What the cgo seam promises about a libyang context, with no atomics, no *)
(* counter and no locks: a set of holders may use the context; a newcomer  *)
(* enters only before Close; a holder may bring in another holder (a tree  *)
(* duplicates itself, a parse leaves a tree behind) even while closing;    *)
(* the context dies once, when Close was requested or nothing references   *)
(* it, and never under a holder.                                           *)
(***************************************************************************)
CONSTANT Holders

VARIABLES phase, holders

TypeOK == /\ phase \in {"open", "closing", "dead"}
          /\ holders \in SUBSET Holders

Init == phase = "open" /\ holders = {}

Enter == /\ phase = "open"
         /\ \E x \in Holders \ holders : holders' = holders \cup {x}
         /\ UNCHANGED phase

Spawn == /\ holders # {}
         /\ \E x \in Holders \ holders : holders' = holders \cup {x}
         /\ UNCHANGED phase

Leave == /\ \E x \in holders : holders' = holders \ {x}
         /\ UNCHANGED phase

Close == /\ phase = "open"
         /\ phase' = "closing"
         /\ UNCHANGED holders

Die == /\ phase # "dead" /\ holders = {}
       /\ phase' = "dead"
       /\ UNCHANGED holders

Next == Enter \/ Spawn \/ Leave \/ Close \/ Die

Spec == Init /\ [][Next]_<<phase, holders>>

(* No holder survives the context.                                         *)
Safe == phase = "dead" => holders = {}
=============================================================================
