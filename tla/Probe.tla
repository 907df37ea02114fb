------------------------------- MODULE Probe -------------------------------
(***************************************************************************)
(* What the toolkit is asked.  Its parts run independently of each other,  *)
(* so a behaviour is about one of them: the first step names the part and  *)
(* its input, and every other part stays as it is.                         *)
(*                                                                         *)
(* Compute(f, args) is the operator named f applied to args.  The state    *)
(* machines and the properties reach the deeply recursive operators through*)
(* it, because TLC's profiler expands each definition below an action once *)
(* for every use of it.  The model gives every name its definition.        *)
(***************************************************************************)
EXTENDS SequencesExt
CONSTANT Compute(_, _)
VARIABLE probe

NoProbe == [part |-> "none", question |-> <<>>]

(* The sequences of a sequence in one.  TLC evaluates an element of        *)
(* [i \in 1 .. n |-> ...] at each use: here that is once.                  *)
Concat(seqs) == FoldLeft(LAMBDA all, s : all \o s, <<>>, seqs)

Unasked == probe = NoProbe
Asked(part) == probe.part = part
Ask(part, question) == Unasked /\ probe' = [part |-> part, question |-> question]
=============================================================================
