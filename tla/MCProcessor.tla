----------------------------- MODULE MCProcessor -----------------------------
(***************************************************************************)
(* Model checking of Processor on small instances.                         *)
(***************************************************************************)
EXTENDS Processor, TLC

\* Handlers are interchangeable: nothing orders the set Caller.
Symmetry == Permutations(Caller)
=============================================================================
