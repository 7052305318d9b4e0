----------------------------- MODULE MCTwoPhase -----------------------------
(* Instances of TwoPhase for TLC. *)
EXTENDS TwoPhase, TLC

(* Peers are interchangeable: nothing in the model orders them. *)
Symmetry == Permutations(Parts)

(* Worker threads are interchangeable too. *)
SymmetryAll == Permutations(Parts) \cup Permutations(Threads)
=============================================================================
