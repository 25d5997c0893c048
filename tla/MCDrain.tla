------------------------------ MODULE MCDrain ------------------------------
(* Drain on small instances: model values and the symmetry they allow. *)
EXTENDS Drain, TLC

Symmetric == Permutations(Events) \cup Permutations(Drains)

=============================================================================
