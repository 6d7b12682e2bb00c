---------------------------- MODULE MCComposerStore ----------------------------
(* Conversations are interchangeable. *)
EXTENDS ComposerStore, TLC

Symmetry == Permutations(Uuid)
=============================================================================
