--------------------------- MODULE MCSessionPanel ---------------------------
(* A small instance of SessionPanel for TLC. *)
EXTENDS SessionPanel, TLC

\* A conversation that was only launched, with a draft; and one whose
\* transcript cannot be judged.
MCBeginnings ==
    {[known |-> TRUE, transcript |-> {"meta"}, draft |-> TRUE],
     [known |-> TRUE, transcript |-> {"odd"}, draft |-> FALSE]}

\* Session ids are only compared; conversations are ordered and stay as they are.
Symmetry == Permutations(Session)
=============================================================================
