--------------------------- MODULE MCLaunchPlanner ---------------------------
(* Small instances of LaunchPlanner for TLC. *)
EXTENDS LaunchPlanner

CONSTANTS a, b

Lists == {<<a>>, <<a, b>>, <<b, a>>}

Choice(auto, override, ofA, ofB) ==
    [auto |-> auto, override |-> override, imports |-> [r \in Root |-> IF r = a THEN ofA ELSE ofB]]

\* Nothing; the first folder; both ways, starting in b; b into a only.
SomeChoices == {Choice(FALSE, Undefined, {}, {}), Choice(TRUE, Undefined, {}, {}),
                Choice(TRUE, b, {b}, {a}), Choice(FALSE, b, {b}, {})}
=============================================================================
