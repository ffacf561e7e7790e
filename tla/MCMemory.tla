------------------------------ MODULE MCMemory ------------------------------
(***************************************************************************)
(* Values of the constants of Memory.                                      *)
(***************************************************************************)
EXTENDS Memory

CONSTANTS main, agent, k1, v1, v2

TwoBranches == <<agent, main>>      \* "agent" sorts before "main"

Exports(contents) ==
    {[b \in bs |-> IF b = main THEN m ELSE a] :
        bs \in {{main}, {agent, main}}, m \in contents, a \in contents}

AllExports == Exports([Keys -> {None, v1, v2}])

\* call only records the step that led to a state.
View == <<repo, strays>>

Symmetry == Permutations({v1, v2})
=============================================================================
