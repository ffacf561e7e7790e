---------------------------- MODULE MCGeneration -----------------------------
(* Instances of Generation for TLC: a synchronous request without a limit, *)
(* a stream without one, and a limited synchronous request with tools.     *)
EXTENDS Generation

CONSTANTS sync, stream, short

Mixed == {sync, stream, short}
Limits == [r \in Mixed |-> IF r = short THEN 3 ELSE 0]

=============================================================================
