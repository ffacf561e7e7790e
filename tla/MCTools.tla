------------------------------- MODULE MCTools -------------------------------
(* Instances of Tools for TLC: one agent with a quota, one without, a fetch *)
(* the policy refuses, and a remote call from each kind of caller.          *)
EXTENDS Tools, TLC

CONSTANTS f1, f2, f3, f4, f5, m1, m2

SomeAgents == f1 :> "a" @@ f2 :> "a" @@ f3 :> "a" @@ f4 :> None @@ f5 :> None
QuotaOfTwo == "a" :> 2

=============================================================================
