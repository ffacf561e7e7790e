------------------------------- MODULE MCFabric -------------------------------
(* Instances of Fabric for TLC. *)
EXTENDS Fabric, TLC

CONSTANTS p1, p2

\* A private store, one that lists its owner twice, one that lists nobody.
SomePolicies == {[kind |-> "private", owners |-> <<"a", "a">>],
                 [kind |-> "grant", owners |-> <<>>]}

AnyProcess == Permutations(Processes)

=============================================================================
