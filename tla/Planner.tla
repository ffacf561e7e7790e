------------------------------- MODULE Planner -------------------------------
(***************************************************************************)
(* The cluster planner, nexinfer/distributed/planner.py: which slice of    *)
(* the model each of n ranks serves.  Ranks are 0 .. n-1; a slice <<a, b>> *)
(* is the half-open range [a, b) the code passes around.                   *)
(***************************************************************************)
EXTENDS Integers

\* Fault: the extra layers go to the last ranks, as "i > remainder" would.
LayerCountLate(layers, n, i) ==
    (layers \div n) + (IF i > layers % n THEN 1 ELSE 0)

\* How many layers plan_pipeline gives rank i.
LayerCount(layers, n, i) ==
    (layers \div n) + (IF i < layers % n THEN 1 ELSE 0)

\* Where the loop's accumulator start stands when rank i is reached.
LoopStart(layers, n) ==
    LET start[i \in 0..n] ==
            IF i = 0 THEN 0 ELSE start[i - 1] + LayerCount(layers, n, i - 1)
    IN  start

\* The same, without the loop.
LayerStart(layers, n, i) ==
    i * (layers \div n) + (IF i < layers % n THEN i ELSE layers % n)

PipelineSlice(layers, n, i) ==
    <<LayerStart(layers, n, i), LayerStart(layers, n, i) + LayerCount(layers, n, i)>>

\* plan_tensor raises ValueError unless the ranks divide the heads.
TensorFits(heads, n) == heads % n = 0

TensorSlice(heads, n, i) == <<i * (heads \div n), (i + 1) * (heads \div n)>>

\* automatic: tensor parallelism for one kind of devices when it fits.
AutomaticMode(homogeneous, heads, n) ==
    IF homogeneous /\ TensorFits(heads, n) THEN "tensor" ELSE "pipeline"

-----------------------------------------------------------------------------
\* slice(0), slice(1), ... slice(n-1) cut 0 .. total without gap or overlap.
Cuts(slice(_), n, total) ==
    /\ slice(0)[1] = 0
    /\ slice(n - 1)[2] = total
    /\ \A i \in 0..n-1 : slice(i)[1] <= slice(i)[2]
    /\ \A i \in 0..n-2 : slice(i)[2] = slice(i + 1)[1]

=============================================================================
