------------------------------ MODULE MCCluster ------------------------------
(* Instances of Cluster for TLC, and the planner over bounded inputs. *)
EXTENDS Cluster, TLC

CONSTANTS w1, w2, w3

Two == {w1, w2}
Three == {w1, w2, w3}
Symmetry == Permutations(Workers)

\* Bounds on the models and clusters to plan for.
MaxLayers == 13
MaxHeads == 8
MaxNodes == 6

\* The planner does not depend on the state: one look, at the start, will do.
AtStart == \A w \in Workers : hellos[w] = 0

(* The plan automatic picks (planner.py:99-108) never raises, and hands    *)
(* out every layer, or every attention head, exactly once, also with more  *)
(* nodes than layers; and the closed form that the proofs use is what      *)
(* plan_pipeline's accumulator computes (61-73).                           *)
PlanCuts == AtStart =>
    \A layers \in 1..MaxLayers, heads \in 1..MaxHeads, n \in 1..MaxNodes :
        /\ \A homogeneous \in BOOLEAN :
              IF AutomaticMode(homogeneous, heads, n) = "pipeline"
              THEN LET slice(i) == PipelineSlice(layers, n, i) IN Cuts(slice, n, layers)
              ELSE LET slice(i) == TensorSlice(heads, n, i) IN Cuts(slice, n, heads)
        /\ \A i \in 0..(n - 1) : LoopStart(layers, n)[i] = LayerStart(layers, n, i)

=============================================================================
