----------------------------- MODULE ClusterProofs -----------------------------
(***************************************************************************)
(* The cluster, for every model and any number of workers: the slices that *)
(* the planner hands out, which workers a plan names, and what the workers *)
(* know of it.                                                             *)
(***************************************************************************)
EXTENDS MCCluster, FiniteSetTheorems, SequenceTheorems, WellFoundedInduction, TLAPS

-----------------------------------------------------------------------------
(* The planner.                                                            *)

(* Division with remainder, as the planner uses it.                        *)
LEMMA Division ==
    ASSUME NEW a \in Nat, NEW n \in Nat \ {0}
    PROVE  /\ a \div n \in Nat
           /\ a % n \in 0..n-1
           /\ a = n * (a \div n) + (a % n)
  OBVIOUS

(* One more of q.                                                          *)
LEMMA OneMore ==
    ASSUME NEW i \in Nat, NEW q \in Nat
    PROVE  i * q \in Nat /\ (i + 1) * q = i * q + q
  OBVIOUS

(* One rank further starts one layer count further.                        *)
LEMMA StartStep ==
    ASSUME NEW layers \in Nat, NEW n \in Nat \ {0}, NEW i \in Nat
    PROVE  LayerStart(layers, n, i + 1)
              = LayerStart(layers, n, i) + LayerCount(layers, n, i)
<1>. DEFINE q == layers \div n
            r == layers % n
<1>1. q \in Nat /\ r \in Nat
  BY Division
<1>2. i * q \in Nat /\ (i + 1) * q = i * q + q
  BY <1>1, OneMore, Zenon
<1>4. \A m \in Nat : (IF i + 1 < m THEN i + 1 ELSE m)
                        = (IF i < m THEN i ELSE m) + (IF i < m THEN 1 ELSE 0)
  OBVIOUS
<1>5. \A p, m \in Nat : p + q + ((IF i < m THEN i ELSE m) + (IF i < m THEN 1 ELSE 0))
                          = (p + (IF i < m THEN i ELSE m)) + (q + (IF i < m THEN 1 ELSE 0))
  BY <1>1
<1>6. LayerStart(layers, n, i + 1)
         = i * q + q + ((IF i < r THEN i ELSE r) + (IF i < r THEN 1 ELSE 0))
  BY <1>1, <1>2, <1>4 DEF LayerStart
<1>7. LayerStart(layers, n, i) = i * q + (IF i < r THEN i ELSE r)
  BY DEF LayerStart
<1>8. LayerCount(layers, n, i) = q + (IF i < r THEN 1 ELSE 0)
  BY DEF LayerCount
<1>. QED
  BY <1>1, <1>2, <1>5, <1>6, <1>7, <1>8

(* plan_pipeline (planner.py:55-74) hands out every layer exactly once: the *)
(* slices start at layer 0, end at the last layer, and each begins where   *)
(* the one before it ends, whatever the model and the number of nodes.     *)
THEOREM PipelineCovers ==
    \A layers \in Nat, n \in Nat \ {0} :
        LET slice(i) == PipelineSlice(layers, n, i)
        IN  Cuts(slice, n, layers)
<1>. SUFFICES ASSUME NEW layers \in Nat, NEW n \in Nat \ {0}
              PROVE  LET slice(i) == PipelineSlice(layers, n, i)
                     IN  Cuts(slice, n, layers)
  OBVIOUS
<1>1. LayerStart(layers, n, 0) = 0
  <2>1. 0 * (layers \div n) = 0
    BY Division
  <2>. QED
    BY <2>1, Division DEF LayerStart
<1>2. LayerStart(layers, n, n) = layers
  BY Division DEF LayerStart
<1>3. LayerStart(layers, n, n - 1) + LayerCount(layers, n, n - 1) = layers
  <2>1. n - 1 \in Nat /\ (n - 1) + 1 = n
    OBVIOUS
  <2>. QED
    BY <1>2, <2>1, StartStep
<1>4. \A i \in 0..n-1 : LayerStart(layers, n, i) \in Nat /\ LayerCount(layers, n, i) \in Nat
  <2>. SUFFICES ASSUME NEW i \in 0..n-1
                PROVE  LayerStart(layers, n, i) \in Nat /\ LayerCount(layers, n, i) \in Nat
    OBVIOUS
  <2>1. layers \div n \in Nat /\ layers % n \in Nat /\ i \in Nat
    BY Division
  <2>2. i * (layers \div n) \in Nat
    BY <2>1, OneMore, Zenon
  <2>. QED
    BY <2>1, <2>2 DEF LayerStart, LayerCount
<1>5. \A i \in 0..n-2 : LayerStart(layers, n, i) + LayerCount(layers, n, i)
                          = LayerStart(layers, n, i + 1)
  BY StartStep
<1>. QED
  BY <1>1, <1>3, <1>4, <1>5 DEF Cuts, PipelineSlice

(* plan_tensor (planner.py:77-96), where it does not raise, hands out every *)
(* attention head exactly once.                                            *)
THEOREM TensorCovers ==
    \A heads \in Nat, n \in Nat \ {0} :
        TensorFits(heads, n) =>
            LET slice(i) == TensorSlice(heads, n, i)
            IN  Cuts(slice, n, heads)
<1>. SUFFICES ASSUME NEW heads \in Nat, NEW n \in Nat \ {0}, TensorFits(heads, n)
              PROVE  LET slice(i) == TensorSlice(heads, n, i)
                     IN  Cuts(slice, n, heads)
  OBVIOUS
<1>. DEFINE q == heads \div n
<1>1. q \in Nat /\ n * q = heads
  BY Division DEF TensorFits
<1>2. 0 * q = 0
  BY <1>1
<1>3. (n - 1) + 1 = n
  OBVIOUS
<1>4. \A i \in Nat : i * q \in Nat /\ (i + 1) * q = i * q + q
  BY <1>1
<1>5. \A i \in 0..n-1 : i * q <= (i + 1) * q
  BY <1>1, <1>4
<1>. QED
  BY <1>1, <1>2, <1>3, <1>5 DEF Cuts, TensorSlice

(* No rank of a pipeline gets more than one layer above another's          *)
(* (planner.py:63): the split is as even as it can be.                     *)
THEOREM PipelineEven ==
    \A layers \in Nat, n \in Nat \ {0} : \A i, j \in 0..n-1 :
        LayerCount(layers, n, i) <= LayerCount(layers, n, j) + 1
  BY Division DEF LayerCount

-----------------------------------------------------------------------------
(* The loop of plan_pipeline.                                              *)

(* A set of naturals that is not empty has a smallest element.             *)
LEMMA Smallest ==
    ASSUME NEW S \in SUBSET Nat, S # {}
    PROVE  \E m \in S : \A n \in S : m <= n
<1>. DEFINE R == OpToRel(<, Nat)
<1>1. \E x \in S : \A y \in S : ~ (<<y, x>> \in R)
  BY NatLessThanWellFounded, WFMin
<1>2. \A x, y \in Nat : <<y, x>> \in R <=> y < x
  BY DEF OpToRel
<1>. HIDE DEF R
<1>3. PICK m \in S : \A n \in S : ~ (<<n, m>> \in R)
  BY <1>1
<1>4. m \in Nat /\ \A n \in S : n \in Nat /\ ~ (n < m)
  BY <1>2, <1>3, Zenon
<1>5. \A n \in S : m <= n
  BY <1>4
<1>. QED
  BY <1>5

(* The loop's accumulator (planner.py:61-73) is where the closed form says *)
(* a rank starts, for every model and number of nodes.                     *)
THEOREM LoopIsStart ==
    \A layers \in Nat, n \in Nat \ {0} : \A i \in 0..n :
        LoopStart(layers, n)[i] = LayerStart(layers, n, i)
<1>. SUFFICES ASSUME NEW layers \in Nat, NEW n \in Nat \ {0}
              PROVE  \A i \in 0..n : LoopStart(layers, n)[i] = LayerStart(layers, n, i)
  OBVIOUS
<1>. DEFINE F(f) == f = [i \in 0..n |-> IF i = 0 THEN 0
                                       ELSE f[i - 1] + LayerCount(layers, n, i - 1)]
            g == [i \in 0..n |-> LayerStart(layers, n, i)]
            h == CHOOSE f : F(f)
<1>1. LoopStart(layers, n) = h
  BY DEF LoopStart
<1>2. LayerStart(layers, n, 0) = 0
  <2>1. 0 * (layers \div n) = 0 /\ layers % n \in Nat
    BY Division
  <2>. QED
    BY <2>1 DEF LayerStart
<1>3. \A i \in 0..n : i # 0 => /\ i - 1 \in 0..n /\ i - 1 \in Nat /\ i - 1 < i
                               /\ LayerStart(layers, n, i)
                                    = LayerStart(layers, n, i - 1) + LayerCount(layers, n, i - 1)
  <2>. SUFFICES ASSUME NEW i \in 0..n, i # 0
                PROVE  /\ i - 1 \in 0..n /\ i - 1 \in Nat /\ i - 1 < i
                       /\ LayerStart(layers, n, i)
                            = LayerStart(layers, n, i - 1) + LayerCount(layers, n, i - 1)
    OBVIOUS
  <2>1. i - 1 \in Nat /\ (i - 1) + 1 = i /\ i - 1 \in 0..n /\ i - 1 < i
    OBVIOUS
  <2>. QED
    BY <2>1, StartStep
<1>4. F(g)
  BY <1>2, <1>3
<1>5. F(h)
  <2>. HIDE DEF F
  <2>. QED
    BY <1>4
<1>. HIDE DEF h
<1>6. \A i \in 0..n : h[i] = IF i = 0 THEN 0 ELSE h[i - 1] + LayerCount(layers, n, i - 1)
  BY <1>5
<1>. DEFINE S == {i \in 0..n : h[i] # LayerStart(layers, n, i)}
<1>7. S = {}
  <2>. SUFFICES ASSUME S # {} PROVE FALSE
    OBVIOUS
  <2>1. PICK i \in S : \A j \in S : i <= j
    <3>1. S \in SUBSET Nat
      OBVIOUS
    <3>. HIDE DEF S
    <3>. QED
      BY <3>1, Smallest
  <2>2. i \in 0..n /\ h[i] # LayerStart(layers, n, i)
    OBVIOUS
  <2>3. i # 0
    BY <1>2, <1>6, <2>2
  <2>4. i - 1 \notin S
    BY <1>3, <2>1, <2>2, <2>3
  <2>5. h[i - 1] = LayerStart(layers, n, i - 1)
    BY <1>3, <2>2, <2>3, <2>4
  <2>. QED
    BY <1>3, <1>6, <2>2, <2>3, <2>5
<1>8. \A i \in 0..n : h[i] = LayerStart(layers, n, i)
  BY <1>7, Zenon
<1>. QED
  BY <1>1, <1>8

(* A slice lies inside the model.                                          *)
LEMMA SliceInside ==
    ASSUME NEW layers \in Nat, NEW n \in Nat \ {0}, NEW i \in 0..n-1
    PROVE  /\ LayerStart(layers, n, i) \in 0..layers
           /\ LayerStart(layers, n, i) + LayerCount(layers, n, i) \in 0..layers
<1>. DEFINE q == layers \div n
            r == layers % n
<1>1. q \in Nat /\ r \in 0..n-1 /\ layers = n * q + r
  BY Division
<1>. HIDE DEF q, r
<1>2. i \in Nat /\ i * q \in Nat /\ (i + 1) * q = i * q + q
  <2>1. i \in Nat
    OBVIOUS
  <2>. QED
    BY <1>1, <2>1, OneMore, Zenon
<1>3. (i + 1) * q <= n * q
  <2>1. n - (i + 1) \in Nat /\ n = (i + 1) + (n - (i + 1))
    OBVIOUS
  <2>2. \A d \in Nat : ((i + 1) + d) * q = (i + 1) * q + d * q /\ d * q \in Nat
    BY <1>1
  <2>3. n * q = (i + 1) * q + (n - (i + 1)) * q /\ (n - (i + 1)) * q \in Nat
    BY <2>1, <2>2
  <2>4. (i + 1) * q \in Nat
    BY <1>1
  <2>. QED
    BY <2>3, <2>4
<1>4. n * q \in Nat
  BY <1>1
<1>5. /\ LayerStart(layers, n, i) = i * q + (IF i < r THEN i ELSE r)
      /\ LayerCount(layers, n, i) = q + (IF i < r THEN 1 ELSE 0)
  BY DEF LayerStart, LayerCount, q, r
<1>6. \A x, y \in Nat : x + q <= y =>
          /\ x + (IF i < r THEN i ELSE r) \in 0..(y + r)
          /\ x + (IF i < r THEN i ELSE r) + (q + (IF i < r THEN 1 ELSE 0)) \in 0..(y + r)
  BY <1>1
<1>. QED
  BY <1>1, <1>2, <1>3, <1>4, <1>5, <1>6

(* The plan that automatic picks cuts the model, and the closed form is    *)
(* what the loop computes.                                                 *)
THEOREM ClusterPlanCuts == Spec => []PlanCuts
<1>1. PlanCuts
  <2>1. ASSUME NEW layers \in 1..MaxLayers, NEW heads \in 1..MaxHeads, NEW n \in 1..MaxNodes,
               NEW homogeneous \in BOOLEAN
        PROVE  IF AutomaticMode(homogeneous, heads, n) = "pipeline"
               THEN LET slice(i) == PipelineSlice(layers, n, i) IN Cuts(slice, n, layers)
               ELSE LET slice(i) == TensorSlice(heads, n, i) IN Cuts(slice, n, heads)
    <3>1. layers \in Nat /\ heads \in Nat /\ n \in Nat \ {0}
      OBVIOUS
    <3>2. CASE AutomaticMode(homogeneous, heads, n) = "pipeline"
      BY <3>1, <3>2, PipelineCovers
    <3>3. CASE AutomaticMode(homogeneous, heads, n) # "pipeline"
      <4>1. TensorFits(heads, n)
        BY <3>3 DEF AutomaticMode
      <4>. QED
        BY <3>1, <3>3, <4>1, TensorCovers
    <3>. QED
      BY <3>2, <3>3
  <2>2. ASSUME NEW layers \in 1..MaxLayers, NEW n \in 1..MaxNodes, NEW i \in 0..(n - 1)
        PROVE  LoopStart(layers, n)[i] = LayerStart(layers, n, i)
    <3>1. layers \in Nat /\ n \in Nat \ {0} /\ i \in 0..n
      OBVIOUS
    <3>. QED
      BY <3>1, LoopIsStart
  <2>. QED
    BY <2>1, <2>2 DEF PlanCuts
<1>. QED
  BY <1>1, PTL

-----------------------------------------------------------------------------
(* Lists of members.                                                       *)

(* A list over a set is one over a larger set.                             *)
LEMMA SeqWiden ==
    ASSUME NEW A, NEW B, NEW s \in Seq(A), A \subseteq B
    PROVE  s \in Seq(B)
<1>1. Len(s) \in Nat /\ s \in [1..Len(s) -> A]
  BY LenProperties
<1>. QED
  BY <1>1

\* f holds what Only(s, T) has kept of the first items, a list over Y.
Builds(f, s, T, Y) ==
    /\ f \in [0..Len(s) -> Seq(Y)]
    /\ f[0] = <<>>
    /\ \A i \in 1..Len(s) : f[i] = IF s[i] \in T THEN Append(f[i - 1], s[i]) ELSE f[i - 1]
    /\ Only(s, T) = f[Len(s)]

(* Only builds its result item by item, from items of the list that are in *)
(* the set.                                                                *)
LEMMA OnlyBuilt ==
    ASSUME NEW X, NEW s \in Seq(X), NEW T, NEW Y,
           \A x \in X : x \in T /\ x \in ToSet(s) => x \in Y
    PROVE  \E f : Builds(f, s, T, Y)
<1>. DEFINE F(f) == f = [i \in 0..Len(s) |->
                            IF i = 0 THEN <<>>
                            ELSE IF s[i] \in T THEN Append(f[i - 1], s[i]) ELSE f[i - 1]]
            h == CHOOSE f : F(f)
            Is(n, f) == /\ f \in [0..n -> Seq(Y)] /\ f[0] = <<>>
                        /\ \A i \in 1..n : f[i] = IF s[i] \in T THEN Append(f[i - 1], s[i])
                                                                ELSE f[i - 1]
            S == {n \in 0..Len(s) : ~ \E f : Is(n, f)}
<1>1. Only(s, T) = h[Len(s)]
  BY DEF Only
<1>2. Len(s) \in Nat /\ \A i \in 1..Len(s) : s[i] \in X /\ (s[i] \in T => s[i] \in Y)
  <2>1. Len(s) \in Nat /\ DOMAIN s = 1..Len(s) /\ \A i \in 1..Len(s) : s[i] \in X
    BY LenProperties
  <2>. QED
    BY <2>1 DEF ToSet
<1>3. S = {}
  <2>. SUFFICES ASSUME S # {} PROVE FALSE
    OBVIOUS
  <2>1. PICK m \in S : \A n \in S : m <= n
    <3>1. S \in SUBSET Nat
      BY <1>2
    <3>. HIDE DEF S
    <3>. QED
      BY <3>1, Smallest
  <2>2. m \in 0..Len(s) /\ ~ \E f : Is(m, f)
    OBVIOUS
  <2>3. m # 0
    <3>1. Is(0, [k \in 0..0 |-> <<>>])
      BY EmptySeq
    <3>. HIDE DEF Is
    <3>. QED
      BY <2>2, <3>1
  <2>4. m - 1 \in 0..Len(s) /\ m \in 1..Len(s) /\ m - 1 < m /\ m - 1 \in Nat
    BY <1>2, <2>2, <2>3
  <2>5. PICK f : Is(m - 1, f)
    <3>1. ~ (m <= m - 1)
      BY <2>4
    <3>2. m - 1 \notin S
      <4>. HIDE DEF S
      <4>. QED
        BY <2>1, <3>1
    <3>. HIDE DEF Is
    <3>. QED
      BY <2>4, <3>2
  <2>. DEFINE v == IF s[m] \in T THEN Append(f[m - 1], s[m]) ELSE f[m - 1]
              g == [k \in 0..m |-> IF k = m THEN v ELSE f[k]]
  <2>6. f \in [0..m - 1 -> Seq(Y)] /\ f[0] = <<>>
        /\ \A i \in 1..m - 1 : f[i] = IF s[i] \in T THEN Append(f[i - 1], s[i]) ELSE f[i - 1]
    BY <2>5
  <2>7. v \in Seq(Y)
    <3>1. f[m - 1] \in Seq(Y)
      BY <2>4, <2>6
    <3>2. s[m] \in T => Append(f[m - 1], s[m]) \in Seq(Y)
      BY <1>2, <2>4, <3>1, AppendProperties
    <3>. QED
      BY <3>1, <3>2
  <2>. HIDE DEF v, Is
  <2>8. /\ g \in [0..m -> Seq(Y)] /\ g[m] = v /\ g[0] = <<>>
        /\ \A k \in 0..m - 1 : g[k] = f[k]
    BY <1>2, <2>4, <2>6, <2>7
  <2>. HIDE DEF g
  <2>9. \A i \in 1..m : g[i] = IF s[i] \in T THEN Append(g[i - 1], s[i]) ELSE g[i - 1]
    <3>. SUFFICES ASSUME NEW i \in 1..m
                  PROVE  g[i] = IF s[i] \in T THEN Append(g[i - 1], s[i]) ELSE g[i - 1]
      OBVIOUS
    <3>1. i - 1 \in 0..m - 1 /\ (i = m \/ i \in 1..m - 1) /\ (i \in 1..m - 1 => i \in 0..m - 1)
      BY <2>4
    <3>2. g[i - 1] = f[i - 1]
      BY <2>8, <3>1
    <3>3. CASE i = m
      BY <2>8, <3>2, <3>3 DEF v
    <3>4. CASE i \in 1..m - 1
      BY <2>6, <2>8, <3>1, <3>2, <3>4
    <3>. QED
      BY <3>1, <3>3, <3>4
  <2>. QED
    BY <2>2, <2>8, <2>9 DEF Is
<1>4. PICK f : Is(Len(s), f)
  <2>1. Len(s) \in 0..Len(s)
    BY <1>2
  <2>. HIDE DEF Is
  <2>. QED
    BY <1>3, <2>1
<1>5. F(f)
  <2>1. f \in [0..Len(s) -> Seq(Y)] /\ f[0] = <<>>
        /\ \A i \in 1..Len(s) : f[i] = IF s[i] \in T THEN Append(f[i - 1], s[i]) ELSE f[i - 1]
    BY <1>4
  <2>2. \A i \in 0..Len(s) : i = 0 \/ i \in 1..Len(s)
    BY <1>2
  <2>. QED
    BY <2>1, <2>2
<1>6. F(h)
  <2>. HIDE DEF F
  <2>. QED
    BY <1>5
<1>. HIDE DEF h
<1>7. h[0] = <<>> /\ \A i \in 1..Len(s) :
          h[i] = IF s[i] \in T THEN Append(h[i - 1], s[i]) ELSE h[i - 1]
  <2>1. \A i \in 0..Len(s) :
            h[i] = IF i = 0 THEN <<>>
                   ELSE IF s[i] \in T THEN Append(h[i - 1], s[i]) ELSE h[i - 1]
    BY <1>6
  <2>2. 0 \in 0..Len(s) /\ \A i \in 1..Len(s) : i \in 0..Len(s) /\ i # 0
    BY <1>2
  <2>. QED
    BY <2>1, <2>2
<1>8. f \in [0..Len(s) -> Seq(Y)] /\ f[0] = <<>>
      /\ \A i \in 1..Len(s) : f[i] = IF s[i] \in T THEN Append(f[i - 1], s[i]) ELSE f[i - 1]
  BY <1>4
<1>. DEFINE D == {i \in 0..Len(s) : h[i] # f[i]}
<1>9. D = {}
  <2>. SUFFICES ASSUME D # {} PROVE FALSE
    OBVIOUS
  <2>1. PICK i \in D : \A j \in D : i <= j
    <3>1. D \in SUBSET Nat
      BY <1>2
    <3>. HIDE DEF D
    <3>. QED
      BY <3>1, Smallest
  <2>2. i \in 0..Len(s) /\ h[i] # f[i]
    OBVIOUS
  <2>3. i \in 1..Len(s) /\ i - 1 \in 0..Len(s) /\ i - 1 < i
    BY <1>2, <1>7, <1>8, <2>2
  <2>4. h[i - 1] = f[i - 1]
    BY <2>1, <2>3
  <2>5. h[i] = f[i]
    BY <1>7, <1>8, <2>3, <2>4
  <2>. QED
    BY <2>2, <2>5
<1>10. Len(s) \in 0..Len(s)
  BY <1>2
<1>11. h[Len(s)] = f[Len(s)]
  BY <1>9, <1>10, Zenon
<1>. QED
  BY <1>1, <1>8, <1>11 DEF Builds

(* Only keeps items of the list that are in the set, and nothing else.     *)
LEMMA OnlyKeeps ==
    ASSUME NEW X, NEW s \in Seq(X), NEW T
    PROVE  Only(s, T) \in Seq({x \in X : x \in T /\ x \in ToSet(s)})
<1>. DEFINE Y == {x \in X : x \in T /\ x \in ToSet(s)}
<1>1. \A x \in X : x \in T /\ x \in ToSet(s) => x \in Y
  OBVIOUS
<1>2. Len(s) \in 0..Len(s)
  BY LenProperties
<1>. HIDE DEF Y
<1>3. Only(s, T) \in Seq(Y)
  <2>1. PICK f : Builds(f, s, T, Y)
    BY <1>1, OnlyBuilt
  <2>. QED
    BY <1>2, <2>1 DEF Builds
<1>. QED
  BY <1>3 DEF Y

Distinct(s) == \A i, j \in DOMAIN s : s[i] = s[j] => i = j

(* An item that is not in a list may be put at its end.                    *)
LEMMA AppendDistinct ==
    ASSUME NEW X, NEW s \in Seq(X), NEW x \in X, Distinct(s), x \notin ToSet(s)
    PROVE  Distinct(Append(s, x)) /\ ToSet(Append(s, x)) = ToSet(s) \cup {x}
<1>. DEFINE r == Append(s, x)
<1>1. /\ Len(s) \in Nat /\ DOMAIN s = 1..Len(s)
      /\ DOMAIN r = 1..Len(s) + 1 /\ r[Len(s) + 1] = x
      /\ \A i \in 1..Len(s) : r[i] = s[i]
  BY LenProperties, AppendProperties
<1>. HIDE DEF r
<1>2. \A i \in 1..Len(s) + 1 : i \in 1..Len(s) \/ i = Len(s) + 1
  BY <1>1
<1>3. \A i \in 1..Len(s) : r[i] # x /\ r[i] \in ToSet(s)
  BY <1>1 DEF ToSet
<1>4. Distinct(r)
  BY <1>1, <1>2, <1>3 DEF Distinct
<1>5. ToSet(r) = ToSet(s) \cup {x}
  <2>1. Len(s) + 1 \in 1..Len(s) + 1 /\ \A i \in 1..Len(s) : i \in 1..Len(s) + 1
    BY <1>1
  <2>. QED
    BY <1>1, <1>2, <2>1 DEF ToSet
<1>. QED
  BY <1>4, <1>5 DEF r

(* No item twice, before and after.                                        *)
LEMMA OnlyDistinct ==
    ASSUME NEW X, NEW s \in Seq(X), NEW T, Distinct(s)
    PROVE  Distinct(Only(s, T))
<1>1. \E f : Builds(f, s, T, X)
  BY OnlyBuilt
<1>2. Len(s) \in Nat /\ DOMAIN s = 1..Len(s) /\ \A i \in 1..Len(s) : s[i] \in X
  BY LenProperties
<1>3. PICK f \in [0..Len(s) -> Seq(X)] :
          /\ f[0] = <<>>
          /\ \A i \in 1..Len(s) : f[i] = IF s[i] \in T THEN Append(f[i - 1], s[i]) ELSE f[i - 1]
          /\ Only(s, T) = f[Len(s)]
  BY <1>1 DEF Builds
<1>. DEFINE Good(n) == Distinct(f[n]) /\ \A x \in ToSet(f[n]) : \E k \in 1..n : x = s[k]
            S == {n \in 0..Len(s) : ~Good(n)}
<1>4. S = {}
  <2>. SUFFICES ASSUME S # {} PROVE FALSE
    OBVIOUS
  <2>1. PICK m \in S : \A n \in S : m <= n
    <3>1. S \in SUBSET Nat
      BY <1>2
    <3>. HIDE DEF S
    <3>. QED
      BY <3>1, Smallest
  <2>2. m \in 0..Len(s) /\ ~Good(m)
    OBVIOUS
  <2>3. m # 0
    <3>1. Good(0)
      BY <1>3 DEF Distinct, ToSet
    <3>. HIDE DEF Good
    <3>. QED
      BY <2>2, <3>1
  <2>4. m - 1 \in 0..Len(s) /\ m \in 1..Len(s) /\ ~(m <= m - 1)
    BY <1>2, <2>2, <2>3
  <2>5. Good(m - 1)
    <3>1. m - 1 \notin S
      <4>. HIDE DEF S
      <4>. QED
        BY <2>1, <2>4
    <3>. HIDE DEF Good
    <3>. QED
      BY <2>4, <3>1
  <2>6. \A k \in 1..m - 1 : k \in 1..m /\ k \in 1..Len(s) /\ k # m
    BY <1>2, <2>4
  <2>7. f[m - 1] \in Seq(X) /\ m \in 1..m
    <3>1. m \in 1..m
      BY <1>2, <2>4
    <3>. QED
      BY <2>4, <3>1
  <2>8. CASE s[m] \in T
    <3>1. f[m] = Append(f[m - 1], s[m]) /\ s[m] \in X
      BY <1>2, <1>3, <2>4, <2>8
    <3>2. s[m] \notin ToSet(f[m - 1])
      BY <1>2, <2>4, <2>5, <2>6 DEF Distinct
    <3>3. Distinct(f[m]) /\ ToSet(f[m]) = ToSet(f[m - 1]) \cup {s[m]}
      BY <2>5, <2>7, <3>1, <3>2, AppendDistinct
    <3>4. \A x \in ToSet(f[m]) : \E k \in 1..m : x = s[k]
      BY <2>5, <2>6, <2>7, <3>3
    <3>. QED
      BY <2>2, <3>3, <3>4
  <2>9. CASE s[m] \notin T
    <3>1. f[m] = f[m - 1]
      BY <1>3, <2>4, <2>9
    <3>. QED
      BY <2>2, <2>5, <2>6, <3>1
  <2>. QED
    BY <2>8, <2>9
<1>5. Good(Len(s))
  <2>1. Len(s) \in 0..Len(s) /\ Len(s) \notin S
    <3>. HIDE DEF S
    <3>. QED
      BY <1>2, <1>4
  <2>. HIDE DEF Good
  <2>. QED
    BY <2>1
<1>. QED
  BY <1>3, <1>5

-----------------------------------------------------------------------------
(* The control plane.                                                      *)

\* What a push sends.
PlanMessages == [to : Workers, task : Tasks \cup {None}, rank : Nat,
                 range : Ranges, nodes : Seq(Workers)]

\* A push that is waited for is one of the handler's plan, and at most one
\* message of it is under way.
PushInv ==
    /\ pipe \subseteq PlanMessages
    /\ \A t \in Tasks : Running(t) =>
          /\ task[t].waiting => task[t].next <= Len(task[t].plan.nodes)
          /\ task[t].kind # "dead" => task[t].src \in Workers
    /\ \A m \in pipe : m.task # None => Running(m.task) /\ task[m.task].waiting
    /\ \A m, n \in pipe : m.task = n.task /\ m.task # None => m = n

TypeInv == TypeOK /\ PushInv

\* Workers that wait for each answer, and a planner that always finds a mode.
Orderly == OrderedControl /\ PreferredMode # "tensor"

\* Handler t answers a message of worker w.
Asks(w, t) == Running(t) /\ task[t].kind # "dead" /\ task[t].src = w

\* A worker has one request under way at most.
OneInv ==
    /\ \A m, n \in wire : m.src = n.src => m = n
    /\ \A m \in wire, t \in Tasks : ~Asks(m.src, t)

\* Who may be heard of is registered, and who is dead is silent.
KnownInv ==
    /\ Root \in nodes
    /\ last_heartbeat \in Seq(nodes)
    /\ dead \subseteq silent
    /\ \A w \in Workers : member[w] = "joined" => w \in nodes
    /\ \A m \in wire : m.type = "leave" => member[m.src] # "joined"
    /\ \A m \in wire : m.type = "heartbeat" => m.src \in nodes
    /\ \A w \in Workers, t \in Tasks : Asks(w, t) /\ task[t].kind = "hello" => w \in nodes

PlanInv == PlanNodes \subseteq nodes \ {Root} /\ DeadNotPlanned

AdmissibleInv == TypeInv /\ OneInv /\ KnownInv /\ PlanInv

\* Handlers do not overlap.
OneTask == \A t, u \in Tasks : t = u

\* The plan over these nodes.
PlanOf(s) == [mode |-> ModeFor(Len(s)), nodes |-> s]

\* The handler pushes the plan of the moment, and every message carries one
\* plan's range and nodes.
PushedInv ==
    /\ plan # None => plan = PlanOf(plan.nodes) /\ plan.nodes # <<>>
    /\ \A t \in Tasks : Running(t) => plan = task[t].plan
    /\ \A m \in pipe : /\ m.rank \in DOMAIN m.nodes
                       /\ m.to = m.nodes[m.rank]
                       /\ m.range = RangeIn(PlanOf(m.nodes), m.rank)
    /\ \A m \in pipe : m.task # None =>
          m = PlanMessage(m.task, plan, task[m.task].next, plan)

\* A worker that runs, and is a member or about to be told that it is.
Serves(w) ==
    /\ w \in up
    /\ \/ member[w] = "joined"
       \/ \E t \in Tasks : /\ Asks(w, t) /\ task[t].kind = "hello"
                           /\ member[w] = "registering" /\ hellos[w] = task[t].hello

Follows(i) == /\ layer_range[plan.nodes[i]] = RangeIn(plan, i)
              /\ peers[plan.nodes[i]] = plan.nodes

(* The plan over a list of nodes is a plan.                                *)
LEMMA PlanOfType ==
    ASSUME NEW s \in Seq(Workers)
    PROVE  PlanOf(s) \in Plans /\ PlanOf(s) # None /\ PlanOf(s).nodes = s
<1>1. ModeFor(Len(s)) \in {"pipeline", "tensor"}
  BY ClusterAssumption DEF ModeFor, AutomaticMode
<1>. QED
  BY <1>1, NoneAssumption DEF PlanOf, Plans

(* _replan plans over the members that are alive (coordinator.py:240-256). *)
LEMMA NewPlanIs ==
    ASSUME NEW X, X \subseteq Nodes, NEW beats \in Seq(X), NEW quiet,
           NewPlan(beats, quiet) # None
    PROVE  LET s == NewPlan(beats, quiet).nodes
           IN  /\ NewPlan(beats, quiet) = PlanOf(s)
               /\ s = MembersOf(beats, quiet)
               /\ s # <<>>
               /\ s \in Seq({x \in X : x \in Workers \ quiet /\ x \in ToSet(beats)})
               /\ s \in Seq(Workers)
<1>. DEFINE s == MembersOf(beats, quiet)
<1>1. s \in Seq({x \in X : x \in Workers \ quiet /\ x \in ToSet(beats)})
  BY OnlyKeeps DEF MembersOf
<1>2. s \in Seq(Workers)
  <2>1. {x \in X : x \in Workers \ quiet /\ x \in ToSet(beats)} \subseteq Workers
    OBVIOUS
  <2>. HIDE DEF s
  <2>. QED
    BY <1>1, <2>1, SeqWiden
<1>. HIDE DEF s
<1>3. NewPlan(beats, quiet) = IF s = <<>> THEN None ELSE PlanOf(s)
  BY DEF NewPlan, PlanOf, s
<1>4. s # <<>> /\ NewPlan(beats, quiet) = PlanOf(s)
  BY <1>3
<1>. QED
  BY <1>1, <1>2, <1>4, PlanOfType DEF s

(* A worker's range lies inside the model.                                 *)
LEMMA RangeInside ==
    ASSUME NEW p \in Plans, NEW i \in 1..Len(p.nodes)
    PROVE  RangeIn(p, i) \in Ranges
<1>1. Len(p.nodes) \in Nat \ {0} /\ i - 1 \in 0..Len(p.nodes) - 1
  <2>1. p.nodes \in Seq(Workers)
    BY DEF Plans
  <2>2. Len(p.nodes) \in Nat
    BY <2>1, LenProperties
  <2>. QED
    BY <2>2
<1>2. NumLayers \in Nat
  BY ClusterAssumption
<1>3. /\ LayerStart(NumLayers, Len(p.nodes), i - 1) \in 0..NumLayers
      /\ LayerStart(NumLayers, Len(p.nodes), i - 1) + LayerCount(NumLayers, Len(p.nodes), i - 1)
            \in 0..NumLayers
  BY <1>1, <1>2, SliceInside
<1>4. 0 \in 0..NumLayers /\ NumLayers \in 0..NumLayers
  BY <1>2
<1>. QED
  BY <1>3, <1>4 DEF RangeIn, Ranges, PipelineSlice

(* What a push sends is a plan message.                                    *)
LEMMA MessageType ==
    ASSUME NEW t \in Tasks, NEW p \in Plans, NEW i \in 1..Len(p.nodes), NEW now \in Plans
    PROVE  /\ PlanMessage(t, p, i, now) \in PlanMessages
           /\ PlanMessage(t, p, i, now).task = t
           /\ PlanMessage(t, p, i, now).to = p.nodes[i]
<1>1. p.nodes \in Seq(Workers) /\ now.nodes \in Seq(Workers)
  BY DEF Plans
<1>2. p.nodes[i] \in Workers /\ i \in Nat
  BY <1>1, LenProperties
<1>. QED
  BY <1>1, <1>2, RangeInside DEF PlanMessage, PlanMessages

(* A list that a name is put into.                                         *)
LEMMA TouchType ==
    ASSUME NEW X, NEW s \in Seq(X), NEW n \in X
    PROVE  Touch(s, n) \in Seq(X)
  BY AppendProperties DEF Touch

(* A list that a name is taken out of.                                     *)
LEMMA ForgetType ==
    ASSUME NEW X, NEW s \in Seq(X), NEW n
    PROVE  Forget(s, n) \in Seq({x \in X : x \in Nodes \ {n}})
<1>. DEFINE Y == {x \in X : x \in Nodes \ {n} /\ x \in ToSet(s)}
            Z == {x \in X : x \in Nodes \ {n}}
<1>1. Forget(s, n) \in Seq(Y)
  BY OnlyKeeps DEF Forget
<1>2. Y \subseteq Z
  OBVIOUS
<1>. HIDE DEF Y, Z
<1>3. Forget(s, n) \in Seq(Z)
  BY <1>1, <1>2, SeqWiden
<1>. QED
  BY <1>3 DEF Z

(* A list of nodes stays one.                                              *)
LEMMA ForgetNodes ==
    ASSUME NEW s \in Seq(Nodes), NEW n
    PROVE  Forget(s, n) \in Seq(Nodes)
<1>. DEFINE Z == {x \in Nodes : x \in Nodes \ {n}}
<1>1. Forget(s, n) \in Seq(Z)
  BY ForgetType
<1>2. Z \subseteq Nodes
  OBVIOUS
<1>. HIDE DEF Z
<1>. QED
  BY <1>1, <1>2, SeqWiden

(* What a handler does after its replanning, case by case.                 *)
LEMMA Replanned ==
    ASSUME NEW kind, NEW src, NEW n, NEW X, X \subseteq Nodes,
           last_heartbeat' \in Seq(X),
           ReplanAndPush(kind, src, n)
    PROVE  \/ /\ ReplanRaises(last_heartbeat', silent', nodes')
              /\ UNCHANGED <<plan, task, pipe, member>>
           \/ /\ ~ReplanRaises(last_heartbeat', silent', nodes')
              /\ plan' = None
              /\ UNCHANGED <<task, pipe>>
              /\ Answer(kind, src, n)
           \/ /\ ~ReplanRaises(last_heartbeat', silent', nodes')
              /\ plan' # None /\ plan' \in Plans
              /\ plan' = PlanOf(plan'.nodes) /\ plan'.nodes # <<>>
              /\ plan'.nodes = MembersOf(last_heartbeat', silent')
              /\ plan'.nodes \in Seq({x \in X : x \in Workers \ silent' /\ x \in ToSet(last_heartbeat')})
              /\ \E t \in Tasks :
                    /\ task[t] = None
                    /\ task' = [task EXCEPT ![t] =
                                   [kind |-> kind, src |-> src, hello |-> n,
                                    plan |-> plan', next |-> 1, waiting |-> TRUE]]
                    /\ Sent(PlanMessage(t, plan', 1, plan'))
              /\ UNCHANGED member
<1>1. CASE ReplanRaises(last_heartbeat', silent', nodes')
  BY <1>1 DEF ReplanAndPush
<1>2. CASE ~ReplanRaises(last_heartbeat', silent', nodes') /\ plan' = None
  BY <1>2 DEF ReplanAndPush
<1>3. CASE ~ReplanRaises(last_heartbeat', silent', nodes') /\ plan' # None
  <2>1. /\ plan' = NewPlan(last_heartbeat', silent')
        /\ \E t \in Tasks :
              /\ task[t] = None
              /\ task' = [task EXCEPT ![t] =
                             [kind |-> kind, src |-> src, hello |-> n,
                              plan |-> plan', next |-> 1, waiting |-> TRUE]]
              /\ Sent(PlanMessage(t, plan', 1, plan'))
        /\ UNCHANGED member
    BY <1>3 DEF ReplanAndPush
  <2>a. \A beats \in Seq(X) : \A quiet : NewPlan(beats, quiet) # None =>
           LET s == NewPlan(beats, quiet).nodes
           IN  /\ NewPlan(beats, quiet) = PlanOf(s)
               /\ s = MembersOf(beats, quiet)
               /\ s # <<>>
               /\ s \in Seq({x \in X : x \in Workers \ quiet /\ x \in ToSet(beats)})
               /\ s \in Seq(Workers)
    BY NewPlanIs
  <2>2. LET s == plan'.nodes
        IN  /\ plan' = PlanOf(s)
            /\ s = MembersOf(last_heartbeat', silent')
            /\ s # <<>>
            /\ s \in Seq({x \in X : x \in Workers \ silent' /\ x \in ToSet(last_heartbeat')})
            /\ s \in Seq(Workers)
    BY <1>3, <2>1, <2>a
  <2>3. plan' \in Plans
    BY <2>2, PlanOfType
  <2>. QED
    BY <1>3, <2>1, <2>2, <2>3
<1>. QED
  BY <1>1, <1>2, <1>3
\* What TypeOK says of the handlers.
TasksOK ==
    /\ task \in [Tasks -> Handlers \cup {None}]
    /\ \A t \in Tasks : Running(t) => task[t].next \in 1..Len(task[t].plan.nodes) + 1

(* A push is over: its handler goes to the next one.                       *)
LEMMA MovedIs ==
    ASSUME TypeInv, NEW t \in Tasks, Running(t), task[t].waiting, task' = Moved(t)
    PROVE  /\ TasksOK'
           /\ Running(t)' /\ ~task'[t].waiting
           /\ task'[t].plan = task[t].plan /\ task'[t].kind = task[t].kind
           /\ task'[t].src = task[t].src /\ task'[t].hello = task[t].hello
           /\ task'[t].next = task[t].next + 1
           /\ \A u \in Tasks : u # t => task'[u] = task[u]
<1>1. /\ task \in [Tasks -> Handlers \cup {None}] /\ task[t] \in Handlers /\ task[t] # None
      /\ \A u \in Tasks : Running(u) => task[u].next \in 1..Len(task[u].plan.nodes) + 1
      /\ task[t].next \in 1..Len(task[t].plan.nodes) + 1
      /\ task[t].next <= Len(task[t].plan.nodes)
  BY DEF TypeInv, TypeOK, PushInv, Running
<1>. DEFINE r == [task[t] EXCEPT !.next = @ + 1, !.waiting = FALSE]
<1>2. Len(task[t].plan.nodes) \in Nat
  <2>1. task[t].plan \in Plans /\ \A p \in Plans : p.nodes \in Seq(Workers)
    BY <1>1 DEF Handlers, Plans
  <2>. QED
    BY <2>1, LenProperties
<1>3. /\ r \in Handlers /\ r.plan = task[t].plan /\ r.kind = task[t].kind /\ r.src = task[t].src
      /\ r.hello = task[t].hello /\ r.next = task[t].next + 1 /\ r.waiting = FALSE
  <2>1. \A x \in Handlers :
            LET y == [x EXCEPT !.next = @ + 1, !.waiting = FALSE]
            IN  /\ y.plan = x.plan /\ y.kind = x.kind /\ y.src = x.src
                /\ y.hello = x.hello /\ y.next = x.next + 1 /\ y.waiting = FALSE
    BY DEF Handlers
  <2>2. ASSUME NEW x \in Handlers
        PROVE  [x EXCEPT !.next = @ + 1, !.waiting = FALSE] \in Handlers
    <3>1. [x EXCEPT !.next = @ + 1] \in Handlers
      BY DEF Handlers
    <3>2. \A y \in Handlers : [y EXCEPT !.waiting = FALSE] \in Handlers
      BY DEF Handlers
    <3>3. [x EXCEPT !.next = @ + 1, !.waiting = FALSE]
             = [[x EXCEPT !.next = @ + 1] EXCEPT !.waiting = FALSE]
      BY DEF Handlers
    <3>. QED
      BY <3>1, <3>2, <3>3
  <2>. QED
    BY <1>1, <2>1, <2>2
<1>4. r # None
  BY <1>3, NoneAssumption
<1>5. task' = [task EXCEPT ![t] = r]
  BY DEF Moved
<1>. HIDE DEF r
<1>6. task' \in [Tasks -> Handlers \cup {None}] /\ task'[t] = r
      /\ \A u \in Tasks : u # t => task'[u] = task[u]
  BY <1>1, <1>3, <1>5
<1>7. \A u \in Tasks : task'[u] # None => task'[u].next \in 1..Len(task'[u].plan.nodes) + 1
  <2>. SUFFICES ASSUME NEW u \in Tasks, task'[u] # None
                PROVE  task'[u].next \in 1..Len(task'[u].plan.nodes) + 1
    OBVIOUS
  <2>1. CASE u = t
    <3>1. \A k \in Nat : \A l \in 1..k + 1 : l <= k => l + 1 \in 1..k + 1
      OBVIOUS
    <3>. QED
      BY <1>1, <1>2, <1>3, <1>6, <2>1, <3>1
  <2>2. CASE u # t
    BY <1>1, <1>6, <2>2 DEF Running
  <2>. QED
    BY <2>1, <2>2
<1>. QED
  BY <1>3, <1>4, <1>6, <1>7 DEF TasksOK, Running

(* A handler starts, at the first push of a new plan.                      *)
LEMMA Started ==
    ASSUME TypeInv, NEW t \in Tasks, task[t] = None,
           NEW kind \in {"hello", "leave", "dead"}, NEW src \in Nodes, NEW n \in Nat,
           kind # "dead" => src \in Workers,
           NEW p \in Plans, plan' = p, p.nodes # <<>>,
           task' = [task EXCEPT ![t] = [kind |-> kind, src |-> src, hello |-> n,
                                        plan |-> plan', next |-> 1, waiting |-> TRUE]],
           Sent(PlanMessage(t, plan', 1, plan'))
    PROVE  /\ TasksOK' /\ PushInv'
           /\ Running(t)' /\ task'[t].waiting /\ task'[t].plan = p /\ task'[t].kind = kind
           /\ task'[t].src = src /\ task'[t].hello = n /\ task'[t].next = 1
           /\ \A u \in Tasks : u # t => task'[u] = task[u]
<1>. DEFINE r == [kind |-> kind, src |-> src, hello |-> n, plan |-> p, next |-> 1, waiting |-> TRUE]
            x == PlanMessage(t, p, 1, p)
<1>1. r \in Handlers /\ r # None
  <2>1. r \in Handlers
    BY SMTT(30) DEF Handlers
  <2>. QED
    BY <2>1, NoneAssumption, Zenon
<1>2. task \in [Tasks -> Handlers \cup {None}]
      /\ \A u \in Tasks : Running(u) => task[u].next \in 1..Len(task[u].plan.nodes) + 1
  BY DEF TypeInv, TypeOK
<1>3. task' \in [Tasks -> Handlers \cup {None}] /\ task'[t] = r
      /\ \A u \in Tasks : u # t => task'[u] = task[u]
  BY <1>1, <1>2
<1>4. Len(p.nodes) \in Nat \ {0} /\ 1 \in 1..Len(p.nodes) /\ 1 \in 1..Len(p.nodes) + 1
  <2>1. p.nodes \in Seq(Workers)
    BY DEF Plans
  <2>2. Len(p.nodes) \in Nat /\ Len(p.nodes) # 0
    BY <2>1, EmptySeq, LenProperties
  <2>. QED
    BY <2>2
<1>5. r.plan = p /\ r.next = 1 /\ r.waiting = TRUE /\ r.kind = kind /\ r.src = src /\ r.hello = n
  OBVIOUS
<1>6. x \in PlanMessages /\ x.task = t
  BY <1>4, MessageType
<1>7. pipe' \subseteq pipe \cup {x}
  BY DEF Sent
<1>. HIDE DEF r, x
<1>8. TasksOK'
  BY <1>2, <1>3, <1>4, <1>5 DEF TasksOK, Running
<1>9. \A m \in pipe : m.task # t
  <2>1. t # None
    BY NoneAssumption
  <2>. QED
    BY <2>1 DEF TypeInv, PushInv, Running
<1>10. PushInv'
  <2>1. pipe' \subseteq PlanMessages
    BY <1>6, <1>7 DEF TypeInv, PushInv
  <2>2. \A u \in Tasks : Running(u)' =>
            /\ task'[u].waiting => task'[u].next <= Len(task'[u].plan.nodes)
            /\ task'[u].kind # "dead" => task'[u].src \in Workers
    <3>. SUFFICES ASSUME NEW u \in Tasks, Running(u)'
                  PROVE  /\ task'[u].waiting => task'[u].next <= Len(task'[u].plan.nodes)
                         /\ task'[u].kind # "dead" => task'[u].src \in Workers
      OBVIOUS
    <3>1. CASE u = t
      <4>1. 1 <= Len(p.nodes)
        BY <1>4
      <4>. QED
        BY <1>3, <1>5, <3>1, <4>1
    <3>2. CASE u # t
      BY <1>3, <3>2 DEF TypeInv, PushInv, Running
    <3>. QED
      BY <3>1, <3>2
  <2>3. \A m \in pipe' : m.task # None => Running(m.task)' /\ task'[m.task].waiting
    <3>. SUFFICES ASSUME NEW m \in pipe', m.task # None
                  PROVE  Running(m.task)' /\ task'[m.task].waiting
      OBVIOUS
    <3>1. CASE m = x
      BY <1>1, <1>3, <1>5, <1>6, <3>1 DEF Running
    <3>2. CASE m # x
      <4>1. m \in pipe /\ m.task # t /\ m.task \in Tasks
        BY <1>7, <1>9, <2>1, <3>2 DEF PlanMessages
      <4>. QED
        BY <1>3, <4>1 DEF TypeInv, PushInv, Running
    <3>. QED
      BY <3>1, <3>2
  <2>4. \A m, k \in pipe' : m.task = k.task /\ m.task # None => m = k
    BY <1>6, <1>7, <1>9 DEF TypeInv, PushInv
  <2>. QED
    BY <2>1, <2>2, <2>3, <2>4 DEF PushInv
<1>. QED
  BY <1>1, <1>3, <1>5, <1>8, <1>10 DEF Running
Members == {"out", "registering", "joined"}

(* The types that a handler's replanning changes.                          *)
LEMMA HandlerType ==
    ASSUME TypeInv,
           NEW kind \in {"hello", "leave", "dead"}, NEW src \in Nodes, NEW n \in Nat,
           kind # "dead" => src \in Workers,
           last_heartbeat' \in Seq(Nodes),
           ReplanAndPush(kind, src, n)
    PROVE  /\ plan' \in Plans \cup {None}
           /\ member' \in [Workers -> Members]
           /\ TasksOK' /\ PushInv'
<1>1. /\ plan \in Plans \cup {None} /\ member \in [Workers -> Members]
      /\ TasksOK /\ PushInv
  BY DEF TypeInv, TypeOK, TasksOK, Members
<1>2. UNCHANGED <<task, pipe>> => TasksOK' /\ PushInv'
  BY <1>1 DEF TasksOK, PushInv, Running
<1>3. Answer(kind, src, n) => member' \in [Workers -> Members]
  BY <1>1 DEF Answer, Members
<1>4. ASSUME plan' # None, plan' \in Plans, plan'.nodes # <<>>,
             NEW t \in Tasks, task[t] = None,
             task' = [task EXCEPT ![t] = [kind |-> kind, src |-> src, hello |-> n,
                                          plan |-> plan', next |-> 1, waiting |-> TRUE]],
             Sent(PlanMessage(t, plan', 1, plan'))
      PROVE  TasksOK' /\ PushInv'
  <2>1. PICK p \in Plans : plan' = p /\ p.nodes # <<>>
    BY <1>4
  <2>. QED
    BY <1>4, <2>1, Started
<1>. QED
  BY <1>1, <1>2, <1>3, <1>4, Replanned

(* The types hold at the start.                                            *)
LEMMA InitType == Init => TypeInv
<1>. SUFFICES ASSUME Init PROVE TypeInv
  OBVIOUS
<1>1. <<Root>> \in Seq(Nodes) /\ <<>> \in Seq(Nodes) /\ <<>> \in Seq(Workers)
  <2>1. Root \in Nodes
    BY DEF Nodes
  <2>. QED
    BY <2>1
<1>2. <<0, NumLayers>> \in Ranges
  BY ClusterAssumption DEF Ranges
<1>3. \A t \in Tasks : ~Running(t)
  BY DEF Init, Running
<1>4. TypeOK
  <2>1. /\ nodes \in SUBSET Nodes /\ silent \in SUBSET Nodes /\ dead \in SUBSET Nodes
        /\ last_heartbeat \in Seq(Nodes) /\ last_seen \in Seq(Nodes)
        /\ plan \in Plans \cup {None} /\ monitor \in {"asleep", "checking"}
        /\ to_check \in Seq(Nodes) /\ wire \in SUBSET Messages
    BY <1>1 DEF Init, Nodes
  <2>2. task \in [Tasks -> Handlers \cup {None}]
    BY DEF Init
  <2>3. /\ up \in SUBSET Workers /\ member \in [Workers -> {"out", "registering", "joined"}]
        /\ hellos \in [Workers -> Nat]
        /\ layer_range \in [Workers -> Ranges] /\ peers \in [Workers -> Seq(Workers)]
    BY <1>1, <1>2 DEF Init
  <2>4. crashes \in 0..MaxFaults /\ late \in 0..MaxFaults
    BY ClusterAssumption DEF Init
  <2>5. \A m \in pipe : m.to \in Workers /\ m.range \in Ranges
    BY DEF Init
  <2>. QED
    BY <1>3, <2>1, <2>2, <2>3, <2>4, <2>5 DEF TypeOK
<1>5. PushInv
  BY <1>3 DEF Init, PushInv
<1>. QED
  BY <1>4, <1>5 DEF TypeInv

(* A push leaves the types as they are.                                    *)
LEMMA PushType ==
    ASSUME TypeInv, NEW t \in Tasks, Push(t)
    PROVE  TypeInv'
<1>1. TasksOK /\ PushInv /\ TypeOK
  BY DEF TypeInv, TypeOK, TasksOK
<1>2. ASSUME UNCHANGED <<nodes, last_heartbeat, last_seen, silent, dead, plan, monitor, to_check,
                         wire, hellos, up, crashes>>,
             TasksOK', PushInv', member' \in [Workers -> Members], late' \in 0..MaxFaults,
             layer_range' \in [Workers -> Ranges], peers' \in [Workers -> Seq(Workers)]
      PROVE  TypeInv'
  <2>1. \A m \in pipe' : m.to \in Workers /\ m.range \in Ranges
    BY <1>2 DEF PushInv, PlanMessages
  <2>. QED
    BY <1>1, <1>2, <2>1 DEF TypeOK, TasksOK, TypeInv, Members
<1>3. member \in [Workers -> Members] /\ late \in 0..MaxFaults /\ crashes \in 0..MaxFaults
      /\ layer_range \in [Workers -> Ranges] /\ peers \in [Workers -> Seq(Workers)]
  BY <1>1 DEF TypeOK, Members
<1>4. CASE PushSend(t)
  <2>1. /\ Running(t) /\ ~PushDone(t) /\ ~task[t].waiting /\ plan # None
        /\ Sent(PlanMessage(t, task[t].plan, task[t].next, plan))
        /\ task' = [task EXCEPT ![t].waiting = TRUE]
        /\ UNCHANGED <<late, health_vars, coord_vars, tick_vars, wire, worker_vars>>
    BY <1>4 DEF PushSend
  <2>2. task[t] \in Handlers /\ plan \in Plans
        /\ task[t].next \in 1..Len(task[t].plan.nodes) + 1
    BY <1>1, <2>1 DEF TypeOK, Running
  <2>3. task[t].plan \in Plans /\ task[t].kind \in {"hello", "leave", "dead"}
    BY <2>2 DEF Handlers
  <2>4. Len(task[t].plan.nodes) \in Nat
    <3>1. task[t].plan.nodes \in Seq(Workers)
      BY <2>3 DEF Plans
    <3>. QED
      BY <3>1, LenProperties
  <2>5. task[t].next \in 1..Len(task[t].plan.nodes) /\ task[t].next <= Len(task[t].plan.nodes)
    BY <2>1, <2>2, <2>4 DEF PushDone
  <2>. DEFINE x == PlanMessage(t, task[t].plan, task[t].next, plan)
              r == [task[t] EXCEPT !.waiting = TRUE]
  <2>6. x \in PlanMessages /\ x.task = t
    BY <2>2, <2>3, <2>5, MessageType
  <2>7. pipe' \subseteq pipe \cup {x}
    BY <2>1 DEF Sent
  <2>8. /\ r \in Handlers /\ r.plan = task[t].plan /\ r.kind = task[t].kind
        /\ r.src = task[t].src /\ r.next = task[t].next /\ r.waiting = TRUE
    BY <2>2 DEF Handlers
  <2>9. r # None
    BY <2>8, NoneAssumption
  <2>10. task' = [task EXCEPT ![t] = r]
    BY <2>1
  <2>. HIDE DEF x, r
  <2>11. task' \in [Tasks -> Handlers \cup {None}] /\ task'[t] = r
         /\ \A u \in Tasks : u # t => task'[u] = task[u]
    BY <1>1, <2>8, <2>10 DEF TasksOK
  <2>12. TasksOK'
    BY <1>1, <2>2, <2>8, <2>11 DEF TasksOK, Running
  <2>13. \A m \in pipe : m.task # t
    <3>1. t # None
      BY NoneAssumption
    <3>. QED
      BY <1>1, <2>1, <3>1 DEF PushInv
  <2>14. PushInv'
    <3>1. pipe' \subseteq PlanMessages
      BY <1>1, <2>6, <2>7 DEF PushInv
    <3>2. \A u \in Tasks : Running(u)' =>
              /\ task'[u].waiting => task'[u].next <= Len(task'[u].plan.nodes)
              /\ task'[u].kind # "dead" => task'[u].src \in Workers
      <4>1. /\ r.next <= Len(r.plan.nodes)
            /\ r.kind # "dead" => r.src \in Workers
        BY <1>1, <2>1, <2>5, <2>8 DEF PushInv
      <4>. QED
        BY <1>1, <2>11, <4>1 DEF PushInv, Running
    <3>3. \A m \in pipe' : m.task # None => Running(m.task)' /\ task'[m.task].waiting
      <4>. SUFFICES ASSUME NEW m \in pipe', m.task # None
                    PROVE  Running(m.task)' /\ task'[m.task].waiting
        OBVIOUS
      <4>1. CASE m = x
        BY <2>6, <2>8, <2>9, <2>11, <4>1 DEF Running
      <4>2. CASE m # x
        <5>1. m \in pipe /\ m.task # t /\ m.task \in Tasks
          BY <2>7, <2>13, <3>1, <4>2 DEF PlanMessages
        <5>. QED
          BY <1>1, <2>11, <5>1 DEF PushInv, Running
      <4>. QED
        BY <4>1, <4>2
    <3>4. \A m, k \in pipe' : m.task = k.task /\ m.task # None => m = k
      BY <1>1, <2>6, <2>7, <2>13 DEF PushInv
    <3>. QED
      BY <3>1, <3>2, <3>3, <3>4 DEF PushInv
  <2>15. UNCHANGED <<nodes, last_heartbeat, last_seen, silent, dead, plan, monitor, to_check,
                     wire, hellos, up, crashes, member, late, layer_range, peers>>
    BY <2>1 DEF health_vars, coord_vars, tick_vars, worker_vars
  <2>. QED
    BY <1>2, <1>3, <2>12, <2>14, <2>15
<1>5. ASSUME task' = [task EXCEPT ![t] = None], UNCHANGED pipe, \A m \in pipe : m.task # t
      PROVE  TasksOK' /\ PushInv'
  <2>1. task' \in [Tasks -> Handlers \cup {None}] /\ task'[t] = None
        /\ \A u \in Tasks : u # t => task'[u] = task[u]
    BY <1>1, <1>5 DEF TasksOK
  <2>2. \A m \in pipe : m.task # None => m.task \in Tasks
    BY <1>1 DEF PushInv, PlanMessages
  <2>. QED
    BY <1>1, <1>5, <2>1, <2>2 DEF TasksOK, PushInv, Running
<1>6. ~task[t].waiting => \A m \in pipe : m.task # t
  <2>1. t # None
    BY NoneAssumption
  <2>. QED
    BY <1>1, <2>1 DEF PushInv
<1>7. CASE PushRaises(t)
  <2>1. UNCHANGED <<nodes, last_heartbeat, last_seen, silent, dead, plan, monitor, to_check,
                    wire, hellos, up, crashes, member, late, layer_range, peers, pipe>>
    BY <1>7 DEF PushRaises, health_vars, coord_vars, tick_vars, worker_vars
  <2>. QED
    BY <1>2, <1>3, <1>5, <1>6, <1>7, <2>1 DEF PushRaises
<1>8. CASE PushFinished(t)
  <2>1. UNCHANGED <<nodes, last_heartbeat, last_seen, silent, dead, plan, monitor, to_check,
                    wire, hellos, up, crashes, late, layer_range, peers, pipe>>
    BY <1>8 DEF PushFinished, health_vars, coord_vars, tick_vars
  <2>2. member' \in [Workers -> Members]
    BY <1>3, <1>8 DEF PushFinished, Answer, Members
  <2>3. ~task[t].waiting
    <3>1. Running(t) /\ task[t].next > Len(task[t].plan.nodes) /\ task[t] \in Handlers
          /\ task[t].next \in Nat
      BY <1>1, <1>8 DEF PushFinished, PushDone, TasksOK, Running, Handlers
    <3>2. Len(task[t].plan.nodes) \in Nat
      <4>1. task[t].plan.nodes \in Seq(Workers)
        BY <3>1 DEF Handlers, Plans
      <4>. QED
        BY <4>1, LenProperties
    <3>3. ~ (task[t].next <= Len(task[t].plan.nodes))
      BY <3>1, <3>2
    <3>. QED
      BY <1>1, <3>1, <3>3 DEF PushInv
  <2>. QED
    BY <1>2, <1>3, <1>5, <1>6, <1>8, <2>1, <2>2, <2>3 DEF PushFinished
<1>9. ASSUME Running(t), task[t].waiting, task' = Moved(t),
             pipe' \subseteq pipe \cup {m \in PlanMessages : m.task = None},
             \A m \in pipe' : m.task # t
      PROVE  TasksOK' /\ PushInv'
  <2>1. /\ TasksOK' /\ Running(t)'
        /\ ~task'[t].waiting
        /\ task'[t].kind = task[t].kind /\ task'[t].src = task[t].src
        /\ \A u \in Tasks : u # t => task'[u] = task[u]
    BY <1>9, MovedIs
  <2>2. \A u \in Tasks : Running(u)' =>
            /\ task'[u].waiting => task'[u].next <= Len(task'[u].plan.nodes)
            /\ task'[u].kind # "dead" => task'[u].src \in Workers
    BY <1>1, <1>9, <2>1 DEF PushInv, Running
  <2>3. pipe' \subseteq PlanMessages
    BY <1>1, <1>9 DEF PushInv
  <2>4. \A m \in pipe' : m.task # None => m \in pipe /\ m.task # t /\ m.task \in Tasks
    BY <1>9, <2>3 DEF PlanMessages
  <2>5. \A m \in pipe' : m.task # None => Running(m.task)' /\ task'[m.task].waiting
    BY <1>1, <2>1, <2>4 DEF PushInv, Running
  <2>6. \A m, k \in pipe' : m.task = k.task /\ m.task # None => m = k
    BY <1>1, <2>4 DEF PushInv
  <2>. QED
    BY <2>1, <2>2, <2>3, <2>5, <2>6 DEF PushInv
<1>10. ASSUME NEW m \in pipe, m.task = t
       PROVE  task[t].waiting /\ (\A k \in pipe \ {m} : k.task # t) /\ m \in PlanMessages
  <2>1. t # None
    BY NoneAssumption
  <2>. QED
    BY <1>1, <1>10, <2>1 DEF PushInv
<1>11. CASE PushAck(t)
  <2>1. PICK m \in pipe : /\ m.task = t
                          /\ pipe' = pipe \ {m}
                          /\ layer_range' = [layer_range EXCEPT ![m.to] = m.range]
                          /\ peers' = [peers EXCEPT ![m.to] = m.nodes]
    BY <1>11 DEF PushAck
  <2>2. Running(t) /\ task' = Moved(t)
    BY <1>11 DEF PushAck
  <2>3. UNCHANGED <<nodes, last_heartbeat, last_seen, silent, dead, plan, monitor, to_check,
                    wire, hellos, up, crashes, member, late>>
    BY <1>11 DEF PushAck, health_vars, coord_vars, tick_vars
  <2>4. m.range \in Ranges /\ m.nodes \in Seq(Workers) /\ task[t].waiting
        /\ \A k \in pipe \ {m} : k.task # t
    BY <1>10, <2>1 DEF PlanMessages
  <2>5. TasksOK' /\ PushInv'
    BY <1>9, <2>1, <2>2, <2>4
  <2>6. layer_range' \in [Workers -> Ranges] /\ peers' \in [Workers -> Seq(Workers)]
    BY <1>3, <2>1, <2>4
  <2>. QED
    BY <1>2, <1>3, <2>3, <2>5, <2>6
<1>12. CASE PushFails(t)
  <2>1. UNCHANGED <<nodes, last_heartbeat, last_seen, silent, dead, plan, monitor, to_check,
                    wire, hellos, up, crashes, member, late, layer_range, peers, pipe>>
    BY <1>12 DEF PushFails, health_vars, coord_vars, tick_vars, worker_vars
  <2>2. TasksOK' /\ PushInv'
    BY <1>9, <1>12 DEF PushFails
  <2>. QED
    BY <1>2, <1>3, <2>1, <2>2
<1>13. CASE PushGivesUp(t)
  <2>1. PICK m \in pipe : /\ m.task = t
                          /\ pipe' = (pipe \ {m}) \cup {[m EXCEPT !.task = None]}
    BY <1>13 DEF PushGivesUp
  <2>2. Running(t) /\ task' = Moved(t) /\ crashes + late < MaxFaults /\ late' = late + 1
    BY <1>13 DEF PushGivesUp
  <2>3. UNCHANGED <<nodes, last_heartbeat, last_seen, silent, dead, plan, monitor, to_check,
                    wire, hellos, up, crashes, member, layer_range, peers>>
    BY <1>13 DEF PushGivesUp, health_vars, coord_vars, tick_vars, worker_vars
  <2>4. task[t].waiting /\ m \in PlanMessages /\ \A k \in pipe \ {m} : k.task # t
    BY <1>10, <2>1
  <2>5. [m EXCEPT !.task = None] \in PlanMessages /\ [m EXCEPT !.task = None].task = None
    BY <2>4 DEF PlanMessages
  <2>6. t # None
    BY NoneAssumption
  <2>7. TasksOK' /\ PushInv'
    BY <1>9, <2>1, <2>2, <2>4, <2>5, <2>6
  <2>8. late' \in 0..MaxFaults
    BY <1>3, <2>2, ClusterAssumption
  <2>. QED
    BY <1>2, <1>3, <2>3, <2>7, <2>8
<1>. QED
  BY <1>4, <1>7, <1>8, <1>11, <1>12, <1>13 DEF Push
(* Everybody else leaves the types as they are.                            *)
LEMMA OtherType ==
    ASSUME TypeInv,
           LatePlan \/ (\E m \in wire : Control(m)) \/ Tick
              \/ (\E n \in Nodes : Age(n)) \/ (\E w \in Workers : WorkerStep(w))
    PROVE  TypeInv'
<1>1. TasksOK /\ PushInv /\ TypeOK
  BY DEF TypeInv, TypeOK, TasksOK
<1>2. /\ nodes \in SUBSET Nodes /\ last_heartbeat \in Seq(Nodes) /\ last_seen \in Seq(Nodes)
      /\ silent \in SUBSET Nodes /\ dead \in SUBSET Nodes /\ plan \in Plans \cup {None}
      /\ monitor \in {"asleep", "checking"} /\ to_check \in Seq(Nodes)
      /\ wire \in SUBSET Messages /\ hellos \in [Workers -> Nat]
      /\ up \in SUBSET Workers /\ member \in [Workers -> Members]
      /\ crashes \in 0..MaxFaults /\ late \in 0..MaxFaults
      /\ layer_range \in [Workers -> Ranges] /\ peers \in [Workers -> Seq(Workers)]
  BY <1>1 DEF TypeOK, Members
<1>3. ASSUME nodes' \in SUBSET Nodes, last_heartbeat' \in Seq(Nodes), last_seen' \in Seq(Nodes),
             silent' \in SUBSET Nodes, dead' \in SUBSET Nodes, plan' \in Plans \cup {None},
             monitor' \in {"asleep", "checking"}, to_check' \in Seq(Nodes),
             wire' \in SUBSET Messages, hellos' \in [Workers -> Nat],
             up' \in SUBSET Workers, member' \in [Workers -> Members],
             crashes' \in 0..MaxFaults, late' \in 0..MaxFaults,
             layer_range' \in [Workers -> Ranges], peers' \in [Workers -> Seq(Workers)],
             TasksOK', PushInv'
      PROVE  TypeInv'
  <2>1. \A m \in pipe' : m.to \in Workers /\ m.range \in Ranges
    BY <1>3 DEF PushInv, PlanMessages
  <2>. QED
    BY <1>3, <2>1 DEF TypeOK, TasksOK, TypeInv, Members
<1>4. task' = task /\ pipe' \subseteq pipe => TasksOK' /\ PushInv'
  BY <1>1 DEF TasksOK, PushInv, Running
<1>5. CASE LatePlan
  <2>1. PICK m \in pipe : /\ pipe' = pipe \ {m}
                          /\ layer_range' = [layer_range EXCEPT ![m.to] = m.range]
                          /\ peers' = [peers EXCEPT ![m.to] = m.nodes]
    BY <1>5 DEF LatePlan
  <2>2. UNCHANGED <<late, nodes, last_heartbeat, last_seen, silent, dead, plan, monitor, to_check,
                    task, wire, hellos, up, crashes, member>>
    BY <1>5 DEF LatePlan, health_vars, coord_vars, tick_vars
  <2>3. m.range \in Ranges /\ m.nodes \in Seq(Workers)
    BY <1>1 DEF PushInv, PlanMessages
  <2>4. layer_range' \in [Workers -> Ranges] /\ peers' \in [Workers -> Seq(Workers)]
    BY <1>2, <2>1, <2>3
  <2>5. TasksOK' /\ PushInv'
    BY <1>4, <2>1, <2>2
  <2>. QED
    BY <1>2, <1>3, <2>2, <2>4, <2>5
<1>6. CASE \E m \in wire : Control(m)
  <2>1. PICK m \in wire : Control(m)
    BY <1>6
  <2>2. m.src \in Workers /\ m.src \in Nodes /\ m.hello \in Nat
    BY <1>2 DEF Messages, Nodes
  <2>3. Record(m.src) => /\ last_seen' \in Seq(Nodes) /\ silent' \in SUBSET Nodes
                         /\ dead' \in SUBSET Nodes
    <3>1. Touch(last_seen, m.src) \in Seq(Nodes)
      BY <1>2, <2>2, TouchType
    <3>. QED
      BY <1>2, <3>1 DEF Record
  <2>4. Touch(last_heartbeat, m.src) \in Seq(Nodes)
    BY <1>2, <2>2, TouchType
  <2>5. Forget(last_heartbeat, m.src) \in Seq(Nodes) /\ Forget(last_seen, m.src) \in Seq(Nodes)
    BY <1>2, ForgetNodes
  <2>6. CASE Hello(m)
    <3>1. /\ wire' = wire \ {m} /\ nodes' = nodes \cup {m.src}
          /\ last_heartbeat' = Touch(last_heartbeat, m.src)
          /\ Record(m.src) /\ ReplanAndPush("hello", m.src, m.hello)
          /\ UNCHANGED <<late, monitor, to_check, up, hellos, crashes, layer_range, peers>>
      BY <2>6 DEF Hello, tick_vars
    <3>2. last_heartbeat' \in Seq(Nodes)
      BY <2>4, <3>1
    <3>3. /\ plan' \in Plans \cup {None} /\ member' \in [Workers -> Members]
          /\ TasksOK' /\ PushInv'
      BY <2>2, <3>1, <3>2, HandlerType
    <3>. QED
      BY <1>2, <1>3, <2>2, <2>3, <3>1, <3>2, <3>3
  <2>7. CASE Heartbeat(m)
    <3>1. /\ wire' = wire \ {m} /\ last_heartbeat' = Touch(last_heartbeat, m.src)
          /\ Record(m.src)
          /\ UNCHANGED <<late, nodes, plan, monitor, to_check, task, pipe,
                         up, member, hellos, crashes, layer_range, peers>>
      BY <2>7 DEF Heartbeat, tick_vars, worker_vars
    <3>2. last_heartbeat' \in Seq(Nodes)
      BY <2>4, <3>1
    <3>. QED
      BY <1>2, <1>3, <1>4, <2>2, <2>3, <3>1, <3>2
  <2>8. CASE Leave(m)
    <3>1. /\ wire' = wire \ {m} /\ nodes' = nodes \ {m.src}
          /\ last_heartbeat' = Forget(last_heartbeat, m.src)
          /\ last_seen' = Forget(last_seen, m.src)
          /\ silent' = silent \ {m.src} /\ dead' = dead \ {m.src}
          /\ ReplanAndPush("leave", m.src, m.hello)
          /\ UNCHANGED <<late, monitor, to_check, up, hellos, crashes, layer_range, peers>>
      BY <2>8 DEF Leave, tick_vars
    <3>2. last_heartbeat' \in Seq(Nodes) /\ last_seen' \in Seq(Nodes)
      BY <2>5, <3>1
    <3>3. /\ plan' \in Plans \cup {None} /\ member' \in [Workers -> Members]
          /\ TasksOK' /\ PushInv'
      BY <2>2, <3>1, <3>2, HandlerType
    <3>. QED
      BY <1>2, <1>3, <3>1, <3>2, <3>3
  <2>. QED
    BY <2>1, <2>6, <2>7, <2>8 DEF Control
<1>7. CASE TickDead
  <2>1. ToCheck \in Seq(Nodes)
    BY <1>2 DEF ToCheck
  <2>2. PICK i \in DOMAIN ToCheck :
            /\ ToCheck[i] \in silent \ dead
            /\ dead' = dead \cup {ToCheck[i]}
            /\ last_heartbeat' = Forget(last_heartbeat, ToCheck[i])
            /\ to_check' = SubSeq(ToCheck, i + 1, Len(ToCheck))
    BY <1>7 DEF TickDead
  <2>3. /\ monitor' = "checking" /\ ReplanAndPush("dead", Root, 0)
        /\ UNCHANGED <<last_seen, silent, nodes, late, wire, up, hellos, crashes,
                       layer_range, peers>>
    BY <1>7 DEF TickDead
  <2>. HIDE DEF ToCheck
  <2>4. Root \in Nodes /\ dead' \in SUBSET Nodes
    BY <1>2, <2>2 DEF Nodes
  <2>5. last_heartbeat' \in Seq(Nodes)
    BY <1>2, <2>2, ForgetNodes
  <2>6. to_check' \in Seq(Nodes)
    <3>1. i \in 1..Len(ToCheck) /\ Len(ToCheck) \in Nat
      BY <2>1, <2>2, LenProperties
    <3>2. \A s \in Seq(Nodes), k \in Nat : SubSeq(s, k + 1, Len(s)) \in Seq(Nodes)
      BY LenProperties, SubSeqProperties
    <3>. QED
      BY <2>1, <2>2, <3>1, <3>2
  <2>7. /\ plan' \in Plans \cup {None} /\ member' \in [Workers -> Members]
        /\ TasksOK' /\ PushInv'
    BY <2>3, <2>4, <2>5, HandlerType
  <2>. QED
    BY <1>2, <1>3, <2>3, <2>4, <2>5, <2>6, <2>7
<1>8. CASE TickEnd
  <2>1. UNCHANGED <<late, last_seen, silent, dead, nodes, last_heartbeat, plan, task, wire, pipe,
                    up, member, hellos, crashes, layer_range, peers>>
        /\ monitor' = "asleep" /\ to_check' = <<>>
    BY <1>8 DEF TickEnd, health_vars, coord_vars, worker_vars
  <2>. QED
    BY <1>2, <1>3, <1>4, <2>1
<1>9. CASE \E n \in Nodes : Age(n)
  <2>1. UNCHANGED <<late, last_seen, dead, nodes, last_heartbeat, plan, monitor, to_check, task,
                    wire, pipe, up, member, hellos, crashes, layer_range, peers>>
        /\ silent' \in SUBSET Nodes
    BY <1>2, <1>9 DEF Age, coord_vars, tick_vars, worker_vars
  <2>. QED
    BY <1>2, <1>3, <1>4, <2>1
<1>10. CASE \E w \in Workers : WorkerStep(w)
  <2>1. PICK w \in Workers : WorkerStep(w)
    BY <1>10
  <2>2. /\ UNCHANGED <<late, last_seen, silent, dead, nodes, last_heartbeat, plan, monitor,
                       to_check, task>>
        /\ pipe' \subseteq pipe
    BY <2>1 DEF WorkerStep, Register, RegisterFails, SendHeartbeat, SendLeave, Crash, Restart,
                health_vars, coord_vars, tick_vars, worker_vars
  <2>3. wire' \in SUBSET Messages /\ hellos' \in [Workers -> Nat]
    <3>1. CASE Register(w)
      BY <1>2, <3>1 DEF Register, Messages
    <3>2. CASE SendHeartbeat(w) \/ SendLeave(w)
      BY <1>2, <3>2 DEF SendHeartbeat, SendLeave, worker_vars, Messages
    <3>3. CASE RegisterFails(w) \/ Crash(w) \/ Restart(w)
      BY <1>2, <3>3 DEF RegisterFails, Crash, Restart
    <3>. QED
      BY <2>1, <3>1, <3>2, <3>3 DEF WorkerStep
  <2>4. member' \in [Workers -> Members]
    BY <1>2, <2>1 DEF WorkerStep, Register, RegisterFails, SendHeartbeat, SendLeave, Crash,
                      Restart, worker_vars, Members
  <2>5. /\ up' \in SUBSET Workers /\ crashes' \in 0..MaxFaults
        /\ layer_range' \in [Workers -> Ranges] /\ peers' \in [Workers -> Seq(Workers)]
    <3>1. CASE Crash(w)
      <4>1. <<0, NumLayers>> \in Ranges /\ <<>> \in Seq(Workers)
        BY ClusterAssumption DEF Ranges
      <4>2. crashes + 1 \in 0..MaxFaults
        BY <1>2, <3>1, ClusterAssumption DEF Crash
      <4>. QED
        BY <1>2, <3>1, <4>1, <4>2 DEF Crash
    <3>2. CASE ~Crash(w)
      BY <1>2, <2>1, <3>2 DEF WorkerStep, Register, RegisterFails, SendHeartbeat, SendLeave,
                              Restart, worker_vars
    <3>. QED
      BY <3>1, <3>2
  <2>. QED
    BY <1>2, <1>3, <1>4, <2>2, <2>3, <2>4, <2>5
<1>. QED
  BY <1>5, <1>6, <1>7, <1>8, <1>9, <1>10 DEF Tick

(* The types are inductive.                                                *)
LEMMA TypeNext == TypeInv /\ [Next]_vars => TypeInv'
<1>. SUFFICES ASSUME TypeInv, [Next]_vars PROVE TypeInv'
  OBVIOUS
<1>1. CASE UNCHANGED vars
  BY <1>1 DEF vars, health_vars, coord_vars, tick_vars, worker_vars,
              TypeInv, TypeOK, PushInv, Running
<1>2. CASE Next
  BY <1>2, PushType, OtherType DEF Next
<1>. QED
  BY <1>1, <1>2

(* The state of the coordinator, its monitor, its pushes and the workers   *)
(* is well-typed, and every push under way is one that somebody waits for  *)
(* (coordinator.py:51-69 and 240-275, health.py:47-56, worker.py:69-82),   *)
(* for any number of workers and of overlapping handlers.                  *)
THEOREM ClusterTypeOK == Spec => []TypeInv
  BY InitType, TypeNext, PTL DEF Spec
(* _replan finds every member it plans for, and a mode for them, when the  *)
(* planner may pick the mode (coordinator.py:240-256, planner.py:99-108).  *)
LEMMA NoRaise ==
    ASSUME Orderly, NEW known, NEW beats \in Seq(known), NEW quiet
    PROVE  ~ReplanRaises(beats, quiet, known)
<1>. DEFINE members == MembersOf(beats, quiet)
            X == {x \in known : x \in Workers \ quiet /\ x \in ToSet(beats)}
<1>1. members \in Seq(X)
  BY OnlyKeeps DEF MembersOf
<1>2. ToSet(members) \subseteq X
  <2>. HIDE DEF members, X
  <2>1. \A i \in DOMAIN members : members[i] \in X
    BY <1>1, LenProperties
  <2>. QED
    BY <2>1 DEF ToSet
<1>3. ToSet(members) \ known = {}
  BY <1>2
<1>4. ModeFor(Len(members)) = "tensor" => TensorFits(NumHeads, Len(members))
  BY ClusterAssumption DEF Orderly, ModeFor, AutomaticMode
<1>. QED
  BY <1>3, <1>4 DEF ReplanRaises

(* Whose request a handler answers, after a replanning.                    *)
LEMMA HandlerAsks ==
    ASSUME TypeInv, NEW kind \in {"hello", "leave", "dead"}, NEW src, NEW n,
           last_heartbeat' \in Seq(Nodes),
           ReplanAndPush(kind, src, n)
    PROVE  /\ \A w, u : u \in Tasks /\ Asks(w, u)' =>
                 \/ Asks(w, u) /\ task'[u].kind = task[u].kind
                 \/ kind # "dead" /\ w = src /\ task'[u].kind = kind
           /\ \A w \in Workers : member'[w] = "joined" =>
                 member[w] = "joined" \/ (kind = "hello" /\ w = src)
<1>1. member \in [Workers -> Members] /\ task \in [Tasks -> Handlers \cup {None}]
  BY DEF TypeInv, TypeOK, Members
<1>2. CASE UNCHANGED task /\ (Answer(kind, src, n) \/ UNCHANGED member)
  BY <1>1, <1>2 DEF Answer, Asks, Running
<1>3. CASE /\ \E t \in Tasks :
                 /\ task[t] = None
                 /\ task' = [task EXCEPT ![t] =
                                [kind |-> kind, src |-> src, hello |-> n,
                                 plan |-> plan', next |-> 1, waiting |-> TRUE]]
                 /\ Sent(PlanMessage(t, plan', 1, plan'))
           /\ UNCHANGED member
  <2>1. PICK t \in Tasks :
            task' = [task EXCEPT ![t] = [kind |-> kind, src |-> src, hello |-> n,
                                         plan |-> plan', next |-> 1, waiting |-> TRUE]]
    BY <1>3
  <2>2. task'[t].kind = kind /\ task'[t].src = src /\ \A u \in Tasks : u # t => task'[u] = task[u]
    BY <1>1, <2>1
  <2>3. ASSUME NEW w, NEW u \in Tasks, Asks(w, u)'
        PROVE  \/ Asks(w, u) /\ task'[u].kind = task[u].kind
               \/ kind # "dead" /\ w = src /\ task'[u].kind = kind
    BY <2>2, <2>3 DEF Asks, Running
  <2>. QED
    BY <1>3, <2>3
<1>. QED
  BY <1>2, <1>3, Replanned

(* Whose request a handler answers, after a push.                          *)
LEMMA PushAsks ==
    ASSUME TypeInv, NEW t \in Tasks, Push(t)
    PROVE  \A w, u : u \in Tasks /\ Asks(w, u)' =>
              /\ Asks(w, u)
              /\ task'[u].kind = task[u].kind /\ task'[u].hello = task[u].hello
<1>1. task \in [Tasks -> Handlers \cup {None}]
  BY DEF TypeInv, TypeOK
<1>2. CASE PushSend(t)
  <2>1. task[t] \in Handlers /\ Running(t)
    BY <1>1, <1>2 DEF PushSend, Running
  <2>2. task' = [task EXCEPT ![t].waiting = TRUE]
    BY <1>2 DEF PushSend
  <2>3. /\ task'[t].kind = task[t].kind /\ task'[t].src = task[t].src
        /\ task'[t].hello = task[t].hello
        /\ \A u \in Tasks : u # t => task'[u] = task[u]
    BY <1>1, <2>1, <2>2 DEF Handlers
  <2>. QED
    BY <2>1, <2>3 DEF Asks, Running
<1>3. CASE PushRaises(t) \/ PushFinished(t)
  <2>1. task' = [task EXCEPT ![t] = None]
    BY <1>3 DEF PushRaises, PushFinished
  <2>. QED
    BY <1>1, <2>1 DEF Asks, Running
<1>4. CASE PushAck(t) \/ PushFails(t) \/ PushGivesUp(t)
  <2>1. Running(t) /\ task' = Moved(t)
    BY <1>4 DEF PushAck, PushFails, PushGivesUp
  <2>2. task[t].waiting
    <3>1. t # None
      BY NoneAssumption
    <3>. QED
      BY <1>4, <3>1 DEF PushAck, PushFails, PushGivesUp, TypeInv, PushInv
  <2>3. /\ task'[t].kind = task[t].kind /\ task'[t].src = task[t].src
        /\ task'[t].hello = task[t].hello
        /\ \A u \in Tasks : u # t => task'[u] = task[u]
    BY <2>1, <2>2, MovedIs
  <2>. QED
    BY <2>1, <2>3 DEF Asks, Running
<1>. QED
  BY <1>2, <1>3, <1>4 DEF Push

(* Workers that wait for each answer have one request under way at most.   *)
LEMMA OneNext ==
    ASSUME OrderedControl, TypeInv, OneInv, [Next]_vars
    PROVE  OneInv'
<1>1. ASSUME wire' \subseteq wire, \A w, u : u \in Tasks /\ Asks(w, u)' => Asks(w, u)
      PROVE  OneInv'
  BY <1>1 DEF OneInv
<1>2. UNCHANGED task => \A w, u : u \in Tasks /\ Asks(w, u)' => Asks(w, u)
  BY DEF Asks, Running
<1>3. CASE UNCHANGED vars
  BY <1>1, <1>2, <1>3 DEF vars
<1>4. ASSUME NEW t \in Tasks, Push(t) PROVE OneInv'
  <2>1. UNCHANGED wire
    BY <1>4 DEF Push, PushSend, PushRaises, PushAck, PushFails, PushGivesUp, PushFinished
  <2>. QED
    BY <1>1, <1>4, <2>1, PushAsks
<1>5. CASE LatePlan \/ TickEnd \/ \E n \in Nodes : Age(n)
  BY <1>1, <1>2, <1>5 DEF LatePlan, TickEnd, Age
<1>6. ASSUME NEW m \in wire, Control(m) PROVE OneInv'
  <2>1. m.src \in Nodes /\ last_heartbeat \in Seq(Nodes)
    BY DEF TypeInv, TypeOK, Messages, Nodes
  <2>2. wire' = wire \ {m} /\ \A k \in wire' : k.src # m.src
    BY <1>6 DEF Control, Hello, Heartbeat, Leave, OneInv
  <2>3. ASSUME NEW kind \in {"hello", "leave", "dead"}, last_heartbeat' \in Seq(Nodes),
               ReplanAndPush(kind, m.src, m.hello)
        PROVE  OneInv'
    <3>1. \A w, u : u \in Tasks /\ Asks(w, u)' => Asks(w, u) \/ w = m.src
      BY <2>3, HandlerAsks
    <3>. QED
      BY <2>2, <3>1 DEF OneInv
  <2>4. CASE Hello(m)
    <3>1. last_heartbeat' \in Seq(Nodes)
      BY <2>1, <2>4, TouchType DEF Hello
    <3>. QED
      BY <2>3, <2>4, <3>1 DEF Hello
  <2>5. CASE Leave(m)
    <3>1. last_heartbeat' \in Seq(Nodes)
      BY <2>1, <2>5, ForgetNodes DEF Leave
    <3>. QED
      BY <2>3, <2>5, <3>1 DEF Leave
  <2>6. CASE Heartbeat(m)
    BY <1>1, <1>2, <2>2, <2>6 DEF Heartbeat
  <2>. QED
    BY <1>6, <2>4, <2>5, <2>6 DEF Control
<1>7. CASE TickDead
  <2>1. last_heartbeat' \in Seq(Nodes) /\ ReplanAndPush("dead", Root, 0) /\ UNCHANGED wire
    BY <1>7, ForgetNodes DEF TickDead, TypeInv, TypeOK
  <2>2. \A w, u : u \in Tasks /\ Asks(w, u)' => Asks(w, u)
    BY <2>1, HandlerAsks
  <2>. QED
    BY <1>1, <2>1, <2>2
<1>8. ASSUME NEW w \in Workers, WorkerStep(w) PROVE OneInv'
  <2>1. UNCHANGED task
    BY <1>8 DEF WorkerStep, Register, RegisterFails, SendHeartbeat, SendLeave, Crash, Restart
  <2>2. ASSUME NEW x, x.src = w, MaySend(w), wire' = wire \cup {x} PROVE OneInv'
    <3>1. (\A m \in wire : m.src # w) /\ (\A t \in Tasks : ~Asks(w, t))
      BY <2>2 DEF MaySend, Outstanding, Asks
    <3>. QED
      BY <1>2, <2>1, <2>2, <3>1 DEF OneInv
  <2>3. CASE Register(w)
    <3>. DEFINE x == [type |-> "hello", src |-> w, hello |-> hellos[w] + 1]
    <3>1. MaySend(w) /\ wire' = wire \cup {x} /\ x.src = w
      BY <2>3 DEF Register
    <3>. QED
      BY <2>2, <3>1
  <2>4. CASE SendHeartbeat(w)
    <3>. DEFINE x == [type |-> "heartbeat", src |-> w, hello |-> 0]
    <3>1. MaySend(w) /\ wire' = wire \cup {x} /\ x.src = w
      BY <2>4 DEF SendHeartbeat
    <3>. QED
      BY <2>2, <3>1
  <2>5. CASE SendLeave(w)
    <3>. DEFINE x == [type |-> "leave", src |-> w, hello |-> 0]
    <3>1. MaySend(w) /\ wire' = wire \cup {x} /\ x.src = w
      BY <2>5 DEF SendLeave
    <3>. QED
      BY <2>2, <3>1
  <2>6. CASE RegisterFails(w) \/ Crash(w) \/ Restart(w)
    BY <1>1, <1>2, <2>1, <2>6 DEF RegisterFails, Crash, Restart
  <2>. QED
    BY <1>8, <2>3, <2>4, <2>5, <2>6 DEF WorkerStep
<1>. QED
  BY <1>3, <1>4, <1>5, <1>6, <1>7, <1>8 DEF Next, Tick

Known == OneInv /\ KnownInv /\ PlanInv

(* A replanning finds a plan of nodes that are registered and not dead.    *)
LEMMA HandlerPlan ==
    ASSUME Orderly, NEW kind, NEW src, NEW n,
           nodes' \subseteq Nodes, last_heartbeat' \in Seq(nodes'), dead' \subseteq silent',
           ReplanAndPush(kind, src, n)
    PROVE  PlanInv'
<1>1. ~ReplanRaises(last_heartbeat', silent', nodes')
  BY NoRaise
<1>. DEFINE X == {x \in nodes' : x \in Workers \ silent' /\ x \in ToSet(last_heartbeat')}
<1>2. X \subseteq nodes' \ {Root} /\ X \cap dead' = {}
  BY ClusterAssumption
<1>3. CASE plan' = None
  BY <1>3 DEF PlanInv, PlanNodes, DeadNotPlanned
<1>4. CASE plan' # None /\ plan'.nodes \in Seq(X)
  <2>. HIDE DEF X
  <2>1. \A i \in DOMAIN plan'.nodes : plan'.nodes[i] \in X
    BY <1>4, LenProperties
  <2>2. ToSet(plan'.nodes) \subseteq X
    BY <2>1 DEF ToSet
  <2>3. PlanNodes' = ToSet(plan'.nodes)
    BY <1>4 DEF PlanNodes
  <2>. QED
    BY <1>2, <2>2, <2>3 DEF PlanInv, DeadNotPlanned
<1>. QED
  <2>1. nodes' \subseteq Nodes /\ last_heartbeat' \in Seq(nodes')
    OBVIOUS
  <2>. QED
    BY <1>1, <1>3, <1>4, <2>1, Replanned

(* A push keeps them.                                                      *)
LEMMA PushKnown ==
    ASSUME Orderly, TypeInv, Known, OneInv', NEW t \in Tasks, Push(t)
    PROVE  Known'
<1>1. UNCHANGED <<nodes, last_heartbeat, silent, dead, plan, wire>>
  BY DEF Push, PushSend, PushRaises, PushAck, PushFails, PushGivesUp, PushFinished,
         coord_vars, health_vars
<1>2. task \in [Tasks -> Handlers \cup {None}] /\ member \in [Workers -> Members]
  BY DEF TypeInv, TypeOK, Members
<1>3. \A w, u : u \in Tasks /\ Asks(w, u)' => Asks(w, u) /\ task'[u].kind = task[u].kind
  BY PushAsks
<1>4. \A w \in Workers : member'[w] = "joined" =>
          member[w] = "joined" \/ (Asks(w, t) /\ task[t].kind = "hello")
  <2>1. CASE PushFinished(t)
    BY <1>2, <2>1 DEF PushFinished, Answer, Asks
  <2>2. CASE ~PushFinished(t)
    <3>1. UNCHANGED member
      BY <2>2 DEF Push, PushSend, PushRaises, PushAck, PushFails, PushGivesUp, worker_vars
    <3>. QED
      BY <3>1
  <2>. QED
    BY <2>1, <2>2
<1>6. wire \subseteq Messages
  BY DEF TypeInv, TypeOK
<1>7. KnownInv'
  <2>1. \A w \in Workers : member'[w] = "joined" => w \in nodes
    BY <1>4 DEF Known, KnownInv
  <2>2. \A m \in wire : m.type = "leave" => member'[m.src] # "joined"
    <3>. SUFFICES ASSUME NEW m \in wire, m.type = "leave", member'[m.src] = "joined" PROVE FALSE
      OBVIOUS
    <3>1. m.src \in Workers
      BY <1>6 DEF Messages
    <3>. QED
      BY <1>4, <3>1 DEF Known, KnownInv, OneInv
  <2>3. \A w \in Workers, u \in Tasks : Asks(w, u)' /\ task'[u].kind = "hello" => w \in nodes
    BY <1>3 DEF Known, KnownInv
  <2>. QED
    BY <1>1, <2>1, <2>2, <2>3 DEF Known, KnownInv
<1>8. PlanInv'
  BY <1>1 DEF Known, PlanInv, PlanNodes, DeadNotPlanned
<1>. QED
  BY <1>7, <1>8 DEF Known

(* A control message keeps them.                                           *)
LEMMA ControlKnown ==
    ASSUME Orderly, TypeInv, Known, OneInv', NEW m \in wire, Control(m)
    PROVE  Known'
<1>1. /\ m.src \in Workers /\ m.src \in Nodes /\ m.src # Root /\ wire \subseteq Messages
      /\ nodes \subseteq Nodes
  BY ClusterAssumption DEF TypeInv, TypeOK, Messages, Nodes
<1>2. wire' = wire \ {m} /\ \A k \in wire' : k.src # m.src
  BY DEF Control, Hello, Heartbeat, Leave, Known, OneInv
<1>3. \A k \in wire' : k \in wire /\ k.src \in Workers
  BY <1>1, <1>2 DEF Messages
<1>4. ASSUME NEW kind \in {"hello", "leave"},
             \A w, u : u \in Tasks /\ Asks(w, u)' =>
                 \/ Asks(w, u) /\ task'[u].kind = task[u].kind
                 \/ w = m.src /\ task'[u].kind = kind,
             \A w \in Workers : member'[w] = "joined" =>
                 member[w] = "joined" \/ (kind = "hello" /\ w = m.src)
      PROVE  \A k \in wire' : k.type = "leave" => member'[k.src] # "joined"
  BY <1>2, <1>3, <1>4 DEF Known, OneInv, KnownInv
<1>5. CASE Hello(m)
  <2>1. /\ nodes' = nodes \cup {m.src}
        /\ last_heartbeat' = Touch(last_heartbeat, m.src)
        /\ silent' = silent \ {m.src} /\ dead' = dead \ {m.src}
        /\ ReplanAndPush("hello", m.src, m.hello)
    BY <1>5 DEF Hello, Record
  <2>2. last_heartbeat' \in Seq(nodes')
    <3>1. last_heartbeat \in Seq(nodes \cup {m.src})
      <4>1. last_heartbeat \in Seq(nodes) /\ nodes \subseteq nodes \cup {m.src}
        BY DEF Known, KnownInv
      <4>. QED
        BY <4>1, SeqWiden
    <3>2. Touch(last_heartbeat, m.src) \in Seq(nodes \cup {m.src})
      BY <3>1, TouchType
    <3>. QED
      BY <2>1, <3>2
  <2>3. nodes' \subseteq Nodes /\ dead' \subseteq silent'
    BY <1>1, <2>1 DEF Known, KnownInv
  <2>4. /\ PlanInv'
        /\ \A w, u : u \in Tasks /\ Asks(w, u)' =>
              \/ Asks(w, u) /\ task'[u].kind = task[u].kind
              \/ w = m.src /\ task'[u].kind = "hello"
        /\ \A w \in Workers : member'[w] = "joined" =>
              member[w] = "joined" \/ w = m.src
    BY <2>1, <2>2, <2>3, HandlerPlan, HandlerAsks, SeqWiden
  <2>5. \A k \in wire' : k.type = "leave" => member'[k.src] # "joined"
    BY <1>4, <2>4
  <2>6. KnownInv'
    <3>1. Root \in nodes' /\ \A k \in wire' : k.type = "heartbeat" => k.src \in nodes'
      BY <1>3, <2>1 DEF Known, KnownInv
    <3>2. \A w \in Workers : member'[w] = "joined" => w \in nodes'
      BY <2>1, <2>4 DEF Known, KnownInv
    <3>3. \A w \in Workers, u \in Tasks : Asks(w, u)' /\ task'[u].kind = "hello" => w \in nodes'
      BY <2>1, <2>4 DEF Known, KnownInv
    <3>. QED
      BY <2>2, <2>3, <2>5, <3>1, <3>2, <3>3 DEF KnownInv
  <2>. QED
    BY <2>4, <2>6 DEF Known
<1>6. CASE Leave(m)
  <2>1. /\ nodes' = nodes \ {m.src} /\ m.type = "leave"
        /\ last_heartbeat' = Forget(last_heartbeat, m.src)
        /\ silent' = silent \ {m.src} /\ dead' = dead \ {m.src}
        /\ ReplanAndPush("leave", m.src, m.hello)
    BY <1>6 DEF Leave
  <2>2. last_heartbeat' \in Seq(nodes')
    <3>. DEFINE Z == {x \in nodes : x \in Nodes \ {m.src}}
    <3>1. last_heartbeat \in Seq(nodes)
      BY DEF Known, KnownInv
    <3>2. Forget(last_heartbeat, m.src) \in Seq(Z)
      BY <3>1, ForgetType
    <3>3. Z = nodes'
      BY <1>1, <2>1
    <3>. QED
      BY <2>1, <3>2, <3>3
  <2>3. nodes' \subseteq Nodes /\ dead' \subseteq silent'
    BY <1>1, <2>1 DEF Known, KnownInv
  <2>4. /\ PlanInv'
        /\ \A w, u : u \in Tasks /\ Asks(w, u)' =>
              \/ Asks(w, u) /\ task'[u].kind = task[u].kind
              \/ w = m.src /\ task'[u].kind = "leave"
        /\ \A w \in Workers : member'[w] = "joined" => member[w] = "joined"
    BY <2>1, <2>2, <2>3, HandlerPlan, HandlerAsks, SeqWiden
  <2>5. \A k \in wire' : k.type = "leave" => member'[k.src] # "joined"
    BY <1>4, <2>4
  <2>6. KnownInv'
    <3>1. Root \in nodes' /\ \A k \in wire' : k.type = "heartbeat" => k.src \in nodes'
      BY <1>1, <1>2, <1>3, <2>1 DEF Known, KnownInv
    <3>2. \A w \in Workers : member'[w] = "joined" => w \in nodes'
      BY <2>1, <2>4 DEF Known, KnownInv
    <3>3. \A w \in Workers, u \in Tasks : Asks(w, u)' /\ task'[u].kind = "hello" => w \in nodes'
      <4>. SUFFICES ASSUME NEW w \in Workers, NEW u \in Tasks, Asks(w, u)', task'[u].kind = "hello"
                    PROVE  w \in nodes'
        OBVIOUS
      <4>1. Asks(w, u) /\ task[u].kind = "hello"
        BY <2>4
      <4>. QED
        BY <2>1, <4>1 DEF Known, KnownInv, OneInv
    <3>. QED
      BY <2>2, <2>3, <2>5, <3>1, <3>2, <3>3 DEF KnownInv
  <2>. QED
    BY <2>4, <2>6 DEF Known
<1>7. CASE Heartbeat(m)
  <2>1. /\ m.type = "heartbeat" /\ last_heartbeat' = Touch(last_heartbeat, m.src)
        /\ silent' = silent \ {m.src} /\ dead' = dead \ {m.src}
        /\ UNCHANGED <<nodes, plan, task, member>>
    BY <1>7 DEF Heartbeat, Record, worker_vars
  <2>2. last_heartbeat' \in Seq(nodes)
    <3>1. last_heartbeat \in Seq(nodes) /\ m.src \in nodes
      BY <2>1 DEF Known, KnownInv
    <3>. QED
      BY <2>1, <3>1, TouchType
  <2>4. KnownInv'
    BY <1>2, <2>1, <2>2 DEF Known, KnownInv, Asks, Running
  <2>5. PlanInv'
    BY <2>1 DEF Known, PlanInv, PlanNodes, DeadNotPlanned
  <2>. QED
    BY <2>4, <2>5 DEF Known
<1>. QED
  BY <1>5, <1>6, <1>7 DEF Control

(* The monitor keeps them.                                                 *)
LEMMA TickKnown ==
    ASSUME Orderly, TypeInv, Known, OneInv', Tick
    PROVE  Known'
<1>1. CASE TickDead
  <2>1. PICK i \in DOMAIN ToCheck :
            /\ ToCheck[i] \in silent \ dead
            /\ dead' = dead \cup {ToCheck[i]}
            /\ last_heartbeat' = Forget(last_heartbeat, ToCheck[i])
    BY <1>1 DEF TickDead
  <2>2. ReplanAndPush("dead", Root, 0) /\ UNCHANGED <<silent, nodes, wire>>
    BY <1>1 DEF TickDead
  <2>3. last_heartbeat' \in Seq(nodes')
    <3>. DEFINE Z == {x \in nodes : x \in Nodes \ {ToCheck[i]}}
    <3>1. last_heartbeat \in Seq(nodes)
      BY DEF Known, KnownInv
    <3>2. Forget(last_heartbeat, ToCheck[i]) \in Seq(Z)
      BY <3>1, ForgetType
    <3>3. Z \subseteq nodes
      OBVIOUS
    <3>. HIDE DEF Z
    <3>4. Forget(last_heartbeat, ToCheck[i]) \in Seq(nodes)
      BY <3>2, <3>3, SeqWiden
    <3>. QED
      BY <2>1, <2>2, <3>4
  <2>4. nodes' \subseteq Nodes /\ dead' \subseteq silent'
    BY <2>1, <2>2 DEF Known, KnownInv, TypeInv, TypeOK
  <2>5. /\ PlanInv'
        /\ \A w, u : u \in Tasks /\ Asks(w, u)' => Asks(w, u) /\ task'[u].kind = task[u].kind
        /\ \A w \in Workers : member'[w] = "joined" => member[w] = "joined"
    BY <2>2, <2>3, <2>4, HandlerPlan, HandlerAsks, SeqWiden
  <2>7. KnownInv'
    <3>1. \A k \in wire' : k.type = "leave" => member'[k.src] # "joined"
      <4>1. \A k \in wire : k.src \in Workers
        BY DEF TypeInv, TypeOK, Messages
      <4>. QED
        BY <2>2, <2>5, <4>1 DEF Known, KnownInv
    <3>2. \A w \in Workers : member'[w] = "joined" => w \in nodes'
      BY <2>2, <2>5 DEF Known, KnownInv
    <3>3. \A w \in Workers, u \in Tasks : Asks(w, u)' /\ task'[u].kind = "hello" => w \in nodes'
      BY <2>2, <2>5 DEF Known, KnownInv
    <3>4. Root \in nodes' /\ \A k \in wire' : k.type = "heartbeat" => k.src \in nodes'
      BY <2>2 DEF Known, KnownInv
    <3>. QED
      BY <2>3, <2>4, <3>1, <3>2, <3>3, <3>4 DEF KnownInv
  <2>. QED
    BY <2>5, <2>7 DEF Known
<1>2. CASE TickEnd
  <2>1. UNCHANGED <<silent, dead, nodes, last_heartbeat, plan, task, wire, member>>
    BY <1>2 DEF TickEnd, health_vars, coord_vars, worker_vars
  <2>. QED
    BY <2>1 DEF Known, OneInv, KnownInv, PlanInv, PlanNodes, DeadNotPlanned, Asks, Running
<1>. QED
  BY <1>1, <1>2 DEF Tick

(* A worker keeps them.                                                    *)
LEMMA WorkerKnown ==
    ASSUME Orderly, TypeInv, Known, OneInv', NEW w \in Workers, WorkerStep(w)
    PROVE  Known'
<1>1. UNCHANGED <<silent, dead, nodes, last_heartbeat, plan, task>>
  BY DEF WorkerStep, Register, RegisterFails, SendHeartbeat, SendLeave, Crash, Restart,
         health_vars, coord_vars
<1>2. member \in [Workers -> Members] /\ \A m \in wire : m.src \in Workers
  BY DEF TypeInv, TypeOK, Members, Messages
<1>3. PlanInv'
  BY <1>1 DEF Known, PlanInv, PlanNodes, DeadNotPlanned
<1>4. \A v \in Workers : member'[v] = "joined" => member[v] = "joined"
  BY <1>2 DEF WorkerStep, Register, RegisterFails, SendHeartbeat, SendLeave, Crash, Restart,
              worker_vars
<1>5. CASE UNCHANGED wire
  BY <1>1, <1>2, <1>3, <1>4, <1>5 DEF Known, OneInv, KnownInv, Asks, Running
<1>6. ASSUME NEW x, x.src = w, x.type \in {"hello", "heartbeat", "leave"}, MaySend(w),
             wire' = wire \cup {x},
             x.type = "leave" => member'[w] # "joined",
             x.type = "heartbeat" => member[w] = "joined"
      PROVE  Known'
  <2>3. x.type = "heartbeat" => w \in nodes
    BY <1>6 DEF Known, KnownInv
  <2>4. KnownInv'
    BY <1>1, <1>2, <1>4, <1>6, <2>3 DEF Known, KnownInv, Asks, Running
  <2>. QED
    BY <1>3, <2>4 DEF Known
<1>7. CASE Register(w)
  <2>. DEFINE x == [type |-> "hello", src |-> w, hello |-> hellos[w] + 1]
  <2>1. MaySend(w) /\ wire' = wire \cup {x} /\ x.src = w /\ x.type = "hello"
    BY <1>7 DEF Register
  <2>. QED
    BY <1>6, <2>1
<1>8. CASE SendHeartbeat(w)
  <2>. DEFINE x == [type |-> "heartbeat", src |-> w, hello |-> 0]
  <2>1. MaySend(w) /\ wire' = wire \cup {x} /\ x.src = w /\ x.type = "heartbeat"
        /\ member[w] = "joined"
    BY <1>8 DEF SendHeartbeat
  <2>. QED
    BY <1>6, <2>1
<1>9. CASE SendLeave(w)
  <2>. DEFINE x == [type |-> "leave", src |-> w, hello |-> 0]
  <2>1. MaySend(w) /\ wire' = wire \cup {x} /\ x.src = w /\ x.type = "leave"
        /\ member'[w] = "out"
    BY <1>2, <1>9 DEF SendLeave
  <2>. QED
    BY <1>6, <2>1
<1>. QED
  BY <1>5, <1>7, <1>8, <1>9 DEF WorkerStep, RegisterFails, Crash, Restart

(* The plan only ever names nodes that are registered and that the monitor *)
(* has not declared dead, whatever handlers and callbacks overlap          *)
(* (coordinator.py:192-198, 212-221, 240-256; health.py:87-97), for any    *)
(* number of workers that wait for each answer.  With a preferred mode of  *)
(* "tensor" planning may raise after the node has been dropped, and then   *)
(* the old plan stays.                                                     *)
THEOREM ClusterPlanAdmissible ==
    ASSUME Orderly
    PROVE  Spec => []PlanAdmissible
<1>1. Init => AdmissibleInv
  <2>1. Init => Known
    <3>. SUFFICES ASSUME Init PROVE Known
      OBVIOUS
    <3>1. <<Root>> \in Seq({Root})
      OBVIOUS
    <3>. QED
      BY <3>1 DEF Init, Known, OneInv, KnownInv, PlanInv, PlanNodes, DeadNotPlanned, Asks, Running
  <2>. QED
    BY <2>1, InitType DEF AdmissibleInv, Known
<1>2. AdmissibleInv /\ [Next]_vars => AdmissibleInv'
  <2>. SUFFICES ASSUME TypeInv, Known, [Next]_vars PROVE Known'
    BY TypeNext DEF AdmissibleInv, Known
  <2>0. OneInv'
    BY OneNext DEF Known, Orderly
  <2>1. CASE UNCHANGED vars
    BY <2>1 DEF vars, health_vars, coord_vars, tick_vars, worker_vars,
                Known, OneInv, KnownInv, PlanInv, PlanNodes, DeadNotPlanned, Asks, Running
  <2>2. CASE LatePlan
    <3>1. UNCHANGED <<silent, dead, nodes, last_heartbeat, plan, task, wire, member>>
      BY <2>2 DEF LatePlan, health_vars, coord_vars
    <3>. QED
      BY <3>1 DEF Known, OneInv, KnownInv, PlanInv, PlanNodes, DeadNotPlanned, Asks, Running
  <2>3. CASE \E n \in Nodes : Age(n)
    <3>1. UNCHANGED <<dead, nodes, last_heartbeat, plan, task, wire, member>>
          /\ silent \subseteq silent'
      BY <2>3 DEF Age, coord_vars, worker_vars
    <3>. QED
      BY <3>1 DEF Known, OneInv, KnownInv, PlanInv, PlanNodes, DeadNotPlanned, Asks, Running
  <2>. QED
    BY <2>0, <2>1, <2>2, <2>3, PushKnown, ControlKnown, TickKnown, WorkerKnown DEF Next
<1>3. AdmissibleInv => PlanAdmissible
  BY DEF AdmissibleInv, TypeInv, PlanInv, PlanAdmissible
<1>. QED
  BY <1>1, <1>2, <1>3, PTL DEF Spec
Match == PushedInv /\ PeersMatchRange

(* A message of the plan of the moment carries that plan's range.          *)
LEMMA MessageOf ==
    ASSUME NEW p \in Plans, p = PlanOf(p.nodes), NEW t, NEW i \in DOMAIN p.nodes
    PROVE  LET m == PlanMessage(t, p, i, p)
           IN  /\ m.task = t /\ m.rank = i /\ m.nodes = p.nodes
               /\ m.rank \in DOMAIN m.nodes
               /\ m.to = m.nodes[m.rank]
               /\ m.range = RangeIn(PlanOf(m.nodes), m.rank)
  BY DEF PlanMessage

(* A plan that reaches a worker is one plan, the worker in it.             *)
LEMMA Delivered ==
    ASSUME TypeInv, Match, NEW m \in pipe,
           layer_range' = [layer_range EXCEPT ![m.to] = m.range],
           peers' = [peers EXCEPT ![m.to] = m.nodes]
    PROVE  PeersMatchRange'
<1>1. /\ m.rank \in DOMAIN m.nodes /\ m.to = m.nodes[m.rank]
      /\ m.range = RangeIn(PlanOf(m.nodes), m.rank)
  BY DEF Match, PushedInv
<1>2. layer_range \in [Workers -> Ranges] /\ peers \in [Workers -> Seq(Workers)]
      /\ m.to \in Workers
  BY DEF TypeInv, TypeOK
<1>3. \A w \in Workers : w # m.to => layer_range'[w] = layer_range[w] /\ peers'[w] = peers[w]
  BY <1>2
<1>4. layer_range'[m.to] = m.range /\ peers'[m.to] = m.nodes
  BY <1>2
<1>. SUFFICES ASSUME NEW w \in Workers, peers'[w] # <<>>
              PROVE  \E i \in DOMAIN peers'[w] :
                        /\ peers'[w][i] = w
                        /\ layer_range'[w] = RangeIn(PlanOf(peers'[w]), i)
  BY DEF PeersMatchRange, PlanOf
<1>5. CASE w = m.to
  BY <1>1, <1>4, <1>5
<1>6. CASE w # m.to
  <2>1. \E i \in DOMAIN peers[w] :
            peers[w][i] = w /\ layer_range[w] = RangeIn(PlanOf(peers[w]), i)
    BY <1>3, <1>6 DEF Match, PeersMatchRange, PlanOf
  <2>. QED
    BY <1>3, <1>6, <2>1
<1>. QED
  BY <1>5, <1>6

(* With one handler at a time, a new plan starts when no push is under way *)
(* that somebody waits for.                                                *)
LEMMA HandlerPushed ==
    ASSUME OneTask, TypeInv, PushedInv,
           NEW kind \in {"hello", "leave", "dead"}, NEW src \in Nodes, NEW n \in Nat,
           kind # "dead" => src \in Workers,
           FreeTask, last_heartbeat' \in Seq(Nodes),
           ReplanAndPush(kind, src, n)
    PROVE  PushedInv'
<1>1. \A t \in Tasks : ~Running(t)
  BY DEF FreeTask, OneTask, Running
<1>2. \A m \in pipe : m.task = None
  <2>1. \A m \in pipe : m.task \in Tasks \cup {None}
    BY DEF TypeInv, PushInv, PlanMessages
  <2>. QED
    BY <1>1, <2>1 DEF TypeInv, PushInv
<1>3. CASE plan' = None /\ UNCHANGED <<task, pipe>>
  BY <1>1, <1>2, <1>3 DEF PushedInv, Running
<1>4. CASE UNCHANGED <<plan, task, pipe>>
  BY <1>1, <1>2, <1>4 DEF PushedInv, Running
<1>5. CASE /\ plan' # None /\ plan' \in Plans
           /\ plan' = PlanOf(plan'.nodes) /\ plan'.nodes # <<>>
           /\ \E t \in Tasks :
                 /\ task[t] = None
                 /\ task' = [task EXCEPT ![t] =
                                [kind |-> kind, src |-> src, hello |-> n,
                                 plan |-> plan', next |-> 1, waiting |-> TRUE]]
                 /\ Sent(PlanMessage(t, plan', 1, plan'))
  <2>1. PICK p \in Plans : plan' = p /\ p # None /\ p = PlanOf(p.nodes) /\ p.nodes # <<>>
    BY <1>5
  <2>2. PICK t \in Tasks :
            /\ task[t] = None
            /\ task' = [task EXCEPT ![t] =
                           [kind |-> kind, src |-> src, hello |-> n,
                            plan |-> plan', next |-> 1, waiting |-> TRUE]]
            /\ Sent(PlanMessage(t, plan', 1, plan'))
    BY <1>5
  <2>3. task'[t].plan = p /\ task'[t].next = 1
    <3>1. task \in [Tasks -> Handlers \cup {None}]
      BY DEF TypeInv, TypeOK
    <3>. QED
      BY <2>1, <2>2, <3>1
  <2>4. 1 \in DOMAIN p.nodes
    <3>1. p.nodes \in Seq(Workers)
      BY DEF Plans
    <3>. QED
      BY <2>1, <3>1, EmptySeq, LenProperties
  <2>. DEFINE x == PlanMessage(t, p, 1, p)
  <2>5. /\ x.task = t /\ x.rank = 1 /\ x.nodes = p.nodes
        /\ x.rank \in DOMAIN x.nodes
        /\ x.to = x.nodes[x.rank]
        /\ x.range = RangeIn(PlanOf(x.nodes), x.rank)
    BY <2>1, <2>4, MessageOf
  <2>6. pipe' \subseteq pipe \cup {x}
    BY <2>1, <2>2 DEF Sent
  <2>7. \A m \in pipe' : m.task # None => m = PlanMessage(m.task, plan', task'[m.task].next, plan')
    BY <1>2, <2>1, <2>3, <2>5, <2>6
  <2>. HIDE DEF x
  <2>8. \A m \in pipe' : /\ m.rank \in DOMAIN m.nodes
                         /\ m.to = m.nodes[m.rank]
                         /\ m.range = RangeIn(PlanOf(m.nodes), m.rank)
    BY <2>5, <2>6 DEF PushedInv
  <2>9. \A u \in Tasks : plan' = task'[u].plan
    BY <2>1, <2>3 DEF OneTask
  <2>. QED
    BY <2>1, <2>7, <2>8, <2>9 DEF PushedInv
<1>. QED
  BY <1>3, <1>4, <1>5, Replanned

(* A push keeps the plan and the messages together.                        *)
LEMMA PushMatch ==
    ASSUME OneTask, TypeInv, Match, NEW t \in Tasks, Push(t)
    PROVE  Match'
<1>1. \A u \in Tasks : u = t
  BY DEF OneTask
<1>2. UNCHANGED plan /\ plan \in Plans \cup {None}
  BY DEF Push, PushSend, PushRaises, PushAck, PushFails, PushGivesUp, PushFinished,
         coord_vars, TypeInv, TypeOK
<1>3. Running(t) /\ task[t] \in Handlers /\ task[t] # None /\ plan = task[t].plan
      /\ task \in [Tasks -> Handlers \cup {None}]
  BY DEF Push, PushSend, PushRaises, PushAck, PushFails, PushGivesUp, PushFinished,
         TypeInv, TypeOK, Running, Match, PushedInv
<1>4. plan \in Plans /\ plan # None /\ plan = PlanOf(plan.nodes) /\ plan.nodes # <<>>
  <2>1. plan \in Plans
    BY <1>3 DEF Handlers
  <2>2. plan # None
    BY <2>1, NoneAssumption
  <2>. QED
    BY <2>1, <2>2 DEF Match, PushedInv
<1>5. \A m \in pipe : /\ m.rank \in DOMAIN m.nodes
                      /\ m.to = m.nodes[m.rank]
                      /\ m.range = RangeIn(PlanOf(m.nodes), m.rank)
  BY DEF Match, PushedInv
<1>6. \A m \in pipe : m.task \in Tasks \cup {None} /\ m \in PlanMessages
  BY DEF TypeInv, PushInv, PlanMessages
<1>7. t # None
  BY NoneAssumption
<1>8. CASE PushSend(t)
  <2>1. /\ ~PushDone(t) /\ ~task[t].waiting
        /\ Sent(PlanMessage(t, task[t].plan, task[t].next, plan))
        /\ task' = [task EXCEPT ![t].waiting = TRUE]
        /\ UNCHANGED <<layer_range, peers>>
    BY <1>8 DEF PushSend, worker_vars
  <2>2. task[t].next \in DOMAIN plan.nodes
    <3>1. plan.nodes \in Seq(Workers)
      BY <1>4 DEF Plans
    <3>2. DOMAIN plan.nodes = 1..Len(plan.nodes) /\ Len(plan.nodes) \in Nat
      BY <3>1, LenProperties
    <3>3. task[t].next \in 1..Len(plan.nodes) + 1 /\ ~(task[t].next > Len(plan.nodes))
      BY <1>3, <2>1 DEF PushDone, TypeInv, TypeOK
    <3>. QED
      BY <3>2, <3>3
  <2>. DEFINE x == PlanMessage(t, plan, task[t].next, plan)
  <2>3. /\ x.task = t /\ x.rank \in DOMAIN x.nodes /\ x.to = x.nodes[x.rank]
        /\ x.range = RangeIn(PlanOf(x.nodes), x.rank)
    BY <1>4, <2>2, MessageOf
  <2>4. pipe' \subseteq pipe \cup {x}
    BY <1>3, <2>1 DEF Sent
  <2>5. task'[t].plan = task[t].plan /\ task'[t].next = task[t].next
    BY <1>3, <2>1 DEF Handlers
  <2>6. \A m \in pipe' : m.task # None => m = PlanMessage(m.task, plan, task'[m.task].next, plan)
    <3>1. \A m \in pipe : m.task = None
      BY <1>1, <1>6, <2>1 DEF TypeInv, PushInv
    <3>. QED
      BY <2>3, <2>4, <2>5, <3>1
  <2>. HIDE DEF x
  <2>7. \A m \in pipe' : /\ m.rank \in DOMAIN m.nodes
                         /\ m.to = m.nodes[m.rank]
                         /\ m.range = RangeIn(PlanOf(m.nodes), m.rank)
    BY <1>5, <2>3, <2>4
  <2>8. \A u \in Tasks : plan' = task'[u].plan
    BY <1>1, <1>2, <1>3, <2>5
  <2>9. PushedInv'
    BY <1>2, <1>4, <2>6, <2>7, <2>8 DEF PushedInv
  <2>. QED
    BY <2>1, <2>9 DEF Match, PeersMatchRange
<1>9. ASSUME pipe' \subseteq pipe \cup {[m EXCEPT !.task = None] : m \in pipe},
             \A m \in pipe' : m.task = None,
             (task' = Moved(t) /\ task[t].waiting) \/ task' = [task EXCEPT ![t] = None]
      PROVE  PushedInv'
  <2>1. \A m \in pipe' : /\ m.rank \in DOMAIN m.nodes
                         /\ m.to = m.nodes[m.rank]
                         /\ m.range = RangeIn(PlanOf(m.nodes), m.rank)
    <3>1. ASSUME NEW m \in pipe
          PROVE  LET k == [m EXCEPT !.task = None]
                 IN  /\ k.rank \in DOMAIN k.nodes
                     /\ k.to = k.nodes[k.rank]
                     /\ k.range = RangeIn(PlanOf(k.nodes), k.rank)
      <4>. DEFINE k == [m EXCEPT !.task = None]
      <4>1. k.rank = m.rank /\ k.nodes = m.nodes /\ k.to = m.to /\ k.range = m.range
        BY <1>6 DEF PlanMessages
      <4>. HIDE DEF k
      <4>2. /\ k.rank \in DOMAIN k.nodes
            /\ k.to = k.nodes[k.rank]
            /\ k.range = RangeIn(PlanOf(k.nodes), k.rank)
        BY <1>5, <4>1
      <4>. QED
        BY <4>2 DEF k
    <3>2. \A k \in pipe' : k \in pipe \/ \E m \in pipe : k = [m EXCEPT !.task = None]
      BY <1>9
    <3>. QED
      BY <1>5, <3>1, <3>2
  <2>2. \A u \in Tasks : Running(u)' => plan' = task'[u].plan
    <3>1. CASE task' = Moved(t) /\ task[t].waiting
      <4>1. task'[t].plan = task[t].plan
        BY <1>3, <3>1, MovedIs
      <4>. QED
        BY <1>1, <1>2, <1>3, <4>1
    <3>2. CASE task' = [task EXCEPT ![t] = None]
      BY <1>1, <1>3, <3>2 DEF Running
    <3>. QED
      BY <1>9, <3>1, <3>2
  <2>. QED
    BY <1>2, <1>4, <1>9, <2>1, <2>2 DEF PushedInv
<1>10. \A m \in pipe : m.task # t => m.task = None
  BY <1>1, <1>6
<1>11. ~task[t].waiting => \A m \in pipe : m.task = None
  BY <1>1, <1>6, <1>7 DEF TypeInv, PushInv
<1>12. CASE PushRaises(t) \/ PushFinished(t)
  <2>1. /\ UNCHANGED <<pipe, layer_range, peers>>
        /\ task' = [task EXCEPT ![t] = None]
    BY <1>12 DEF PushRaises, PushFinished, worker_vars
  <2>2. ~task[t].waiting
    <3>1. CASE PushRaises(t)
      BY <3>1 DEF PushRaises
    <3>2. CASE PushFinished(t)
      <4>1. plan.nodes \in Seq(Workers)
        BY <1>4 DEF Plans
      <4>2. Len(plan.nodes) \in Nat /\ task[t].next \in Nat
        BY <1>3, <4>1, LenProperties DEF Handlers
      <4>3. ~(task[t].next <= Len(plan.nodes))
        BY <1>3, <3>2, <4>2 DEF PushFinished, PushDone
      <4>. QED
        BY <1>3, <4>3 DEF TypeInv, PushInv
    <3>. QED
      BY <1>12, <3>1, <3>2
  <2>3. PushedInv'
    BY <1>9, <1>11, <2>1, <2>2
  <2>. QED
    BY <2>1, <2>3 DEF Match, PeersMatchRange
<1>13. ASSUME NEW m \in pipe, m.task = t
       PROVE  task[t].waiting /\ \A k \in pipe \ {m} : k.task = None
  BY <1>7, <1>10, <1>13 DEF TypeInv, PushInv
<1>14. CASE PushAck(t)
  <2>1. PICK m \in pipe : /\ m.task = t
                          /\ pipe' = pipe \ {m}
                          /\ layer_range' = [layer_range EXCEPT ![m.to] = m.range]
                          /\ peers' = [peers EXCEPT ![m.to] = m.nodes]
    BY <1>14 DEF PushAck
  <2>2. task' = Moved(t)
    BY <1>14 DEF PushAck
  <2>3. PushedInv'
    BY <1>9, <1>13, <2>1, <2>2
  <2>4. PeersMatchRange'
    BY <2>1, Delivered
  <2>. QED
    BY <2>3, <2>4 DEF Match
<1>15. CASE PushFails(t)
  <2>1. task' = Moved(t) /\ task[t].waiting /\ UNCHANGED <<pipe, layer_range, peers>>
        /\ \A m \in pipe : m.task # t
    BY <1>15 DEF PushFails, worker_vars
  <2>2. PushedInv'
    BY <1>9, <1>10, <2>1
  <2>. QED
    BY <2>1, <2>2 DEF Match, PeersMatchRange
<1>16. CASE PushGivesUp(t)
  <2>1. PICK m \in pipe : /\ m.task = t
                          /\ pipe' = (pipe \ {m}) \cup {[m EXCEPT !.task = None]}
    BY <1>16 DEF PushGivesUp
  <2>2. task' = Moved(t) /\ UNCHANGED <<layer_range, peers>>
    BY <1>16 DEF PushGivesUp, worker_vars
  <2>3. [m EXCEPT !.task = None].task = None
    BY <1>6 DEF PlanMessages
  <2>4. /\ pipe' \subseteq pipe \cup {[k EXCEPT !.task = None] : k \in pipe}
        /\ \A k \in pipe' : k.task = None
    BY <1>13, <2>1, <2>3
  <2>5. PushedInv'
    BY <1>9, <1>13, <2>1, <2>2, <2>4
  <2>. QED
    BY <2>2, <2>5 DEF Match, PeersMatchRange
<1>. QED
  BY <1>8, <1>12, <1>14, <1>15, <1>16 DEF Push

(* Everybody else keeps them together.                                     *)
LEMMA OtherMatch ==
    ASSUME OneTask, TypeInv, Match,
           LatePlan \/ (\E m \in wire : Control(m)) \/ Tick
              \/ (\E n \in Nodes : Age(n)) \/ (\E w \in Workers : WorkerStep(w))
    PROVE  Match'
<1>1. pipe' \subseteq pipe /\ UNCHANGED <<plan, task>> => PushedInv'
  BY DEF Match, PushedInv, Running
<1>2. UNCHANGED <<layer_range, peers>> => PeersMatchRange'
  BY DEF Match, PeersMatchRange
<1>3. /\ last_heartbeat \in Seq(Nodes)
      /\ layer_range \in [Workers -> Ranges] /\ peers \in [Workers -> Seq(Workers)]
      /\ wire \subseteq Messages
  BY DEF TypeInv, TypeOK
<1>4. CASE LatePlan
  <2>1. PICK m \in pipe : /\ pipe' = pipe \ {m}
                          /\ layer_range' = [layer_range EXCEPT ![m.to] = m.range]
                          /\ peers' = [peers EXCEPT ![m.to] = m.nodes]
    BY <1>4 DEF LatePlan
  <2>2. UNCHANGED <<plan, task>>
    BY <1>4 DEF LatePlan, coord_vars
  <2>3. PeersMatchRange'
    BY <2>1, Delivered
  <2>. QED
    BY <1>1, <2>1, <2>2, <2>3 DEF Match
<1>5. CASE \E m \in wire : Control(m)
  <2>1. PICK m \in wire : Control(m)
    BY <1>5
  <2>2. m.src \in Workers /\ m.src \in Nodes /\ m.hello \in Nat
    BY <1>3 DEF Messages, Nodes
  <2>3. UNCHANGED <<layer_range, peers>>
    BY <2>1 DEF Control, Hello, Heartbeat, Leave, worker_vars
  <2>4. CASE Hello(m)
    <3>1. FreeTask /\ last_heartbeat' \in Seq(Nodes) /\ ReplanAndPush("hello", m.src, m.hello)
      BY <1>3, <2>2, <2>4, TouchType DEF Hello
    <3>. QED
      BY <1>2, <2>2, <2>3, <3>1, HandlerPushed DEF Match
  <2>5. CASE Leave(m)
    <3>1. FreeTask /\ last_heartbeat' \in Seq(Nodes) /\ ReplanAndPush("leave", m.src, m.hello)
      BY <1>3, <2>2, <2>5, ForgetNodes DEF Leave
    <3>. QED
      BY <1>2, <2>2, <2>3, <3>1, HandlerPushed DEF Match
  <2>6. CASE Heartbeat(m)
    BY <1>1, <1>2, <2>3, <2>6 DEF Heartbeat, Match
  <2>. QED
    BY <2>1, <2>4, <2>5, <2>6 DEF Control
<1>6. CASE TickDead
  <2>1. /\ FreeTask /\ last_heartbeat' \in Seq(Nodes) /\ ReplanAndPush("dead", Root, 0)
        /\ UNCHANGED <<layer_range, peers>>
    BY <1>3, <1>6, ForgetNodes DEF TickDead
  <2>2. Root \in Nodes
    BY DEF Nodes
  <2>. QED
    BY <1>2, <2>1, <2>2, HandlerPushed DEF Match
<1>7. CASE TickEnd
  BY <1>1, <1>2, <1>7 DEF TickEnd, coord_vars, worker_vars, Match
<1>8. CASE \E n \in Nodes : Age(n)
  BY <1>1, <1>2, <1>8 DEF Age, coord_vars, worker_vars, Match
<1>9. CASE \E w \in Workers : WorkerStep(w)
  <2>1. PICK w \in Workers : WorkerStep(w)
    BY <1>9
  <2>2. pipe' \subseteq pipe /\ UNCHANGED <<plan, task>>
    BY <2>1 DEF WorkerStep, Register, RegisterFails, SendHeartbeat, SendLeave, Crash, Restart,
                coord_vars
  <2>3. PeersMatchRange'
    <3>1. CASE Crash(w)
      BY <1>3, <3>1 DEF Crash, Match, PeersMatchRange
    <3>2. CASE ~Crash(w)
      BY <1>2, <2>1, <3>2 DEF WorkerStep, Register, RegisterFails, SendHeartbeat, SendLeave,
                              Restart, worker_vars
    <3>. QED
      BY <3>1, <3>2
  <2>. QED
    BY <1>1, <2>2, <2>3 DEF Match
<1>. QED
  BY <1>4, <1>5, <1>6, <1>7, <1>8, <1>9 DEF Tick

(* The plan of the moment is the one being pushed, and every message under *)
(* way is of one plan.                                                     *)
LEMMA MatchHolds ==
    ASSUME OneTask
    PROVE  Spec => [](TypeInv /\ Match)
<1>1. Init => TypeInv /\ Match
  BY InitType DEF Init, Match, PushedInv, PeersMatchRange, Running
<1>2. TypeInv /\ Match /\ [Next]_vars => (TypeInv /\ Match)'
  <2>. SUFFICES ASSUME TypeInv, Match, [Next]_vars PROVE Match'
    BY TypeNext
  <2>1. CASE UNCHANGED vars
    BY <2>1 DEF vars, health_vars, coord_vars, tick_vars, worker_vars,
                Match, PushedInv, PeersMatchRange, Running
  <2>. QED
    BY <2>1, PushMatch, OtherMatch DEF Next
<1>. QED
  BY <1>1, <1>2, PTL DEF Spec

(* While handlers do not overlap, a worker's range and the addresses it    *)
(* has come from one plan that names it, also when a plan arrives late     *)
(* (coordinator.py:267-275, worker.py:183-195), for any number of workers, *)
(* of crashes and of late plans.                                           *)
THEOREM ClusterPeersMatchRange ==
    ASSUME OneTask
    PROVE  Spec => []PeersMatchRange
<1>1. TypeInv /\ Match => PeersMatchRange
  BY DEF Match
<1>. QED
  BY <1>1, MatchHolds, PTL
\* In the plan, no worker twice.
OnceInv == Distinct(last_heartbeat) /\ (plan # None => Distinct(plan.nodes))

UpInv == \A w \in Workers : w \notin up => member[w] = "out"

\* Nothing is on its way that nobody waits for.
NoLate == \A m \in pipe : m.task # None

\* Who has been sent the plan has it.
Served ==
    plan # None => \A i \in DOMAIN plan.nodes :
        (\A t \in Tasks : Running(t) => i < task[t].next) /\ Serves(plan.nodes[i]) => Follows(i)

\* A push without a message is to a worker that does not listen.
Missed ==
    \A t \in Tasks :
        Running(t) /\ task[t].waiting /\ (\A m \in pipe : m.task # t)
            => ~Serves(plan.nodes[task[t].next])

Follow == OnceInv /\ UpInv /\ (late = 0 => NoLate /\ Served /\ Missed)

(* A plan names no worker twice.                                           *)
LEMMA HandlerOnce ==
    ASSUME TypeInv, OnceInv, NEW kind, NEW src, NEW n,
           last_heartbeat' \in Seq(Nodes), Distinct(last_heartbeat'),
           ReplanAndPush(kind, src, n)
    PROVE  OnceInv'
<1>1. Distinct(MembersOf(last_heartbeat', silent'))
  BY OnlyDistinct DEF MembersOf
<1>2. plan' # None => plan' = plan \/ plan'.nodes = MembersOf(last_heartbeat', silent')
  BY Replanned
<1>. QED
  BY <1>1, <1>2 DEF OnceInv

(* What leaves the plan, the handlers, the messages and the ranges alone   *)
(* and makes nobody a member, leaves what the workers know alone.          *)
LEMMA SameFollow ==
    ASSUME UNCHANGED <<plan, task, pipe, layer_range, peers>>,
           \A w : Serves(w)' => Serves(w), NoLate, Served, Missed
    PROVE  NoLate' /\ Served' /\ Missed'
<1>1. \A i : Follows(i)' <=> Follows(i)
  BY DEF Follows
<1>2. NoLate'
  BY DEF NoLate
<1>3. Served'
  BY <1>1 DEF Served, Running
<1>4. Missed'
  BY DEF Missed, Running
<1>. QED
  BY <1>2, <1>3, <1>4

(* A new plan starts with a push that is under way, or missed.             *)
LEMMA HandlerFollow ==
    ASSUME OneTask, TypeInv, PushedInv, UpInv, late = 0 => NoLate /\ Served /\ Missed,
           NEW kind \in {"hello", "leave", "dead"}, NEW src \in Nodes, NEW n \in Nat,
           kind # "dead" => src \in Workers,
           FreeTask, last_heartbeat' \in Seq(Nodes),
           UNCHANGED <<late, up, hellos, layer_range, peers>>,
           ReplanAndPush(kind, src, n)
    PROVE  UpInv' /\ (late' = 0 => NoLate' /\ Served' /\ Missed')
<1>1. \A t \in Tasks : ~Running(t)
  BY DEF FreeTask, OneTask, Running
<1>2. member \in [Workers -> Members]
  BY DEF TypeInv, TypeOK, Members
<1>3. CASE UNCHANGED <<plan, task, pipe, member>>
  <2>1. UpInv'
    BY <1>3 DEF UpInv
  <2>2. \A w : Serves(w)' => Serves(w)
    BY <1>3 DEF Serves, Asks, Running
  <2>. QED
    BY <1>3, <2>1, <2>2, SameFollow
<1>4. CASE plan' = None /\ UNCHANGED <<task, pipe>> /\ Answer(kind, src, n)
  <2>1. UpInv'
    BY <1>2, <1>4 DEF UpInv, Answer
  <2>2. Served' /\ Missed' /\ (NoLate => NoLate')
    BY <1>1, <1>4 DEF Served, Missed, NoLate, Running
  <2>. QED
    BY <2>1, <2>2
<1>5. CASE /\ plan' # None /\ plan' \in Plans
           /\ plan' = PlanOf(plan'.nodes) /\ plan'.nodes # <<>>
           /\ \E t \in Tasks :
                 /\ task[t] = None
                 /\ task' = [task EXCEPT ![t] =
                                [kind |-> kind, src |-> src, hello |-> n,
                                 plan |-> plan', next |-> 1, waiting |-> TRUE]]
                 /\ Sent(PlanMessage(t, plan', 1, plan'))
           /\ UNCHANGED member
  <2>1. PICK p \in Plans : plan' = p /\ p # None /\ p.nodes # <<>>
    BY <1>5
  <2>2. PICK t \in Tasks :
            /\ task' = [task EXCEPT ![t] =
                           [kind |-> kind, src |-> src, hello |-> n,
                            plan |-> plan', next |-> 1, waiting |-> TRUE]]
            /\ Sent(PlanMessage(t, plan', 1, plan'))
    BY <1>5
  <2>. DEFINE x == PlanMessage(t, p, 1, p)
  <2>3. task'[t].next = 1 /\ task'[t].plan = p /\ Running(t)'
    <3>1. task \in [Tasks -> Handlers \cup {None}]
      BY DEF TypeInv, TypeOK
    <3>2. task'[t] = [kind |-> kind, src |-> src, hello |-> n,
                      plan |-> p, next |-> 1, waiting |-> TRUE]
      BY <2>1, <2>2, <3>1
    <3>3. task'[t] \in Handlers
      <4>1. 1 \in Nat /\ TRUE \in BOOLEAN
        OBVIOUS
      <4>. QED
        BY <3>2, <4>1, SMTT(30) DEF Handlers
    <3>4. task'[t] # None
      BY <3>3, NoneAssumption, Zenon
    <3>. QED
      BY <3>2, <3>4 DEF Running
  <2>4. \A u \in Tasks : u = t
    BY DEF OneTask
  <2>5. 1 \in 1..Len(p.nodes) /\ DOMAIN p.nodes = 1..Len(p.nodes) /\ Len(p.nodes) \in Nat
        /\ p.nodes[1] \in Workers
    <3>1. p.nodes \in Seq(Workers)
      BY DEF Plans
    <3>2. Len(p.nodes) \in Nat \ {0} /\ DOMAIN p.nodes = 1..Len(p.nodes)
      BY <2>1, <3>1, EmptySeq, LenProperties
    <3>3. 1 \in 1..Len(p.nodes)
      BY <3>2
    <3>. QED
      BY <3>1, <3>2, <3>3, LenProperties
  <2>6. x.task = t /\ x.to = p.nodes[1] /\ t # None
    BY NoneAssumption DEF PlanMessage
  <2>7. pipe' = pipe \cup {k \in {x} : k.to \in up}
    BY <2>1, <2>2 DEF Sent
  <2>. HIDE DEF x
  <2>8. UpInv' /\ (NoLate => NoLate')
    BY <1>5, <2>6, <2>7 DEF UpInv, NoLate
  <2>9. Served'
    <3>1. \A i \in DOMAIN p.nodes : ~(i < 1)
      BY <2>5
    <3>. QED
      BY <2>1, <2>3, <3>1 DEF Served
  <2>10. Missed'
    <3>. SUFFICES ASSUME \A m \in pipe' : m.task # t
                  PROVE  ~Serves(plan.nodes[task[t].next])'
      BY <2>4 DEF Missed
    <3>1. p.nodes[1] \notin up'
      BY <2>6, <2>7
    <3>. QED
      BY <2>1, <2>3, <3>1 DEF Serves
  <2>. QED
    BY <2>8, <2>9, <2>10
<1>. QED
  BY <1>3, <1>4, <1>5, Replanned

(* A push: what is sent is under way or missed, what is answered is done.  *)
LEMMA PushFollow ==
    ASSUME OneTask, TypeInv, PushedInv, Follow, NEW t \in Tasks, Push(t)
    PROVE  Follow'
<1>1. UNCHANGED <<plan, last_heartbeat, up, hellos>>
  BY DEF Push, PushSend, PushRaises, PushAck, PushFails, PushGivesUp, PushFinished,
         coord_vars, worker_vars
<1>2. OnceInv'
  BY <1>1 DEF Follow, OnceInv
<1>3. \A u \in Tasks : u = t
  BY DEF OneTask
<1>4. /\ member \in [Workers -> Members] /\ task \in [Tasks -> Handlers \cup {None}]
      /\ layer_range \in [Workers -> Ranges] /\ peers \in [Workers -> Seq(Workers)]
      /\ late \in Nat
  BY ClusterAssumption DEF TypeInv, TypeOK, Members
<1>5. Running(t) /\ task[t] \in Handlers /\ plan = task[t].plan /\ t # None
  BY NoneAssumption DEF Push, PushSend, PushRaises, PushAck, PushFails, PushGivesUp, PushFinished,
                        TypeInv, TypeOK, Running, PushedInv
<1>6. /\ plan \in Plans /\ plan # None
      /\ plan.nodes \in Seq(Workers) /\ Len(plan.nodes) \in Nat
      /\ DOMAIN plan.nodes = 1..Len(plan.nodes)
      /\ \A i \in 1..Len(plan.nodes) : plan.nodes[i] \in Workers
      /\ task[t].next \in 1..Len(plan.nodes) + 1
  <2>1. plan \in Plans
    BY <1>5 DEF Handlers
  <2>2. plan # None
    BY <2>1, NoneAssumption
  <2>3. plan.nodes \in Seq(Workers)
    BY <2>1 DEF Plans
  <2>4. task[t].next \in 1..Len(plan.nodes) + 1
    BY <1>5 DEF TypeInv, TypeOK
  <2>. QED
    BY <2>1, <2>2, <2>3, <2>4, LenProperties
<1>7. UNCHANGED member => UpInv'
  BY <1>1 DEF Follow, UpInv
<1>8. UNCHANGED member => \A w : Serves(w)' => Serves(w)
  BY <1>1, PushAsks DEF Serves
<1>9. CASE PushSend(t)
  <2>1. /\ ~PushDone(t) /\ ~task[t].waiting
        /\ Sent(PlanMessage(t, task[t].plan, task[t].next, plan))
        /\ task' = [task EXCEPT ![t].waiting = TRUE]
        /\ UNCHANGED <<layer_range, peers, member, late>>
    BY <1>9 DEF PushSend, worker_vars
  <2>2. task'[t].next = task[t].next
    BY <1>4, <1>5, <2>1 DEF Handlers
  <2>. DEFINE x == PlanMessage(t, plan, task[t].next, plan)
  <2>3. x.task = t /\ x.to = plan.nodes[task[t].next]
    BY DEF PlanMessage
  <2>4. pipe' = pipe \cup {k \in {x} : k.to \in up}
    BY <1>5, <2>1 DEF Sent
  <2>. HIDE DEF x
  <2>5. NoLate => NoLate'
    BY <1>5, <2>3, <2>4 DEF NoLate
  <2>6. Served => Served'
    <3>1. \A i : Follows(i)' <=> Follows(i)
      BY <1>1, <2>1 DEF Follows
    <3>2. (\A u \in Tasks : Running(u)' => TRUE) /\ Running(t)'
      <4>1. \A r \in Handlers : [r EXCEPT !.waiting = TRUE] \in Handlers
        BY DEF Handlers
      <4>2. task'[t] \in Handlers
        BY <1>4, <1>5, <2>1, <4>1
      <4>. QED
        BY <4>2, NoneAssumption DEF Running
    <3>3. \A i : (\A u \in Tasks : Running(u)' => i < task'[u].next)
                    => \A u \in Tasks : Running(u) => i < task[u].next
      BY <1>3, <2>2, <3>2
    <3>. QED
      BY <1>1, <1>8, <2>1, <3>1, <3>3 DEF Served
  <2>7. Missed'
    <3>. SUFFICES ASSUME \A m \in pipe' : m.task # t
                  PROVE  ~Serves(plan.nodes[task[t].next])'
      BY <1>3 DEF Missed
    <3>1. plan.nodes[task[t].next] \notin up'
      BY <1>1, <2>3, <2>4
    <3>. QED
      BY <1>1, <2>2, <3>1 DEF Serves
  <2>. QED
    BY <1>2, <1>7, <2>1, <2>5, <2>6, <2>7 DEF Follow
<1>10. CASE PushRaises(t)
  BY <1>6, <1>10 DEF PushRaises
<1>11. CASE PushFinished(t)
  <2>1. /\ PushDone(t) /\ Answer(task[t].kind, task[t].src, task[t].hello)
        /\ task' = [task EXCEPT ![t] = None]
        /\ UNCHANGED <<pipe, layer_range, peers, late>>
    BY <1>11 DEF PushFinished
  <2>2. \A u \in Tasks : ~Running(u)'
    BY <1>3, <1>4, <2>1 DEF Running
  <2>3. UpInv'
    BY <1>1, <1>4, <2>1 DEF Follow, UpInv, Answer
  <2>4. NoLate => NoLate'
    BY <2>1 DEF NoLate
  <2>5. Missed'
    BY <2>2 DEF Missed
  <2>6. \A w \in Workers : Serves(w)' => Serves(w)
    <3>. SUFFICES ASSUME NEW w \in Workers, Serves(w)' PROVE Serves(w)
      OBVIOUS
    <3>1. w \in up /\ member'[w] = "joined"
      BY <1>1, <2>2 DEF Serves, Asks
    <3>2. CASE member[w] = "joined"
      BY <3>1, <3>2 DEF Serves
    <3>3. CASE member[w] # "joined"
      <4>1. /\ task[t].kind = "hello" /\ task[t].src = w
            /\ member[w] = "registering" /\ hellos[w] = task[t].hello
        BY <1>4, <2>1, <3>1, <3>3 DEF Answer
      <4>. QED
        BY <1>5, <3>1, <4>1 DEF Serves, Asks
    <3>. QED
      BY <3>2, <3>3
  <2>7. Served => Served'
    <3>1. \A i \in DOMAIN plan.nodes : i < task[t].next
      <4>1. task[t].next > Len(plan.nodes)
        BY <1>5, <2>1 DEF PushDone
      <4>. QED
        BY <1>6, <4>1
    <3>2. \A i : Follows(i)' <=> Follows(i)
      BY <1>1, <2>1 DEF Follows
    <3>. QED
      BY <1>1, <1>3, <1>6, <2>6, <3>1, <3>2 DEF Served
  <2>. QED
    BY <1>2, <2>1, <2>3, <2>4, <2>5, <2>7 DEF Follow
<1>12. CASE PushGivesUp(t)
  <2>1. late' = late + 1 /\ UNCHANGED member
    BY <1>12 DEF PushGivesUp, worker_vars
  <2>2. late' # 0
    BY <1>4, <2>1
  <2>. QED
    BY <1>2, <1>7, <2>1, <2>2 DEF Follow
<1>13. ASSUME task' = Moved(t), task[t].waiting, UNCHANGED member, pipe' \subseteq pipe,
              UNCHANGED late,
              Serves(plan.nodes[task[t].next]) =>
                  /\ layer_range'[plan.nodes[task[t].next]] = RangeIn(plan, task[t].next)
                  /\ peers'[plan.nodes[task[t].next]] = plan.nodes,
              NoLate => \A i \in DOMAIN plan.nodes : i # task[t].next /\ Follows(i) => Follows(i)'
       PROVE  Follow'
  <2>1. /\ task'[t].next = task[t].next + 1 /\ ~task'[t].waiting /\ Running(t)'
    BY <1>5, <1>13, MovedIs
  <2>2. Missed'
    BY <1>3, <2>1 DEF Missed
  <2>3. NoLate => NoLate'
    BY <1>13 DEF NoLate
  <2>4. NoLate /\ Served => Served'
    <3>. SUFFICES ASSUME NoLate, Served, NEW i \in 1..Len(plan.nodes), i < task'[t].next,
                         Serves(plan.nodes[i])'
                  PROVE  Follows(i)'
      BY <1>1, <1>6, <2>1 DEF Served
    <3>1. Serves(plan.nodes[i])
      BY <1>1, <1>8, <1>13
    <3>2. i < task[t].next \/ i = task[t].next
      BY <1>6, <2>1
    <3>3. CASE i = task[t].next
      BY <1>1, <1>13, <3>1, <3>3 DEF Follows
    <3>4. CASE i < task[t].next
      <4>1. \A u \in Tasks : Running(u) => i < task[u].next
        BY <1>3, <3>4
      <4>2. Follows(i)
        BY <1>6, <3>1, <4>1 DEF Served
      <4>3. i # task[t].next
        BY <1>6, <3>4
      <4>. QED
        BY <1>6, <1>13, <4>2, <4>3
    <3>. QED
      BY <3>2, <3>3, <3>4
  <2>. QED
    BY <1>2, <1>7, <1>13, <2>2, <2>3, <2>4 DEF Follow
<1>14. task[t].waiting => task[t].next \in 1..Len(plan.nodes)
  <2>1. task[t].waiting => task[t].next <= Len(plan.nodes)
    BY <1>5 DEF TypeInv, PushInv
  <2>. QED
    BY <1>6, <2>1
<1>15. CASE PushAck(t)
  <2>1. PICK m \in pipe : /\ m.task = t
                          /\ pipe' = pipe \ {m}
                          /\ layer_range' = [layer_range EXCEPT ![m.to] = m.range]
                          /\ peers' = [peers EXCEPT ![m.to] = m.nodes]
    BY <1>15 DEF PushAck
  <2>2. task' = Moved(t) /\ task[t].waiting /\ UNCHANGED <<member, late>>
    BY <1>5, <1>15, <2>1 DEF PushAck, TypeInv, PushInv
  <2>3. /\ m.to = plan.nodes[task[t].next] /\ m.range = RangeIn(plan, task[t].next)
        /\ m.nodes = plan.nodes
    <3>1. m = PlanMessage(t, plan, task[t].next, plan)
      BY <1>5, <2>1 DEF PushedInv
    <3>. QED
      BY <3>1 DEF PlanMessage
  <2>4. task[t].next \in 1..Len(plan.nodes) /\ m.to \in Workers
    BY <1>6, <1>14, <2>2, <2>3
  <2>5. layer_range'[m.to] = m.range /\ peers'[m.to] = m.nodes
        /\ \A w \in Workers : w # m.to => layer_range'[w] = layer_range[w] /\ peers'[w] = peers[w]
    BY <1>4, <2>1, <2>4
  <2>6. ASSUME NEW i \in DOMAIN plan.nodes, i # task[t].next, Follows(i)
        PROVE  Follows(i)'
    <3>1. plan.nodes[i] # m.to /\ plan.nodes[i] \in Workers
      BY <1>6, <2>3, <2>4, <2>6 DEF Follow, OnceInv, Distinct
    <3>. QED
      BY <1>1, <2>5, <2>6, <3>1 DEF Follows
  <2>. QED
    BY <1>13, <2>1, <2>2, <2>3, <2>5, <2>6
<1>16. CASE PushFails(t)
  <2>1. /\ task' = Moved(t) /\ task[t].waiting /\ \A m \in pipe : m.task # t
        /\ UNCHANGED <<pipe, layer_range, peers, member, late>>
    BY <1>16 DEF PushFails, worker_vars
  <2>2. late = 0 => ~Serves(plan.nodes[task[t].next])
    BY <1>5, <2>1 DEF Follow, Missed
  <2>3. \A i : Follows(i) => Follows(i)'
    BY <1>1, <2>1 DEF Follows
  <2>4. CASE late = 0
    BY <1>13, <2>1, <2>2, <2>3, <2>4
  <2>5. CASE late # 0
    BY <1>2, <1>7, <2>1, <2>5 DEF Follow
  <2>. QED
    BY <2>4, <2>5
<1>. QED
  BY <1>9, <1>10, <1>11, <1>12, <1>15, <1>16 DEF Push

(* A list that a name is put into has it once.                             *)
LEMMA TouchDistinct ==
    ASSUME NEW X, NEW s \in Seq(X), NEW n \in X, Distinct(s)
    PROVE  Distinct(Touch(s, n))
<1>1. CASE Contains(s, n)
  BY <1>1 DEF Touch
<1>2. CASE ~Contains(s, n)
  <2>1. n \notin ToSet(s)
    BY <1>2, LenProperties DEF Contains, ToSet
  <2>2. Distinct(Append(s, n))
    BY <2>1, AppendDistinct
  <2>. QED
    BY <1>2, <2>2 DEF Touch
<1>. QED
  BY <1>1, <1>2

(* The rest of the coordinator.                                            *)
LEMMA CoordinatorFollow ==
    ASSUME OneTask, TypeInv, PushedInv, Follow,
           LatePlan \/ (\E m \in wire : Control(m)) \/ Tick \/ (\E n \in Nodes : Age(n))
    PROVE  Follow'
<1>1. last_heartbeat \in Seq(Nodes) /\ Distinct(last_heartbeat)
  BY DEF TypeInv, TypeOK, Follow, OnceInv
<1>2. ASSUME NEW n \in Nodes
      PROVE  /\ Touch(last_heartbeat, n) \in Seq(Nodes)
             /\ Forget(last_heartbeat, n) \in Seq(Nodes)
             /\ Distinct(Touch(last_heartbeat, n)) /\ Distinct(Forget(last_heartbeat, n))
  BY <1>1, TouchType, ForgetNodes, TouchDistinct, OnlyDistinct DEF Forget
<1>3. ASSUME last_heartbeat' \in Seq(Nodes), Distinct(last_heartbeat'), FreeTask,
             NEW kind \in {"hello", "leave", "dead"}, NEW src \in Nodes, NEW n \in Nat,
             kind # "dead" => src \in Workers,
             UNCHANGED <<late, up, hellos, layer_range, peers>>,
             ReplanAndPush(kind, src, n)
      PROVE  Follow'
  <2>1. OnceInv'
    BY <1>3, HandlerOnce DEF Follow
  <2>2. UpInv' /\ (late' = 0 => NoLate' /\ Served' /\ Missed')
    BY <1>3, HandlerFollow DEF Follow
  <2>. QED
    BY <2>1, <2>2 DEF Follow
<1>4. ASSUME UNCHANGED <<plan, task, pipe, up, member, hellos, late, layer_range, peers>>,
             Distinct(last_heartbeat')
      PROVE  Follow'
  <2>1. OnceInv' /\ UpInv'
    BY <1>4 DEF Follow, OnceInv, UpInv
  <2>2. \A w : Serves(w)' => Serves(w)
    BY <1>4 DEF Serves, Asks, Running
  <2>. QED
    BY <1>4, <2>1, <2>2, SameFollow DEF Follow
<1>5. CASE LatePlan
  <2>1. late' # 0
    BY <1>5 DEF LatePlan, Follow, NoLate
  <2>2. UNCHANGED <<plan, last_heartbeat, up, member>>
    BY <1>5 DEF LatePlan, coord_vars
  <2>. QED
    BY <2>1, <2>2 DEF Follow, OnceInv, UpInv
<1>6. CASE \E m \in wire : Control(m)
  <2>1. PICK m \in wire : Control(m)
    BY <1>6
  <2>2. m.src \in Workers /\ m.src \in Nodes /\ m.hello \in Nat
    BY DEF TypeInv, TypeOK, Messages, Nodes
  <2>3. CASE Hello(m)
    <3>1. last_heartbeat' \in Seq(Nodes) /\ Distinct(last_heartbeat')
      BY <1>2, <2>2, <2>3 DEF Hello
    <3>2. /\ FreeTask /\ ReplanAndPush("hello", m.src, m.hello)
          /\ UNCHANGED <<late, up, hellos, layer_range, peers>>
      BY <2>3 DEF Hello
    <3>. QED
      BY <1>3, <2>2, <3>1, <3>2
  <2>4. CASE Leave(m)
    <3>1. last_heartbeat' \in Seq(Nodes) /\ Distinct(last_heartbeat')
      BY <1>2, <2>2, <2>4 DEF Leave
    <3>2. /\ FreeTask /\ ReplanAndPush("leave", m.src, m.hello)
          /\ UNCHANGED <<late, up, hellos, layer_range, peers>>
      BY <2>4 DEF Leave
    <3>. QED
      BY <1>3, <2>2, <3>1, <3>2
  <2>5. CASE Heartbeat(m)
    <3>1. Distinct(last_heartbeat')
      BY <1>2, <2>2, <2>5 DEF Heartbeat
    <3>. QED
      BY <1>4, <2>5, <3>1 DEF Heartbeat, worker_vars
  <2>. QED
    BY <2>1, <2>3, <2>4, <2>5 DEF Control
<1>7. CASE TickDead
  <2>1. /\ FreeTask /\ ReplanAndPush("dead", Root, 0)
        /\ UNCHANGED <<late, up, hellos, layer_range, peers>>
    BY <1>7 DEF TickDead
  <2>2. last_heartbeat' \in Seq(Nodes) /\ Distinct(last_heartbeat')
    BY <1>1, <1>7, ForgetNodes, OnlyDistinct DEF TickDead, Forget
  <2>3. Root \in Nodes /\ 0 \in Nat
    BY DEF Nodes
  <2>. QED
    BY <1>3, <2>1, <2>2, <2>3
<1>8. CASE TickEnd
  BY <1>1, <1>4, <1>8 DEF TickEnd, coord_vars, worker_vars
<1>9. CASE \E n \in Nodes : Age(n)
  BY <1>1, <1>4, <1>9 DEF Age, coord_vars, worker_vars
<1>. QED
  BY <1>5, <1>6, <1>7, <1>8, <1>9 DEF Tick

(* A worker: nobody becomes a member without the plan.                     *)
LEMMA WorkerFollow ==
    ASSUME OrderedControl, TypeInv, PushedInv, Follow, NEW w \in Workers, WorkerStep(w)
    PROVE  Follow'
<1>1. UNCHANGED <<plan, last_heartbeat, task, late>>
  BY DEF WorkerStep, Register, RegisterFails, SendHeartbeat, SendLeave, Crash, Restart, coord_vars
<1>2. OnceInv'
  BY <1>1 DEF Follow, OnceInv
<1>3. member \in [Workers -> Members] /\ hellos \in [Workers -> Nat] /\ up \subseteq Workers
      /\ layer_range \in [Workers -> Ranges] /\ peers \in [Workers -> Seq(Workers)]
  BY DEF TypeInv, TypeOK, Members
<1>4. ASSUME UNCHANGED <<pipe, layer_range, peers>>, UpInv', \A v : Serves(v)' => Serves(v)
      PROVE  Follow'
  BY <1>1, <1>2, <1>4, SameFollow DEF Follow
<1>5. CASE Register(w)
  <2>1. /\ MaySend(w) /\ member' = [member EXCEPT ![w] = "registering"]
        /\ hellos' = [hellos EXCEPT ![w] = @ + 1]
        /\ UNCHANGED <<pipe, up, layer_range, peers>>
    BY <1>5 DEF Register
  <2>2. w \in up /\ \A t \in Tasks : ~Asks(w, t)
    BY <2>1 DEF MaySend, Outstanding, Asks
  <2>3. UpInv'
    BY <1>3, <2>1, <2>2 DEF Follow, UpInv
  <2>4. \A v : Serves(v)' => Serves(v)
    <3>. SUFFICES ASSUME NEW v, Serves(v)' PROVE Serves(v)
      OBVIOUS
    <3>1. v \in Workers
      BY <1>3, <2>1 DEF Serves
    <3>2. v # w
      BY <1>1, <1>3, <2>1, <2>2 DEF Serves, Asks, Running
    <3>. QED
      BY <1>1, <1>3, <2>1, <3>1, <3>2 DEF Serves, Asks, Running
  <2>. QED
    BY <1>4, <2>1, <2>3, <2>4
<1>6. CASE RegisterFails(w) \/ SendLeave(w)
  <2>1. /\ member' = [member EXCEPT ![w] = "out"]
        /\ UNCHANGED <<pipe, up, hellos, layer_range, peers>>
    BY <1>6 DEF RegisterFails, SendLeave
  <2>2. UpInv'
    BY <1>3, <2>1 DEF Follow, UpInv
  <2>3. \A v : Serves(v)' => Serves(v)
    <3>. SUFFICES ASSUME NEW v, Serves(v)' PROVE Serves(v)
      OBVIOUS
    <3>1. v \in Workers
      BY <1>3, <2>1 DEF Serves
    <3>2. v # w
      BY <1>3, <2>1 DEF Serves
    <3>. QED
      BY <1>1, <1>3, <2>1, <3>1, <3>2 DEF Serves, Asks, Running
  <2>. QED
    BY <1>4, <2>1, <2>2, <2>3
<1>7. CASE SendHeartbeat(w)
  <2>1. UNCHANGED <<pipe, up, member, hellos, layer_range, peers>>
    BY <1>7 DEF SendHeartbeat, worker_vars
  <2>2. UpInv'
    BY <2>1 DEF Follow, UpInv
  <2>3. \A v : Serves(v)' => Serves(v)
    BY <1>1, <2>1 DEF Serves, Asks, Running
  <2>. QED
    BY <1>4, <2>1, <2>2, <2>3
<1>8. CASE Crash(w)
  <2>1. /\ up' = up \ {w} /\ member' = [member EXCEPT ![w] = "out"]
        /\ pipe' = {m \in pipe : m.to # w}
        /\ layer_range' = [layer_range EXCEPT ![w] = <<0, NumLayers>>]
        /\ peers' = [peers EXCEPT ![w] = <<>>]
        /\ UNCHANGED hellos
    BY <1>8 DEF Crash
  <2>2. UpInv'
    BY <1>3, <2>1 DEF Follow, UpInv
  <2>3. \A v : Serves(v)' => Serves(v) /\ v \in Workers /\ v # w
    <3>. SUFFICES ASSUME NEW v, Serves(v)' PROVE Serves(v) /\ v \in Workers /\ v # w
      OBVIOUS
    <3>1. v \in Workers /\ v # w
      BY <1>3, <2>1 DEF Serves
    <3>. QED
      BY <1>1, <1>3, <2>1, <3>1 DEF Serves, Asks, Running
  <2>4. NoLate => NoLate'
    BY <2>1 DEF NoLate
  <2>5. Served => Served'
    <3>1. ASSUME NEW i, plan.nodes[i] \in Workers, plan.nodes[i] # w, Follows(i)
          PROVE  Follows(i)'
      BY <1>1, <1>3, <2>1, <3>1 DEF Follows
    <3>. QED
      BY <1>1, <2>3, <3>1 DEF Served, Running
  <2>6. Missed => Missed'
    <3>. SUFFICES ASSUME Missed, NEW t \in Tasks, Running(t), task[t].waiting,
                         \A m \in pipe' : m.task # t, Serves(plan.nodes[task[t].next])'
                  PROVE  FALSE
      BY <1>1 DEF Missed, Running
    <3>1. Serves(plan.nodes[task[t].next]) /\ plan.nodes[task[t].next] # w
      BY <1>1, <2>3
    <3>2. PICK m \in pipe : m.task = t
      BY <3>1 DEF Missed
    <3>3. m.to = w
      BY <2>1, <3>2
    <3>4. m.to = plan.nodes[task[t].next]
      <4>1. t # None
        BY NoneAssumption
      <4>2. m = PlanMessage(t, plan, task[t].next, plan)
        BY <3>2, <4>1 DEF PushedInv
      <4>3. PlanMessage(t, plan, task[t].next, plan).to = plan.nodes[task[t].next]
        <5>1. plan = task[t].plan
          BY DEF PushedInv
        <5>. QED
          BY <5>1 DEF PlanMessage
      <4>. QED
        BY <4>2, <4>3
    <3>. QED
      BY <3>1, <3>3, <3>4
  <2>. QED
    BY <1>1, <1>2, <2>2, <2>4, <2>5, <2>6 DEF Follow
<1>9. CASE Restart(w)
  <2>1. /\ w \notin up /\ up' = up \cup {w}
        /\ UNCHANGED <<pipe, member, hellos, layer_range, peers>>
    BY <1>9 DEF Restart
  <2>2. member[w] = "out"
    BY <2>1 DEF Follow, UpInv
  <2>3. UpInv'
    BY <2>1 DEF Follow, UpInv
  <2>4. \A v : Serves(v)' => Serves(v)
    BY <1>1, <2>1, <2>2 DEF Serves, Asks, Running
  <2>. QED
    BY <1>4, <2>1, <2>3, <2>4
<1>. QED
  BY <1>5, <1>6, <1>7, <1>8, <1>9 DEF WorkerStep

(* Once no push is under way, and if every rpc was answered in time, every *)
(* planned worker that runs and knows it is a member serves the range the  *)
(* current plan gives it and knows the addresses of that plan's ranks      *)
(* (coordinator.py:264-275, worker.py:183-197): for any number of workers  *)
(* that wait for each answer and of crashes, while handlers do not overlap. *)
THEOREM ClusterWorkersFollowPlan ==
    ASSUME OneTask, OrderedControl
    PROVE  Spec => []WorkersFollowPlan
<1>1. Init => Follow
  <2>. SUFFICES ASSUME Init PROVE Follow
    OBVIOUS
  <2>1. OnceInv
    <3>1. DOMAIN <<Root>> = {1}
      OBVIOUS
    <3>. QED
      BY <3>1 DEF Init, OnceInv, Distinct
  <2>. QED
    BY <2>1 DEF Init, Follow, UpInv, NoLate, Served, Missed, Running
<1>2. TypeInv /\ Match /\ Follow /\ [Next]_vars => Follow'
  <2>. SUFFICES ASSUME TypeInv, PushedInv, Follow, [Next]_vars PROVE Follow'
    BY DEF Match
  <2>1. CASE UNCHANGED vars
    <3>1. UNCHANGED <<plan, task, pipe, layer_range, peers, up, member, hellos, late, last_heartbeat>>
      BY <2>1 DEF vars, coord_vars, worker_vars
    <3>2. \A w : Serves(w)' => Serves(w)
      BY <3>1 DEF Serves, Asks, Running
    <3>. QED
      BY <3>1, <3>2, SameFollow DEF Follow, OnceInv, UpInv
  <2>. QED
    BY <2>1, PushFollow, CoordinatorFollow, WorkerFollow DEF Next
<1>3. TypeInv /\ Follow => WorkersFollowPlan
  <2>. SUFFICES ASSUME TypeInv, Follow, Quiet, late = 0, plan # None, NEW i \in DOMAIN plan.nodes,
                       plan.nodes[i] \in up, member[plan.nodes[i]] = "joined"
                PROVE  /\ layer_range[plan.nodes[i]] = RangeIn(plan, i)
                       /\ peers[plan.nodes[i]] = plan.nodes
    BY DEF WorkersFollowPlan
  <2>1. Serves(plan.nodes[i])
    BY DEF Serves
  <2>2. Follows(i)
    BY <2>1 DEF Follow, Served, Quiet, Running
  <2>. QED
    BY <2>2 DEF Follows
<1>. QED
  BY <1>1, <1>2, <1>3, MatchHolds, PTL DEF Spec
=============================================================================
