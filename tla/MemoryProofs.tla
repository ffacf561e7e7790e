---------------------------- MODULE MemoryProofs ----------------------------
(***************************************************************************)
(* The memory store, for any branches, keys, values and snapshots: nothing *)
(* is uncommitted between calls, no branch loses history, a write, a merge *)
(* or a revert leaves the spaces of the other branches alone, and a store  *)
(* whose branches are made from main and merged with it implements Spaces. *)
(* The fabric, for any number of processes, stores, agents and calls:      *)
(* rights are never widened, processes that take turns lose none, and a    *)
(* post that was reported stays.                                           *)
(***************************************************************************)
EXTENDS Memory, Fabric, FiniteSetTheorems, SequenceTheorems, WellFoundedInduction, TLAPS

-----------------------------------------------------------------------------
(* A set of naturals that is not empty has a smallest element.             *)
LEMMA Smallest ==
    ASSUME NEW S \in SUBSET Nat, S # {}
    PROVE  \E m \in S : \A n \in S : m <= n
<1>. DEFINE R == OpToRel(<, Nat)
<1>1. \E x \in S : \A y \in S : ~ (<<y, x>> \in R)
  BY NatLessThanWellFounded, WFMin
<1>2. \A x, y \in Nat : <<y, x>> \in R <=> y < x
  BY DEF OpToRel
<1>. HIDE DEF R
<1>3. PICK m \in S : \A n \in S : ~ (<<n, m>> \in R)
  BY <1>1
<1>4. m \in Nat /\ \A n \in S : n \in Nat /\ ~ (n < m)
  BY <1>2, <1>3, Zenon
<1>5. \A n \in S : m <= n
  BY <1>4
<1>. QED
  BY <1>5

-----------------------------------------------------------------------------
(* Histories.                                                              *)

Trees == [Files -> Contents]
Commit == [tree : Trees, parents : Seq(Nat)]

Parents(cs, c) == ToSet(cs[c].parents)

\* A history: parents come before their children.
History(cs) ==
    /\ cs \in Seq(Commit)
    /\ \A c \in 1..Len(cs) : Parents(cs, c) \subseteq 1..c-1

(* The first parent of a commit is a commit before it.                     *)
LEMMA FirstParent ==
    ASSUME NEW cs, History(cs), NEW c \in 1..Len(cs), cs[c].parents # <<>>
    PROVE  cs[c].parents[1] \in 1..c-1
<1>. DEFINE parents == cs[c].parents
<1>1. cs[c] \in Commit
  BY DEF History
<1>2. parents \in Seq(Nat)
  BY <1>1 DEF Commit
<1>3. Parents(cs, c) \subseteq 1..c-1
  BY DEF History
<1>4. Parents(cs, c) = ToSet(parents) /\ parents # <<>>
  BY DEF Parents
<1>. HIDE DEF parents
<1>5. parents[1] \in ToSet(parents)
  BY <1>2, <1>4 DEF ToSet
<1>. QED
  BY <1>3, <1>4, <1>5 DEF parents

\* The union of the sets f has for the members of P.
Over(f, P) == UNION {f[p] : p \in P}

LEMMA OverAgrees ==
    ASSUME NEW f, NEW g, NEW P, \A p \in P : f[p] = g[p]
    PROVE  Over(f, P) = Over(g, P)
<1>1. {f[p] : p \in P} = {g[p] : p \in P}
  OBVIOUS
<1>. QED
  BY <1>1 DEF Over

\* f has the ancestors of the first n commits.
Lines(cs, n, f) ==
    /\ f = [c \in 1..n |-> f[c]]
    /\ \A c \in 1..n : f[c] = {c} \cup Over(f, Parents(cs, c))

LEMMA LinesExist ==
    ASSUME NEW cs, History(cs)
    PROVE  \E f : Lines(cs, Len(cs), f)
<1>. DEFINE S == {n \in 0..Len(cs) : ~ \E f : Lines(cs, n, f)}
<1>1. Len(cs) \in Nat /\ \A c \in 1..Len(cs) : Parents(cs, c) \subseteq 1..c-1
  BY DEF History
<1>2. SUFFICES ASSUME S # {} PROVE FALSE
  BY <1>1
<1>3. PICK m \in S : \A n \in S : m <= n
  <2>1. S \in SUBSET Nat
    BY <1>1
  <2>. HIDE DEF S
  <2>. QED
    BY <1>2, <2>1, Smallest
<1>4. m \in 0..Len(cs) /\ ~ \E f : Lines(cs, m, f)
  OBVIOUS
<1>5. m # 0
  <2>1. Lines(cs, 0, [c \in 1..0 |-> {}])
    BY DEF Lines
  <2>. QED
    BY <1>4, <2>1
<1>6. m - 1 \in 0..Len(cs) /\ m \in 1..Len(cs) /\ m - 1 < m
  BY <1>1, <1>4, <1>5
<1>7. PICK f : Lines(cs, m - 1, f)
  BY <1>1, <1>3, <1>6
<1>. HIDE DEF S
<1>. DEFINE g == [c \in 1..m |-> IF c = m THEN {m} \cup Over(f, Parents(cs, m)) ELSE f[c]]
<1>8. \A c \in 1..m : (c = m \/ c \in 1..m-1) /\ (c - 1 <= m - 1)
  BY <1>6
<1>9. \A c \in 1..m : Parents(cs, c) \subseteq 1..m-1
  <2>. SUFFICES ASSUME NEW c \in 1..m, NEW p \in Parents(cs, c) PROVE p \in 1..m-1
    OBVIOUS
  <2>1. c \in 1..Len(cs) /\ m \in Nat
    BY <1>1, <1>6
  <2>2. p \in 1..c-1
    BY <1>1, <2>1
  <2>. QED
    BY <2>1, <2>2
<1>10. \A c \in 1..m-1 : g[c] = f[c] /\ f[c] = {c} \cup Over(f, Parents(cs, c))
  <2>1. \A c \in 1..m-1 : c \in 1..m /\ c # m
    BY <1>6
  <2>. QED
    BY <1>7, <2>1 DEF Lines
<1>11. g[m] = {m} \cup Over(f, Parents(cs, m)) /\ g = [c \in 1..m |-> g[c]]
  BY <1>6
<1>. HIDE DEF g
<1>12. \A c \in 1..m : Over(g, Parents(cs, c)) = Over(f, Parents(cs, c))
  <2>. SUFFICES ASSUME NEW c \in 1..m PROVE Over(g, Parents(cs, c)) = Over(f, Parents(cs, c))
    OBVIOUS
  <2>1. \A p \in Parents(cs, c) : g[p] = f[p]
    BY <1>9, <1>10
  <2>. QED
    BY <2>1, OverAgrees
<1>13. \A c \in 1..m : g[c] = {c} \cup Over(g, Parents(cs, c))
  BY <1>8, <1>10, <1>11, <1>12
<1>. QED
  BY <1>4, <1>11, <1>13 DEF Lines

LEMMA AncestorsAre ==
    ASSUME NEW cs, History(cs)
    PROVE  Lines(cs, Len(cs), Ancestors(cs))
<1>. DEFINE Is(f) == f = [c \in 1..Len(cs) |-> {c} \cup UNION {f[p] : p \in ToSet(cs[c].parents)}]
            h == CHOOSE f : Is(f)
<1>1. Ancestors(cs) = h
  BY DEF Ancestors
<1>2. PICK f : Lines(cs, Len(cs), f)
  BY LinesExist
<1>3. Is(f)
  <2>1. f = [c \in 1..Len(cs) |-> {c} \cup Over(f, Parents(cs, c))]
    BY <1>2 DEF Lines
  <2>. QED
    BY <2>1 DEF Over, Parents
<1>4. Is(h)
  <2>. HIDE DEF Is
  <2>. QED
    BY <1>3
<1>. HIDE DEF h
<1>5. h = [c \in 1..Len(cs) |-> {c} \cup Over(h, Parents(cs, c))]
  BY <1>4 DEF Over, Parents
<1>6. \A c \in 1..Len(cs) : h[c] = {c} \cup Over(h, Parents(cs, c))
  BY <1>5
<1>7. h = [c \in 1..Len(cs) |-> h[c]]
  BY <1>5
<1>. QED
  BY <1>1, <1>6, <1>7 DEF Lines

(* A commit descends from itself, from earlier commits only, and from all  *)
(* that its ancestors descend from.                                        *)
LEMMA Descent ==
    ASSUME NEW cs, History(cs)
    PROVE  \A c \in 1..Len(cs) :
              /\ c \in Ancestors(cs)[c]
              /\ Ancestors(cs)[c] \subseteq 1..c
              /\ \A p \in Parents(cs, c) : p \in Ancestors(cs)[c]
              /\ \A b \in Ancestors(cs)[c] : Ancestors(cs)[b] \subseteq Ancestors(cs)[c]
<1>. DEFINE N == Len(cs)
            anc == Ancestors(cs)
            Down(c) == anc[c] \subseteq 1..c /\ \A b \in anc[c] : anc[b] \subseteq anc[c]
<1>1. N \in Nat /\ \A c \in 1..N : Parents(cs, c) \subseteq 1..c-1
  BY DEF History
<1>2. \A c \in 1..N : anc[c] = {c} \cup Over(anc, Parents(cs, c))
  BY AncestorsAre DEF Lines
<1>. HIDE DEF N, anc
<1>3. \A c \in 1..N : \A b : b \in anc[c] <=> b = c \/ \E p \in Parents(cs, c) : b \in anc[p]
  BY <1>2 DEF Over
<1>4. \A c \in 1..N : c \in anc[c]
  BY <1>2
<1>5. \A c \in 1..N : \A p \in Parents(cs, c) : p \in 1..N /\ p < c /\ p \in anc[c]
  <2>. SUFFICES ASSUME NEW c \in 1..N, NEW p \in Parents(cs, c)
                PROVE  p \in 1..N /\ p < c /\ p \in anc[c]
    OBVIOUS
  <2>1. p \in 1..N /\ p < c
    BY <1>1
  <2>. QED
    BY <1>3, <1>4, <2>1
<1>. DEFINE S == {c \in 1..N : ~ Down(c)}
<1>6. S = {}
  <2>. SUFFICES ASSUME S # {} PROVE FALSE
    OBVIOUS
  <2>1. PICK c \in S : \A n \in S : c <= n
    <3>1. S \in SUBSET Nat
      BY <1>1
    <3>. HIDE DEF S
    <3>. QED
      BY <3>1, Smallest
  <2>2. c \in 1..N /\ ~ Down(c) /\ c \in Nat
    BY <1>1
  <2>3. \A p \in Parents(cs, c) : p \in 1..N /\ p < c /\ Down(p)
    <3>. SUFFICES ASSUME NEW p \in Parents(cs, c) PROVE p \in 1..N /\ p < c /\ Down(p)
      OBVIOUS
    <3>1. p \in 1..N /\ p < c
      BY <1>5, <2>2
    <3>2. ~ (p \in S)
      BY <1>1, <2>1, <2>2, <3>1
    <3>. QED
      BY <3>1, <3>2
  <2>. HIDE DEF S
  <2>4. anc[c] \subseteq 1..c
    <3>. SUFFICES ASSUME NEW b \in anc[c], b # c PROVE b \in 1..c
      BY <1>1, <2>2
    <3>1. PICK p \in Parents(cs, c) : b \in anc[p]
      BY <1>3, <2>2
    <3>2. b \in 1..p /\ p \in 1..N /\ p < c
      BY <2>3, <3>1
    <3>. QED
      BY <1>1, <2>2, <3>2
  <2>5. ASSUME NEW b \in anc[c], NEW a \in anc[b] PROVE a \in anc[c]
    <3>1. CASE b = c
      BY <2>5, <3>1
    <3>2. CASE b # c
      <4>1. PICK p \in Parents(cs, c) : b \in anc[p]
        BY <1>3, <2>2, <2>5, <3>2
      <4>2. a \in anc[p]
        BY <2>3, <2>5, <4>1
      <4>. QED
        BY <1>3, <2>2, <4>1, <4>2
    <3>. QED
      BY <3>1, <3>2
  <2>. QED
    BY <2>2, <2>4, <2>5
<1>7. \A c \in 1..N : Down(c)
  BY <1>6, Zenon
<1>. QED
  BY <1>4, <1>5, <1>7 DEF N, anc

\* cs2 has the commits of cs, and perhaps more.
Extends(cs, cs2) ==
    /\ Len(cs) <= Len(cs2)
    /\ \A c \in 1..Len(cs) : cs2[c] = cs[c]

(* New commits change no ancestors of old ones.                            *)
LEMMA SameAncestors ==
    ASSUME NEW cs, NEW cs2, History(cs), History(cs2), Extends(cs, cs2)
    PROVE  \A c \in 1..Len(cs) : Ancestors(cs2)[c] = Ancestors(cs)[c]
<1>. DEFINE N == Len(cs)
            f == Ancestors(cs)
            g == Ancestors(cs2)
<1>1. /\ N \in Nat /\ Len(cs2) \in Nat /\ N <= Len(cs2)
      /\ \A c \in 1..N : Parents(cs, c) \subseteq 1..c-1 /\ Parents(cs2, c) = Parents(cs, c)
  BY DEF History, Extends, Parents
<1>2. \A c \in 1..N : f[c] = {c} \cup Over(f, Parents(cs, c))
  BY AncestorsAre DEF Lines
<1>3. \A c \in 1..N : g[c] = {c} \cup Over(g, Parents(cs, c))
  <2>1. \A c \in 1..Len(cs2) : g[c] = {c} \cup Over(g, Parents(cs2, c))
    BY AncestorsAre DEF Lines
  <2>2. \A c \in 1..N : c \in 1..Len(cs2)
    BY <1>1
  <2>. QED
    BY <1>1, <2>1, <2>2
<1>. HIDE DEF N, f, g
<1>. DEFINE S == {c \in 1..N : g[c] # f[c]}
<1>4. S = {}
  <2>. SUFFICES ASSUME S # {} PROVE FALSE
    OBVIOUS
  <2>1. PICK c \in S : \A n \in S : c <= n
    <3>1. S \in SUBSET Nat
      BY <1>1
    <3>. HIDE DEF S
    <3>. QED
      BY <3>1, Smallest
  <2>2. c \in 1..N /\ g[c] # f[c] /\ c \in Nat
    BY <1>1
  <2>3. \A p \in Parents(cs, c) : g[p] = f[p]
    <3>. SUFFICES ASSUME NEW p \in Parents(cs, c), g[p] # f[p] PROVE FALSE
      OBVIOUS
    <3>1. p \in 1..c-1
      BY <1>1, <2>2
    <3>2. p \in 1..N /\ ~ (c <= p)
      BY <1>1, <2>2, <3>1
    <3>3. p \in S
      BY <3>2
    <3>. QED
      BY <2>1, <3>2, <3>3
  <2>. HIDE DEF S
  <2>4. Over(g, Parents(cs, c)) = Over(f, Parents(cs, c))
    BY <2>3, OverAgrees
  <2>. QED
    BY <1>2, <1>3, <2>2, <2>4
<1>5. \A c \in 1..N : g[c] = f[c]
  BY <1>4, Zenon
<1>. QED
  BY <1>5 DEF N, f, g

-----------------------------------------------------------------------------
(* Repositories.                                                           *)

Repos == [commits : Seq(Commit), tip : [Branches -> Nat], head : Branches,
          work : Trees, merging : Nat, ok : BOOLEAN]

Formed(r) ==
    /\ r \in Repos
    /\ History(r.commits)
    /\ \A b \in Branches : r.tip[b] <= Len(r.commits)
    /\ r.tip[r.head] # 0
    /\ r.merging <= Len(r.commits)

Clean(r) == r.merging = 0 => r.work = Tree(r, r.tip[r.head])

\* From r to q branches move to descendants of their commits only.
Grows(r, q) ==
    /\ Extends(r.commits, q.commits)
    /\ \A b \in Branches : r.tip[b] # 0 =>
          q.tip[b] # 0 /\ r.tip[b] \in Ancestors(q.commits)[q.tip[b]]

(* The commit a branch is at.                                              *)
LEMMA Tips ==
    ASSUME NEW r, Formed(r)
    PROVE  /\ r.commits \in Seq(Commit) /\ Len(r.commits) \in Nat /\ r.ok \in BOOLEAN
           /\ r.head \in Branches /\ r.work \in Trees /\ r.merging \in Nat
           /\ \A b \in Branches : r.tip[b] \in Nat /\ (r.tip[b] # 0 => r.tip[b] \in 1..Len(r.commits))
           /\ \A c \in 1..Len(r.commits) : Tree(r, c) \in Trees
           /\ r.tip[r.head] \in 1..Len(r.commits)
<1>1. /\ r.commits \in Seq(Commit) /\ r.ok \in BOOLEAN
      /\ r.head \in Branches /\ r.work \in Trees /\ r.merging \in Nat
      /\ r.tip \in [Branches -> Nat]
  BY DEF Formed, Repos
<1>2. Len(r.commits) \in Nat /\ \A c \in 1..Len(r.commits) : r.commits[c] \in Commit
  BY <1>1
<1>3. \A c \in 1..Len(r.commits) : Tree(r, c) \in Trees
  BY <1>2 DEF Tree, Commit
<1>4. \A b \in Branches : r.tip[b] \in Nat /\ (r.tip[b] # 0 => r.tip[b] \in 1..Len(r.commits))
  BY <1>1, <1>2 DEF Formed
<1>. QED
  BY <1>1, <1>2, <1>3, <1>4 DEF Formed

LEMMA GrowsSame ==
    ASSUME NEW r, NEW q, Formed(r), q.commits = r.commits,
           \A b \in Branches : r.tip[b] # 0 => q.tip[b] = r.tip[b]
    PROVE  Grows(r, q)
<1>1. History(r.commits) /\ Len(r.commits) \in Nat
  BY DEF Formed, History
<1>2. \A b \in Branches : r.tip[b] # 0 => r.tip[b] \in 1..Len(r.commits)
  BY <1>1 DEF Formed, Repos
<1>3. \A b \in Branches : r.tip[b] # 0 => r.tip[b] \in Ancestors(r.commits)[r.tip[b]]
  BY <1>1, <1>2, Descent
<1>. QED
  BY <1>1, <1>3 DEF Grows, Extends

LEMMA GrowsTwice ==
    ASSUME NEW r, NEW q, NEW u, Formed(r), Formed(q), Formed(u), Grows(r, q), Grows(q, u)
    PROVE  Grows(r, u)
<1>1. /\ History(r.commits) /\ History(q.commits) /\ History(u.commits)
      /\ Len(r.commits) \in Nat /\ Len(q.commits) \in Nat /\ Len(u.commits) \in Nat
  BY DEF Formed, History
<1>2. Extends(r.commits, u.commits)
  BY <1>1 DEF Grows, Extends
<1>3. ASSUME NEW b \in Branches, r.tip[b] # 0
      PROVE  u.tip[b] # 0 /\ r.tip[b] \in Ancestors(u.commits)[u.tip[b]]
  <2>1. /\ q.tip[b] # 0 /\ r.tip[b] \in Ancestors(q.commits)[q.tip[b]]
        /\ u.tip[b] # 0 /\ q.tip[b] \in Ancestors(u.commits)[u.tip[b]]
    BY <1>3 DEF Grows
  <2>2. q.tip[b] \in 1..Len(q.commits) /\ u.tip[b] \in 1..Len(u.commits)
    BY <2>1, Tips
  <2>3. Ancestors(u.commits)[q.tip[b]] = Ancestors(q.commits)[q.tip[b]]
    BY <1>1, <2>2, SameAncestors DEF Grows
  <2>4. Ancestors(u.commits)[q.tip[b]] \subseteq Ancestors(u.commits)[u.tip[b]]
    BY <1>1, <2>1, <2>2, Descent
  <2>. QED
    BY <2>1, <2>3, <2>4
<1>. QED
  BY <1>2, <1>3 DEF Grows


-----------------------------------------------------------------------------
(* The commands.                                                           *)

\* r is a repository between calls.
Sound(r) == Formed(r) /\ Clean(r)

(* A failed command changes nothing.                                       *)
LEMMA FailedIs ==
    ASSUME NEW r, Formed(r)
    PROVE  LET q == Failed(r)
           IN  /\ Formed(q) /\ (Clean(r) => Clean(q)) /\ ~ q.ok /\ Grows(r, q)
               /\ q.commits = r.commits /\ q.tip = r.tip /\ q.head = r.head /\ q.work = r.work
               /\ q.merging = r.merging
<1>. DEFINE q == Failed(r)
<1>1. /\ q \in Repos /\ q.ok = FALSE
      /\ q.commits = r.commits /\ q.tip = r.tip /\ q.head = r.head /\ q.work = r.work
      /\ q.merging = r.merging
  BY DEF Failed, Formed, Repos
<1>. HIDE DEF q
<1>2. Formed(q) /\ (Clean(r) => Clean(q))
  BY <1>1 DEF Formed, Clean, Tree
<1>3. Grows(r, q)
  BY <1>1, GrowsSame
<1>. QED
  BY <1>1, <1>2, <1>3 DEF q

LEMMA CheckoutIs ==
    ASSUME NEW r, Formed(r), NEW b \in Branches
    PROVE  LET q == Checkout(r, b)
           IN  /\ Formed(q) /\ (Clean(r) => Clean(q)) /\ Grows(r, q)
               /\ q.commits = r.commits /\ q.tip = r.tip
               /\ q.ok => r.ok /\ q.head = b /\ q.merging = 0 /\ Clean(q)
<1>1. CASE ~ (r.ok /\ r.tip[b] # 0 /\ r.merging = 0)
  BY <1>1, FailedIs DEF Checkout
<1>2. CASE r.ok /\ r.tip[b] # 0 /\ r.merging = 0
  <2>. DEFINE w == Tree(r, r.tip[b])
              q == [r EXCEPT !.head = b, !.work = w]
  <2>1. Checkout(r, b) = q
    BY <1>2 DEF Checkout
  <2>2. w \in Trees
    BY <1>2, Tips
  <2>. HIDE DEF w
  <2>3. /\ q \in Repos /\ q.commits = r.commits /\ q.tip = r.tip /\ q.head = b /\ q.work = w
        /\ q.merging = r.merging /\ q.ok = r.ok
    BY <2>2 DEF Formed, Repos
  <2>. HIDE DEF q
  <2>4. Formed(q)
    BY <1>2, <2>3 DEF Formed
  <2>5. Clean(q)
    BY <2>3 DEF Clean, Tree, w
  <2>6. Grows(r, q)
    BY <2>3, GrowsSame
  <2>. QED
    BY <1>2, <2>1, <2>3, <2>4, <2>5, <2>6
<1>. QED
  BY <1>1, <1>2

LEMMA WrittenIs ==
    ASSUME NEW r, Formed(r), NEW b \in Branches, NEW k \in Keys, NEW v \in Contents
    PROVE  LET q == Written(r, b, k, v)
           IN  /\ Formed(q) /\ Grows(r, q) /\ (~ q.ok => q = r)
               /\ q.commits = r.commits /\ q.tip = r.tip /\ q.head = r.head
               /\ q.merging = r.merging /\ q.ok = r.ok
               /\ \A f \in Files : f # <<b, k>> => q.work[f] = r.work[f]
<1>1. CASE ~ r.ok
  <2>1. Grows(r, r)
    BY GrowsSame
  <2>. QED
    BY <1>1, <2>1 DEF Written
<1>2. CASE r.ok
  <2>. DEFINE w == [r.work EXCEPT ![<<b, k>>] = v]
              q == [r EXCEPT !.work = w]
  <2>1. Written(r, b, k, v) = q
    BY <1>2 DEF Written
  <2>2. w \in Trees /\ \A f \in Files : f # <<b, k>> => w[f] = r.work[f]
    <3>1. r.work \in Trees
      BY Tips
    <3>. QED
      BY <3>1 DEF Trees
  <2>. HIDE DEF w
  <2>3. /\ q \in Repos /\ q.commits = r.commits /\ q.tip = r.tip /\ q.head = r.head /\ q.work = w
        /\ q.merging = r.merging /\ q.ok = r.ok
    BY <2>2 DEF Formed, Repos
  <2>. HIDE DEF q
  <2>4. Formed(q)
    BY <2>3 DEF Formed
  <2>5. Grows(r, q)
    BY <2>3, GrowsSame
  <2>. QED
    BY <1>2, <2>1, <2>2, <2>3, <2>4, <2>5
<1>. QED
  BY <1>1, <1>2

(* A commit moves the branch that is checked out, to a child.              *)
LEMMA CommitAllIs ==
    ASSUME NEW r, Formed(r)
    PROVE  LET q == CommitAll(r)
           IN  /\ Formed(q) /\ Grows(r, q) /\ q.head = r.head
               /\ r.ok \/ Clean(r) => Clean(q)
               /\ Extends(r.commits, q.commits)
               /\ \A b \in Branches : b # r.head => q.tip[b] = r.tip[b]
               /\ q.tip[r.head] = r.tip[r.head] \/ Tree(q, q.tip[r.head]) = r.work
<1>1. CASE ~ (r.ok /\ (r.merging # 0 \/ r.work # Tree(r, r.tip[r.head])))
  <2>1. CommitAll(r) = Failed(r)
    BY <1>1 DEF CommitAll
  <2>2. r.ok => Clean(r)
    BY <1>1 DEF Clean
  <2>3. Extends(r.commits, r.commits)
    BY Tips DEF Extends
  <2>. QED
    BY <2>1, <2>2, <2>3, FailedIs
<1>2. CASE r.ok /\ (r.merging # 0 \/ r.work # Tree(r, r.tip[r.head]))
  <2>. DEFINE merged == IF r.merging = 0 THEN <<>> ELSE <<r.merging>>
              parents == <<r.tip[r.head]>> \o merged
              commit == [tree |-> r.work, parents |-> parents]
              cs == Append(r.commits, commit)
              n == Len(r.commits) + 1
              t == [r.tip EXCEPT ![r.head] = n]
              q == [r EXCEPT !.commits = cs, !.tip = t, !.merging = 0]
  <2>1. CommitAll(r) = q
    BY <1>2 DEF CommitAll
  <2>2. /\ r.commits \in Seq(Commit) /\ Len(r.commits) \in Nat /\ r.ok \in BOOLEAN
        /\ r.head \in Branches /\ r.work \in Trees /\ r.merging \in Nat
        /\ r.tip[r.head] \in 1..Len(r.commits) /\ r.merging <= Len(r.commits)
        /\ r.tip \in [Branches -> Nat]
    BY Tips DEF Formed, Repos
  <2>3. parents \in Seq(Nat) /\ ToSet(parents) \subseteq 1..n-1 /\ r.tip[r.head] \in ToSet(parents)
    <3>1. CASE r.merging = 0
      <4>1. parents = <<r.tip[r.head]>>
        BY <3>1
      <4>. QED
        BY <2>2, <4>1 DEF ToSet
    <3>2. CASE r.merging # 0
      <4>. DEFINE a == r.tip[r.head]
                  b == r.merging
      <4>0. parents = <<a>> \o <<b>>
        BY <3>2
      <4>1. a \in 1..Len(r.commits) /\ b \in 1..Len(r.commits) /\ a \in Nat /\ b \in Nat
        BY <2>2, <3>2
      <4>. HIDE DEF a, b, parents
      <4>2. <<a>> \in Seq(Nat) /\ <<b>> \in Seq(Nat)
        BY <4>1
      <4>3. /\ parents \in Seq(Nat) /\ DOMAIN parents = 1..2
            /\ parents[1] = a /\ parents[2] = b
        BY <4>0, <4>1, <4>2
      <4>4. ToSet(parents) = {a, b}
        BY <4>3 DEF ToSet
      <4>. QED
        BY <2>2, <4>1, <4>3, <4>4 DEF a
    <3>. QED
      BY <3>1, <3>2
  <2>. HIDE DEF merged, parents
  <2>4. commit \in Commit /\ commit.parents = parents /\ commit.tree = r.work
    BY <2>2, <2>3 DEF Commit
  <2>. HIDE DEF commit
  <2>5. /\ cs \in Seq(Commit) /\ Len(cs) = n /\ cs[n] = commit
        /\ \A c \in 1..Len(r.commits) : cs[c] = r.commits[c]
    BY <2>2, <2>4
  <2>. HIDE DEF cs
  <2>6. n \in Nat /\ n = Len(r.commits) + 1 /\ \A c \in 1..n : c = n \/ c \in 1..Len(r.commits)
    BY <2>2
  <2>. HIDE DEF n
  <2>7. History(cs)
    <3>1. \A c \in 1..Len(r.commits) : Parents(cs, c) \subseteq 1..c-1
      BY <2>5 DEF Formed, History, Parents
    <3>2. Parents(cs, n) \subseteq 1..n-1
      BY <2>3, <2>4, <2>5 DEF Parents
    <3>. QED
      BY <2>5, <2>6, <3>1, <3>2 DEF History
  <2>8. Extends(r.commits, cs)
    BY <2>2, <2>5, <2>6 DEF Extends
  <2>9. t \in [Branches -> Nat] /\ t[r.head] = n /\ \A b \in Branches : b # r.head => t[b] = r.tip[b]
    BY <2>2, <2>6
  <2>. HIDE DEF t
  <2>10. /\ q \in Repos /\ q.commits = cs /\ q.tip = t /\ q.head = r.head /\ q.work = r.work
         /\ q.merging = 0 /\ q.ok = r.ok
    BY <2>2, <2>5, <2>9 DEF Formed, Repos
  <2>. HIDE DEF q
  <2>11. Formed(q)
    <3>1. \A b \in Branches : r.tip[b] \in Nat /\ r.tip[b] <= Len(r.commits)
      BY <2>2 DEF Formed
    <3>2. \A b \in Branches : t[b] <= n
      BY <2>2, <2>6, <2>9, <3>1
    <3>. QED
      BY <2>2, <2>5, <2>6, <2>7, <2>9, <2>10, <3>2 DEF Formed
  <2>12. Tree(q, q.tip[r.head]) = r.work
    BY <2>4, <2>5, <2>9, <2>10 DEF Tree
  <2>13. Clean(q)
    BY <2>10, <2>12 DEF Clean
  <2>14. Grows(r, q)
    <3>1. n \in 1..Len(cs)
      BY <2>5, <2>6
    <3>2. r.tip[r.head] \in Ancestors(cs)[n]
      <4>1. r.tip[r.head] \in Parents(cs, n)
        BY <2>3, <2>4, <2>5 DEF Parents
      <4>. QED
        BY <2>7, <3>1, <4>1, Descent
    <3>3. ASSUME NEW b \in Branches, r.tip[b] # 0
          PROVE  t[b] # 0 /\ r.tip[b] \in Ancestors(cs)[t[b]]
      <4>1. CASE b = r.head
        BY <2>2, <2>6, <2>9, <3>2, <4>1
      <4>2. CASE b # r.head
        <5>1. r.tip[b] \in 1..Len(cs)
          BY <2>2, <2>5, <2>6, <3>3, Tips
        <5>. QED
          BY <2>7, <2>9, <3>3, <4>2, <5>1, Descent
      <4>. QED
        BY <4>1, <4>2
    <3>. QED
      BY <2>8, <2>10, <3>3 DEF Grows
  <2>. QED
    BY <2>1, <2>8, <2>9, <2>10, <2>11, <2>12, <2>13, <2>14
<1>. QED
  BY <1>1, <1>2

-----------------------------------------------------------------------------
(* Calls.                                                                  *)

\* From r to q nothing is lost or left uncommitted, and the branches that
\* are not in B stay where they are.
Moves(r, q, B) ==
    /\ Sound(q) /\ Grows(r, q)
    /\ \A b \in Branches : b \notin B => q.tip[b] = r.tip[b]

LEMMA MovesTwice ==
    ASSUME NEW r, NEW q, NEW u, NEW B, Sound(r), Moves(r, q, B), Moves(q, u, B)
    PROVE  Moves(r, u, B)
BY GrowsTwice DEF Moves, Sound

LEMMA MovesNot ==
    ASSUME NEW r, NEW B, Sound(r)
    PROVE  Moves(r, r, B) /\ Moves(r, Failed(r), B)
BY GrowsSame, FailedIs DEF Moves, Sound

(* A branch that stays where it is reads as before.                        *)
LEMMA ReadsSame ==
    ASSUME NEW r, NEW q, NEW B, Sound(r), Moves(r, q, B)
    PROVE  \A b \in Branches : b \notin B => Space(q, b) = Space(r, b)
<1>. SUFFICES ASSUME NEW b \in Branches, b \notin B PROVE Space(q, b) = Space(r, b)
  OBVIOUS
<1>1. q.tip[b] = r.tip[b] /\ Extends(r.commits, q.commits)
  BY DEF Moves, Grows
<1>2. r.tip[b] # 0 => Tree(q, r.tip[b]) = Tree(r, r.tip[b])
  <2>1. r.tip[b] # 0 => r.tip[b] \in 1..Len(r.commits)
    BY Tips DEF Sound
  <2>. QED
    BY <1>1, <2>1 DEF Extends, Tree
<1>3. \A k \in Keys : Get(q, b, k) = Get(r, b, k)
  BY <1>1, <1>2 DEF Get
<1>. QED
  BY <1>3 DEF Space

(* A commit of the branch that is checked out, whatever is in the working  *)
(* tree.                                                                   *)
LEMMA CommitMoves ==
    ASSUME NEW r, Formed(r), r.ok \/ Clean(r)
    PROVE  Moves(r, CommitAll(r), {r.head}) /\ CommitAll(r).head = r.head
<1>. DEFINE q == CommitAll(r)
<1>1. /\ Formed(q) /\ Grows(r, q) /\ q.head = r.head /\ Clean(q)
      /\ \A b \in Branches : b # r.head => q.tip[b] = r.tip[b]
  BY CommitAllIs
<1>. HIDE DEF q
<1>2. Moves(r, q, {r.head})
  BY <1>1 DEF Moves, Sound
<1>. QED
  BY <1>1, <1>2 DEF q

(* The same with another working tree or merge.                            *)
LEMMA CommitWorkMoves ==
    ASSUME NEW r, Sound(r), NEW u \in Repos, u.merging <= Len(r.commits), u.ok,
           u.commits = r.commits, u.tip = r.tip, u.head = r.head
    PROVE  Formed(u) /\ Moves(r, CommitAll(u), {r.head}) /\ CommitAll(u).head = r.head
<1>1. Formed(u)
  BY DEF Sound, Formed
<1>2. Moves(u, CommitAll(u), {r.head}) /\ CommitAll(u).head = r.head
  BY <1>1, CommitMoves
<1>3. Grows(r, u)
  BY GrowsSame DEF Sound
<1>. QED
  BY <1>1, <1>2, <1>3, GrowsTwice DEF Moves, Sound

LEMMA CheckoutMoves ==
    ASSUME NEW r, Sound(r), NEW b \in Branches
    PROVE  LET q == Checkout(r, b)
           IN  /\ Moves(r, q, {}) /\ q.commits = r.commits
               /\ q.ok => r.ok /\ q.head = b /\ q.merging = 0
BY CheckoutIs DEF Moves, Sound

(* A merge takes files from one of the sides, or marks them.               *)
LEMMA ThreeWayIs ==
    ASSUME NEW r, Formed(r), NEW s \in 1..Len(r.commits), NEW t \in 1..Len(r.commits)
    PROVE  ThreeWay(r, s, t) \in Trees
<1>. DEFINE ours == Tree(r, t)
            theirs == Tree(r, s)
            base == Tree(r, MergeBase(r, s, t))
            C == Conflicts(r, s, t)
<1>1. ours \in Trees /\ theirs \in Trees
  BY Tips
<1>2. ThreeWay(r, s, t) =
        [f \in Files |-> IF f \in C
                         THEN CASE ours[f] = None -> theirs[f]
                                [] theirs[f] = None -> ours[f]
                                [] OTHER -> Garbled
                         ELSE IF theirs[f] = base[f] THEN ours[f] ELSE theirs[f]]
  BY DEF ThreeWay
<1>. HIDE DEF ours, theirs, base, C
<1>3. \A f \in Files : ours[f] \in Contents /\ theirs[f] \in Contents /\ Garbled \in Contents
  BY <1>1 DEF Trees, Contents
<1>4. ASSUME NEW f \in Files
      PROVE  (IF f \in C THEN CASE ours[f] = None -> theirs[f]
                                [] theirs[f] = None -> ours[f]
                                [] OTHER -> Garbled
              ELSE IF theirs[f] = base[f] THEN ours[f] ELSE theirs[f]) \in Contents
  BY <1>3
<1>. QED
  BY <1>2, <1>4 DEF Trees

LEMMA GitMergeMoves ==
    ASSUME NEW r, Sound(r), NEW source \in Branches
    PROVE  LET q == GitMerge(r, source)
           IN  Moves(r, q, {r.head}) /\ q.head = r.head
<1>. DEFINE s == r.tip[source]
            t == r.tip[r.head]
            anc == Ancestors(r.commits)
            w == ThreeWay(r, s, t)
            merged == [r EXCEPT !.merging = s, !.work = w]
            q == GitMerge(r, source)
<1>1. /\ Formed(r) /\ r.head \in Branches /\ t \in 1..Len(r.commits)
      /\ s \in Nat /\ (s # 0 => s \in 1..Len(r.commits)) /\ Len(r.commits) \in Nat
      /\ r.tip \in [Branches -> Nat]
  BY Tips DEF Sound, Formed, Repos
<1>2. CASE ~ r.ok \/ s = 0
  <2>1. q = Failed(r)
    BY <1>2 DEF GitMerge
  <2>. QED
    BY <1>1, <2>1, FailedIs DEF Moves, Sound
<1>3. CASE r.ok /\ s # 0 /\ s \in anc[t]
  <2>1. q = r
    BY <1>3 DEF GitMerge
  <2>. QED
    BY <2>1, MovesNot
<1>4. CASE r.ok /\ s # 0 /\ s \notin anc[t] /\ t \in anc[s]
  <2>. DEFINE p == [r.tip EXCEPT ![r.head] = s]
              v == Tree(r, s)
              u == [r EXCEPT !.tip = p, !.work = v]
  <2>1. q = u
    BY <1>1, <1>4 DEF GitMerge
  <2>2. v \in Trees
    BY <1>1, <1>4, Tips
  <2>3. p \in [Branches -> Nat] /\ p[r.head] = s /\ \A b \in Branches : b # r.head => p[b] = r.tip[b]
    BY <1>1
  <2>. HIDE DEF p, v
  <2>4. /\ u \in Repos /\ u.commits = r.commits /\ u.tip = p /\ u.head = r.head /\ u.work = v
        /\ u.merging = r.merging
    BY <2>2, <2>3 DEF Sound, Formed, Repos
  <2>. HIDE DEF u
  <2>5. s \in 1..Len(r.commits)
    BY <1>1, <1>4
  <2>. HIDE DEF s, q
  <2>6. Formed(u)
    BY <1>1, <2>3, <2>4, <2>5 DEF Formed
  <2>7. Clean(u)
    BY <2>3, <2>4 DEF Clean, Tree, v
  <2>8. Grows(r, u)
    <3>1. History(r.commits) /\ Extends(r.commits, r.commits)
      BY <1>1 DEF Formed, Extends
    <3>2. ASSUME NEW b \in Branches, r.tip[b] # 0
          PROVE  p[b] # 0 /\ r.tip[b] \in anc[p[b]]
      <4>1. CASE b = r.head
        BY <1>4, <2>3, <2>5, <4>1
      <4>2. CASE b # r.head
        <5>1. r.tip[b] \in 1..Len(r.commits)
          BY <1>1, <3>2, Tips
        <5>. QED
          BY <2>3, <3>1, <3>2, <4>2, <5>1, Descent
      <4>. QED
        BY <4>1, <4>2
    <3>. QED
      BY <2>4, <3>1, <3>2 DEF Grows
  <2>. QED
    BY <2>1, <2>3, <2>4, <2>6, <2>7, <2>8 DEF Moves, Sound, q
<1>5. CASE r.ok /\ s # 0 /\ s \notin anc[t] /\ t \notin anc[s]
  <2>1. q = (IF Conflicts(r, s, t) = {} THEN CommitAll(merged) ELSE Failed(merged))
    BY <1>5 DEF GitMerge
  <2>2. w \in Trees /\ s \in 1..Len(r.commits) /\ s \in Nat /\ s <= Len(r.commits)
    BY <1>1, <1>5, ThreeWayIs
  <2>. HIDE DEF w, s, q
  <2>3. /\ merged \in Repos /\ merged.merging = s /\ merged.ok = r.ok
        /\ merged.commits = r.commits /\ merged.tip = r.tip /\ merged.head = r.head
    BY <2>2 DEF Sound, Formed, Repos
  <2>. HIDE DEF merged
  <2>4. Formed(merged) /\ Moves(r, CommitAll(merged), {r.head}) /\ CommitAll(merged).head = r.head
    BY <1>5, <2>2, <2>3, CommitWorkMoves
  <2>5. Clean(merged)
    BY <2>2, <2>3 DEF Clean
  <2>6. Moves(r, Failed(merged), {r.head}) /\ Failed(merged).head = r.head
    <3>1. Grows(r, merged)
      BY <1>1, <2>3, GrowsSame
    <3>2. Moves(r, merged, {r.head})
      BY <2>3, <2>4, <2>5, <3>1 DEF Moves, Sound
    <3>3. Moves(merged, Failed(merged), {r.head}) /\ Failed(merged).head = r.head
      BY <2>3, <2>4, <2>5, MovesNot, FailedIs DEF Sound
    <3>. QED
      BY <3>2, <3>3, MovesTwice
  <2>. QED
    BY <2>1, <2>4, <2>6 DEF q
<1>. QED
  BY <1>1, <1>2, <1>3, <1>4, <1>5

LEMMA ResolveMoves ==
    ASSUME NEW r, Sound(r), NEW policy
    PROVE  LET q == Resolve(r, policy)
           IN  Moves(r, q, {r.head}) /\ q.head = r.head
<1>. DEFINE s == r.merging
            t == r.tip[r.head]
            side == Tree(r, IF policy = "theirs" THEN s ELSE t)
            C == Conflicts(r, s, t)
            w == [f \in Files |-> IF f \in C THEN side[f] ELSE r.work[f]]
            u == [r EXCEPT !.ok = TRUE, !.work = w]
            q == Resolve(r, policy)
<1>1. /\ Formed(r) /\ t \in 1..Len(r.commits) /\ r.work \in Trees /\ s \in Nat
      /\ s <= Len(r.commits) /\ Len(r.commits) \in Nat
  BY Tips DEF Sound, Formed
<1>2. CASE s = 0 \/ \E f \in C : side[f] = None
  <2>1. q = Failed(r)
    BY <1>2 DEF Resolve
  <2>. QED
    BY <1>1, <2>1, MovesNot, FailedIs
<1>3. CASE s # 0 /\ ~ \E f \in C : side[f] = None
  <2>1. q = CommitAll(u)
    BY <1>3 DEF Resolve
  <2>2. (IF policy = "theirs" THEN s ELSE t) \in 1..Len(r.commits)
    BY <1>1, <1>3
  <2>3. side \in Trees
    BY <1>1, <2>2, Tips
  <2>. HIDE DEF side, C
  <2>4. w \in Trees
    BY <1>1, <2>3 DEF Trees
  <2>. HIDE DEF w, q
  <2>5. /\ u \in Repos /\ u.merging = s /\ u.ok = TRUE
        /\ u.commits = r.commits /\ u.tip = r.tip /\ u.head = r.head
    BY <2>4 DEF Sound, Formed, Repos
  <2>. HIDE DEF u
  <2>6. Moves(r, CommitAll(u), {r.head}) /\ CommitAll(u).head = r.head
    BY <1>1, <2>5, CommitWorkMoves
  <2>. QED
    BY <2>1, <2>6 DEF q
<1>. QED
  BY <1>2, <1>3

LEMMA OverlayMoves ==
    ASSUME NEW r, Sound(r), NEW source \in Branches, NEW target, NEW policy, NEW newer
    PROVE  Moves(r, Overlay(r, source, target, policy, newer), {r.head})
<1>. DEFINE copied == {k \in Keys : /\ r.work[<<source, k>>] # None
                                    /\ \/ ~ (r.work[<<target, k>>] # None)
                                       \/ policy = "theirs"
                                       \/ policy = "last_write" /\ k \in newer}
            w == [f \in Files |-> IF f[1] = target /\ f[2] \in copied
                                  THEN r.work[<<source, f[2]>>] ELSE r.work[f]]
            u == [r EXCEPT !.work = w]
            q == Overlay(r, source, target, policy, newer)
<1>1. /\ Formed(r) /\ r.work \in Trees /\ r.merging <= Len(r.commits)
  BY Tips DEF Sound, Formed
<1>2. q = IF ~ r.ok \/ copied = {} THEN r ELSE CommitAll(u)
  BY DEF Overlay
<1>3. copied \subseteq Keys
  OBVIOUS
<1>. HIDE DEF copied
<1>4. w \in Trees
  <2>1. \A f \in Files : f[2] \in copied => <<source, f[2]>> \in Files
    BY <1>3 DEF Files
  <2>. QED
    BY <1>1, <2>1 DEF Trees
<1>. HIDE DEF w, q
<1>5. /\ u \in Repos /\ u.merging = r.merging /\ u.ok = r.ok
      /\ u.commits = r.commits /\ u.tip = r.tip /\ u.head = r.head
  BY <1>4 DEF Sound, Formed, Repos
<1>. HIDE DEF u
<1>6. CASE ~ r.ok \/ copied = {}
  BY <1>2, <1>6, MovesNot DEF q
<1>7. CASE r.ok /\ copied # {}
  <2>1. Moves(r, CommitAll(u), {r.head})
    BY <1>1, <1>5, <1>7, CommitWorkMoves
  <2>. QED
    BY <1>2, <1>7, <2>1 DEF q
<1>. QED
  BY <1>6, <1>7

(* A merge moves its target only.                                          *)
LEMMA MergedMoves ==
    ASSUME NEW r, Sound(r), NEW source \in Branches, NEW target \in Branches,
           NEW policy, NEW open
    PROVE  Moves(r, Merged(r, source, target, policy, open), {target})
<1>. DEFINE on == Checkout(r, target)
            merge == GitMerge(on, source)
            resolved == Resolve(merge, policy)
            done == IF merge.ok \/ ~ on.ok THEN merge ELSE resolved
            out == NewerAfter(r.work, on.work, source, target, open, open)
            newer == IF merge.ok
                     THEN NewerAfter(on.work, merge.work, source, target, out, open) ELSE open
            q == Overlay(done, source, target, policy, newer)
<1>1. Merged(r, source, target, policy, open) = q
  BY DEF Merged
<1>2. Moves(r, on, {}) /\ (on.ok => on.head = target) /\ Sound(on)
  BY CheckoutMoves DEF Moves
<1>. HIDE DEF on
<1>3. CASE ~ on.ok
  <2>1. merge = Failed(on)
    BY <1>3 DEF GitMerge
  <2>2. Moves(r, merge, {target}) /\ ~ merge.ok
    <3>1. Moves(on, merge, {}) /\ ~ merge.ok
      BY <1>2, <2>1, MovesNot, FailedIs DEF Sound
    <3>2. Moves(r, merge, {})
      BY <1>2, <3>1, MovesTwice
    <3>. QED
      BY <3>1, <3>2 DEF Moves
  <2>3. q = merge
    BY <1>3, <2>2 DEF Overlay
  <2>. QED
    BY <1>1, <2>2, <2>3
<1>4. CASE on.ok
  <2>1. Moves(on, merge, {target}) /\ merge.head = target /\ Sound(merge)
    BY <1>2, <1>4, GitMergeMoves DEF Moves
  <2>. HIDE DEF newer, out, merge
  <2>2. Moves(merge, resolved, {target}) /\ resolved.head = target
    BY <2>1, ResolveMoves
  <2>. HIDE DEF resolved
  <2>3. Moves(merge, done, {target}) /\ done.head = target /\ Sound(done)
    BY <2>1, <2>2, MovesNot DEF Moves
  <2>. HIDE DEF done
  <2>4. Moves(done, q, {target})
    BY <2>3, OverlayMoves
  <2>5. Moves(r, on, {target})
    BY <1>2 DEF Moves
  <2>. HIDE DEF q
  <2>6. Moves(r, merge, {target}) /\ Moves(merge, q, {target})
    BY <1>2, <2>1, <2>3, <2>4, <2>5, MovesTwice
  <2>. QED
    BY <1>1, <2>6, MovesTwice
<1>. QED
  BY <1>3, <1>4

(* A write moves the branch that is checked out, and changes the space it  *)
(* names only, also if that is the space of another branch.                *)
LEMMA SetKeyMoves ==
    ASSUME NEW r, Sound(r), NEW b \in Branches, NEW k \in Keys, NEW v \in Contents
    PROVE  LET q == SetKey(r, b, k, v)
           IN  /\ Moves(r, q, {r.head})
               /\ r.merging = 0 => \A c \in Branches \ {b} : Space(q, c) = Space(r, c)
<1>. DEFINE u == Written(r, b, k, v)
            q == SetKey(r, b, k, v)
<1>1. q = CommitAll(u)
  BY DEF SetKey
<1>2. /\ Formed(u) /\ Grows(r, u) /\ (~ u.ok => u = r)
      /\ u.commits = r.commits /\ u.tip = r.tip /\ u.head = r.head
      /\ u.merging = r.merging /\ u.ok = r.ok
      /\ \A f \in Files : f # <<b, k>> => u.work[f] = r.work[f]
  BY WrittenIs DEF Sound
<1>. HIDE DEF u, q
<1>3. u.ok \/ Clean(u)
  BY <1>2, Tips DEF Sound
<1>4. /\ Formed(q) /\ Grows(u, q) /\ Clean(q)
      /\ \A c \in Branches : c # r.head => q.tip[c] = r.tip[c]
      /\ q.tip[r.head] = r.tip[r.head] \/ Tree(q, q.tip[r.head]) = u.work
  BY <1>1, <1>2, <1>3, CommitAllIs
<1>5. Moves(r, q, {r.head})
  BY <1>2, <1>4, GrowsTwice DEF Moves, Sound
<1>6. ASSUME r.merging = 0, NEW c \in Branches, c # b
      PROVE  Space(q, c) = Space(r, c)
  <2>1. CASE c # r.head \/ q.tip[r.head] = r.tip[r.head]
    <3>1. Moves(r, q, {r.head} \ {c})
      BY <1>4, <1>5, <2>1 DEF Moves
    <3>. QED
      BY <3>1, ReadsSame
  <2>2. CASE c = r.head /\ q.tip[r.head] # r.tip[r.head]
    <3>1. r.tip[c] # 0 /\ q.tip[c] # 0
      BY <1>5, <2>2, Tips DEF Moves, Grows, Sound, Formed
    <3>2. Tree(q, q.tip[c]) = u.work /\ Tree(r, r.tip[c]) = r.work
      BY <1>4, <1>6, <2>2 DEF Sound, Clean
    <3>3. \A j \in Keys : <<c, j>> \in Files /\ <<c, j>> # <<b, k>>
      BY <1>6 DEF Files
    <3>4. \A j \in Keys : Get(q, c, j) = Get(r, c, j)
      BY <1>2, <3>1, <3>2, <3>3 DEF Get
    <3>. QED
      BY <3>4 DEF Space
  <2>. QED
    BY <2>1, <2>2
<1>. QED
  BY <1>5, <1>6 DEF q

LEMMA DeleteKeyMoves ==
    ASSUME NEW r, Sound(r), NEW b \in Branches, NEW k \in Keys
    PROVE  LET q == DeleteKey(r, b, k)
           IN  /\ Moves(r, q, {r.head})
               /\ r.merging = 0 => \A c \in Branches \ {b} : Space(q, c) = Space(r, c)
<1>1. DeleteKey(r, b, k) = r \/ DeleteKey(r, b, k) = SetKey(r, b, k, None)
  BY DEF DeleteKey, SetKey
<1>2. None \in Contents
  BY DEF Contents
<1>. QED
  BY <1>1, <1>2, MovesNot, SetKeyMoves

(* branch() makes a branch at the commit of another, and moves none.       *)
LEMMA BranchedMoves ==
    ASSUME NEW r, Sound(r), NEW name \in Branches, NEW base \in Branches
    PROVE  Moves(r, Branched(r, name, base), {name})
<1>. DEFINE on == Checkout(r, base)
            t == [on.tip EXCEPT ![name] = on.tip[base]]
            u == [on EXCEPT !.tip = t]
            created == IF on.ok /\ on.tip[name] = 0 THEN u ELSE on
            q == Checkout(created, name)
<1>1. Branched(r, name, base) = q
  BY DEF Branched
<1>2. Moves(r, on, {name}) /\ Sound(on) /\ (on.ok => on.head = base /\ on.merging = 0)
  BY CheckoutMoves DEF Moves
<1>. HIDE DEF on, q
<1>3. Moves(on, created, {name}) /\ Sound(created)
  <2>1. CASE ~ (on.ok /\ on.tip[name] = 0)
    BY <1>2, <2>1, MovesNot
  <2>2. CASE on.ok /\ on.tip[name] = 0
    <3>1. /\ Formed(on) /\ Clean(on) /\ on.tip \in [Branches -> Nat] /\ on.head = base
          /\ on.tip[base] \in 1..Len(on.commits) /\ on.tip[base] \in Nat
          /\ Len(on.commits) \in Nat
      BY <1>2, <2>2, Tips DEF Sound, Formed, Repos
    <3>2. /\ t \in [Branches -> Nat] /\ t[name] = on.tip[base]
          /\ \A b \in Branches : b # name => t[b] = on.tip[b]
      BY <3>1
    <3>. HIDE DEF t
    <3>3. name # base
      BY <2>2, <3>1
    <3>4. /\ u \in Repos /\ u.commits = on.commits /\ u.tip = t /\ u.head = on.head
          /\ u.work = on.work /\ u.merging = on.merging
      BY <3>1, <3>2 DEF Formed, Repos
    <3>. HIDE DEF u
    <3>5. Formed(u)
      <4>1. \A b \in Branches : u.tip[b] <= Len(u.commits)
        BY <3>1, <3>2, <3>4 DEF Formed
      <4>2. u.tip[u.head] # 0
        BY <3>1, <3>2, <3>3, <3>4
      <4>. QED
        BY <3>1, <3>4, <4>1, <4>2 DEF Formed
    <3>6. Clean(u)
      BY <3>1, <3>2, <3>3, <3>4 DEF Clean, Tree
    <3>7. Grows(on, u)
      BY <2>2, <3>1, <3>2, <3>4, GrowsSame
    <3>. QED
      BY <2>2, <3>2, <3>4, <3>5, <3>6, <3>7 DEF Moves, Sound
  <2>. QED
    BY <2>1, <2>2
<1>. HIDE DEF created
<1>4. Moves(created, q, {name})
  BY <1>3, CheckoutMoves DEF Moves, q
<1>5. Moves(r, created, {name})
  BY <1>2, <1>3, MovesTwice
<1>. QED
  BY <1>1, <1>4, <1>5, MovesTwice

LEMMA RevertedMoves ==
    ASSUME NEW r, Sound(r), NEW target \in Branches, NEW to \in 0..Len(r.commits)
    PROVE  Moves(r, Reverted(r, target, to), {target})
<1>. DEFINE on == Checkout(r, target)
            parents == on.commits[on.tip[on.head]].parents
            ref == IF to # 0 THEN to ELSE IF parents = <<>> THEN 0 ELSE parents[1]
            Back(f) == IF Tree(r, ref)[f] # None THEN Tree(r, ref)[f] ELSE on.work[f]
            w == [f \in Files |-> Back(f)]
            u == [on EXCEPT !.work = w]
            q == Reverted(r, target, to)
<1>1. q = IF ~ on.ok \/ ref = 0 THEN Failed(on) ELSE CommitAll(u)
  BY DEF Reverted
<1>2. /\ Moves(r, on, {target}) /\ Sound(on) /\ (on.ok => on.head = target)
      /\ on.commits = r.commits
  BY CheckoutMoves DEF Moves
<1>. HIDE DEF on, q
<1>3. /\ Formed(on) /\ Formed(r) /\ Len(r.commits) \in Nat /\ History(r.commits)
      /\ on.tip[on.head] \in 1..Len(r.commits) /\ on.work \in Trees
      /\ on.merging <= Len(on.commits) /\ r.commits \in Seq(Commit)
  BY <1>2, Tips DEF Sound, Formed
<1>4. ref # 0 => ref \in 1..Len(r.commits)
  <2>1. CASE to # 0
    BY <1>3, <2>1
  <2>2. CASE to = 0 /\ parents # <<>>
    <3>1. parents[1] \in 1..on.tip[on.head]-1
      BY <1>2, <1>3, <2>2, FirstParent
    <3>2. \A c \in 1..Len(r.commits) : \A p \in 1..c-1 : p \in 1..Len(r.commits)
      BY <1>3
    <3>3. ref = parents[1]
      BY <2>2
    <3>. HIDE DEF parents, ref
    <3>. QED
      BY <1>3, <3>1, <3>2, <3>3
  <2>3. CASE to = 0 /\ parents = <<>>
    BY <2>3
  <2>. QED
    BY <2>1, <2>2, <2>3
<1>. HIDE DEF ref
<1>5. CASE ~ on.ok \/ ref = 0
  <2>1. Moves(on, Failed(on), {target})
    BY <1>2, MovesNot
  <2>. QED
    BY <1>1, <1>2, <1>5, <2>1, MovesTwice DEF q
<1>6. CASE on.ok /\ ref # 0
  <2>1. Tree(r, ref) \in Trees
    BY <1>3, <1>4, <1>6, Tips
  <2>2. w \in Trees
    BY <1>3, <2>1 DEF Trees
  <2>. HIDE DEF w
  <2>3. /\ u \in Repos /\ u.merging = on.merging /\ u.ok = on.ok
        /\ u.commits = on.commits /\ u.tip = on.tip /\ u.head = on.head
    BY <1>3, <2>2 DEF Formed, Repos
  <2>. HIDE DEF u
  <2>4. Moves(on, CommitAll(u), {target})
    BY <1>2, <1>3, <1>6, <2>3, CommitWorkMoves
  <2>. QED
    BY <1>1, <1>2, <1>6, <2>4, MovesTwice DEF q
<1>. QED
  BY <1>5, <1>6

-----------------------------------------------------------------------------
(* Folds.  FoldLeft goes through the sets of indices of its sequence, from *)
(* the empty set to all of them.                                           *)
LEMMA MaxIs ==
    ASSUME NEW m \in Nat, NEW d \in SUBSET (1..m), m \in d
    PROVE  Max(d) = m
<1>1. \A y \in d : y \in Nat /\ m >= y
  OBVIOUS
<1>2. \A x \in d : (\A y \in d : x >= y) => x = m
  BY <1>1
<1>. DEFINE P(x) == \A y \in d : x >= y
<1>3. Max(d) = CHOOSE x \in d : P(x)
  BY DEF Max
<1>4. P(m) /\ \A x \in d : P(x) => x = m
  BY <1>1, <1>2
<1>. HIDE DEF P
<1>5. (CHOOSE x \in d : P(x)) \in d /\ P(CHOOSE x \in d : P(x))
  BY <1>4
<1>. QED
  BY <1>3, <1>4, <1>5

(* The indices up to m, less m, are indices up to m - 1.                   *)
LEMMA LessLast ==
    ASSUME NEW m \in Nat, m # 0, NEW d \in SUBSET (1..m)
    PROVE  /\ m - 1 \in Nat /\ d \ {m} \in SUBSET (1..m-1)
           /\ m \notin d => d \in SUBSET (1..m-1)
OBVIOUS

LEMMA LastIs ==
    ASSUME NEW n \in Nat
    PROVE  \A d \in SUBSET (1..n) : d # {} => Max(d) \in 1..n /\ d \ {Max(d)} \in SUBSET (1..n)
<1>. SUFFICES ASSUME NEW d \in SUBSET (1..n), d # {} PROVE Max(d) \in 1..n
  OBVIOUS
<1>. DEFINE S == {m \in 0..n : d \subseteq 1..m}
<1>1. PICK m \in S : \A x \in S : m <= x
  <2>1. S \in SUBSET Nat /\ n \in S
    OBVIOUS
  <2>. HIDE DEF S
  <2>. QED
    BY <2>1, Smallest
<1>2. m \in Nat /\ d \in SUBSET (1..m) /\ m <= n
  OBVIOUS
<1>3. m # 0
  <2>1. 1..0 = {}
    OBVIOUS
  <2>. QED
    BY <1>2, <2>1
<1>4. m \in d
  <2>. SUFFICES ASSUME m \notin d PROVE FALSE
    OBVIOUS
  <2>1. d \in SUBSET (1..m-1) /\ m - 1 \in 0..n /\ ~ (m <= m - 1)
    BY <1>2, <1>3, LessLast
  <2>. QED
    BY <1>1, <2>1
<1>. QED
  BY <1>2, <1>4, MaxIs

(* What every step of a fold keeps holds of its result.                    *)
LEMMA FoldKeeps ==
    ASSUME NEW n \in Nat, NEW h, NEW Q, h[{}] \in Q,
           \A d \in SUBSET (1..n) : d # {} /\ h[d \ {Max(d)}] \in Q => h[d] \in Q
    PROVE  h[1..n] \in Q
<1>. DEFINE S == {m \in 0..n : \E d \in SUBSET (1..m) : h[d] \notin Q}
<1>1. S = {}
  <2>. SUFFICES ASSUME S # {} PROVE FALSE
    OBVIOUS
  <2>1. PICK m \in S : \A x \in S : m <= x
    <3>1. S \in SUBSET Nat
      OBVIOUS
    <3>. HIDE DEF S
    <3>. QED
      BY <3>1, Smallest
  <2>2. m \in 0..n /\ m \in Nat
    OBVIOUS
  <2>3. PICK d \in SUBSET (1..m) : h[d] \notin Q
    OBVIOUS
  <2>4. m # 0 /\ m - 1 \in 0..n /\ ~ (m <= m - 1) /\ d # {}
    <3>1. d # {}
      BY <2>3
    <3>2. 1..0 = {}
      OBVIOUS
    <3>3. m # 0
      BY <2>3, <3>1, <3>2
    <3>. QED
      BY <2>2, <3>1, <3>3
  <2>5. \A e \in SUBSET (1..m-1) : h[e] \in Q
    BY <2>1, <2>4
  <2>. HIDE DEF S
  <2>6. CASE m \notin d
    BY <2>2, <2>3, <2>4, <2>5, <2>6, LessLast
  <2>7. CASE m \in d
    <3>1. Max(d) = m
      BY <2>2, <2>7, MaxIs
    <3>2. h[d \ {m}] \in Q
      BY <2>2, <2>4, <2>5, LessLast
    <3>3. d \in SUBSET (1..n)
      BY <2>2
    <3>. QED
      BY <2>3, <2>4, <3>1, <3>2, <3>3
  <2>. QED
    BY <2>6, <2>7
<1>2. \A m \in 0..n : \A d \in SUBSET (1..m) : h[d] \in Q
  BY <1>1, Zenon
<1>3. n \in 0..n /\ (1..n) \in SUBSET (1..n)
  OBVIOUS
<1>. QED
  BY <1>2, <1>3

\* g gives the results of a fold of F from base, for the subsets of 1..n.
FoldOf(g, n, base, F) ==
    g = [d \in SUBSET (1..n) |-> IF d = {} THEN base ELSE F[Max(d)][g[d \ {Max(d)}]]]

(* A fold whose steps stay in a set has results, and they are in the set.  *)
LEMMA FoldExists ==
    ASSUME NEW n \in Nat, NEW Q, NEW base \in Q, NEW F,
           \A i \in 1..n : \A q \in Q : F[i][q] \in Q
    PROVE  \E g : FoldOf(g, n, base, F) /\ \A d \in SUBSET (1..n) : g[d] \in Q
<1>. DEFINE A(m) == \E g : FoldOf(g, m, base, F) /\ \A d \in SUBSET (1..m) : g[d] \in Q
            S == {m \in 0..n : ~ A(m)}
<1>1. S = {}
  <2>. SUFFICES ASSUME S # {} PROVE FALSE
    OBVIOUS
  <2>1. PICK m \in S : \A x \in S : m <= x
    <3>1. S \in SUBSET Nat
      OBVIOUS
    <3>. HIDE DEF S
    <3>. QED
      BY <3>1, Smallest
  <2>2. m \in 0..n /\ m \in Nat /\ ~ A(m)
    OBVIOUS
  <2>3. m # 0
    <3>. DEFINE g == [d \in SUBSET (1..0) |-> base]
    <3>1. \A d \in SUBSET (1..0) : d = {} /\ g[d] = base /\ g[d] \in Q
      OBVIOUS
    <3>2. FoldOf(g, 0, base, F)
      BY <3>1 DEF FoldOf
    <3>. HIDE DEF g
    <3>3. A(0)
      BY <3>1, <3>2
    <3>. QED
      BY <2>2, <3>3
  <2>4. m - 1 \in 0..n /\ ~ (m <= m - 1) /\ m \in 1..n
    BY <2>2, <2>3
  <2>5. A(m - 1)
    BY <2>1, <2>4
  <2>. HIDE DEF S
  <2>6. PICK g : FoldOf(g, m - 1, base, F) /\ \A d \in SUBSET (1..m-1) : g[d] \in Q
    BY <2>5
  <2>. DEFINE h == [d \in SUBSET (1..m) |-> IF m \in d THEN F[m][g[d \ {m}]] ELSE g[d]]
  <2>7. \A d \in SUBSET (1..m) : h[d] = IF m \in d THEN F[m][g[d \ {m}]] ELSE g[d]
    OBVIOUS
  <2>. DEFINE Result(f, d) == IF d = {} THEN base ELSE F[Max(d)][f[d \ {Max(d)}]]
  <2>8. h = [d \in SUBSET (1..m) |-> h[d]]
    OBVIOUS
  <2>. HIDE DEF h
  <2>9. ASSUME NEW d \in SUBSET (1..m-1)
        PROVE  d \in SUBSET (1..m) /\ h[d] = g[d] /\ g[d] = Result(g, d)
    <3>1. d \in SUBSET (1..m) /\ m \notin d
      BY <2>2
    <3>2. g[d] = Result(g, d)
      BY <2>6 DEF FoldOf
    <3>3. h[d] = IF m \in d THEN F[m][g[d \ {m}]] ELSE g[d]
      BY <2>7, <3>1
    <3>. QED
      BY <3>1, <3>2, <3>3
  <2>10. ASSUME NEW d \in SUBSET (1..m) PROVE h[d] = Result(h, d) /\ h[d] \in Q
    <3>1. CASE m \notin d
      <4>1. d \in SUBSET (1..m-1) /\ d \ {Max(d)} \in SUBSET (1..m-1)
        BY <2>2, <2>3, <3>1, LessLast
      <4>2. h[d \ {Max(d)}] = g[d \ {Max(d)}] /\ h[d] = Result(g, d) /\ h[d] \in Q
        BY <2>6, <2>9, <4>1
      <4>. QED
        BY <4>2
    <3>2. CASE m \in d
      <4>1. Max(d) = m /\ d \ {m} \in SUBSET (1..m-1) /\ d # {}
        BY <2>2, <2>3, <3>2, MaxIs, LessLast
      <4>2. h[d] = F[m][h[d \ {m}]] /\ h[d \ {m}] \in Q
        BY <2>6, <2>7, <2>9, <3>2, <4>1
      <4>. QED
        BY <2>4, <4>1, <4>2
    <3>. QED
      BY <3>1, <3>2
  <2>11. FoldOf(h, m, base, F)
    BY <2>8, <2>10 DEF FoldOf
  <2>. QED
    BY <2>2, <2>10, <2>11
<1>2. \A m \in 0..n : A(m)
  BY <1>1, Zenon
<1>. QED
  BY <1>2

-----------------------------------------------------------------------------
(* Imports.                                                                *)

\* The repositories that calls lead to from r.
Reached(r) == {q \in Repos : Moves(r, q, Branches)}

LEMMA ReachedIs ==
    ASSUME NEW r, Sound(r)
    PROVE  /\ \A B, q : Moves(r, q, B) => q \in Reached(r)
           /\ \A q \in Reached(r) : Sound(q) /\ \A B, u : Moves(q, u, B) => u \in Reached(r)
<1>1. ASSUME NEW B, NEW q, Moves(r, q, B) PROVE q \in Reached(r)
  BY <1>1 DEF Reached, Moves, Sound, Formed
<1>2. ASSUME NEW q \in Reached(r), NEW B, NEW u, Moves(q, u, B)
      PROVE  u \in Reached(r)
  <2>1. Moves(q, u, Branches) /\ Moves(r, q, Branches)
    BY <1>2 DEF Reached, Moves
  <2>2. Moves(r, u, Branches)
    BY <2>1, MovesTwice
  <2>. QED
    BY <1>1, <2>2
<1>3. \A q \in Reached(r) : Sound(q)
  BY DEF Reached, Moves
<1>. QED
  BY <1>1, <1>2, <1>3

(* The keys as a sequence.                                                 *)
LEMMA KeysInOrder ==
    \E n \in Nat : DOMAIN SetToSeq(Keys) = 1..n /\ \A i \in 1..n : SetToSeq(Keys)[i] \in Keys
<1>. DEFINE n == Cardinality(Keys)
            P(f) == IsInjective(f)
<1>1. n \in Nat /\ \E f \in [1..n -> Keys] : P(f)
  <2>1. n \in Nat /\ ExistsBijection(1..n, Keys)
    BY MemoryAssumption, FS_CardinalityType
  <2>. QED
    BY <2>1 DEF ExistsBijection, Bijection, Injection
<1>2. SetToSeq(Keys) = CHOOSE f \in [1..n -> Keys] : P(f)
  BY DEF SetToSeq
<1>. HIDE DEF n, P
<1>3. SetToSeq(Keys) \in [1..n -> Keys]
  BY <1>1, <1>2
<1>. QED
  BY <1>1, <1>3

LEMMA ImportKeyMoves ==
    ASSUME NEW r, Sound(r), NEW b \in Branches, NEW k \in Keys, NEW v \in Values \cup {None}
    PROVE  Moves(r, ImportKey(r, b, k, v), Branches)
<1>1. v \in Contents
  BY DEF Contents
<1>2. Moves(r, SetKey(r, b, k, v), Branches)
  <2>1. Moves(r, SetKey(r, b, k, v), {r.head})
    BY <1>1, SetKeyMoves
  <2>. QED
    BY <2>1 DEF Moves
<1>. QED
  BY <1>2, MovesNot DEF ImportKey

LEMMA ImportBranchMoves ==
    ASSUME NEW r, Sound(r), NEW b \in Branches, NEW space \in [Keys -> Values \cup {None}]
    PROVE  Moves(r, ImportBranch(r, b, space), Branches)
<1>. DEFINE Q == Reached(r)
            keys == SetToSeq(Keys)
            base == IF b = Main THEN r ELSE Branched(r, b, Main)
            Step(q, i) == ImportKey(q, b, keys[i], space[keys[i]])
            F == [i \in DOMAIN keys |-> [q \in Q |-> Step(q, i)]]
            Is(f) == f = [d \in SUBSET DOMAIN keys |->
                            IF d = {} THEN base ELSE Step(f[d \ {Max(d)}], Max(d))]
            h == CHOOSE f : Is(f)
<1>1. PICK n \in Nat : DOMAIN keys = 1..n /\ \A i \in 1..n : keys[i] \in Keys
  BY KeysInOrder
<1>2. ImportBranch(r, b, space) = h[DOMAIN keys]
  BY DEF ImportBranch, FoldLeft, MapThenFoldSet
<1>3. base \in Q
  <2>1. Main \in Branches
    BY MemoryAssumption
  <2>. QED
    BY <2>1, BranchedMoves, MovesNot, ReachedIs
<1>4. \A i \in 1..n : \A q \in Q : Step(q, i) \in Q
  <2>. SUFFICES ASSUME NEW i \in 1..n, NEW q \in Q PROVE Step(q, i) \in Q
    OBVIOUS
  <2>1. keys[i] \in Keys /\ space[keys[i]] \in Values \cup {None} /\ Sound(q)
    BY <1>1, ReachedIs
  <2>2. Moves(q, Step(q, i), Branches)
    BY <2>1, ImportKeyMoves
  <2>. QED
    BY <2>2, ReachedIs
<1>. HIDE DEF Q, keys, base, Step
<1>5. \A i \in 1..n : \A q \in Q : F[i][q] = Step(q, i) /\ F[i][q] \in Q
  BY <1>1, <1>4
<1>. HIDE DEF F
<1>6. PICK g : FoldOf(g, n, base, F) /\ \A d \in SUBSET (1..n) : g[d] \in Q
  BY <1>3, <1>5, FoldExists
<1>7. Is(g)
  <2>1. \A d \in SUBSET (1..n) : d # {} => Max(d) \in 1..n /\ d \ {Max(d)} \in SUBSET (1..n)
    BY LastIs
  <2>2. \A d \in SUBSET (1..n) : g[d] = IF d = {} THEN base ELSE F[Max(d)][g[d \ {Max(d)}]]
    BY <1>6 DEF FoldOf
  <2>3. \A d \in SUBSET (1..n) : g[d] = IF d = {} THEN base ELSE Step(g[d \ {Max(d)}], Max(d))
    BY <1>5, <1>6, <2>1, <2>2
  <2>4. g = [d \in SUBSET (1..n) |-> g[d]]
    BY <1>6 DEF FoldOf
  <2>. QED
    BY <1>1, <2>3, <2>4
<1>8. Is(h)
  <2>. HIDE DEF Is
  <2>. QED
    BY <1>7
<1>. HIDE DEF h
<1>9. \A d \in SUBSET (1..n) : h[d] = IF d = {} THEN base ELSE Step(h[d \ {Max(d)}], Max(d))
  BY <1>1, <1>8
<1>10. h[1..n] \in Q
  <2>1. h[{}] \in Q
    BY <1>3, <1>9
  <2>2. \A d \in SUBSET (1..n) : d # {} /\ h[d \ {Max(d)}] \in Q => h[d] \in Q
    BY <1>4, <1>9, LastIs
  <2>. QED
    BY <2>1, <2>2, FoldKeeps
<1>. QED
  BY <1>1, <1>2, <1>10 DEF Q, Reached

LEMMA ImportedMoves ==
    ASSUME NEW r, Sound(r), NEW snapshot \in Snapshots
    PROVE  Moves(r, Imported(r, snapshot), Branches)
<1>. DEFINE Q == Reached(r)
            Step(q, i) == IF BranchOrder[i] \in DOMAIN snapshot
                          THEN ImportBranch(q, BranchOrder[i], snapshot[BranchOrder[i]]) ELSE q
            F == [i \in DOMAIN BranchOrder |-> [q \in Q |-> Step(q, i)]]
            Is(f) == f = [d \in SUBSET DOMAIN BranchOrder |->
                            IF d = {} THEN r ELSE Step(f[d \ {Max(d)}], Max(d))]
            h == CHOOSE f : Is(f)
            n == Len(BranchOrder)
<1>1. /\ n \in Nat /\ DOMAIN BranchOrder = 1..n /\ \A i \in 1..n : BranchOrder[i] \in Branches
      /\ \A b \in DOMAIN snapshot : snapshot[b] \in [Keys -> Values \cup {None}]
  BY MemoryAssumption
<1>2. Imported(r, snapshot) = h[DOMAIN BranchOrder]
  BY DEF Imported, FoldLeft, MapThenFoldSet
<1>3. r \in Q
  BY MovesNot, ReachedIs
<1>4. \A i \in 1..n : \A q \in Q : Step(q, i) \in Q
  <2>. SUFFICES ASSUME NEW i \in 1..n, NEW q \in Q, BranchOrder[i] \in DOMAIN snapshot
                PROVE  ImportBranch(q, BranchOrder[i], snapshot[BranchOrder[i]]) \in Q
    OBVIOUS
  <2>1. Sound(q)
    BY ReachedIs
  <2>2. Moves(q, ImportBranch(q, BranchOrder[i], snapshot[BranchOrder[i]]), Branches)
    BY <1>1, <2>1, ImportBranchMoves
  <2>. QED
    BY <2>2, ReachedIs
<1>. HIDE DEF Q, Step, n
<1>5. \A i \in 1..n : \A q \in Q : F[i][q] = Step(q, i) /\ F[i][q] \in Q
  BY <1>1, <1>4
<1>. HIDE DEF F
<1>6. PICK g : FoldOf(g, n, r, F) /\ \A d \in SUBSET (1..n) : g[d] \in Q
  BY <1>1, <1>3, <1>5, FoldExists
<1>7. Is(g)
  <2>1. \A d \in SUBSET (1..n) : d # {} => Max(d) \in 1..n /\ d \ {Max(d)} \in SUBSET (1..n)
    BY <1>1, LastIs
  <2>2. \A d \in SUBSET (1..n) : g[d] = IF d = {} THEN r ELSE F[Max(d)][g[d \ {Max(d)}]]
    BY <1>6 DEF FoldOf
  <2>3. \A d \in SUBSET (1..n) : g[d] = IF d = {} THEN r ELSE Step(g[d \ {Max(d)}], Max(d))
    BY <1>5, <1>6, <2>1, <2>2
  <2>4. g = [d \in SUBSET (1..n) |-> g[d]]
    BY <1>6 DEF FoldOf
  <2>. QED
    BY <1>1, <2>3, <2>4
<1>8. Is(h)
  <2>. HIDE DEF Is
  <2>. QED
    BY <1>7
<1>. HIDE DEF h
<1>9. \A d \in SUBSET (1..n) : h[d] = IF d = {} THEN r ELSE Step(h[d \ {Max(d)}], Max(d))
  BY <1>1, <1>8
<1>10. h[1..n] \in Q
  <2>1. h[{}] \in Q
    BY <1>3, <1>9
  <2>2. \A d \in SUBSET (1..n) : d # {} /\ h[d \ {Max(d)}] \in Q => h[d] \in Q
    <3>1. \A d \in SUBSET (1..n) : d # {} => Max(d) \in 1..n
      BY <1>1, LastIs
    <3>. QED
      BY <1>4, <1>9, <3>1
  <2>. QED
    BY <1>1, <2>1, <2>2, FoldKeeps
<1>. QED
  BY <1>1, <1>2, <1>10 DEF Q, Reached

-----------------------------------------------------------------------------
(* The specification.                                                      *)

\* What holds between calls.
MInv == Sound(repo) /\ strays \in 0..MaxStrays

LEMMA InitSound == Init => MInv
<1>. SUFFICES ASSUME Init PROVE MInv
  OBVIOUS
<1>. DEFINE empty == [f \in Files |-> None]
            c == [tree |-> empty, parents |-> <<>>]
            cs == <<c>>
            t == [b \in Branches |-> IF b = Main THEN 1 ELSE 0]
<1>1. repo = [commits |-> cs, tip |-> t, head |-> Main, work |-> empty, merging |-> 0, ok |-> TRUE]
  BY DEF Init, Fresh
<1>2. empty \in Trees /\ Main \in Branches
  BY MemoryAssumption DEF Trees, Contents
<1>3. c \in Commit /\ c.parents = <<>> /\ c.tree = empty
  BY <1>2 DEF Commit
<1>. HIDE DEF empty, c
<1>4. cs \in Seq(Commit) /\ Len(cs) = 1 /\ cs[1] = c
  BY <1>3
<1>5. t \in [Branches -> Nat] /\ t[Main] = 1 /\ \A b \in Branches : t[b] <= 1
  BY <1>2
<1>. HIDE DEF cs, t
<1>6. /\ repo \in Repos /\ repo.commits = cs /\ repo.tip = t /\ repo.head = Main
      /\ repo.work = empty /\ repo.merging = 0
  BY <1>1, <1>2, <1>4, <1>5 DEF Repos
<1>7. History(cs)
  <2>1. ToSet(<<>>) = {}
    BY DEF ToSet
  <2>2. \A x \in 1..1 : x = 1
    OBVIOUS
  <2>. QED
    BY <1>3, <1>4, <2>1, <2>2 DEF History, Parents
<1>8. Formed(repo)
  <2>1. Len(repo.commits) = 1 /\ repo.merging <= 1
    BY <1>4, <1>6
  <2>2. \A b \in Branches : repo.tip[b] <= 1
    BY <1>5, <1>6
  <2>3. repo.tip[repo.head] # 0
    BY <1>5, <1>6
  <2>. QED
    BY <1>6, <1>7, <2>1, <2>2, <2>3 DEF Formed
<1>9. Clean(repo)
  BY <1>3, <1>4, <1>5, <1>6 DEF Clean, Tree
<1>10. strays \in 0..MaxStrays
  BY MemoryAssumption DEF Init
<1>. QED
  BY <1>8, <1>9, <1>10 DEF MInv, Sound

(* A call starts from the repository as it is.                             *)
LEMMA BeginIs ==
    ASSUME Sound(repo)
    PROVE  /\ Moves(repo, Begin, {}) /\ Sound(Begin)
           /\ Begin.head = repo.head /\ Begin.merging = repo.merging
           /\ Begin.commits = repo.commits
<1>1. /\ Begin \in Repos /\ Begin.commits = repo.commits /\ Begin.tip = repo.tip
      /\ Begin.head = repo.head /\ Begin.work = repo.work /\ Begin.merging = repo.merging
  BY DEF Begin, Sound, Formed, Repos
<1>2. Formed(Begin) /\ Clean(Begin)
  BY <1>1 DEF Sound, Formed, Clean, Tree
<1>3. Grows(repo, Begin)
  BY <1>1, GrowsSame DEF Sound
<1>. QED
  BY <1>1, <1>2, <1>3 DEF Moves, Sound

\* A call loses nothing, leaves nothing uncommitted, and changes what is
\* read in the branches it names only.
Careful ==
    /\ Sound(repo') /\ Grows(repo, repo')
    /\ strays' \in 0..MaxStrays
    /\ repo.merging = 0 => \A b \in Branches \ Named(call') : Space(repo', b) = Space(repo, b)

LEMMA CallIsCareful ==
    ASSUME MInv, NEW c, NEW kept \in BOOLEAN, NEW q, NEW B, Call(c, kept, q),
           Moves(Begin, q, B),
           Begin.merging = 0 => \A b \in Branches \ Named(c) : Space(q, b) = Space(Begin, b)
    PROVE  Careful
<1>1. Moves(repo, Begin, {}) /\ Sound(Begin) /\ Begin.merging = repo.merging /\ Sound(repo)
  BY BeginIs DEF MInv
<1>2. repo' = q /\ call' = c
  BY DEF Call
<1>3. strays' \in 0..MaxStrays
  BY MemoryAssumption DEF Call, MInv
<1>4. Moves(repo, q, B)
  <2>1. Moves(repo, Begin, B)
    BY <1>1 DEF Moves
  <2>. QED
    BY <1>1, <2>1, MovesTwice
<1>5. \A b \in Branches : Space(Begin, b) = Space(repo, b)
  BY <1>1, ReadsSame
<1>. QED
  BY <1>1, <1>2, <1>3, <1>4, <1>5 DEF Careful, Moves

LEMMA NextCareful ==
    ASSUME MInv, Next
    PROVE  Careful
<1>0. /\ Sound(Begin) /\ Begin.merging = repo.merging /\ Begin.commits = repo.commits
      /\ Len(repo.commits) \in Nat
  BY BeginIs, Tips DEF MInv, Sound
<1>1. ASSUME NEW b \in Branches, NEW k \in Keys, NEW v \in Values, Set(b, k, v)
      PROVE  Careful
  <2>. DEFINE c == <<"write", b, k, v>>
              q == SetKey(Begin, b, k, v)
  <2>1. Call(c, b = repo.head, q)
    BY <1>1 DEF Set
  <2>2. v \in Contents
    BY DEF Contents
  <2>3. Named(c) = {b}
    BY DEF Named
  <2>4. /\ Moves(Begin, q, {Begin.head})
        /\ Begin.merging = 0 => \A x \in Branches \ {b} : Space(q, x) = Space(Begin, x)
    BY <1>0, <2>2, SetKeyMoves
  <2>. HIDE DEF c, q
  <2>. QED
    BY <2>1, <2>3, <2>4, CallIsCareful
<1>2. ASSUME NEW b \in Branches, NEW k \in Keys, Delete(b, k)
      PROVE  Careful
  <2>. DEFINE c == <<"write", b, k, None>>
              q == DeleteKey(Begin, b, k)
  <2>1. Call(c, b = repo.head, q)
    BY <1>2 DEF Delete
  <2>2. Named(c) = {b}
    BY DEF Named
  <2>3. /\ Moves(Begin, q, {Begin.head})
        /\ Begin.merging = 0 => \A x \in Branches \ {b} : Space(q, x) = Space(Begin, x)
    BY <1>0, DeleteKeyMoves
  <2>. HIDE DEF c, q
  <2>. QED
    BY <2>1, <2>2, <2>3, CallIsCareful
<1>3. ASSUME NEW b \in Branches, NEW base \in Branches, Branch(b, base)
      PROVE  Careful
  <2>. DEFINE c == <<"branch", b, base>>
              q == Branched(Begin, b, base)
  <2>1. PICK kept \in BOOLEAN : Call(c, kept, q)
    BY <1>3 DEF Branch
  <2>2. Named(c) = {b}
    BY DEF Named
  <2>3. Moves(Begin, q, {b})
    BY <1>0, BranchedMoves
  <2>. HIDE DEF c, q
  <2>4. \A x \in Branches \ {b} : Space(q, x) = Space(Begin, x)
    BY <1>0, <2>3, ReadsSame
  <2>. QED
    BY <2>1, <2>2, <2>3, <2>4, CallIsCareful
<1>4. ASSUME NEW b \in Branches, CheckoutBranch(b)
      PROVE  Careful
  <2>. DEFINE c == <<"checkout", b>>
              q == Checkout(Begin, b)
  <2>1. Call(c, TRUE, q)
    BY <1>4 DEF CheckoutBranch
  <2>2. Named(c) = {}
    BY DEF Named
  <2>3. Moves(Begin, q, {})
    BY <1>0, CheckoutMoves
  <2>. HIDE DEF c, q
  <2>4. \A x \in Branches : Space(q, x) = Space(Begin, x)
    BY <1>0, <2>3, ReadsSame
  <2>. QED
    BY <2>1, <2>2, <2>3, <2>4, CallIsCareful
<1>5. ASSUME NEW s \in Branches, NEW t \in Branches, NEW policy \in Policies,
             Merge(s, t, policy)
      PROVE  Careful
  <2>1. PICK open \in Orders(policy) :
            Call(<<"merge", s, t, policy>>, Main \in {s, t}, Merged(Begin, s, t, policy, open))
    BY <1>5 DEF Merge
  <2>. DEFINE c == <<"merge", s, t, policy>>
              q == Merged(Begin, s, t, policy, open)
              kept == Main \in {s, t}
  <2>2. Call(c, kept, q) /\ kept \in BOOLEAN
    BY <2>1
  <2>3. Named(c) = {t}
    BY DEF Named
  <2>4. Moves(Begin, q, {t})
    BY <1>0, MergedMoves
  <2>. HIDE DEF c, q, kept
  <2>5. \A x \in Branches \ {t} : Space(q, x) = Space(Begin, x)
    BY <1>0, <2>4, ReadsSame
  <2>. QED
    BY <2>2, <2>3, <2>4, <2>5, CallIsCareful
<1>6. ASSUME NEW b \in Branches, NEW to \in 0..Len(repo.commits), Revert(b, to)
      PROVE  Careful
  <2>. DEFINE c == <<"revert", b, to>>
              q == Reverted(Begin, b, to)
  <2>1. Call(c, FALSE, q)
    BY <1>6 DEF Revert
  <2>2. Named(c) = {b}
    BY DEF Named
  <2>3. Moves(Begin, q, {b})
    BY <1>0, RevertedMoves
  <2>. HIDE DEF c, q
  <2>4. \A x \in Branches \ {b} : Space(q, x) = Space(Begin, x)
    BY <1>0, <2>3, ReadsSame
  <2>. QED
    BY <2>1, <2>2, <2>3, <2>4, CallIsCareful
<1>7. ASSUME NEW snapshot \in Snapshots, Import(snapshot)
      PROVE  Careful
  <2>. DEFINE c == <<"import", snapshot>>
              q == Imported(Begin, snapshot)
  <2>1. Call(c, FALSE, q)
    BY <1>7 DEF Import
  <2>2. Named(c) = Branches
    BY DEF Named
  <2>3. Moves(Begin, q, Branches)
    BY <1>0, ImportedMoves
  <2>. HIDE DEF c, q
  <2>. QED
    BY <2>1, <2>2, <2>3, CallIsCareful
<1>. QED
  BY <1>1, <1>2, <1>3, <1>4, <1>5, <1>6, <1>7 DEF Next

LEMMA MemoryStep == MInv /\ [Next]_vars => MInv'
<1>. SUFFICES ASSUME MInv, [Next]_vars PROVE MInv'
  OBVIOUS
<1>1. CASE Next
  BY <1>1, NextCareful DEF Careful, MInv
<1>2. CASE UNCHANGED vars
  BY <1>2 DEF vars, MInv
<1>. QED
  BY <1>1, <1>2

LEMMA MemoryInvariant == Spec => []MInv
<1>. QED
  BY InitSound, MemoryStep, PTL DEF Spec

-----------------------------------------------------------------------------
(* Between calls nothing is uncommitted, also after a call that raised,    *)
(* unless a merge is left unfinished; commits have earlier parents and     *)
(* branches are commits.                                                   *)
THEOREM MemoryCleanBetweenCalls == Spec => []CleanBetweenCalls
<1>1. MInv => CleanBetweenCalls
  <2>. SUFFICES ASSUME MInv PROVE CleanBetweenCalls
    OBVIOUS
  <2>. DEFINE cs == repo.commits
  <2>1. /\ repo \in Repos /\ cs \in Seq(Commit) /\ Len(cs) \in Nat /\ DOMAIN cs = 1..Len(cs)
        /\ History(cs) /\ Clean(repo) /\ repo.merging <= Len(cs)
        /\ \A b \in Branches : repo.tip[b] <= Len(cs)
    BY DEF MInv, Sound, Formed, Repos
  <2>2. /\ repo.head \in Branches /\ repo.ok \in BOOLEAN /\ repo.work \in [Files -> Contents]
        /\ repo.tip \in [Branches -> Nat] /\ repo.merging \in Nat
    BY <2>1 DEF Repos, Trees
  <2>3. repo.tip \in [Branches -> 0..Len(cs)] /\ repo.merging \in 0..Len(cs)
    BY <2>1, <2>2
  <2>4. \A c \in DOMAIN cs : cs[c] \in Commit /\ ToSet(cs[c].parents) \subseteq 1..c-1
    BY <2>1 DEF History, Parents
  <2>5. \A c \in DOMAIN cs : cs[c].tree \in [Files -> Contents]
    BY <2>4 DEF Commit, Trees
  <2>. HIDE DEF cs
  <2>6. TypeOK
    BY <2>2, <2>3, <2>4, <2>5 DEF TypeOK, MInv, cs
  <2>. QED
    BY <2>1, <2>6 DEF CleanBetweenCalls, Clean
<1>. QED
  BY <1>1, MemoryInvariant, PTL

(* The history is an audit trail: a branch only ever moves to a descendant *)
(* of its commit, whatever is merged, reverted or imported.                *)
THEOREM MemoryHistoryGrows == Spec => HistoryGrows
<1>. DEFINE A == \A b \in Branches : repo.tip[b] \notin {0, repo'.tip[b]} =>
                    /\ repo'.tip[b] # 0
                    /\ repo.tip[b] \in Ancestors(repo'.commits)[repo'.tip[b]]
<1>1. MInv /\ [Next]_vars => [A]_vars
  <2>. SUFFICES ASSUME MInv, Next PROVE A
    OBVIOUS
  <2>. QED
    BY NextCareful DEF Careful, Grows
<1>. HIDE DEF A
<1>2. Spec => [][A]_vars
  BY <1>1, MemoryInvariant, PTL DEF Spec
<1>. QED
  BY <1>2 DEF HistoryGrows, A

(* A write, merge, revert or branch changes what is read in the branch it  *)
(* names only, whichever is checked out, and a checkout nothing, unless it *)
(* concludes an unfinished merge.                                          *)
THEOREM MemoryOthersUntouched == Spec => OthersUntouched
<1>. DEFINE A == repo.merging = 0 =>
                    \A b \in Branches \ Named(call') : Space(repo', b) = Space(repo, b)
<1>1. MInv /\ [Next]_vars => [A]_vars
  <2>. SUFFICES ASSUME MInv, Next PROVE A
    OBVIOUS
  <2>. QED
    BY NextCareful DEF Careful
<1>. HIDE DEF A
<1>2. Spec => [][A]_vars
  BY <1>1, MemoryInvariant, PTL DEF Spec
<1>. QED
  BY <1>2 DEF OthersUntouched, A

-----------------------------------------------------------------------------
(* Branches around Main: the memory store keeps the promise of Spaces, for *)
(* any number of branches that are made from Main and merged with it only. *)

\* The commits that branch b descends from, and the files of its commit.
Line(r, b) == Ancestors(r.commits)[r.tip[b]]
At(r, b) == Tree(r, r.tip[b])

\* Where branch a and Main went apart: their only best common ancestor.
\* Since then Main has not changed its copy of a's space, nor a its copy of
\* any other.
IsBase(r, a, base) ==
    /\ Line(r, a) \cap Line(r, Main) = Ancestors(r.commits)[base]
    /\ \A k \in Keys : Tree(r, base)[<<a, k>>] = At(r, Main)[<<a, k>>]
    /\ \A c \in Branches, k \in Keys : c # a => Tree(r, base)[<<c, k>>] = At(r, a)[<<c, k>>]

Forked(r, a) == \E base \in 1..Len(r.commits) : IsBase(r, a, base)

\* Nobody has a copy of a space before its branch exists, and what two
\* branches have in common they have from Main.
Star(r) ==
    /\ r.merging = 0 /\ r.tip[Main] # 0
    /\ \A b, c \in Branches : r.tip[b] # 0 /\ r.tip[c] = 0 =>
            \A k \in Keys : At(r, b)[<<c, k>>] = None
    /\ \A a \in Branches : a # Main /\ r.tip[a] # 0 => Forked(r, a)
    /\ \A a, b \in Branches : a # b /\ Main \notin {a, b} /\ r.tip[a] # 0 /\ r.tip[b] # 0 =>
            Line(r, a) \cap Line(r, b) \subseteq Line(r, Main)

(* What is known of old commits stays so when there are more.              *)
LEMMA OldCommits ==
    ASSUME NEW r, NEW q, Formed(r), Formed(q), Extends(r.commits, q.commits)
    PROVE  \A c \in 1..Len(r.commits) :
              /\ c \in 1..Len(q.commits) /\ Tree(q, c) = Tree(r, c)
              /\ Ancestors(q.commits)[c] = Ancestors(r.commits)[c]
<1>1. History(r.commits) /\ History(q.commits)
  BY DEF Formed
<1>2. Len(r.commits) \in Nat /\ Len(q.commits) \in Nat
  BY Tips
<1>3. \A c \in 1..Len(r.commits) : c \in 1..Len(q.commits) /\ Tree(q, c) = Tree(r, c)
  BY <1>2 DEF Extends, Tree
<1>. QED
  BY <1>1, <1>3, SameAncestors

\* From r to q no branch but h is at another commit.
OnlyMoved(r, q, h) ==
    /\ Formed(r) /\ Formed(q) /\ Extends(r.commits, q.commits)
    /\ r.tip[h] # 0 /\ q.tip[h] # 0
    /\ \A b \in Branches : b # h => q.tip[b] = r.tip[b]

LEMMA Unmoved ==
    ASSUME NEW r, NEW q, NEW h \in Branches, OnlyMoved(r, q, h)
    PROVE  /\ \A b \in Branches : q.tip[b] = 0 <=> r.tip[b] = 0
           /\ \A b \in Branches : b # h /\ r.tip[b] # 0 =>
                  /\ Line(q, b) = Line(r, b) /\ At(q, b) = At(r, b)
                  /\ Line(r, b) \subseteq 1..Len(r.commits)
<1>1. \A b \in Branches : r.tip[b] \in Nat /\ (r.tip[b] # 0 => r.tip[b] \in 1..Len(r.commits))
  BY Tips DEF OnlyMoved
<1>2. ASSUME NEW b \in Branches, b # h, r.tip[b] # 0
      PROVE  /\ Line(q, b) = Line(r, b) /\ At(q, b) = At(r, b)
             /\ Line(r, b) \subseteq 1..Len(r.commits)
  <2>1. q.tip[b] = r.tip[b] /\ r.tip[b] \in 1..Len(r.commits)
    BY <1>1, <1>2 DEF OnlyMoved
  <2>2. Line(q, b) = Line(r, b) /\ At(q, b) = At(r, b)
    BY <2>1, OldCommits DEF OnlyMoved, Line, At
  <2>3. Ancestors(r.commits)[r.tip[b]] \subseteq 1..r.tip[b]
    BY <2>1, Descent DEF OnlyMoved, Formed
  <2>4. Len(r.commits) \in Nat
    BY Tips DEF OnlyMoved
  <2>. QED
    BY <2>1, <2>2, <2>3, <2>4 DEF Line
<1>. QED
  BY <1>2 DEF OnlyMoved

(* A repository with the commits and branches of one that is a star.       *)
LEMMA StarSame ==
    ASSUME NEW r, NEW q, Star(r), q.commits = r.commits, q.tip = r.tip, q.merging = 0
    PROVE  Star(q)
BY DEF Star, Forked, IsBase, Line, At, Tree

(* A branch that is forked stays so when neither it nor Main gets commits  *)
(* of the other, and both keep the files that the other may change.        *)
LEMMA ForkedStays ==
    ASSUME NEW r, NEW q, NEW h \in Branches, OnlyMoved(r, q, h),
           NEW a \in Branches, a # Main, Forked(r, a),
           Line(q, a) \cap Line(q, Main) = Line(r, a) \cap Line(r, Main),
           \A k \in Keys : At(q, Main)[<<a, k>>] = At(r, Main)[<<a, k>>],
           \A c \in Branches, k \in Keys : c # a => At(q, a)[<<c, k>>] = At(r, a)[<<c, k>>]
    PROVE  Forked(q, a)
<1>1. PICK base \in 1..Len(r.commits) : IsBase(r, a, base)
  BY DEF Forked
<1>2. /\ base \in 1..Len(q.commits) /\ Tree(q, base) = Tree(r, base)
      /\ Ancestors(q.commits)[base] = Ancestors(r.commits)[base]
  BY OldCommits DEF OnlyMoved
<1>3. IsBase(q, a, base)
  BY <1>1, <1>2 DEF IsBase
<1>. QED
  BY <1>2, <1>3 DEF Forked

(* A commit of the branch checked out, to its own space.                   *)
LEMMA StarCommit ==
    ASSUME NEW r, NEW q, NEW h \in Branches, OnlyMoved(r, q, h), Star(r), q.merging = 0,
           Line(q, h) = {q.tip[h]} \cup Line(r, h), q.tip[h] > Len(r.commits),
           \A c \in Branches, k \in Keys : c # h => At(q, h)[<<c, k>>] = At(r, h)[<<c, k>>]
    PROVE  Star(q)
<1>1. /\ \A b \in Branches : q.tip[b] = 0 <=> r.tip[b] = 0
      /\ \A b \in Branches : b # h /\ r.tip[b] # 0 =>
            Line(q, b) = Line(r, b) /\ At(q, b) = At(r, b) /\ Line(r, b) \subseteq 1..Len(r.commits)
  BY Unmoved
<1>2. q.tip[h] \notin 1..Len(r.commits)
  <2>1. q.tip[h] \in Nat /\ Len(r.commits) \in Nat
    BY Tips DEF OnlyMoved
  <2>. QED
    BY <2>1
<1>3. \A b \in Branches : b # h /\ r.tip[b] # 0 =>
            Line(q, b) \cap Line(q, h) = Line(r, b) \cap Line(r, h)
  BY <1>1, <1>2
<1>4. Main \in Branches /\ r.tip[Main] # 0 /\ r.tip[h] # 0
  BY MemoryAssumption DEF Star, OnlyMoved
<1>5. ASSUME NEW a \in Branches, a # Main, q.tip[a] # 0
      PROVE  Forked(q, a)
  <2>1. Forked(r, a) /\ r.tip[a] # 0
    BY <1>1, <1>5 DEF Star
  <2>2. Line(q, a) \cap Line(q, Main) = Line(r, a) \cap Line(r, Main)
    <3>1. CASE a = h
      BY <1>3, <1>4, <1>5, <3>1
    <3>2. CASE Main = h
      BY <1>3, <1>5, <2>1, <3>2
    <3>3. CASE a # h /\ Main # h
      BY <1>1, <1>4, <2>1, <3>3
    <3>. QED
      BY <3>1, <3>2, <3>3
  <2>3. \A k \in Keys : At(q, Main)[<<a, k>>] = At(r, Main)[<<a, k>>]
    BY <1>1, <1>4, <1>5
  <2>4. \A c \in Branches, k \in Keys : c # a => At(q, a)[<<c, k>>] = At(r, a)[<<c, k>>]
    BY <1>1, <2>1
  <2>. QED
    BY <1>5, <2>1, <2>2, <2>3, <2>4, ForkedStays
<1>6. ASSUME NEW a \in Branches, NEW b \in Branches, a # b, Main \notin {a, b},
             q.tip[a] # 0, q.tip[b] # 0
      PROVE  Line(q, a) \cap Line(q, b) \subseteq Line(q, Main)
  <2>1. Line(r, a) \cap Line(r, b) \subseteq Line(r, Main)
    BY <1>1, <1>6 DEF Star
  <2>2. Line(r, Main) \subseteq Line(q, Main)
    BY <1>1, <1>4
  <2>3. Line(q, a) \cap Line(q, b) = Line(r, a) \cap Line(r, b)
    BY <1>1, <1>3, <1>6
  <2>. QED
    BY <2>1, <2>2, <2>3
<1>7. ASSUME NEW b \in Branches, NEW c \in Branches, q.tip[b] # 0, q.tip[c] = 0, NEW k \in Keys
      PROVE  At(q, b)[<<c, k>>] = None
  <2>1. r.tip[b] # 0 /\ r.tip[c] = 0 /\ c # h
    BY <1>1, <1>4, <1>7
  <2>2. At(r, b)[<<c, k>>] = None
    BY <2>1 DEF Star
  <2>. QED
    BY <1>1, <2>1, <2>2
<1>. QED
  BY <1>1, <1>4, <1>5, <1>6, <1>7 DEF Star

\* The files of a merge of branch a and Main: a's space, and the rest.
Union(r, a) == [f \in Files |-> IF f[1] = a THEN At(r, a)[f] ELSE At(r, Main)[f]]

(* Branch t, a or Main, takes in all of the other.                         *)
LEMMA StarMerge ==
    ASSUME NEW r, NEW q, NEW a \in Branches, a # Main, NEW t \in {a, Main}, OnlyMoved(r, q, t),
           Star(r), q.merging = 0, r.tip[a] # 0,
           Line(r, a) \cup Line(r, Main) \subseteq Line(q, t),
           Line(q, t) \cap (1..Len(r.commits)) \subseteq Line(r, a) \cup Line(r, Main),
           At(q, t) = Union(r, a)
    PROVE  Star(q)
<1>0. Main \in Branches /\ r.tip[Main] # 0 /\ t \in Branches
  BY MemoryAssumption DEF Star
<1>1. /\ \A b \in Branches : q.tip[b] = 0 <=> r.tip[b] = 0
      /\ \A b \in Branches : b # t /\ r.tip[b] # 0 =>
            Line(q, b) = Line(r, b) /\ At(q, b) = At(r, b) /\ Line(r, b) \subseteq 1..Len(r.commits)
  BY <1>0, Unmoved
<1>2. \A c \in Branches, k \in Keys :
          At(q, t)[<<c, k>>] = IF c = a THEN At(r, a)[<<c, k>>] ELSE At(r, Main)[<<c, k>>]
  BY DEF Union, Files
<1>3. \A b \in Branches : b \notin {a, Main} /\ r.tip[b] # 0 =>
          /\ Line(r, b) \cap Line(r, a) \subseteq Line(r, Main)
          /\ Line(q, b) = Line(r, b) /\ At(q, b) = At(r, b)
          /\ Line(q, b) \cap Line(q, t) \subseteq Line(r, Main)
  BY <1>0, <1>1 DEF Star
<1>4. Forked(q, a)
  <2>. DEFINE s == IF t = a THEN Main ELSE a
              base == r.tip[s]
  <2>1. s \in Branches /\ s # t /\ r.tip[s] # 0 /\ s \in {a, Main} /\ q.tip[s] = base
    BY <1>0 DEF OnlyMoved
  <2>2. base \in 1..Len(r.commits)
    BY <2>1, Tips DEF OnlyMoved
  <2>3. /\ base \in 1..Len(q.commits) /\ Tree(q, base) = At(r, s)
        /\ Ancestors(q.commits)[base] = Line(r, s)
    BY <2>2, OldCommits DEF OnlyMoved, At, Line
  <2>4. Line(q, s) = Line(r, s) /\ At(q, s) = At(r, s)
    BY <1>1, <2>1
  <2>. HIDE DEF base
  <2>5. IsBase(q, a, base)
    <3>1. CASE t = a
      BY <1>2, <2>3, <2>4, <3>1 DEF IsBase
    <3>2. CASE t = Main
      BY <1>2, <2>3, <2>4, <3>2 DEF IsBase
    <3>. QED
      BY <3>1, <3>2
  <2>. QED
    BY <2>3, <2>5 DEF Forked
<1>5. ASSUME NEW b \in Branches, b \notin {a, Main}, q.tip[b] # 0
      PROVE  Forked(q, b)
  <2>1. r.tip[b] # 0 /\ Forked(r, b)
    BY <1>1, <1>5 DEF Star
  <2>2. Line(q, b) \cap Line(q, Main) = Line(r, b) \cap Line(r, Main)
    <3>1. CASE t = Main
      BY <1>3, <1>5, <2>1, <3>1
    <3>2. CASE t = a
      BY <1>0, <1>1, <1>3, <1>5, <2>1, <3>2
    <3>. QED
      BY <3>1, <3>2
  <2>3. \A k \in Keys : At(q, Main)[<<b, k>>] = At(r, Main)[<<b, k>>]
    <3>1. CASE t = Main
      BY <1>2, <1>5, <3>1
    <3>2. CASE t = a
      BY <1>0, <1>1, <3>2
    <3>. QED
      BY <3>1, <3>2
  <2>4. \A c \in Branches, k \in Keys : c # b => At(q, b)[<<c, k>>] = At(r, b)[<<c, k>>]
    BY <1>3, <1>5, <2>1
  <2>. QED
    BY <1>0, <1>5, <2>1, <2>2, <2>3, <2>4, ForkedStays
<1>6. ASSUME NEW b \in Branches, NEW c \in Branches, b # c, Main \notin {b, c},
             q.tip[b] # 0, q.tip[c] # 0
      PROVE  Line(q, b) \cap Line(q, c) \subseteq Line(q, Main)
  <2>1. Line(r, Main) \subseteq Line(q, Main)
    <3>1. CASE t = Main
      BY <3>1
    <3>2. CASE t = a
      BY <1>0, <1>1, <3>2
    <3>. QED
      BY <3>1, <3>2
  <2>2. r.tip[b] # 0 /\ r.tip[c] # 0
    BY <1>1, <1>6
  <2>3. CASE b # t /\ c # t
    <3>1. Line(q, b) \cap Line(q, c) = Line(r, b) \cap Line(r, c)
      BY <1>1, <2>2, <2>3
    <3>2. Line(r, b) \cap Line(r, c) \subseteq Line(r, Main)
      BY <1>6, <2>2 DEF Star
    <3>. QED
      BY <2>1, <3>1, <3>2
  <2>4. CASE b = t
    BY <1>3, <1>6, <2>1, <2>2, <2>4
  <2>5. CASE c = t
    BY <1>3, <1>6, <2>1, <2>2, <2>5
  <2>. QED
    BY <2>3, <2>4, <2>5
<1>7. ASSUME NEW b \in Branches, NEW c \in Branches, q.tip[b] # 0, q.tip[c] = 0, NEW k \in Keys
      PROVE  At(q, b)[<<c, k>>] = None
  <2>1. r.tip[b] # 0 /\ r.tip[c] = 0 /\ c # a
    BY <1>1, <1>7
  <2>2. \A d \in Branches : r.tip[d] # 0 => At(r, d)[<<c, k>>] = None
    BY <2>1 DEF Star
  <2>3. CASE b = t
    BY <1>0, <1>2, <2>1, <2>2, <2>3
  <2>4. CASE b # t
    BY <1>1, <2>1, <2>2, <2>4
  <2>. QED
    BY <2>3, <2>4
<1>8. q.tip[Main] # 0
  BY <1>0, <1>1
<1>. QED
  BY <1>4, <1>5, <1>6, <1>7, <1>8 DEF Star

(* A branch that is made where Main is.                                    *)
LEMMA StarBranch ==
    ASSUME NEW r, NEW q, Formed(r), Formed(q), Star(r), NEW b \in Branches, r.tip[b] = 0,
           q.commits = r.commits, q.merging = 0, q.tip[b] = r.tip[Main],
           \A c \in Branches : c # b => q.tip[c] = r.tip[c]
    PROVE  Star(q)
<1>1. /\ Main \in Branches /\ Main # b /\ q.tip[Main] = r.tip[Main] /\ q.tip[Main] # 0
      /\ r.tip[Main] \in 1..Len(r.commits)
  BY MemoryAssumption, Tips DEF Star
<1>2. /\ \A c \in Branches : c # b => Line(q, c) = Line(r, c) /\ At(q, c) = At(r, c)
      /\ Line(q, b) = Line(r, Main) /\ At(q, b) = At(r, Main)
      /\ \A base : Tree(q, base) = Tree(r, base)
  BY DEF Line, At, Tree
<1>3. ASSUME NEW a \in Branches, a # Main, q.tip[a] # 0
      PROVE  Forked(q, a)
  <2>1. CASE a = b
    <3>1. IsBase(q, b, r.tip[Main])
      BY <1>1, <1>2 DEF IsBase, Line, At
    <3>. QED
      BY <1>1, <2>1, <3>1 DEF Forked
  <2>2. CASE a # b
    <3>1. Forked(r, a)
      BY <1>3, <2>2 DEF Star
    <3>. QED
      BY <1>1, <1>2, <2>2, <3>1 DEF Forked, IsBase
  <2>. QED
    BY <2>1, <2>2
<1>4. ASSUME NEW a \in Branches, NEW c \in Branches, a # c, Main \notin {a, c},
             q.tip[a] # 0, q.tip[c] # 0
      PROVE  Line(q, a) \cap Line(q, c) \subseteq Line(q, Main)
  <2>1. CASE a = b \/ c = b
    BY <1>1, <1>2, <2>1
  <2>2. CASE a # b /\ c # b
    BY <1>1, <1>2, <1>4, <2>2 DEF Star
  <2>. QED
    BY <2>1, <2>2
<1>5. ASSUME NEW a \in Branches, NEW c \in Branches, q.tip[a] # 0, q.tip[c] = 0, NEW k \in Keys
      PROVE  At(q, a)[<<c, k>>] = None
  <2>1. c # b /\ r.tip[c] = 0
    BY <1>1, <1>5
  <2>2. \A d \in Branches : r.tip[d] # 0 => At(r, d)[<<c, k>>] = None
    BY <2>1 DEF Star
  <2>. QED
    BY <1>1, <1>2, <1>5, <2>2
<1>. QED
  BY <1>1, <1>3, <1>4, <1>5 DEF Star

(* A commit that is made.                                                  *)
LEMMA CommitDoes ==
    ASSUME NEW r, Formed(r), r.ok, r.merging # 0 \/ r.work # Tree(r, r.tip[r.head])
    PROVE  LET q == CommitAll(r)
               new == q.tip[r.head]
               old == Ancestors(r.commits)[r.tip[r.head]]
           IN  /\ Formed(q) /\ q.ok /\ q.merging = 0 /\ q.head = r.head
               /\ Extends(r.commits, q.commits) /\ new > Len(r.commits)
               /\ Tree(q, new) = r.work
               /\ \A b \in Branches : b # r.head => q.tip[b] = r.tip[b]
               /\ Ancestors(q.commits)[new] =
                    {new} \cup old
                        \cup (IF r.merging = 0 THEN {} ELSE Ancestors(r.commits)[r.merging])
<1>. DEFINE merged == IF r.merging = 0 THEN <<>> ELSE <<r.merging>>
            parents == <<r.tip[r.head]>> \o merged
            commit == [tree |-> r.work, parents |-> parents]
            cs == Append(r.commits, commit)
            n == Len(r.commits) + 1
            q == CommitAll(r)
            P == {r.tip[r.head]} \cup (IF r.merging = 0 THEN {} ELSE {r.merging})
<1>1. q = [r EXCEPT !.commits = cs, !.tip[r.head] = n, !.merging = 0]
  BY DEF CommitAll
<1>2. /\ r \in Repos /\ r.commits \in Seq(Commit) /\ Len(r.commits) \in Nat /\ r.head \in Branches
      /\ r.tip[r.head] \in 1..Len(r.commits) /\ r.merging <= Len(r.commits)
      /\ r.tip \in [Branches -> Nat] /\ r.merging \in Nat
  BY Tips DEF Formed, Repos
<1>3. Formed(q) /\ q.head = r.head /\ Extends(r.commits, q.commits)
  BY CommitAllIs
<1>4. ToSet(parents) = P
  <2>1. CASE r.merging = 0
    <3>1. parents = <<r.tip[r.head]>>
      BY <2>1
    <3>. QED
      BY <2>1, <3>1 DEF ToSet
  <2>2. CASE r.merging # 0
    <3>. DEFINE a == r.tip[r.head]
                b == r.merging
    <3>1. parents = <<a>> \o <<b>> /\ a \in Nat /\ b \in Nat
      BY <1>2, <2>2
    <3>2. P = {a, b}
      BY <2>2
    <3>. HIDE DEF a, b, parents
    <3>3. <<a>> \in Seq(Nat) /\ <<b>> \in Seq(Nat)
      BY <3>1
    <3>4. DOMAIN parents = 1..2 /\ parents[1] = a /\ parents[2] = b
      BY <3>1, <3>3
    <3>. QED
      BY <3>2, <3>4 DEF ToSet
  <2>. QED
    BY <2>1, <2>2
<1>. HIDE DEF merged, parents, P
<1>5. commit.parents = parents /\ commit.tree = r.work
  OBVIOUS
<1>. HIDE DEF commit
<1>6. Len(cs) = n /\ cs[n] = commit
  BY <1>2
<1>. HIDE DEF cs
<1>7. /\ q.commits = cs /\ q.ok /\ q.merging = 0 /\ q.tip[r.head] = n
      /\ \A b \in Branches : b # r.head => q.tip[b] = r.tip[b]
  BY <1>1, <1>2 DEF Repos
<1>. HIDE DEF q
<1>8. Tree(q, n) = r.work /\ n > Len(r.commits)
  BY <1>2, <1>5, <1>6, <1>7 DEF Tree
<1>9. Ancestors(cs)[n] = {n} \cup Over(Ancestors(r.commits), P)
  <2>1. n \in 1..Len(cs) /\ History(cs)
    BY <1>2, <1>3, <1>6, <1>7 DEF Formed
  <2>2. Parents(cs, n) = P
    BY <1>4, <1>5, <1>6 DEF Parents
  <2>3. Ancestors(cs)[n] = {n} \cup Over(Ancestors(cs), P)
    BY <2>1, <2>2, AncestorsAre DEF Lines
  <2>4. \A p \in P : p \in 1..Len(r.commits)
    BY <1>2 DEF P
  <2>5. \A p \in P : Ancestors(cs)[p] = Ancestors(r.commits)[p]
    BY <1>3, <1>7, <2>4, OldCommits
  <2>. QED
    BY <2>3, <2>5, OverAgrees
<1>10. Over(Ancestors(r.commits), P) =
          Ancestors(r.commits)[r.tip[r.head]]
              \cup (IF r.merging = 0 THEN {} ELSE Ancestors(r.commits)[r.merging])
  BY DEF Over, P
<1>. QED
  BY <1>3, <1>7, <1>8, <1>9, <1>10 DEF q

-----------------------------------------------------------------------------
(* What calls do to the branches.                                          *)

\* From r to q there are no commits.
Still(r, q) == Sound(q) /\ Star(q) /\ q.commits = r.commits /\ q.tip = r.tip

LEMMA StillSame ==
    ASSUME NEW r, NEW q, Star(r), Sound(q), q.commits = r.commits, q.tip = r.tip,
           q.merging = 0
    PROVE  Still(r, q)
BY StarSame DEF Still

LEMMA FailedStill ==
    ASSUME NEW r, Sound(r), Star(r)
    PROVE  Still(r, Failed(r)) /\ ~ Failed(r).ok
<1>1. Sound(Failed(r)) /\ ~ Failed(r).ok
  BY FailedIs DEF Sound
<1>2. Failed(r).commits = r.commits /\ Failed(r).tip = r.tip /\ Failed(r).merging = 0
  BY FailedIs DEF Sound, Star
<1>. QED
  BY <1>1, <1>2, StillSame

(* A checkout succeeds if the branch exists.                               *)
LEMMA CheckoutStill ==
    ASSUME NEW r, Sound(r), Star(r), r.ok, NEW b \in Branches
    PROVE  LET q == Checkout(r, b)
           IN  Still(r, q) /\ (q.ok <=> r.tip[b] # 0) /\ (q.ok => q.head = b)
<1>. DEFINE q == Checkout(r, b)
<1>1. r \in Repos /\ r.merging = 0
  BY DEF Sound, Formed, Star
<1>2. Sound(q) /\ q.commits = r.commits /\ q.tip = r.tip /\ (q.ok => q.head = b)
  BY CheckoutIs DEF Sound
<1>3. q.merging = 0 /\ (q.ok <=> r.tip[b] # 0)
  <2>1. CASE r.tip[b] # 0
    BY <1>1, <2>1 DEF Checkout, Repos
  <2>2. CASE r.tip[b] = 0
    <3>1. q = Failed(r)
      BY <2>2 DEF Checkout
    <3>. QED
      BY <1>1, <2>2, <3>1, FailedIs DEF Sound
  <2>. QED
    BY <2>1, <2>2
<1>. HIDE DEF q
<1>4. Still(r, q)
  BY <1>2, <1>3, StillSame
<1>. QED
  BY <1>2, <1>3, <1>4 DEF q

(* Other files of the space that is checked out: they are committed, or    *)
(* there is nothing to commit.                                             *)
LEMMA OwnCommit ==
    ASSUME NEW r, Sound(r), Star(r), r.ok, NEW w \in Trees,
           \A c \in Branches, k \in Keys : c # r.head => w[<<c, k>>] = r.work[<<c, k>>]
    PROVE  LET q == CommitAll([r EXCEPT !.work = w])
           IN  \/ w = r.work /\ ~ q.ok /\ Still(r, q)
               \/ /\ w # r.work /\ q.ok /\ Sound(q) /\ Star(q)
                  /\ OnlyMoved(r, q, r.head) /\ At(q, r.head) = w
<1>. DEFINE h == r.head
            u == [r EXCEPT !.work = w]
            q == CommitAll(u)
<1>1. /\ Formed(r) /\ r \in Repos /\ r.work \in Trees /\ r.merging = 0 /\ Len(r.commits) \in Nat
      /\ h \in Branches /\ r.tip[h] # 0 /\ r.work = At(r, h) /\ r.tip[h] \in Nat
  BY Tips DEF Sound, Formed, Star, Clean, At
<1>2. /\ u \in Repos /\ u.merging = 0 /\ u.ok /\ u.work = w
      /\ u.commits = r.commits /\ u.tip = r.tip /\ u.head = h
  BY <1>1 DEF Repos
<1>. HIDE DEF u, q, h
<1>3. Formed(u)
  BY <1>1, <1>2 DEF Formed
<1>4. CASE w = r.work
  <2>1. q = Failed(u)
    <3>1. Tree(u, u.tip[u.head]) = w
      BY <1>1, <1>2, <1>4 DEF Tree, At
    <3>. QED
      BY <1>2, <3>1 DEF CommitAll, q
  <2>2. /\ Formed(q) /\ ~ q.ok /\ q.commits = r.commits /\ q.tip = r.tip /\ q.merging = 0
        /\ q.head = h /\ q.work = r.work
    BY <1>2, <1>3, <1>4, <2>1, FailedIs
  <2>3. Sound(q)
    BY <1>1, <2>2 DEF Sound, Clean, Tree, At
  <2>4. Still(r, q)
    BY <2>2, <2>3, StillSame
  <2>. QED
    BY <1>4, <2>2, <2>4 DEF q, u
<1>5. CASE w # r.work
  <2>1. u.work # Tree(u, u.tip[u.head])
    BY <1>1, <1>2, <1>5 DEF Tree, At
  <2>. DEFINE new == q.tip[h]
              old == Ancestors(u.commits)[u.tip[h]]
  <2>2. /\ Formed(q) /\ q.ok /\ q.merging = 0 /\ q.head = h
        /\ Extends(u.commits, q.commits) /\ new > Len(u.commits) /\ Tree(q, new) = u.work
        /\ \A c \in Branches : c # h => q.tip[c] = u.tip[c]
        /\ Ancestors(q.commits)[new] = {new} \cup old \cup {}
    BY <1>2, <1>3, <2>1, CommitDoes DEF q
  <2>3. new # 0
    BY <1>1, <1>2, <2>2
  <2>4. OnlyMoved(r, q, h)
    BY <1>1, <1>2, <2>2, <2>3 DEF OnlyMoved
  <2>5. /\ Line(q, h) = {q.tip[h]} \cup Line(r, h) /\ q.tip[h] > Len(r.commits)
        /\ At(q, h) = w
    BY <1>2, <2>2 DEF Line, At
  <2>6. Star(q)
    <3>1. \A c \in Branches, k \in Keys : c # h => At(q, h)[<<c, k>>] = At(r, h)[<<c, k>>]
      BY <1>1, <2>5 DEF h
    <3>. QED
      BY <1>1, <2>2, <2>4, <2>5, <3>1, StarCommit
  <2>7. Sound(q)
    <3>1. Sound(r) /\ u.merging <= Len(r.commits)
      BY <1>1, <1>2
    <3>. QED
      BY <1>2, <3>1, CommitWorkMoves DEF Moves, q, h
  <2>. QED
    BY <1>5, <2>2, <2>4, <2>5, <2>6, <2>7 DEF q, u, h
<1>. QED
  BY <1>4, <1>5

-----------------------------------------------------------------------------
(* git merge between Main and another branch: there are no conflicts, and  *)
(* the target then has the space of that branch and the rest from Main.    *)

LEMMA BaseIs ==
    ASSUME NEW r, Formed(r), NEW s \in 1..Len(r.commits), NEW t \in 1..Len(r.commits),
           NEW base \in 1..Len(r.commits),
           Ancestors(r.commits)[s] \cap Ancestors(r.commits)[t] = Ancestors(r.commits)[base]
    PROVE  /\ MergeBase(r, s, t) = base
           /\ s \in Ancestors(r.commits)[t] => base = s
           /\ t \in Ancestors(r.commits)[s] => base = t
<1>. DEFINE anc == Ancestors(r.commits)
<1>1. \A c \in 1..Len(r.commits) :
              /\ c \in anc[c] /\ anc[c] \subseteq 1..c
              /\ \A b \in anc[c] : anc[b] \subseteq anc[c]
  BY Descent DEF Formed
<1>2. \A c \in 1..Len(r.commits) : c \in Nat /\ Max(anc[c]) = c
  <2>. SUFFICES ASSUME NEW c \in 1..Len(r.commits) PROVE c \in Nat /\ Max(anc[c]) = c
    OBVIOUS
  <2>1. c \in Nat /\ c \in anc[c] /\ anc[c] \in SUBSET (1..c)
    BY <1>1
  <2>. HIDE DEF anc
  <2>. QED
    BY <2>1, MaxIs
<1>3. MergeBase(r, s, t) = Max(anc[base])
  BY DEF MergeBase
<1>. HIDE DEF anc
<1>4. anc[s] \cap anc[t] = anc[base]
  BY DEF anc
<1>5. s \in anc[t] => anc[base] = anc[s]
  BY <1>1, <1>4
<1>6. t \in anc[s] => anc[base] = anc[t]
  BY <1>1, <1>4
<1>. QED
  BY <1>2, <1>3, <1>5, <1>6 DEF anc


\* a is the branch that s and t are besides Main.
Around(s, t, a) == a # Main /\ \/ s = a /\ t = Main
                               \/ s = Main /\ t = a

LEMMA ThreeWayDoes ==
    ASSUME NEW r, Formed(r), Star(r), NEW s \in Branches, NEW t \in Branches, NEW a \in Branches,
           Around(s, t, a), r.tip[a] # 0
    PROVE  Conflicts(r, r.tip[s], r.tip[t]) = {} /\ ThreeWay(r, r.tip[s], r.tip[t]) = Union(r, a)
<1>. DEFINE c == r.tip[s]
            d == r.tip[t]
<1>1. c \in 1..Len(r.commits) /\ d \in 1..Len(r.commits)
  BY Tips DEF Star, Around
<1>2. PICK base \in 1..Len(r.commits) : IsBase(r, a, base)
  BY DEF Star, Forked, Around
<1>3. MergeBase(r, c, d) = base
  <2>1. Ancestors(r.commits)[c] \cap Ancestors(r.commits)[d] = Ancestors(r.commits)[base]
    BY <1>2 DEF IsBase, Line, Around
  <2>. QED
    BY <1>1, <2>1, BaseIs
<1>4. \A f \in Files : IF f[1] = a THEN Tree(r, base)[f] = At(r, Main)[f]
                                   ELSE Tree(r, base)[f] = At(r, a)[f]
  <2>. SUFFICES ASSUME NEW x \in Branches, NEW k \in Keys
                PROVE  IF x = a THEN Tree(r, base)[<<x, k>>] = At(r, Main)[<<x, k>>]
                                ELSE Tree(r, base)[<<x, k>>] = At(r, a)[<<x, k>>]
    BY DEF Files
  <2>. QED
    BY <1>2 DEF IsBase
<1>5. Conflicts(r, c, d) = {}
  <2>1. ASSUME NEW f \in Files
        PROVE  Tree(r, c)[f] = Tree(r, base)[f] \/ Tree(r, d)[f] = Tree(r, base)[f]
    BY <1>4 DEF At, Around
  <2>. HIDE DEF c, d
  <2>. QED
    BY <1>3, <2>1 DEF Conflicts
<1>6. ThreeWay(r, c, d) =
          [f \in Files |-> IF Tree(r, c)[f] = Tree(r, base)[f] THEN Tree(r, d)[f] ELSE Tree(r, c)[f]]
  BY <1>3, <1>5 DEF ThreeWay
<1>7. ASSUME NEW f \in Files
      PROVE  (IF Tree(r, c)[f] = Tree(r, base)[f] THEN Tree(r, d)[f] ELSE Tree(r, c)[f])
                = IF f[1] = a THEN At(r, a)[f] ELSE At(r, Main)[f]
  <2>1. CASE s = a /\ t = Main
    BY <1>4, <2>1 DEF At
  <2>2. CASE s = Main /\ t = a
    BY <1>4, <2>2 DEF At
  <2>. QED
    BY <2>1, <2>2 DEF Around
<1>. HIDE DEF c, d
<1>8. ThreeWay(r, c, d) = Union(r, a)
  BY <1>6, <1>7 DEF Union
<1>. QED
  BY <1>5, <1>8 DEF c, d

LEMMA GitMergeDoes ==
    ASSUME NEW r, Sound(r), Star(r), NEW s \in Branches, NEW t \in Branches, NEW a \in Branches,
           Around(s, t, a), r.tip[a] # 0, r.ok, r.head = t
    PROVE  LET q == GitMerge(r, s)
           IN  /\ Sound(q) /\ Star(q) /\ q.ok /\ q.head = t
               /\ OnlyMoved(r, q, t) /\ At(q, t) = Union(r, a)
<1>. DEFINE c == r.tip[s]
            d == r.tip[t]
            anc == Ancestors(r.commits)
            w == ThreeWay(r, c, d)
            merged == [r EXCEPT !.merging = c, !.work = w]
            q == GitMerge(r, s)
<1>1. /\ Formed(r) /\ r \in Repos /\ c \in 1..Len(r.commits) /\ d \in 1..Len(r.commits)
      /\ Len(r.commits) \in Nat /\ d # 0 /\ c # 0 /\ c \in Nat /\ r.tip \in [Branches -> Nat]
      /\ r.merging = 0 /\ r.tip[Main] # 0
  BY Tips DEF Sound, Formed, Repos, Star, Around
<1>2. Sound(q) /\ q.head = t /\ Extends(r.commits, q.commits)
      /\ \A b \in Branches : b # t => q.tip[b] = r.tip[b]
  BY GitMergeMoves DEF Moves, Grows
<1>3. PICK base \in 1..Len(r.commits) : IsBase(r, a, base)
  BY DEF Star, Forked, Around
<1>4. (c \in anc[d] => base = c) /\ (d \in anc[c] => base = d)
  <2>1. anc[c] \cap anc[d] = anc[base]
    BY <1>3 DEF IsBase, Line, Around
  <2>. QED
    BY <1>1, <2>1, BaseIs
<1>5. At(r, a) \in Trees /\ At(r, Main) \in Trees
  BY <1>1, Tips DEF At, Around
<1>6. /\ anc[c] \subseteq 1..Len(r.commits) /\ anc[d] \subseteq 1..Len(r.commits)
      /\ c \in anc[c] /\ d \in anc[d]
      /\ (c \in anc[d] => anc[c] \subseteq anc[d]) /\ (d \in anc[c] => anc[d] \subseteq anc[c])
  <2>1. anc[c] \subseteq 1..c /\ anc[d] \subseteq 1..d
    BY <1>1, Descent DEF Formed
  <2>2. /\ c \in anc[c] /\ d \in anc[d]
        /\ (c \in anc[d] => anc[c] \subseteq anc[d]) /\ (d \in anc[c] => anc[d] \subseteq anc[c])
    BY <1>1, Descent DEF Formed
  <2>. HIDE DEF anc, c, d
  <2>. QED
    BY <1>1, <2>1, <2>2
<1>7. \A X \in Trees : X = Union(r, a) <=>
          \A f \in Files : X[f] = IF f[1] = a THEN At(r, a)[f] ELSE At(r, Main)[f]
  BY DEF Trees, Union
<1>8. /\ \A f \in Files : f[1] = a => Tree(r, base)[f] = At(r, Main)[f]
      /\ \A f \in Files : f[1] # a => Tree(r, base)[f] = At(r, a)[f]
  BY <1>3 DEF IsBase, Files
<1>9. /\ q.ok /\ q.merging = 0 /\ q.tip[t] # 0
      /\ At(q, t) = Union(r, a)
      /\ anc[c] \cup anc[d] \subseteq Line(q, t)
      /\ Line(q, t) \cap (1..Len(r.commits)) \subseteq anc[c] \cup anc[d]
  <2>1. CASE c \in anc[d]
    <3>1. q = r
      BY <1>1, <2>1 DEF GitMerge
    <3>2. At(r, s) = Tree(r, base)
      BY <1>4, <2>1 DEF At
    <3>3. At(r, t) = Union(r, a)
      BY <1>5, <1>7, <1>8, <3>2 DEF Around
    <3>4. Line(r, t) = anc[d]
      BY DEF Line
    <3>. QED
      BY <1>1, <1>6, <2>1, <3>1, <3>3, <3>4
  <2>2. CASE c \notin anc[d] /\ d \in anc[c]
    <3>1. q = [r EXCEPT !.tip[r.head] = c, !.work = Tree(r, c)]
      BY <1>1, <2>2 DEF GitMerge
    <3>2. q.ok /\ q.merging = 0 /\ q.tip[t] = c /\ q.commits = r.commits
      BY <1>1, <3>1 DEF Repos
    <3>3. At(q, t) = At(r, s) /\ Line(q, t) = anc[c]
      BY <3>2 DEF At, Tree, Line
    <3>4. At(r, t) = Tree(r, base)
      BY <1>4, <2>2 DEF At
    <3>5. At(r, s) = Union(r, a)
      BY <1>5, <1>7, <1>8, <3>4 DEF Around
    <3>. HIDE DEF q, c, d, anc
    <3>. QED
      BY <1>1, <1>6, <2>2, <3>2, <3>3, <3>5
  <2>3. CASE c \notin anc[d] /\ d \notin anc[c]
    <3>1. Conflicts(r, c, d) = {} /\ w = Union(r, a)
      BY <1>1, ThreeWayDoes
    <3>2. w \in Trees
      BY <1>5, <3>1 DEF Union, Trees
    <3>3. q = CommitAll(merged)
      BY <1>1, <2>3, <3>1 DEF GitMerge
    <3>. HIDE DEF w, q, c, d
    <3>4. /\ merged \in Repos /\ merged.merging = c /\ merged.ok /\ merged.work = w
          /\ merged.commits = r.commits /\ merged.tip = r.tip /\ merged.head = t
      BY <1>1, <3>2 DEF Repos
    <3>. HIDE DEF merged
    <3>5. Formed(merged)
      BY <1>1, <3>4 DEF Formed, d
    <3>6. merged.merging # 0 /\ merged.tip[merged.head] = d
      BY <1>1, <3>4 DEF d
    <3>. DEFINE new == q.tip[t]
    <3>7. /\ q.ok /\ q.merging = 0 /\ new > Len(r.commits) /\ Tree(q, new) = w
          /\ Ancestors(q.commits)[new] = {new} \cup anc[d] \cup anc[c]
      BY <3>3, <3>4, <3>5, <3>6, CommitDoes
    <3>8. new # 0 /\ new \notin 1..Len(r.commits)
      <4>1. new \in Nat
        BY <1>2, Tips DEF Sound
      <4>. QED
        BY <1>1, <3>7, <4>1
    <3>9. At(q, t) = w /\ Line(q, t) = {new} \cup anc[d] \cup anc[c]
      BY <3>7 DEF At, Line
    <3>. HIDE DEF new, anc
    <3>. QED
      BY <3>1, <3>7, <3>8, <3>9 DEF new
  <2>. QED
    BY <2>1, <2>2, <2>3
<1>. HIDE DEF q
<1>10. OnlyMoved(r, q, t)
  BY <1>1, <1>2, <1>9 DEF OnlyMoved, Sound
<1>11. Star(q)
  <2>1. anc[c] \cup anc[d] = Line(r, a) \cup Line(r, Main)
    BY DEF Line, Around
  <2>2. t \in {a, Main} /\ a # Main
    BY DEF Around
  <2>. HIDE DEF anc, c, d
  <2>. QED
    BY <1>9, <1>10, <2>1, <2>2, StarMerge
<1>. QED
  BY <1>2, <1>9, <1>10, <1>11 DEF q

-----------------------------------------------------------------------------
(* The methods.                                                            *)

\* The keys that _overlay_branch copies in a working tree, and the tree then.
Chosen(x, s, t, policy, newer) ==
    {k \in Keys : /\ x[<<s, k>>] # None
                  /\ \/ x[<<t, k>>] = None
                     \/ policy = "theirs"
                     \/ policy = "last_write" /\ k \in newer}

Overlaid(x, s, t, copied) ==
    [f \in Files |-> IF f[1] = t /\ f[2] \in copied THEN x[<<s, f[2]>>] ELSE x[f]]

LEMMA OverlayDoes ==
    ASSUME NEW r, Sound(r), Star(r), r.ok, NEW s \in Branches, NEW t \in Branches, r.head = t,
           NEW policy, NEW newer
    PROVE  LET q == Overlay(r, s, t, policy, newer)
               copied == Chosen(r.work, s, t, policy, newer)
               w == Overlaid(r.work, s, t, copied)
           IN  \/ copied = {} /\ q = r
               \/ copied # {} /\ w = r.work /\ ~ q.ok /\ Still(r, q)
               \/ /\ copied # {} /\ w # r.work /\ q.ok /\ Sound(q) /\ Star(q)
                  /\ OnlyMoved(r, q, t) /\ At(q, t) = w
<1>. DEFINE copied == Chosen(r.work, s, t, policy, newer)
            w == Overlaid(r.work, s, t, copied)
            q == Overlay(r, s, t, policy, newer)
<1>1. q = IF copied = {} THEN r ELSE CommitAll([r EXCEPT !.work = w])
  BY DEF Overlay, Chosen, Overlaid
<1>2. copied \subseteq Keys /\ r.work \in Trees
  BY Tips DEF Sound, Chosen
<1>. HIDE DEF copied
<1>3. w \in Trees
  <2>1. \A f \in Files : f[2] \in copied => <<s, f[2]>> \in Files
    BY <1>2 DEF Files
  <2>. QED
    BY <1>2, <2>1 DEF Trees, Overlaid
<1>4. \A c \in Branches, k \in Keys : c # t => w[<<c, k>>] = r.work[<<c, k>>]
  BY DEF Overlaid, Files
<1>. HIDE DEF w
<1>5. LET u == CommitAll([r EXCEPT !.work = w])
      IN  \/ w = r.work /\ ~ u.ok /\ Still(r, u)
          \/ /\ w # r.work /\ u.ok /\ Sound(u) /\ Star(u)
             /\ OnlyMoved(r, u, r.head) /\ At(u, r.head) = w
  BY <1>3, <1>4, OwnCommit
<1>. QED
  BY <1>1, <1>5 DEF w, copied

(* What a merge by "last_write" copies: at least what the target has not   *)
(* seen of the source.                                                     *)
LEMMA NewerHasChanged ==
    ASSUME NEW x, NEW y, NEW s, NEW t, NEW older, NEW open,
           \A k \in Keys : x[<<t, k>>] = y[<<t, k>>]
    PROVE  {k \in Keys : x[<<s, k>>] # y[<<s, k>>]} \subseteq NewerAfter(x, y, s, t, older, open)
BY DEF NewerAfter

\* What merge(s, t, policy) does, when it takes the keys in taken.
Takes(r, q, s, t, a, taken) ==
    /\ \A k \in Keys : At(q, t)[<<t, k>>] = IF k \in taken THEN At(r, s)[<<s, k>>]
                                            ELSE At(r, t)[<<t, k>>]
    /\ \A c \in Branches, k \in Keys : c # t => At(q, t)[<<c, k>>] = Union(r, a)[<<c, k>>]
    /\ q.ok <=> taken = {} \/ \E k \in taken : At(r, s)[<<s, k>>] # At(r, t)[<<t, k>>]

\* The keys that it takes.
Wanted(r, s, t, policy, newer) ==
    {k \in Keys : /\ At(r, s)[<<s, k>>] # None
                  /\ \/ At(r, t)[<<t, k>>] = None
                     \/ policy = "theirs"
                     \/ policy = "last_write" /\ k \in newer}

LEMMA MergedDoes ==
    ASSUME NEW r, Sound(r), Star(r), r.ok, NEW s \in Branches, NEW t \in Branches,
           NEW a \in Branches, Around(s, t, a), NEW policy, NEW open
    PROVE  LET q == Merged(r, s, t, policy, open)
           IN  \/ r.tip[a] = 0 /\ ~ q.ok /\ Still(r, q)
               \/ /\ r.tip[a] # 0 /\ Sound(q) /\ Star(q) /\ OnlyMoved(r, q, t)
                  /\ \E newer :
                        /\ \A k \in Keys : At(r, s)[<<s, k>>] # At(r, t)[<<s, k>>] => k \in newer
                        /\ Takes(r, q, s, t, a, Wanted(r, s, t, policy, newer))
<1>. DEFINE on == Checkout(r, t)
            merge == GitMerge(on, s)
            resolved == Resolve(merge, policy)
            done == IF merge.ok \/ ~ on.ok THEN merge ELSE resolved
            out == NewerAfter(r.work, on.work, s, t, open, open)
            newer == IF merge.ok THEN NewerAfter(on.work, merge.work, s, t, out, open) ELSE open
            q == Overlay(done, s, t, policy, newer)
<1>1. Merged(r, s, t, policy, open) = q
  BY DEF Merged
<1>2. Still(r, on) /\ (on.ok <=> r.tip[t] # 0) /\ (on.ok => on.head = t)
  BY CheckoutStill
<1>3. r.tip[Main] # 0
  BY DEF Star
<1>. HIDE DEF on, out
<1>4. Sound(on) /\ Star(on) /\ on.commits = r.commits /\ on.tip = r.tip
  BY <1>2 DEF Still
<1>5. CASE r.tip[a] = 0 /\ t = a
  <2>1. ~ on.ok
    BY <1>2, <1>5
  <2>2. merge = Failed(on) /\ done = merge
    BY <2>1 DEF GitMerge
  <2>3. Still(on, merge) /\ ~ merge.ok
    BY <1>4, <2>2, FailedStill
  <2>. HIDE DEF merge, done
  <2>4. q = merge
    BY <2>2, <2>3 DEF Overlay
  <2>. QED
    BY <1>1, <1>4, <1>5, <2>3, <2>4 DEF Still
<1>6. CASE r.tip[a] = 0 /\ s = a /\ t = Main
  <2>1. on.ok /\ on.tip[s] = 0
    BY <1>2, <1>3, <1>4, <1>6
  <2>2. merge = Failed(on)
    BY <2>1 DEF GitMerge
  <2>3. Still(on, merge) /\ ~ merge.ok /\ merge.merging = 0
    BY <1>4, <2>2, FailedStill DEF Still, Star
  <2>. HIDE DEF merge
  <2>4. done = Failed(merge)
    BY <2>1, <2>3 DEF Resolve
  <2>5. Still(merge, done) /\ ~ done.ok
    BY <2>3, <2>4, FailedStill DEF Still
  <2>. HIDE DEF done
  <2>6. q = done
    BY <2>5 DEF Overlay
  <2>. QED
    BY <1>1, <1>4, <1>6, <2>3, <2>5, <2>6 DEF Still
<1>7. CASE r.tip[a] # 0
  <2>1. on.ok /\ on.head = t /\ r.tip[t] # 0
    BY <1>2, <1>3, <1>7 DEF Around
  <2>2. /\ Sound(merge) /\ Star(merge) /\ merge.ok /\ merge.head = t
        /\ OnlyMoved(on, merge, t) /\ At(merge, t) = Union(on, a)
    BY <1>4, <1>7, <2>1, GitMergeDoes
  <2>3. done = merge /\ newer = NewerAfter(on.work, merge.work, s, t, out, open)
    BY <2>2
  <2>. HIDE DEF merge, done, newer, q
  <2>4. /\ Union(on, a) = Union(r, a) /\ on.work = At(r, t) /\ merge.work = Union(r, a)
        /\ OnlyMoved(r, merge, t)
    <3>1. Union(on, a) = Union(r, a) /\ At(on, t) = At(r, t)
      BY <1>4 DEF Union, At, Tree
    <3>2. on.work = At(on, t)
      BY <1>4, <2>1 DEF Sound, Clean, Star, At
    <3>3. merge.work = At(merge, t)
      BY <2>2 DEF Sound, Clean, Star, At
    <3>4. Formed(r)
      BY DEF Sound
    <3>. QED
      BY <1>4, <2>2, <3>1, <3>2, <3>3, <3>4 DEF OnlyMoved
  <2>5. \A k \in Keys : /\ Union(r, a)[<<s, k>>] = At(r, s)[<<s, k>>]
                        /\ Union(r, a)[<<t, k>>] = At(r, t)[<<t, k>>]
    BY DEF Union, Files, Around
  <2>6. \A k \in Keys : At(r, s)[<<s, k>>] # At(r, t)[<<s, k>>] => k \in newer
    BY <2>3, <2>4, <2>5, NewerHasChanged
  <2>. DEFINE copied == Wanted(r, s, t, policy, newer)
              w == Overlaid(merge.work, s, t, copied)
  <2>7. Chosen(merge.work, s, t, policy, newer) = copied
    BY <2>4, <2>5 DEF Chosen, Wanted
  <2>8. /\ \A k \in Keys : w[<<t, k>>] = IF k \in copied THEN At(r, s)[<<s, k>>]
                                         ELSE At(r, t)[<<t, k>>]
        /\ \A c \in Branches, k \in Keys : c # t => w[<<c, k>>] = Union(r, a)[<<c, k>>]
    BY <2>4, <2>5 DEF Overlaid, Files
  <2>9. copied \subseteq Keys /\ merge.work \in Trees
    BY <2>2, Tips DEF Wanted, Sound
  <2>10. w = merge.work <=> \A k \in copied : At(r, s)[<<s, k>>] = At(r, t)[<<t, k>>]
    <3>1. ASSUME \A k \in copied : At(r, s)[<<s, k>>] = At(r, t)[<<t, k>>]
          PROVE  w = merge.work
      <4>1. ASSUME NEW f \in Files, f[1] = t, f[2] \in copied
            PROVE  merge.work[<<s, f[2]>>] = merge.work[f]
        <5>1. f = <<t, f[2]>>
          BY <4>1 DEF Files
        <5>. QED
          BY <2>4, <2>5, <2>9, <3>1, <4>1, <5>1
      <4>2. w = [f \in Files |-> merge.work[f]]
        BY <4>1 DEF Overlaid
      <4>. QED
        BY <2>9, <4>2 DEF Trees
    <3>2. ASSUME w = merge.work, NEW k \in copied
          PROVE  At(r, s)[<<s, k>>] = At(r, t)[<<t, k>>]
      BY <2>4, <2>5, <2>8, <2>9, <3>2
    <3>. QED
      BY <3>1, <3>2
  <2>. HIDE DEF copied, w
  <2>11. \/ copied = {} /\ q = done
         \/ copied # {} /\ w = merge.work /\ ~ q.ok /\ Still(done, q)
         \/ /\ copied # {} /\ w # merge.work /\ q.ok /\ Sound(q) /\ Star(q)
            /\ OnlyMoved(done, q, t) /\ At(q, t) = w
    BY <2>2, <2>3, <2>7, OverlayDoes DEF q, w
  <2>12. \A k \in Keys, c \in Branches :
             c = t /\ k \notin copied => Union(r, a)[<<c, k>>] = At(r, t)[<<t, k>>]
    BY <2>5
  <2>13. /\ Sound(q) /\ Star(q) /\ OnlyMoved(r, q, t)
         /\ Takes(r, q, s, t, a, copied)
    <3>1. CASE copied = {} /\ q = done
      BY <2>2, <2>3, <2>4, <2>5, <3>1 DEF Takes
    <3>2. CASE copied # {} /\ w = merge.work /\ ~ q.ok /\ Still(done, q)
      <4>1. /\ Sound(q) /\ Star(q) /\ q.commits = merge.commits /\ q.tip = merge.tip
        BY <2>3, <3>2 DEF Still
      <4>2. OnlyMoved(r, q, t)
        BY <2>4, <4>1 DEF OnlyMoved, Sound
      <4>3. At(q, t) = w
        BY <2>2, <2>4, <3>2, <4>1 DEF At, Tree
      <4>. QED
        BY <2>8, <2>10, <3>2, <4>1, <4>2, <4>3 DEF Takes
    <3>3. CASE /\ copied # {} /\ w # merge.work /\ q.ok /\ Sound(q) /\ Star(q)
               /\ OnlyMoved(done, q, t) /\ At(q, t) = w
      <4>1. OnlyMoved(r, q, t)
        <5>1. Extends(r.commits, q.commits)
          <6>1. Len(r.commits) \in Nat /\ Len(merge.commits) \in Nat /\ Len(q.commits) \in Nat
            BY <2>4, <3>3, Tips DEF OnlyMoved
          <6>. QED
            BY <2>3, <2>4, <3>3, <6>1 DEF OnlyMoved, Extends
        <5>. QED
          BY <2>3, <2>4, <3>3, <5>1 DEF OnlyMoved
      <4>. QED
        BY <2>8, <2>10, <3>3, <4>1 DEF Takes
    <3>. QED
      BY <2>11, <3>1, <3>2, <3>3
  <2>. QED
    BY <1>1, <1>7, <2>6, <2>13 DEF copied
<1>. QED
  BY <1>5, <1>6, <1>7 DEF Around

(* A write into the branch checked out.                                    *)
LEMMA WriteDoes ==
    ASSUME NEW r, Sound(r), Star(r), r.ok, NEW b \in Branches, b = r.head, NEW k \in Keys,
           NEW v \in Contents
    PROVE  LET q == SetKey(r, b, k, v)
           IN  \/ At(r, b)[<<b, k>>] = v /\ ~ q.ok /\ Still(r, q)
               \/ /\ At(r, b)[<<b, k>>] # v /\ q.ok /\ Sound(q) /\ Star(q)
                  /\ OnlyMoved(r, q, b) /\ At(q, b) = [At(r, b) EXCEPT ![<<b, k>>] = v]
<1>. DEFINE w == [r.work EXCEPT ![<<b, k>>] = v]
            q == SetKey(r, b, k, v)
<1>1. r.work = At(r, b) /\ r.work \in Trees
  BY Tips DEF Sound, Star, Clean, At
<1>2. q = CommitAll([r EXCEPT !.work = w])
  BY DEF SetKey, Written
<1>3. /\ w \in Trees /\ (w = r.work <=> r.work[<<b, k>>] = v)
      /\ \A c \in Branches, j \in Keys : c # b => w[<<c, j>>] = r.work[<<c, j>>]
  <2>1. \A c \in Branches, j \in Keys : <<c, j>> \in Files
    BY DEF Files
  <2>. QED
    BY <1>1, <2>1 DEF Trees
<1>. HIDE DEF w
<1>4. LET u == CommitAll([r EXCEPT !.work = w])
      IN  \/ w = r.work /\ ~ u.ok /\ Still(r, u)
          \/ /\ w # r.work /\ u.ok /\ Sound(u) /\ Star(u)
             /\ OnlyMoved(r, u, r.head) /\ At(u, r.head) = w
  BY <1>3, OwnCommit
<1>. QED
  BY <1>1, <1>2, <1>3, <1>4 DEF w

(* A branch is made at Main, and is empty.                                 *)
LEMMA BranchedDoes ==
    ASSUME NEW r, Sound(r), Star(r), r.ok, NEW b \in Branches, NEW base \in Branches,
           base = Main \/ r.tip[b] # 0
    PROVE  LET q == Branched(r, b, base)
           IN  \/ r.tip[base] = 0 /\ ~ q.ok /\ Still(r, q)
               \/ r.tip[base] # 0 /\ r.tip[b] # 0 /\ q.ok /\ Still(r, q)
               \/ /\ r.tip[base] # 0 /\ r.tip[b] = 0 /\ q.ok /\ Sound(q) /\ Star(q)
                  /\ q.commits = r.commits /\ q.tip = [r.tip EXCEPT ![b] = r.tip[Main]]
<1>. DEFINE on == Checkout(r, base)
            created == IF on.ok /\ on.tip[b] = 0 THEN [on EXCEPT !.tip[b] = on.tip[base]] ELSE on
            q == Checkout(created, b)
<1>1. Branched(r, b, base) = q
  BY DEF Branched
<1>2. Still(r, on) /\ (on.ok <=> r.tip[base] # 0) /\ (on.ok => on.head = base)
  BY CheckoutStill
<1>. HIDE DEF on
<1>3. Sound(on) /\ Star(on) /\ on.commits = r.commits /\ on.tip = r.tip
  BY <1>2 DEF Still
<1>4. CASE ~ on.ok
  <2>1. created = on /\ q = Failed(on)
    BY <1>4 DEF Checkout
  <2>2. Still(on, q) /\ ~ q.ok
    BY <1>3, <2>1, FailedStill
  <2>. QED
    BY <1>1, <1>2, <1>3, <1>4, <2>2 DEF Still
<1>5. CASE on.ok /\ r.tip[b] # 0
  <2>1. created = on
    BY <1>3, <1>5
  <2>2. Still(on, q) /\ q.ok
    BY <1>3, <1>5, <2>1, CheckoutStill
  <2>. QED
    BY <1>1, <1>2, <1>3, <1>5, <2>2 DEF Still
<1>6. CASE on.ok /\ r.tip[b] = 0
  <2>0. base = Main
    BY <1>6
  <2>1. created = [on EXCEPT !.tip[b] = on.tip[base]]
    BY <1>3, <1>6
  <2>2. /\ Formed(on) /\ on \in Repos /\ on.head = base /\ on.merging = 0 /\ b # base
        /\ on.tip \in [Branches -> Nat] /\ Len(on.commits) \in Nat
        /\ on.tip[base] \in 1..Len(on.commits) /\ on.tip[base] # 0
        /\ on.work = Tree(on, on.tip[base])
    BY <1>2, <1>3, <1>6, Tips DEF Sound, Formed, Repos, Star, Clean
  <2>. HIDE DEF created
  <2>3. /\ created \in Repos /\ created.commits = on.commits /\ created.head = base
        /\ created.work = on.work /\ created.merging = 0 /\ created.ok
        /\ created.tip = [on.tip EXCEPT ![b] = on.tip[base]]
    BY <1>6, <2>1, <2>2 DEF Repos
  <2>4. /\ created.tip[b] = on.tip[base] /\ created.tip[base] = on.tip[base]
        /\ \A c \in Branches : c # b => created.tip[c] = on.tip[c]
    BY <2>2, <2>3
  <2>5. Sound(created)
    <3>1. \A c \in Branches : created.tip[c] <= Len(created.commits)
      BY <2>2, <2>3, <2>4 DEF Formed
    <3>2. Formed(created)
      BY <2>2, <2>3, <2>4, <3>1 DEF Formed
    <3>. QED
      BY <2>2, <2>3, <2>4, <3>2 DEF Sound, Clean, Tree
  <2>6. Star(created)
    BY <1>3, <1>6, <2>0, <2>2, <2>3, <2>4, <2>5, StarBranch DEF Sound
  <2>7. Still(created, q) /\ q.ok
    <3>1. created.tip[b] # 0
      BY <2>2, <2>4
    <3>. QED
      BY <2>3, <2>5, <2>6, <3>1, CheckoutStill
  <2>. QED
    BY <1>1, <1>2, <1>3, <1>6, <2>0, <2>3, <2>7 DEF Still
<1>. QED
  BY <1>2, <1>4, <1>5, <1>6

-----------------------------------------------------------------------------
(* What is shown outside.                                                  *)

\* While the calls keep to the rules, the branches are around Main.
StarInv == MInv /\ (strays = 0 => Star(repo))

Outside == <<spaces, seen, made>>

\* What a call that keeps to the rules shows outside.
Promised == Star(repo') /\ Abstract!Next

LEMMA CopyIs ==
    ASSUME NEW r, NEW b, NEW c
    PROVE  /\ Copy(r, b, c) = IF r.tip[b] = 0 THEN [k \in Keys |-> None]
                              ELSE [k \in Keys |-> At(r, b)[<<c, k>>]]
           /\ Space(r, b) = Copy(r, b, b)
BY DEF Copy, At, Space, Get

LEMMA ShownStill ==
    ASSUME NEW r, NEW q, repo.commits = r.commits, repo.tip = r.tip, repo' = q, Still(r, q)
    PROVE  UNCHANGED Outside /\ Star(repo')
<1>1. q.commits = repo.commits /\ q.tip = repo.tip
  BY DEF Still
<1>2. \A b \in Branches : Space(q, b) = Space(repo, b)
  BY <1>1 DEF Space, Get, Tree
<1>3. \A b, c \in Branches : Copy(q, b, c) = Copy(repo, b, c)
  BY <1>1 DEF Copy, Tree
<1>4. UNCHANGED spaces /\ UNCHANGED made
  BY <1>1, <1>2 DEF spaces, made
<1>5. UNCHANGED seen
  BY <1>3 DEF seen
<1>. QED
  BY <1>4, <1>5 DEF Outside, Still

LEMMA ShownMoved ==
    ASSUME NEW r, NEW q, repo.commits = r.commits, repo.tip = r.tip, repo' = q,
           NEW h \in Branches, OnlyMoved(r, q, h)
    PROVE  /\ UNCHANGED made /\ h \in made
           /\ spaces[h] = Copy(r, h, h) /\ spaces'[h] = Copy(q, h, h)
           /\ \A b \in Branches : b # h => spaces'[b] = spaces[b]
           /\ \A p \in Abstract!Pairs :
                  IF p[1] = h THEN seen[p] = Copy(r, h, p[2]) /\ seen'[p] = Copy(q, h, p[2])
                  ELSE seen'[p] = seen[p]
           /\ \A c : /\ Copy(q, h, c) = [k \in Keys |-> At(q, h)[<<c, k>>]]
                     /\ Copy(r, h, c) = [k \in Keys |-> At(r, h)[<<c, k>>]]
<1>1. /\ \A b \in Branches : q.tip[b] = 0 <=> repo.tip[b] = 0
      /\ \A b \in Branches : b # h /\ repo.tip[b] # 0 => At(q, b) = At(repo, b)
      /\ q.tip[h] # 0 /\ repo.tip[h] # 0
  <2>1. \A b : At(r, b) = At(repo, b)
    BY DEF At, Tree
  <2>. QED
    BY <2>1, Unmoved DEF OnlyMoved
<1>2. ASSUME NEW b \in Branches, b # h, NEW c
      PROVE  Copy(q, b, c) = Copy(repo, b, c)
  <2>1. CASE repo.tip[b] = 0
    BY <1>1, <1>2, <2>1 DEF Copy
  <2>2. CASE repo.tip[b] # 0
    <3>1. Tree(q, q.tip[b]) = Tree(repo, repo.tip[b]) /\ q.tip[b] # 0
      BY <1>1, <1>2, <2>2 DEF At
    <3>. QED
      BY <2>2, <3>1 DEF Copy
  <2>. QED
    BY <2>1, <2>2
<1>3. \A b, c : Copy(repo, b, c) = Copy(r, b, c)
  BY DEF Copy, Tree
<1>4. UNCHANGED made /\ h \in made
  BY <1>1 DEF made
<1>5. spaces' = [b \in Branches |-> Copy(q, b, b)] /\ spaces = [b \in Branches |-> Copy(repo, b, b)]
  BY CopyIs DEF spaces
<1>6. /\ seen' = [p \in Abstract!Pairs |-> Copy(q, p[1], p[2])]
      /\ seen = [p \in Abstract!Pairs |-> Copy(repo, p[1], p[2])]
  BY DEF seen, Abstract!Pairs
<1>7. \A p \in Abstract!Pairs : p[1] \in Branches
  BY DEF Abstract!Pairs
<1>8. \A c : /\ Copy(q, h, c) = [k \in Keys |-> At(q, h)[<<c, k>>]]
             /\ Copy(r, h, c) = [k \in Keys |-> At(r, h)[<<c, k>>]]
  BY <1>1, CopyIs
<1>. QED
  BY <1>2, <1>3, <1>4, <1>5, <1>6, <1>7, <1>8

(* What is shown are functions.                                            *)
LEMMA ShownShape ==
    /\ spaces = [b \in Branches |-> spaces[b]] /\ spaces' = [b \in Branches |-> spaces'[b]]
    /\ seen = [p \in Abstract!Pairs |-> seen[p]] /\ seen' = [p \in Abstract!Pairs |-> seen'[p]]
BY DEF spaces, seen, Abstract!Pairs

\* What a write of the branch checked out does: nothing, when the value is
\* there already, or one commit.
Writes(r, q, b, k, v) ==
    \/ At(r, b)[<<b, k>>] = v /\ (q.ok <=> v = None) /\ Still(r, q)
    \/ /\ At(r, b)[<<b, k>>] # v /\ q.ok
       /\ OnlyMoved(r, q, b) /\ At(q, b) = [At(r, b) EXCEPT ![<<b, k>>] = v]

LEMMA WritePromised ==
    ASSUME NEW r, NEW q, repo.commits = r.commits, repo.tip = r.tip, repo' = q, repo'.ok \in BOOLEAN,
           Formed(r), Sound(q), Star(q),
           NEW b \in Branches, NEW j \in Keys, NEW v \in Values \cup {None}, r.tip[b] # 0,
           call' = <<"write", b, j, v>>,
           Writes(r, q, b, j, v)
    PROVE  Promised
<1>1. b \in made /\ spaces[b] = [k \in Keys |-> At(r, b)[<<b, k>>]]
  <2>1. repo.tip[b] # 0 /\ At(repo, b) = At(r, b)
    BY DEF At, Tree
  <2>2. spaces[b] = Copy(repo, b, b)
    BY CopyIs DEF spaces
  <2>3. Copy(repo, b, b) = [k \in Keys |-> At(repo, b)[<<b, k>>]]
    BY <2>1, CopyIs
  <2>. QED
    BY <2>1, <2>2, <2>3 DEF made
<1>2. Abstract!Write(b, j, v)
  <2>1. CASE At(r, b)[<<b, j>>] = v /\ (q.ok <=> v = None) /\ Still(r, q)
    <3>1. UNCHANGED <<spaces, seen, made>>
      BY <2>1, ShownStill DEF Outside
    <3>2. spaces[b][j] = v
      BY <1>1, <2>1
    <3>3. spaces = [spaces EXCEPT ![b][j] = v]
      BY <1>1, <3>2 DEF spaces
    <3>4. repo'.ok = (v = None \/ spaces[b][j] # v)
      BY <2>1, <3>2
    <3>. QED
      BY <1>1, <3>1, <3>3, <3>4 DEF Abstract!Write
  <2>2. CASE /\ At(r, b)[<<b, j>>] # v /\ q.ok
             /\ OnlyMoved(r, q, b) /\ At(q, b) = [At(r, b) EXCEPT ![<<b, j>>] = v]
    <3>1. At(r, b) \in Trees
      BY Tips DEF At
    <3>2. \A c \in Branches, k \in Keys :
              At(q, b)[<<c, k>>] = IF c = b /\ k = j THEN v ELSE At(r, b)[<<c, k>>]
      <4>1. \A c \in Branches, k \in Keys : <<c, k>> \in Files
        BY DEF Files
      <4>. QED
        BY <2>2, <3>1, <4>1 DEF Trees
    <3>3. /\ UNCHANGED made
          /\ spaces' = [spaces EXCEPT ![b] = [k \in Keys |-> At(q, b)[<<b, k>>]]]
          /\ seen' = [p \in Abstract!Pairs |->
                          IF p[1] = b THEN [k \in Keys |-> At(q, b)[<<p[2], k>>]] ELSE seen[p]]
          /\ \A p \in Abstract!Pairs : p[1] = b => seen[p] = [k \in Keys |-> At(r, b)[<<p[2], k>>]]
      <4>1. OnlyMoved(r, q, b)
        BY <2>2
      <4>2. /\ UNCHANGED made
            /\ spaces[b] = Copy(r, b, b) /\ spaces'[b] = Copy(q, b, b)
            /\ \A c \in Branches : c # b => spaces'[c] = spaces[c]
            /\ \A p \in Abstract!Pairs :
                  IF p[1] = b THEN seen[p] = Copy(r, b, p[2]) /\ seen'[p] = Copy(q, b, p[2])
                  ELSE seen'[p] = seen[p]
        BY <4>1, ShownMoved
      <4>3. \A c : /\ Copy(q, b, c) = [k \in Keys |-> At(q, b)[<<c, k>>]]
                   /\ Copy(r, b, c) = [k \in Keys |-> At(r, b)[<<c, k>>]]
        BY <4>1, ShownMoved
      <4>4. spaces' = [spaces EXCEPT ![b] = Copy(q, b, b)]
        BY <4>2, ShownShape
      <4>5. \A p \in Abstract!Pairs :
                /\ seen'[p] = IF p[1] = b THEN [k \in Keys |-> At(q, b)[<<p[2], k>>]] ELSE seen[p]
                /\ p[1] = b => seen[p] = [k \in Keys |-> At(r, b)[<<p[2], k>>]]
        BY <4>2, <4>3
      <4>6. seen' = [p \in Abstract!Pairs |->
                        IF p[1] = b THEN [k \in Keys |-> At(q, b)[<<p[2], k>>]] ELSE seen[p]]
        BY <4>5, ShownShape
      <4>. QED
        BY <4>2, <4>3, <4>4, <4>5, <4>6
    <3>4. seen' = seen
      <4>1. \A p \in Abstract!Pairs : p[2] \in Branches /\ p[2] # p[1]
        BY DEF Abstract!Pairs
      <4>2. \A p \in Abstract!Pairs : p[1] = b =>
                [k \in Keys |-> At(q, b)[<<p[2], k>>]] = [k \in Keys |-> At(r, b)[<<p[2], k>>]]
        BY <3>2, <4>1
      <4>3. seen' = [p \in Abstract!Pairs |-> seen[p]]
        BY <3>3, <4>2
      <4>4. seen = [p \in Abstract!Pairs |-> seen[p]]
        BY DEF seen, Abstract!Pairs
      <4>. QED
        BY <4>3, <4>4
    <3>5. [k \in Keys |-> At(q, b)[<<b, k>>]] = [spaces[b] EXCEPT ![j] = v]
      BY <1>1, <3>2
    <3>6. spaces' = [spaces EXCEPT ![b][j] = v]
      BY <3>3, <3>5
    <3>7. spaces[b][j] # v
      BY <1>1, <2>2
    <3>8. repo'.ok = (v = None \/ spaces[b][j] # v)
      BY <2>2, <3>7
    <3>. QED
      BY <1>1, <3>3, <3>4, <3>6, <3>8 DEF Abstract!Write
  <2>. QED
    BY <2>1, <2>2 DEF Writes
<1>. QED
  BY <1>2 DEF Promised, Abstract!Next

(* A merge of Main, or into it.                                            *)
LEMMA MergePromised ==
    ASSUME NEW r, NEW q, repo.commits = r.commits, repo.tip = r.tip, repo' = q, repo'.ok \in BOOLEAN,
           Formed(r), Star(r), Star(q), NEW s \in Branches, NEW t \in Branches, NEW a \in Branches,
           Around(s, t, a), NEW policy \in Policies, call' = <<"merge", s, t, policy>>,
           \/ r.tip[a] = 0 /\ ~ q.ok /\ Still(r, q)
           \/ /\ r.tip[a] # 0 /\ OnlyMoved(r, q, t)
              /\ \E newer :
                    /\ \A k \in Keys : At(r, s)[<<s, k>>] # At(r, t)[<<s, k>>] => k \in newer
                    /\ Takes(r, q, s, t, a, Wanted(r, s, t, policy, newer))
    PROVE  Promised
<1>1. <<t, s>> \in Abstract!Pairs /\ Main \in Branches /\ s # t
  BY DEF Around, Abstract!Pairs
<1>2. Main \in made /\ ({s, t} \subseteq made <=> r.tip[a] # 0)
  BY <1>1 DEF Around, made, Star
<1>3. Abstract!Merge(s, t, policy)
  <2>1. CASE r.tip[a] = 0 /\ ~ q.ok /\ Still(r, q)
    <3>1. UNCHANGED <<spaces, seen, made>>
      BY <2>1, ShownStill DEF Outside
    <3>2. repo'.ok = FALSE
      BY <2>1
    <3>. QED
      BY <1>1, <1>2, <2>1, <3>1, <3>2 DEF Abstract!Merge
  <2>2. CASE r.tip[a] # 0 /\ OnlyMoved(r, q, t)
    <3>1. PICK newer :
              /\ \A k \in Keys : At(r, s)[<<s, k>>] # At(r, t)[<<s, k>>] => k \in newer
              /\ Takes(r, q, s, t, a, Wanted(r, s, t, policy, newer))
      BY <2>2
    <3>. DEFINE taken == Wanted(r, s, t, policy, newer)
    <3>2. /\ UNCHANGED made
          /\ spaces' = [spaces EXCEPT ![t] = [k \in Keys |-> At(q, t)[<<t, k>>]]]
          /\ spaces[t] = [k \in Keys |-> At(r, t)[<<t, k>>]]
          /\ seen' = [p \in Abstract!Pairs |->
                          IF p[1] = t THEN [k \in Keys |-> At(q, t)[<<p[2], k>>]] ELSE seen[p]]
          /\ \A p \in Abstract!Pairs : p[1] = t => seen[p] = [k \in Keys |-> At(r, t)[<<p[2], k>>]]
      <4>1. OnlyMoved(r, q, t)
        BY <2>2
      <4>2. /\ UNCHANGED made
            /\ spaces[t] = Copy(r, t, t) /\ spaces'[t] = Copy(q, t, t)
            /\ \A c \in Branches : c # t => spaces'[c] = spaces[c]
            /\ \A p \in Abstract!Pairs :
                  IF p[1] = t THEN seen[p] = Copy(r, t, p[2]) /\ seen'[p] = Copy(q, t, p[2])
                  ELSE seen'[p] = seen[p]
        BY <4>1, ShownMoved
      <4>3. \A c : /\ Copy(q, t, c) = [k \in Keys |-> At(q, t)[<<c, k>>]]
                   /\ Copy(r, t, c) = [k \in Keys |-> At(r, t)[<<c, k>>]]
        BY <4>1, ShownMoved
      <4>4. spaces' = [spaces EXCEPT ![t] = Copy(q, t, t)]
        BY <4>2, ShownShape
      <4>5. \A p \in Abstract!Pairs :
                /\ seen'[p] = IF p[1] = t THEN [k \in Keys |-> At(q, t)[<<p[2], k>>]] ELSE seen[p]
                /\ p[1] = t => seen[p] = [k \in Keys |-> At(r, t)[<<p[2], k>>]]
        BY <4>2, <4>3
      <4>6. seen' = [p \in Abstract!Pairs |->
                        IF p[1] = t THEN [k \in Keys |-> At(q, t)[<<p[2], k>>]] ELSE seen[p]]
        BY <4>5, ShownShape
      <4>. QED
        BY <4>2, <4>3, <4>4, <4>5, <4>6
    <3>3. spaces[s] = [k \in Keys |-> At(r, s)[<<s, k>>]]
      <4>1. repo.tip[s] # 0 /\ At(repo, s) = At(r, s)
        BY <1>2, <2>2 DEF made, At, Tree
      <4>. QED
        BY <4>1, CopyIs DEF spaces
    <3>4. taken \subseteq Keys
      BY DEF Wanted
    <3>5. taken \in Abstract!Taken(s, t, policy)
      <4>. DEFINE offered == {k \in Keys : spaces[s][k] # None}
                  missing == {k \in offered : spaces[t][k] = None}
                  changed == {k \in offered : spaces[s][k] # seen[<<t, s>>][k]}
      <4>1. taken = {k \in offered : \/ k \in missing \/ policy = "theirs"
                                     \/ policy = "last_write" /\ k \in newer}
        BY <3>2, <3>3 DEF Wanted
      <4>2. seen[<<t, s>>] = [k \in Keys |-> At(r, t)[<<s, k>>]]
        BY <1>1, <3>2
      <4>3. changed \subseteq newer
        BY <3>1, <3>3, <4>2
      <4>4. CASE policy = "ours"
        <5>1. taken = missing
          BY <4>1, <4>4
        <5>. QED
          BY <4>4, <5>1 DEF Abstract!Taken
      <4>5. CASE policy = "theirs"
        <5>1. taken = offered
          BY <4>1, <4>5
        <5>. QED
          BY <4>5, <5>1 DEF Abstract!Taken
      <4>6. CASE policy = "last_write"
        <5>. DEFINE more == newer \cap offered
        <5>1. taken = missing \cup more
          BY <4>1, <4>6
        <5>2. changed \subseteq more
          BY <4>3
        <5>. HIDE DEF taken, missing, changed, offered
        <5>3. taken = missing \cup changed \cup more /\ more \in SUBSET offered
          BY <5>1, <5>2
        <5>. QED
          BY <4>6, <5>3 DEF Abstract!Taken, missing, changed, offered
      <4>. QED
        BY <4>4, <4>5, <4>6 DEF Policies
    <3>. HIDE DEF taken
    <3>6. Takes(r, q, s, t, a, taken)
      BY <3>1 DEF taken
    <3>7. [k \in Keys |-> At(q, t)[<<t, k>>]]
              = [k \in Keys |-> IF k \in taken THEN spaces[s][k] ELSE spaces[t][k]]
      BY <3>2, <3>3, <3>6 DEF Takes
    <3>8. spaces' = [spaces EXCEPT ![t] =
              [k \in Keys |-> IF k \in taken THEN spaces[s][k] ELSE @[k]]]
      BY <3>2, <3>7
    <3>9. repo'.ok = (taken = {} \/ spaces' # spaces)
      <4>1. spaces' # spaces <=> spaces'[t] # spaces[t]
        <5>1. spaces = [b \in Branches |-> spaces[b]]
          BY DEF spaces
        <5>. QED
          BY <3>2, <5>1
      <4>2. spaces'[t] = [k \in Keys |-> IF k \in taken THEN spaces[s][k] ELSE spaces[t][k]]
        <5>1. spaces = [b \in Branches |-> spaces[b]]
          BY DEF spaces
        <5>. QED
          BY <3>2, <3>7, <5>1
      <4>3. spaces'[t] # spaces[t] <=> \E k \in taken : spaces[s][k] # spaces[t][k]
        BY <3>2, <3>4, <4>2
      <4>4. (\E k \in taken : spaces[s][k] # spaces[t][k])
                <=> \E k \in taken : At(r, s)[<<s, k>>] # At(r, t)[<<t, k>>]
        BY <3>2, <3>3, <3>4
      <4>5. repo'.ok <=> (taken = {} \/ spaces' # spaces)
        BY <3>6, <4>1, <4>3, <4>4 DEF Takes
      <4>. QED
        BY <4>5
    <3>10. seen' = [seen EXCEPT ![<<t, s>>] = spaces[s]]
      <4>1. \A k \in Keys : Union(r, a)[<<s, k>>] = At(r, s)[<<s, k>>]
        BY DEF Union, Files, Around
      <4>2. [k \in Keys |-> At(q, t)[<<s, k>>]] = spaces[s]
        BY <1>1, <3>3, <3>6, <4>1 DEF Takes
      <4>3. ASSUME NEW p \in Abstract!Pairs, p[1] = t, p # <<t, s>>
            PROVE  [k \in Keys |-> At(q, t)[<<p[2], k>>]] = seen[p]
        <5>1. p[2] \in Branches /\ p[2] # t /\ p[2] # s /\ t = Main /\ s = a
          BY <1>1, <4>3 DEF Abstract!Pairs, Around
        <5>2. \A k \in Keys : Union(r, a)[<<p[2], k>>] = At(r, t)[<<p[2], k>>]
          BY <5>1 DEF Union, Files
        <5>3. \A k \in Keys : At(q, t)[<<p[2], k>>] = At(r, t)[<<p[2], k>>]
          BY <3>6, <5>1, <5>2 DEF Takes
        <5>. QED
          BY <3>2, <4>3, <5>3
      <4>4. seen = [p \in Abstract!Pairs |-> seen[p]]
        BY DEF seen, Abstract!Pairs
      <4>5. seen' = [p \in Abstract!Pairs |-> IF p = <<t, s>> THEN spaces[s] ELSE seen[p]]
        <5>1. <<t, s>>[1] = t /\ <<t, s>>[2] = s
          OBVIOUS
        <5>2. \A p \in Abstract!Pairs :
                  (IF p[1] = t THEN [k \in Keys |-> At(q, t)[<<p[2], k>>]] ELSE seen[p])
                      = IF p = <<t, s>> THEN spaces[s] ELSE seen[p]
          <6>. SUFFICES ASSUME NEW p \in Abstract!Pairs
                        PROVE  (IF p[1] = t THEN [k \in Keys |-> At(q, t)[<<p[2], k>>]] ELSE seen[p])
                                   = IF p = <<t, s>> THEN spaces[s] ELSE seen[p]
            OBVIOUS
          <6>1. CASE p = <<t, s>>
            BY <4>2, <5>1, <6>1
          <6>2. CASE p # <<t, s>> /\ p[1] = t
            BY <4>3, <6>2
          <6>3. CASE p[1] # t
            BY <5>1, <6>3
          <6>. QED
            BY <6>1, <6>2, <6>3
        <5>. QED
          BY <3>2, <5>2
      <4>. QED
        BY <1>1, <4>4, <4>5
    <3>. QED
      BY <1>1, <1>2, <2>2, <3>2, <3>5, <3>8, <3>9, <3>10 DEF Abstract!Merge
  <2>. QED
    BY <2>1, <2>2
<1>. QED
  BY <1>3 DEF Promised, Abstract!Next, Policies, Abstract!Policies

(* A branch, which may be new.                                             *)
LEMMA BranchPromised ==
    ASSUME NEW r, NEW q, repo.commits = r.commits, repo.tip = r.tip, repo' = q, repo'.ok \in BOOLEAN,
           Formed(r), Star(r), Star(q), NEW b \in Branches, NEW base \in Branches,
           base = Main \/ r.tip[b] # 0, call' = <<"branch", b, base>>,
           \/ r.tip[base] = 0 /\ ~ q.ok /\ Still(r, q)
           \/ r.tip[base] # 0 /\ r.tip[b] # 0 /\ q.ok /\ Still(r, q)
           \/ /\ r.tip[base] # 0 /\ r.tip[b] = 0 /\ q.ok
              /\ q.commits = r.commits /\ q.tip = [r.tip EXCEPT ![b] = r.tip[Main]]
    PROVE  Promised
<1>1. \A c \in Branches : c \in made <=> r.tip[c] # 0
  BY DEF made
<1>2. Abstract!Branch(b, base)
  <2>1. CASE Still(r, q) /\ (q.ok <=> r.tip[base] # 0) /\ (r.tip[base] = 0 \/ r.tip[b] # 0)
    <3>1. UNCHANGED <<spaces, seen, made>>
      BY <2>1, ShownStill DEF Outside
    <3>2. repo'.ok = (base \in made)
      BY <1>1, <2>1
    <3>. QED
      BY <1>1, <2>1, <3>1, <3>2 DEF Abstract!Branch
  <2>2. CASE /\ r.tip[base] # 0 /\ r.tip[b] = 0 /\ q.ok
             /\ q.commits = r.commits /\ q.tip = [r.tip EXCEPT ![b] = r.tip[Main]]
    <3>1. /\ Main \in Branches /\ r.tip[Main] # 0 /\ b # Main /\ base = Main
          /\ r.tip \in [Branches -> Nat]
      BY <2>2, MemoryAssumption DEF Star, Formed, Repos
    <3>2. /\ q.tip[b] = r.tip[Main] /\ \A c \in Branches : c # b => q.tip[c] = r.tip[c]
          /\ \A c : Tree(q, c) = Tree(repo, c)
      BY <2>2, <3>1 DEF Tree
    <3>3. made' = made \cup {b}
      BY <3>1, <3>2 DEF made
    <3>4. \A x : \A c \in Branches : c # b => Copy(q, c, x) = Copy(repo, c, x)
      BY <3>2 DEF Copy
    <3>5. \A x : Copy(q, b, x) = Copy(repo, Main, x)
      BY <3>1, <3>2 DEF Copy
    <3>6. Copy(q, b, b) = Copy(repo, b, b)
      <4>1. \A k \in Keys : At(r, Main)[<<b, k>>] = None
        BY <2>2, <3>1 DEF Star
      <4>2. Copy(repo, Main, b) = [k \in Keys |-> None] /\ Copy(repo, b, b) = [k \in Keys |-> None]
        <5>1. At(repo, Main) = At(r, Main)
          BY DEF At, Tree
        <5>2. Copy(repo, Main, b) = [k \in Keys |-> At(repo, Main)[<<b, k>>]]
          BY <3>1, CopyIs
        <5>3. [k \in Keys |-> At(repo, Main)[<<b, k>>]] = [k \in Keys |-> None]
          BY <4>1, <5>1
        <5>4. Copy(repo, b, b) = [k \in Keys |-> None]
          BY <2>2, CopyIs
        <5>. QED
          BY <5>2, <5>3, <5>4
      <4>. QED
        BY <3>5, <4>2
    <3>7. spaces' = spaces
      <4>1. spaces' = [c \in Branches |-> Copy(q, c, c)] /\ spaces = [c \in Branches |-> Copy(repo, c, c)]
        BY CopyIs DEF spaces
      <4>. QED
        BY <3>4, <3>6, <4>1
    <3>8. seen' = [seen EXCEPT ![<<b, Main>>] = spaces[Main]]
      <4>1. /\ seen' = [p \in Abstract!Pairs |-> Copy(q, p[1], p[2])]
            /\ seen = [p \in Abstract!Pairs |-> Copy(repo, p[1], p[2])]
        BY DEF seen, Abstract!Pairs
      <4>2. spaces[Main] = Copy(repo, Main, Main) /\ <<b, Main>> \in Abstract!Pairs
        BY <3>1, CopyIs DEF spaces, Abstract!Pairs
      <4>3. ASSUME NEW p \in Abstract!Pairs
            PROVE  Copy(q, p[1], p[2]) = IF p = <<b, Main>> THEN spaces[Main]
                                         ELSE Copy(repo, p[1], p[2])
        <5>1. CASE p[1] = b
          <6>1. p = <<b, Main>> /\ p[2] = Main
            BY <3>1, <5>1 DEF Abstract!Pairs
          <6>. QED
            BY <3>5, <4>2, <5>1, <6>1
        <5>2. CASE p[1] # b
          <6>1. p[1] \in Branches /\ p # <<b, Main>>
            BY <5>2 DEF Abstract!Pairs
          <6>. QED
            BY <3>4, <5>2, <6>1
        <5>. QED
          BY <5>1, <5>2
      <4>4. seen' = [p \in Abstract!Pairs |-> IF p = <<b, Main>> THEN spaces[Main]
                                               ELSE Copy(repo, p[1], p[2])]
        BY <4>1, <4>3
      <4>. QED
        BY <4>1, <4>2, <4>4
    <3>9. repo'.ok = (base \in made)
      BY <1>1, <2>2, <3>1
    <3>. QED
      BY <1>1, <2>2, <3>1, <3>3, <3>7, <3>8, <3>9 DEF Abstract!Branch
  <2>. QED
    BY <2>1, <2>2
<1>. QED
  BY <1>2 DEF Promised, Abstract!Next

LEMMA NextPromised ==
    ASSUME StarInv, Next, strays' = 0
    PROVE  Promised
<1>1. strays = 0 /\ Sound(repo) /\ Star(repo) /\ strays \in Nat
  <2>1. strays' = strays \/ strays' = strays + 1
    BY DEF Next, Set, Delete, Branch, CheckoutBranch, Merge, Revert, Import, Call
  <2>2. strays \in Nat
    BY MemoryAssumption DEF StarInv, MInv
  <2>. QED
    BY <2>1, <2>2 DEF StarInv, MInv
<1>2. /\ Begin.commits = repo.commits /\ Begin.tip = repo.tip /\ Begin.head = repo.head
      /\ Begin.ok /\ Sound(Begin) /\ Star(Begin) /\ Formed(Begin)
  <2>1. /\ Begin.commits = repo.commits /\ Begin.tip = repo.tip /\ Begin.merging = repo.merging
        /\ Begin.ok /\ Begin.head = repo.head
    BY <1>1 DEF Begin, Sound, Formed, Repos
  <2>2. Sound(Begin) /\ repo.merging = 0
    BY <1>1, BeginIs DEF Star
  <2>. QED
    BY <1>1, <2>1, <2>2, StarSame DEF Sound
<1>. HIDE DEF Begin
<1>3. ASSUME NEW c, NEW kept, NEW q, Call(c, kept, q)
      PROVE  kept /\ repo' = q /\ call' = c
  BY <1>1, <1>3 DEF Call
<1>4. \A q : Still(Begin, q) => Sound(q) /\ Star(q)
  BY DEF Still
<1>5. \A q : Sound(q) => q.ok \in BOOLEAN
  BY DEF Sound, Formed, Repos
<1>6. ASSUME NEW b \in Branches, NEW k \in Keys, NEW v \in Values, Set(b, k, v)
      PROVE  Promised
  <2>. DEFINE q == SetKey(Begin, b, k, v)
  <2>1. b = Begin.head /\ repo' = q /\ call' = <<"write", b, k, v>>
    BY <1>2, <1>3, <1>6 DEF Set
  <2>2. v \in Contents /\ v # None
    BY MemoryAssumption DEF Contents
  <2>3. \/ At(Begin, b)[<<b, k>>] = v /\ ~ q.ok /\ Still(Begin, q)
        \/ /\ At(Begin, b)[<<b, k>>] # v /\ q.ok /\ Sound(q) /\ Star(q)
           /\ OnlyMoved(Begin, q, b) /\ At(q, b) = [At(Begin, b) EXCEPT ![<<b, k>>] = v]
    BY <1>2, <2>1, <2>2, WriteDoes
  <2>. HIDE DEF q
  <2>4. Sound(q) /\ Star(q) /\ repo'.ok \in BOOLEAN /\ Begin.tip[b] # 0
    BY <1>2, <1>4, <1>5, <2>1, <2>3 DEF Formed
  <2>. QED
    BY <1>2, <2>1, <2>2, <2>3, <2>4, WritePromised DEF Writes
<1>7. ASSUME NEW b \in Branches, NEW k \in Keys, Delete(b, k)
      PROVE  Promised
  <2>. DEFINE q == DeleteKey(Begin, b, k)
              w == SetKey(Begin, b, k, None)
  <2>1. b = Begin.head /\ repo' = q /\ call' = <<"write", b, k, None>>
    BY <1>2, <1>3, <1>7 DEF Delete
  <2>2. None \in Contents
    BY DEF Contents
  <2>3. Begin.work = At(Begin, b) /\ Begin.tip[b] # 0
    BY <1>2, <2>1 DEF Sound, Clean, Star, At, Formed
  <2>4. /\ Begin.work[<<b, k>>] = None => q = Begin
        /\ Begin.work[<<b, k>>] # None => q = w
    BY DEF DeleteKey, SetKey
  <2>5. \/ At(Begin, b)[<<b, k>>] = None /\ ~ w.ok /\ Still(Begin, w)
        \/ /\ At(Begin, b)[<<b, k>>] # None /\ w.ok /\ Sound(w) /\ Star(w)
           /\ OnlyMoved(Begin, w, b) /\ At(w, b) = [At(Begin, b) EXCEPT ![<<b, k>>] = None]
    BY <1>2, <2>1, <2>2, WriteDoes
  <2>6. Still(Begin, Begin)
    BY <1>2 DEF Still
  <2>. HIDE DEF q, w
  <2>7. \/ At(Begin, b)[<<b, k>>] = None /\ q.ok /\ Still(Begin, q)
        \/ /\ At(Begin, b)[<<b, k>>] # None /\ q.ok /\ Sound(q) /\ Star(q)
           /\ OnlyMoved(Begin, q, b) /\ At(q, b) = [At(Begin, b) EXCEPT ![<<b, k>>] = None]
    BY <1>2, <2>3, <2>4, <2>5, <2>6
  <2>8. Sound(q) /\ Star(q) /\ repo'.ok \in BOOLEAN
    BY <1>4, <1>5, <2>1, <2>7
  <2>. QED
    BY <1>2, <2>1, <2>3, <2>7, <2>8, WritePromised DEF Writes
<1>8. ASSUME NEW b \in Branches, NEW base \in Branches, Branch(b, base)
      PROVE  Promised
  <2>. DEFINE q == Branched(Begin, b, base)
  <2>1. /\ base = Main \/ Begin.tip[b] # 0
        /\ repo' = q /\ call' = <<"branch", b, base>>
    BY <1>2, <1>3, <1>8 DEF Branch
  <2>2. \/ Begin.tip[base] = 0 /\ ~ q.ok /\ Still(Begin, q)
        \/ Begin.tip[base] # 0 /\ Begin.tip[b] # 0 /\ q.ok /\ Still(Begin, q)
        \/ /\ Begin.tip[base] # 0 /\ Begin.tip[b] = 0 /\ q.ok /\ Sound(q) /\ Star(q)
           /\ q.commits = Begin.commits /\ q.tip = [Begin.tip EXCEPT ![b] = Begin.tip[Main]]
    BY <1>2, <2>1, BranchedDoes
  <2>. HIDE DEF q
  <2>3. Star(q) /\ repo'.ok \in BOOLEAN
    BY <1>4, <1>5, <2>1, <2>2
  <2>. QED
    BY <1>2, <2>1, <2>2, <2>3, BranchPromised
<1>9. ASSUME NEW b \in Branches, CheckoutBranch(b)
      PROVE  Promised
  <2>. DEFINE q == Checkout(Begin, b)
  <2>1. repo' = q /\ call' = <<"checkout", b>>
    BY <1>3, <1>9 DEF CheckoutBranch
  <2>2. Still(Begin, q) /\ (q.ok <=> Begin.tip[b] # 0)
    BY <1>2, CheckoutStill
  <2>. HIDE DEF q
  <2>3. UNCHANGED <<spaces, seen, made>> /\ Star(repo')
    BY <1>2, <2>1, <2>2, ShownStill DEF Outside
  <2>4. repo'.ok = (b \in made)
    <3>1. b \in made <=> q.ok
      BY <1>2, <2>2 DEF made
    <3>. QED
      BY <1>4, <1>5, <2>1, <2>2, <3>1
  <2>5. Abstract!Checkout(b)
    BY <2>1, <2>3, <2>4 DEF Abstract!Checkout
  <2>. QED
    BY <2>3, <2>5 DEF Promised, Abstract!Next
<1>10. ASSUME NEW s \in Branches, NEW t \in Branches, NEW policy \in Policies, Merge(s, t, policy)
       PROVE  Promised
  <2>1. PICK open \in Orders(policy) :
            Call(<<"merge", s, t, policy>>, Main \in {s, t}, Merged(Begin, s, t, policy, open))
    BY <1>10 DEF Merge
  <2>. DEFINE q == Merged(Begin, s, t, policy, open)
              a == IF s = Main THEN t ELSE s
  <2>2. Main \in {s, t} /\ repo' = q /\ call' = <<"merge", s, t, policy>>
    <3>1. ASSUME NEW c, NEW kept, NEW x, Call(c, kept, x)
          PROVE  kept /\ repo' = x /\ call' = c
      BY <1>3, <3>1
    <3>. HIDE DEF q
    <3>2. Call(<<"merge", s, t, policy>>, Main \in {s, t}, q)
      BY <2>1 DEF q
    <3>. QED
      BY <3>1, <3>2
  <2>3. a \in Branches /\ Around(s, t, a)
    BY <1>10, <2>2 DEF Merge, Around
  <2>4. \/ Begin.tip[a] = 0 /\ ~ q.ok /\ Still(Begin, q)
        \/ /\ Begin.tip[a] # 0 /\ Sound(q) /\ Star(q) /\ OnlyMoved(Begin, q, t)
           /\ \E newer :
                 /\ \A k \in Keys : At(Begin, s)[<<s, k>>] # At(Begin, t)[<<s, k>>] => k \in newer
                 /\ Takes(Begin, q, s, t, a, Wanted(Begin, s, t, policy, newer))
    <3>. HIDE DEF a
    <3>. QED
      BY <1>2, <2>3, MergedDoes
  <2>. HIDE DEF q, a
  <2>5. Star(q) /\ repo'.ok \in BOOLEAN
    BY <1>4, <1>5, <2>2, <2>4
  <2>. QED
    BY <1>2, <2>2, <2>3, <2>4, <2>5, MergePromised
<1>11. ~ \E b \in Branches, to \in 0..Len(repo.commits) : Revert(b, to)
  BY <1>1 DEF Revert, Call
<1>12. ~ \E snapshot \in Snapshots : Import(snapshot)
  BY <1>1 DEF Import, Call
<1>. QED
  BY <1>6, <1>7, <1>8, <1>9, <1>10, <1>11, <1>12 DEF Next

LEMMA InitStar == Init => StarInv
<1>. SUFFICES ASSUME Init PROVE StarInv
  OBVIOUS
<1>1. repo.merging = 0 /\ \A b \in Branches : repo.tip[b] # 0 <=> b = Main
  BY DEF Init, Fresh
<1>2. /\ Tree(repo, 1) = [f \in Files |-> None] /\ repo.tip[Main] = 1 /\ Main \in Branches
  BY MemoryAssumption DEF Init, Fresh, Tree
<1>3. \A a \in Branches, k \in Keys : At(repo, Main)[<<a, k>>] = None
  BY <1>2 DEF Files, At
<1>4. Star(repo)
  BY <1>1, <1>2, <1>3 DEF Star
<1>. QED
  BY <1>4, InitSound DEF StarInv

(* A store implements Spaces (docs/memory-protocol.md, sections 1-3), with *)
(* any number of branches, as long as branches are made from Main and      *)
(* merged with it, writes name the branch checked out and nothing is       *)
(* reverted or imported.                                                   *)
THEOREM MemoryImplementsSpaces == Spec => ImplementsSpaces
<1>. DEFINE A == strays' = 0 => [Abstract!Next]_<<spaces, seen, made, call, repo.ok>>
<1>1. StarInv /\ [Next]_vars => StarInv'
  <2>. SUFFICES ASSUME StarInv, [Next]_vars PROVE StarInv'
    OBVIOUS
  <2>1. MInv'
    BY MemoryStep DEF StarInv
  <2>2. CASE Next
    BY <2>1, <2>2, NextPromised DEF StarInv, Promised
  <2>3. CASE UNCHANGED vars
    BY <2>1, <2>3 DEF StarInv, vars, Star, Forked, IsBase, Line, At, Tree
  <2>. QED
    BY <2>2, <2>3
<1>2. StarInv /\ [Next]_vars => [A]_vars
  <2>. SUFFICES ASSUME StarInv, Next PROVE A
    OBVIOUS
  <2>. QED
    BY NextPromised DEF Promised
<1>3. Init => Abstract!Init
  <2>. SUFFICES ASSUME Init PROVE Abstract!Init
    OBVIOUS
  <2>1. \A b \in Branches, c \in Branches : Copy(repo, b, c) = [k \in Keys |-> None]
    <3>1. Tree(repo, 1) = [f \in Files |-> None] /\ \A b \in Branches : repo.tip[b] \in {0, 1}
      BY DEF Init, Fresh, Tree
    <3>. QED
      BY <3>1 DEF Copy, Files
  <2>2. repo.ok = TRUE /\ call = <<"open">> /\ \A b \in Branches : repo.tip[b] # 0 <=> b = Main
    BY DEF Init, Fresh
  <2>3. made = {Main}
    BY <2>2, MemoryAssumption DEF made
  <2>4. spaces = [b \in Branches |-> Abstract!NoValues]
    BY <2>1, CopyIs DEF spaces, Abstract!NoValues
  <2>5. seen = [p \in Abstract!Pairs |-> Abstract!NoValues]
    BY <2>1 DEF seen, Abstract!Pairs, Abstract!NoValues
  <2>. QED
    BY <2>2, <2>3, <2>4, <2>5 DEF Abstract!Init, Abstract!NoCall
<1>. HIDE DEF A
<1>4. Spec => [][A]_vars
  BY <1>1, <1>2, InitStar, PTL DEF Spec
<1>5. Spec => Abstract!Init
  BY <1>3, PTL DEF Spec
<1>. QED
  BY <1>4, <1>5 DEF ImplementsSpaces, A

-----------------------------------------------------------------------------
(* Lists of owners of the fabric.                                          *)

(* list.remove leaves a list, with nobody in it who was not there before.  *)
LEMMA RemoveFirstKeeps ==
    ASSUME NEW S, NEW s \in Seq(S), NEW e
    PROVE  /\ RemoveFirst(s, e) \in Seq(S)
           /\ ToSet(RemoveFirst(s, e)) \subseteq ToSet(s)
<1>. DEFINE I == {i \in 1..Len(s) : s[i] = e}
<1>1. CASE ~ \E i \in 1..Len(s) : s[i] = e
  BY <1>1 DEF RemoveFirst
<1>2. CASE \E i \in 1..Len(s) : s[i] = e
  <2>. DEFINE m == CHOOSE x \in I : \A y \in I : x <= y
              a == SubSeq(s, 1, m - 1)
              b == SubSeq(s, m + 1, Len(s))
  <2>1. RemoveFirst(s, e) = a \o b
    BY <1>2 DEF RemoveFirst, SelectInSeq, RemoveAt, Min
  <2>2. m \in 1..Len(s) /\ Len(s) \in Nat
    <3>1. I \in SUBSET Nat /\ I # {}
      BY <1>2, LenProperties
    <3>2. \E x \in I : \A y \in I : x <= y
      BY <3>1, Smallest
    <3>. QED
      BY <3>2, LenProperties
  <2>. HIDE DEF m
  <2>3. /\ a \in Seq(S) /\ Len(a) = m - 1 /\ \A i \in 1..Len(a) : a[i] = s[i]
        /\ b \in Seq(S) /\ \A i \in 1..Len(b) : b[i] = s[m + i]
        /\ Len(b) = Len(s) - m
    <3>1. a \in Seq(S) /\ Len(a) = m - 1 /\ \A i \in 1..Len(a) : a[i] = s[i]
      BY <2>2
    <3>2. b \in Seq(S) /\ \A i \in 1..Len(b) : b[i] = s[m + i]
      BY <2>2
    <3>3. Len(b) = Len(s) - m
      BY <2>2
    <3>. HIDE DEF a, b
    <3>. QED
      BY <3>1, <3>2, <3>3
  <2>. HIDE DEF a, b
  <2>4. /\ a \o b \in Seq(S) /\ Len(a \o b) = Len(a) + Len(b)
        /\ \A i \in 1..Len(a) + Len(b) :
               (a \o b)[i] = IF i <= Len(a) THEN a[i] ELSE b[i - Len(a)]
    BY <2>3, ConcatProperties
  <2>5. \A i \in 1..Len(a \o b) : \E j \in 1..Len(s) : (a \o b)[i] = s[j]
    <3>. SUFFICES ASSUME NEW i \in 1..Len(a \o b)
                  PROVE  \E j \in 1..Len(s) : (a \o b)[i] = s[j]
      OBVIOUS
    <3>1. CASE i <= Len(a)
      <4>1. i \in 1..Len(a) /\ i \in 1..Len(s)
        BY <2>2, <2>3, <2>4, <3>1
      <4>. QED
        BY <2>3, <2>4, <3>1, <4>1
    <3>2. CASE ~(i <= Len(a))
      <4>1. i - Len(a) \in 1..Len(b) /\ m + (i - Len(a)) \in 1..Len(s)
        BY <2>2, <2>3, <2>4, <3>2
      <4>. QED
        BY <2>3, <2>4, <3>2, <4>1
    <3>. QED
      BY <3>1, <3>2
  <2>6. DOMAIN (a \o b) = 1..Len(a \o b) /\ DOMAIN s = 1..Len(s)
    BY <2>4, LenProperties
  <2>. DEFINE c == a \o b
  <2>. HIDE DEF c
  <2>7. RemoveFirst(s, e) = c /\ c \in Seq(S) /\ DOMAIN c = 1..Len(c)
        /\ \A i \in 1..Len(c) : \E j \in 1..Len(s) : c[i] = s[j]
    BY <2>1, <2>4, <2>5, <2>6 DEF c
  <2>. QED
    BY <2>6, <2>7 DEF ToSet
<1>. QED
  BY <1>1, <1>2

(* list.append adds the one agent.                                         *)
LEMMA AppendAdds ==
    ASSUME NEW S, NEW s \in Seq(S), NEW e \in S
    PROVE  Append(s, e) \in Seq(S) /\ ToSet(Append(s, e)) = ToSet(s) \cup {e}
<1>1. /\ Append(s, e) \in Seq(S) /\ Len(s) \in Nat /\ DOMAIN s = 1..Len(s)
      /\ DOMAIN Append(s, e) = 1..Len(s) + 1
      /\ \A i \in 1..Len(s) : Append(s, e)[i] = s[i]
      /\ Append(s, e)[Len(s) + 1] = e
  BY AppendProperties, LenProperties
<1>2. \A i \in 1..Len(s) + 1 : i \in 1..Len(s) \/ i = Len(s) + 1
  BY <1>1
<1>3. 1..Len(s) \subseteq 1..Len(s) + 1 /\ Len(s) + 1 \in 1..Len(s) + 1
  BY <1>1
<1>. QED
  BY <1>1, <1>2, <1>3 DEF ToSet

-----------------------------------------------------------------------------
(* Rights.  Whoever a process or the file lets into a store was let in     *)
(* before, and its policies are of stores that it has.                     *)
Places == {"off", "idle", "persist", "write", "post", "commit", "branch"}

Good(view) ==
    \A s \in DOMAIN view : s \in Stores /\ Policy(view[s]) /\ LetIn(view[s]) \subseteq given[s]

RightsInv ==
    /\ stores \subseteq Stores
    /\ known \in [Processes -> SUBSET Stores] /\ \A p \in Processes : known[p] \subseteq stores
    /\ policies = [p \in Processes |-> policies[p]]
    /\ given = [s \in Stores |-> given[s]]
    /\ pc \in [Processes -> Places]
    /\ Good(Readable(file)) /\ DOMAIN Readable(file) \subseteq stores
    /\ \A p \in Processes : Good(policies[p]) /\ DOMAIN policies[p] \subseteq known[p]

(* The initial state satisfies the invariant.                              *)
LEMMA InitRights == FabricInit => RightsInv
<1>1. DOMAIN Nothing = {} /\ Readable(Nothing) = Nothing
  BY DEF Nothing, Readable
<1>. QED
  BY <1>1 DEF FabricInit, RightsInv, Good, Places

(* What was let in stays let in when more are.                             *)
LEMMA GoodStays ==
    ASSUME NEW view, Good(view), \A s \in Stores : given[s] \subseteq given'[s]
    PROVE  \A s \in DOMAIN view :
               s \in Stores /\ Policy(view[s]) /\ LetIn(view[s]) \subseteq given'[s]
BY DEF Good

(* create_store keeps the invariant.                                       *)
LEMMA CreateRights ==
    ASSUME RightsInv, NEW p \in Processes, NEW store \in Stores, NEW policy, Policy(policy),
           CreateStore(p, store, policy)
    PROVE  RightsInv'
<1>1. /\ stores' = stores \cup {store} /\ known' = [known EXCEPT ![p] = known[p] \cup {store}]
      /\ policies' = [policies EXCEPT ![p] = With(policies[p], store, policy)]
      /\ given' = [given EXCEPT ![store] = given[store] \cup LetIn(policy)]
      /\ pc' = [pc EXCEPT ![p] = "persist"] /\ file' = file
  BY DEF CreateStore, Goto
<1>2. /\ stores' \subseteq Stores /\ known' \in [Processes -> SUBSET Stores]
      /\ \A q \in Processes : known'[q] \subseteq stores' /\ known[q] \subseteq known'[q]
      /\ store \in known'[p]
  BY <1>1 DEF RightsInv
<1>3. /\ policies' = [q \in Processes |-> policies'[q]] /\ given' = [s \in Stores |-> given'[s]]
      /\ pc' \in [Processes -> Places]
      /\ policies'[p] = With(policies[p], store, policy)
      /\ \A q \in Processes : q # p => policies'[q] = policies[q]
      /\ \A s \in Stores : given[s] \subseteq given'[s]
      /\ LetIn(policy) \subseteq given'[store]
  BY <1>1 DEF RightsInv, Places
<1>4. Good(Readable(file)) /\ \A q \in Processes : Good(policies[q])
  BY DEF RightsInv
<1>5. Good(Readable(file))' /\ DOMAIN Readable(file)' \subseteq stores'
  <2>1. Readable(file)' = Readable(file)
    BY <1>1 DEF Readable
  <2>2. \A s \in DOMAIN Readable(file) :
            s \in Stores /\ Policy(Readable(file)[s]) /\ LetIn(Readable(file)[s]) \subseteq given'[s]
    BY <1>3, <1>4, GoodStays
  <2>. QED
    BY <1>1, <2>1, <2>2 DEF RightsInv, Good
<1>6. ASSUME NEW q \in Processes
      PROVE  Good(policies[q])' /\ DOMAIN policies'[q] \subseteq known'[q]
  <2>1. \A s \in DOMAIN policies[q] :
            /\ s \in Stores /\ Policy(policies[q][s]) /\ LetIn(policies[q][s]) \subseteq given'[s]
            /\ s \in known[q]
    BY <1>3, <1>4, GoodStays DEF RightsInv
  <2>2. CASE q # p
    BY <1>2, <1>3, <2>1, <2>2 DEF Good
  <2>3. CASE q = p
    <3>1. /\ DOMAIN policies'[p] = DOMAIN policies[p] \cup {store}
          /\ policies'[p][store] = policy
          /\ \A s \in DOMAIN policies[p] : s # store => policies'[p][s] = policies[p][s]
      BY <1>3 DEF With
    <3>. QED
      BY <1>2, <1>3, <2>1, <2>3, <3>1 DEF Good
  <2>. QED
    BY <2>2, <2>3
<1>. QED
  BY <1>2, <1>3, <1>5, <1>6 DEF RightsInv

(* grant and revoke change the owners of one policy: any list of owners    *)
(* that lets in nobody who was not let in keeps the invariant.             *)
LEMMA OwnersRights ==
    ASSUME RightsInv, NEW p \in Processes, NEW store \in DOMAIN policies[p], NEW owners \in Seq(Names),
           policies' = [policies EXCEPT ![p][store].owners = owners],
           given' = [s \in Stores |-> given'[s]],
           \A s \in Stores : given[s] \subseteq given'[s],
           ToSet(owners) \subseteq given'[store],
           pc' \in [Processes -> Places],
           UNCHANGED <<stores, known, file>>
    PROVE  RightsInv'
<1>1. Good(Readable(file)) /\ \A q \in Processes : Good(policies[q])
  BY DEF RightsInv
<1>2. Good(Readable(file))' /\ DOMAIN Readable(file)' \subseteq stores'
  <2>1. Readable(file)' = Readable(file)
    BY DEF Readable
  <2>2. \A s \in DOMAIN Readable(file) :
            s \in Stores /\ Policy(Readable(file)[s]) /\ LetIn(Readable(file)[s]) \subseteq given'[s]
    BY <1>1, GoodStays
  <2>. QED
    BY <2>1, <2>2 DEF RightsInv, Good
<1>3. ASSUME NEW q \in Processes
      PROVE  Good(policies[q])' /\ DOMAIN policies'[q] \subseteq known'[q]
  <2>1. \A s \in DOMAIN policies[q] :
            /\ s \in Stores /\ Policy(policies[q][s]) /\ LetIn(policies[q][s]) \subseteq given'[s]
            /\ s \in known[q]
    BY <1>1, GoodStays DEF RightsInv
  <2>2. CASE q # p
    <3>1. policies'[q] = policies[q]
      BY <2>2 DEF RightsInv
    <3>. QED
      BY <2>1, <3>1 DEF Good
  <2>3. CASE q = p
    <3>1. policies'[p] = [policies[p] EXCEPT ![store] = [policies[p][store] EXCEPT !.owners = owners]]
      BY DEF RightsInv
    <3>2. Policy(policies[p][store])
      BY <2>1, <2>3
    <3>3. policies[p][store] = [kind |-> policies[p][store].kind, owners |-> policies[p][store].owners]
      BY <3>2 DEF Policy
    <3>4. [policies[p][store] EXCEPT !.owners = owners]
             = [kind |-> policies[p][store].kind, owners |-> owners]
      BY <3>3
    <3>5. /\ DOMAIN policies'[p] = DOMAIN policies[p]
          /\ policies'[p][store] = [kind |-> policies[p][store].kind, owners |-> owners]
          /\ \A s \in DOMAIN policies[p] : s # store => policies'[p][s] = policies[p][s]
      BY <3>1, <3>4
    <3>6. Policy(policies'[p][store])
      BY <3>5 DEF Policy
    <3>7. LetIn(policies'[p][store]) \subseteq given'[store]
      <4>1. LetIn(policies[p][store]) \subseteq given'[store]
        BY <2>1, <2>3
      <4>. QED
        BY <3>5, <4>1 DEF LetIn
    <3>. QED
      BY <2>1, <2>3, <3>5, <3>6, <3>7 DEF Good
  <2>. QED
    BY <2>2, <2>3
<1>4. policies' = [q \in Processes |-> policies'[q]]
  BY DEF RightsInv
<1>. QED
  BY <1>2, <1>3, <1>4 DEF RightsInv

(* The callers of create_store ask for policies.                           *)
LEMMA CallersCreate ==
    ASSUME RightsInv, NEW p \in Processes, Create(p) \/ WriteNew(p) \/ Whiteboard(p) \/ PullSnapshot(p)
    PROVE  \E policy : \E store \in Stores : Policy(policy) /\ CreateStore(p, store, policy)
<1>1. <<"default">> \in Seq(Names) /\ <<"*">> \in Seq(Names)
  BY DEF Names
<1>2. Policy(Private) /\ Policy(Shared)
  BY <1>1 DEF Policy, Private, Shared
<1>3. CASE Create(p)
  <2>1. PICK store \in Stores, asked \in Asked :
            CreateStore(p, store, IF asked.owners = <<>> THEN [asked EXCEPT !.owners = <<"default">>]
                                                         ELSE asked)
    BY <1>3 DEF Create
  <2>2. Policy(asked)
    BY FabricAssumption
  <2>3. asked = [kind |-> asked.kind, owners |-> asked.owners]
    BY <2>2 DEF Policy
  <2>4. [asked EXCEPT !.owners = <<"default">>] = [kind |-> asked.kind, owners |-> <<"default">>]
    BY <2>3
  <2>5. Policy([asked EXCEPT !.owners = <<"default">>])
    BY <1>1, <2>4 DEF Policy
  <2>. QED
    BY <2>1, <2>2, <2>5
<1>4. CASE WriteNew(p)
  BY <1>2, <1>4 DEF WriteNew
<1>5. CASE Whiteboard(p)
  BY <1>2, <1>5, FabricAssumption DEF Whiteboard
<1>6. CASE PullSnapshot(p)
  BY <1>2, <1>6 DEF PullSnapshot, RightsInv, Good
<1>. QED
  BY <1>3, <1>4, <1>5, <1>6

(* A step that changes no policies and no rights keeps the invariant.      *)
LEMMA FrameRights ==
    ASSUME RightsInv, UNCHANGED <<stores, known, policies, given>>, pc' \in [Processes -> Places],
           \/ Readable(file)' = Readable(file)
           \/ DOMAIN Readable(file)' = {}
           \/ \E p \in Processes : Readable(file)' = policies[p]
    PROVE  RightsInv'
<1>1. Good(Readable(file))' /\ DOMAIN Readable(file)' \subseteq stores'
  BY DEF RightsInv, Good
<1>. QED
  BY <1>1 DEF RightsInv, Good

(* A step on the whiteboard leaves the stores and the policies alone.      *)
BoardStep(p) ==
    \/ \E agent \in Agents : PostCount(p, agent)
    \/ PostFile(p) \/ PostCommit(p) \/ PostRaises(p)
    \/ \E b \in BoardBranches : BranchBase(p, b) \/ BranchNew(p, b)
    \/ BranchRaises(p)

LEMMA BoardStepFrame ==
    ASSUME NEW p, BoardStep(p)
    PROVE  /\ UNCHANGED <<stores, known, policies, given, file, rights, disturbed>>
           /\ \E place \in {"idle", "post", "commit", "branch"} :
                  /\ pc[p] \in {"idle", "post", "commit", "branch"}
                  /\ pc' = [pc EXCEPT ![p] = place]
BY DEF BoardStep, PostFile, PostCommit, PostRaises, PostDone, PostCount, BranchBase, BranchNew,
       BranchRaises, Goto, Begins

(* Every step keeps the invariant.                                         *)
LEMMA NextRights == RightsInv /\ [FabricNext]_fabricVars => RightsInv'
<1>. SUFFICES ASSUME RightsInv, [FabricNext]_fabricVars PROVE RightsInv'
  OBVIOUS
<1>t. /\ pc \in [Processes -> Places]
      /\ \A p \in Processes, place \in Places : [pc EXCEPT ![p] = place] \in [Processes -> Places]
  BY DEF RightsInv
<1>1. CASE UNCHANGED fabricVars
  BY <1>1 DEF fabricVars, RightsInv, Good, Readable
<1>2. ASSUME NEW p \in Processes, Runs(p) PROVE RightsInv'
  <2>1. CASE Open(p)
    <3>1. /\ known' = [known EXCEPT ![p] = stores] /\ policies' = [policies EXCEPT ![p] = Readable(file)]
          /\ pc' = [pc EXCEPT ![p] = "idle"] /\ UNCHANGED <<stores, file, given>>
      BY <2>1 DEF Open, Goto
    <3>2. Readable(file)' = Readable(file)
      BY <3>1 DEF Readable
    <3>3. ASSUME NEW q \in Processes
          PROVE  Good(policies[q])' /\ DOMAIN policies'[q] \subseteq known'[q] /\ known'[q] \subseteq stores'
      BY <3>1 DEF RightsInv, Good
    <3>4. known' \in [Processes -> SUBSET Stores] /\ policies' = [q \in Processes |-> policies'[q]]
      BY <3>1 DEF RightsInv
    <3>. QED
      BY <1>t, <3>1, <3>2, <3>3, <3>4 DEF RightsInv, Good, Places
  <2>2. CASE Create(p) \/ WriteNew(p) \/ Whiteboard(p) \/ PullSnapshot(p)
    BY <2>2, CallersCreate, CreateRights
  <2>3. ASSUME NEW store \in Stores, NEW agent \in Agents, Grant(p, store, agent)
        PROVE  RightsInv'
    <3>. DEFINE owners == policies[p][store].owners
    <3>1. /\ store \in DOMAIN policies[p]
          /\ policies' = [policies EXCEPT ![p][store].owners = Append(owners, agent)]
          /\ given' = [given EXCEPT ![store] = given[store] \cup {agent}]
          /\ pc' = [pc EXCEPT ![p] = "persist"] /\ UNCHANGED <<stores, known, file>>
      BY <2>3 DEF Grant, Goto
    <3>2. owners \in Seq(Names) /\ ToSet(owners) \subseteq given[store] /\ agent \in Names
      BY <3>1 DEF RightsInv, Good, Policy, LetIn, Names
    <3>3. Append(owners, agent) \in Seq(Names) /\ ToSet(Append(owners, agent)) = ToSet(owners) \cup {agent}
      BY <3>2, AppendAdds
    <3>4. /\ given' = [s \in Stores |-> given'[s]] /\ \A s \in Stores : given[s] \subseteq given'[s]
          /\ ToSet(Append(owners, agent)) \subseteq given'[store]
      BY <3>1, <3>2, <3>3 DEF RightsInv
    <3>5. pc' \in [Processes -> Places]
      BY <1>t, <3>1 DEF Places
    <3>. QED
      BY <3>1, <3>3, <3>4, <3>5, OwnersRights
  <2>4. ASSUME NEW store \in Stores, NEW agent \in Agents, Revoke(p, store, agent)
        PROVE  RightsInv'
    <3>. DEFINE owners == policies[p][store].owners
    <3>1. /\ store \in DOMAIN policies[p]
          /\ policies' = [policies EXCEPT ![p][store].owners = RemoveFirst(owners, agent)]
          /\ pc' = [pc EXCEPT ![p] = "persist"] /\ UNCHANGED <<stores, known, file, given>>
      BY <2>4 DEF Revoke, Goto
    <3>2. owners \in Seq(Names) /\ ToSet(owners) \subseteq given[store]
      BY <3>1 DEF RightsInv, Good, Policy, LetIn
    <3>3. /\ RemoveFirst(owners, agent) \in Seq(Names)
          /\ ToSet(RemoveFirst(owners, agent)) \subseteq ToSet(owners)
      BY <3>2, RemoveFirstKeeps
    <3>4. pc' \in [Processes -> Places] /\ given' = [s \in Stores |-> given'[s]]
          /\ \A s \in Stores : given[s] \subseteq given'[s]
      BY <1>t, <3>1 DEF Places, RightsInv
    <3>. QED
      BY <3>1, <3>2, <3>3, <3>4, OwnersRights
  <2>5. CASE Truncate(p)
    <3>1. Readable(file)' = Nothing /\ DOMAIN Nothing = {}
      BY <2>5 DEF Truncate, Readable, Nothing
    <3>. QED
      BY <1>t, <2>5, <3>1, FrameRights DEF Truncate, Goto, Places
  <2>6. CASE Fill(p)
    <3>1. file' \in {policies[p], Torn}
      BY <2>6 DEF Fill
    <3>2. Readable(file)' = policies[p] \/ DOMAIN Readable(file)' = {}
      BY <3>1 DEF Readable, Nothing
    <3>. QED
      BY <1>t, <2>6, <3>2, FrameRights DEF Fill, Goto, Places
  <2>7. CASE BoardStep(p)
    <3>1. UNCHANGED <<stores, known, policies, given, file>>
      BY <2>7, BoardStepFrame
    <3>2. pc' \in [Processes -> Places]
      BY <1>t, <2>7, BoardStepFrame DEF Places
    <3>3. Readable(file)' = Readable(file)
      BY <3>1 DEF Readable
    <3>. QED
      BY <3>1, <3>2, <3>3, FrameRights
  <2>8. CASE Exit(p) \/ Crash(p)
    <3>1. /\ known' = [known EXCEPT ![p] = {}] /\ policies' = [policies EXCEPT ![p] = Nothing]
          /\ pc' = [pc EXCEPT ![p] = "off"] /\ UNCHANGED <<stores, file, given>>
      BY <2>8 DEF Exit, Crash, Gone, Goto
    <3>2. Readable(file)' = Readable(file) /\ DOMAIN Nothing = {}
      BY <3>1 DEF Readable, Nothing
    <3>3. ASSUME NEW q \in Processes
          PROVE  Good(policies[q])' /\ DOMAIN policies'[q] \subseteq known'[q] /\ known'[q] \subseteq stores'
      BY <3>1, <3>2 DEF RightsInv, Good
    <3>4. known' \in [Processes -> SUBSET Stores] /\ policies' = [q \in Processes |-> policies'[q]]
      BY <3>1 DEF RightsInv
    <3>. QED
      BY <1>t, <3>1, <3>2, <3>3, <3>4 DEF RightsInv, Good, Places
  <2>. QED
    BY <1>2, <2>1, <2>2, <2>3, <2>4, <2>5, <2>6, <2>7, <2>8 DEF Runs, BoardStep
<1>. QED
  BY <1>1, <1>2 DEF FabricNext

LEMMA RightsInvariant == FabricSpec => []RightsInv
BY InitRights, NextRights, PTL DEF FabricSpec

(* Whatever processes overlap or die, a policy is never without its store, *)
(* on disk or in the process that holds it.                                *)
THEOREM FabricPolicyHasStore == FabricSpec => []PolicyHasStore
<1>1. RightsInv => PolicyHasStore
  BY DEF RightsInv, PolicyHasStore
<1>. QED
  BY <1>1, RightsInvariant, PTL

(* Rights are never invented: whoever can_write lets into a store was once *)
(* named for it by a creation or a grant.                                  *)
THEOREM FabricNeverWidened == FabricSpec => []NeverWidened
<1>1. RightsInv => NeverWidened
  <2>. SUFFICES ASSUME RightsInv, NEW view \in Views, NEW agent \in Agents, NEW store \in Stores,
                       CanWrite(view, agent, store)
                PROVE  given[store] \cap {agent, "*"} # {}
    BY DEF NeverWidened
  <2>1. Good(view) /\ store \in DOMAIN view
    BY DEF RightsInv, Views, CanWrite
  <2>2. LetIn(view[store]) \subseteq given[store]
    BY <2>1 DEF Good
  <2>. QED
    BY <2>2 DEF CanWrite, LetIn
<1>. QED
  BY <1>1, RightsInvariant, PTL

-----------------------------------------------------------------------------
(* Processes that take turns.  Until two are alive at once or one dies,    *)
(* the one that is alive has the policies reported, and so has the file,   *)
(* unless that one is writing it.                                          *)
TurnInv ==
    /\ RightsInv
    /\ disturbed \in BOOLEAN
    /\ ~disturbed =>
        /\ DOMAIN rights \subseteq Stores
        /\ \A p, q \in Processes : Alive(p) /\ Alive(q) => p = q
        /\ \A p \in Processes : Alive(p) => policies[p] = rights
        /\ \A p \in Processes : pc[p] = "write" => file = Empty
        /\ (\A p \in Processes : pc[p] \notin {"persist", "write"}) => file = rights

(* What call p does to the turns, when nothing is disturbed before or      *)
(* after: it is the one process alive, or the first to start.              *)
LEMMA NextTurn == TurnInv /\ [FabricNext]_fabricVars => TurnInv'
<1>. SUFFICES ASSUME TurnInv, [FabricNext]_fabricVars PROVE TurnInv'
  OBVIOUS
<1>0. RightsInv /\ RightsInv'
  BY NextRights DEF TurnInv
<1>1. CASE UNCHANGED fabricVars
  BY <1>0, <1>1 DEF fabricVars, TurnInv, Alive
<1>2. ASSUME NEW p \in Processes, Runs(p) PROVE TurnInv'
  <2>0. /\ pc \in [Processes -> Places] /\ policies = [q \in Processes |-> policies[q]]
        /\ DOMAIN policies'[p] \subseteq Stores
    BY <1>0 DEF RightsInv
  <2>1. CASE Open(p)
    <3>0. /\ disturbed' = (disturbed \/ \E q \in Processes : Alive(q))
          /\ policies' = [policies EXCEPT ![p] = Readable(file)]
          /\ pc' = [pc EXCEPT ![p] = "idle"] /\ file' = file
          /\ rights' = IF disturbed' THEN Nothing ELSE rights
      BY <2>1 DEF Open, Goto
    <3>1. CASE disturbed'
      BY <1>0, <3>1 DEF TurnInv
    <3>2. CASE ~disturbed'
      <4>1. ~disturbed /\ \A q \in Processes : pc[q] = "off"
        BY <3>0, <3>2 DEF Alive, TurnInv
      <4>2. file = rights /\ DOMAIN rights \subseteq Stores
        BY <4>1 DEF TurnInv
      <4>3. file \notin {Empty, Torn}
        <5>1. DOMAIN Empty = {"unread"} /\ DOMAIN Torn = {"unread"}
          BY DEF Empty, Torn
        <5>. QED
          BY <4>2, <5>1, FabricAssumption
      <4>4. Readable(file) = rights
        BY <4>2, <4>3 DEF Readable
      <4>5. /\ policies'[p] = rights /\ rights' = rights /\ pc'[p] = "idle"
            /\ \A q \in Processes : q # p => pc'[q] = "off"
        BY <2>0, <3>0, <3>2, <4>1, <4>4
      <4>. QED
        BY <1>0, <3>0, <3>2, <4>2, <4>5 DEF TurnInv, Alive
    <3>. QED
      BY <3>1, <3>2, <3>0 DEF TurnInv
  <2>2. ASSUME pc[p] = "idle", pc' = [pc EXCEPT ![p] = "persist"], Report(policies'[p]),
               UNCHANGED disturbed,
               \A q \in Processes : q # p => policies'[q] = policies[q]
        PROVE  TurnInv'
    <3>1. CASE disturbed
      BY <1>0, <2>2, <3>1 DEF TurnInv
    <3>2. CASE ~disturbed
      <4>1. /\ rights' = policies'[p] /\ pc'[p] = "persist"
            /\ \A q \in Processes : q # p => pc[q] = "off" /\ pc'[q] = "off"
        BY <2>0, <2>2, <3>2 DEF TurnInv, Alive, Report
      <4>. QED
        BY <1>0, <2>0, <2>2, <3>2, <4>1 DEF TurnInv, Alive
    <3>. QED
      BY <3>1, <3>2 DEF TurnInv
  <2>3. ASSUME NEW store \in Stores, NEW policy, CreateStore(p, store, policy) PROVE TurnInv'
    <3>1. /\ pc[p] = "idle" /\ pc' = [pc EXCEPT ![p] = "persist"] /\ Report(policies'[p])
          /\ UNCHANGED disturbed
          /\ policies' = [policies EXCEPT ![p] = With(policies[p], store, policy)]
      BY <2>3 DEF CreateStore, Begins, Goto
    <3>2. \A q \in Processes : q # p => policies'[q] = policies[q]
      BY <2>0, <3>1
    <3>. QED
      BY <2>2, <3>1, <3>2
  <2>4. CASE Create(p) \/ WriteNew(p) \/ Whiteboard(p) \/ PullSnapshot(p)
    BY <1>0, <2>3, <2>4, CallersCreate
  <2>5. ASSUME NEW store \in Stores, NEW agent \in Agents,
               Grant(p, store, agent) \/ Revoke(p, store, agent)
        PROVE  TurnInv'
    <3>1. /\ pc[p] = "idle" /\ pc' = [pc EXCEPT ![p] = "persist"] /\ Report(policies'[p])
          /\ UNCHANGED disturbed
      BY <2>5 DEF Grant, Revoke, Begins, Goto
    <3>2. \/ policies' = [policies EXCEPT ![p][store].owners = Append(policies[p][store].owners, agent)]
          \/ policies' = [policies EXCEPT ![p][store].owners
                                              = RemoveFirst(policies[p][store].owners, agent)]
      BY <2>5 DEF Grant, Revoke
    <3>3. \A q \in Processes : q # p => policies'[q] = policies[q]
      BY <2>0, <3>2
    <3>. QED
      BY <2>2, <3>1, <3>3
  <2>6. CASE Truncate(p)
    <3>1. /\ pc[p] = "persist" /\ pc' = [pc EXCEPT ![p] = "write"] /\ file' = Empty
          /\ UNCHANGED <<policies, rights, disturbed>>
      BY <2>6 DEF Truncate, Goto
    <3>2. pc'[p] = "write" /\ \A q \in Processes : q # p => pc'[q] = pc[q]
      BY <2>0, <3>1
    <3>. QED
      BY <1>0, <3>1, <3>2 DEF TurnInv, Alive
  <2>7. CASE Fill(p)
    <3>1. /\ pc[p] = "write" /\ pc' = [pc EXCEPT ![p] = "idle"]
          /\ file = Empty => file' = policies[p]
          /\ UNCHANGED <<policies, rights, disturbed>>
      BY <2>7 DEF Fill, Goto
    <3>2. pc'[p] = "idle" /\ \A q \in Processes : q # p => pc'[q] = pc[q]
      BY <2>0, <3>1
    <3>. QED
      BY <1>0, <3>1, <3>2 DEF TurnInv, Alive
  <2>8. CASE BoardStep(p)
    <3>1. UNCHANGED <<policies, rights, disturbed, file>>
      BY <2>8, BoardStepFrame
    <3>2. \E place \in {"idle", "post", "commit", "branch"} :
              pc[p] \in {"idle", "post", "commit", "branch"} /\ pc' = [pc EXCEPT ![p] = place]
      BY <2>8, BoardStepFrame
    <3>3. /\ pc[p] \in {"idle", "post", "commit", "branch"}
          /\ pc'[p] \in {"idle", "post", "commit", "branch"}
          /\ \A q \in Processes : q # p => pc'[q] = pc[q]
      BY <2>0, <3>2
    <3>. QED
      BY <1>0, <3>1, <3>3 DEF TurnInv, Alive
  <2>9. CASE Exit(p)
    <3>1. /\ pc[p] = "idle" /\ pc' = [pc EXCEPT ![p] = "off"]
          /\ policies' = [policies EXCEPT ![p] = Nothing] /\ UNCHANGED <<rights, disturbed, file>>
      BY <2>9 DEF Exit, Gone, Goto
    <3>2. /\ pc'[p] = "off"
          /\ \A q \in Processes : q # p => pc'[q] = pc[q] /\ policies'[q] = policies[q]
      BY <2>0, <3>1
    <3>. QED
      BY <1>0, <3>1, <3>2 DEF TurnInv, Alive
  <2>10. CASE Crash(p)
    BY <1>0, <2>10 DEF Crash, TurnInv
  <2>. QED
    BY <1>2, <2>1, <2>4, <2>5, <2>6, <2>7, <2>8, <2>9, <2>10 DEF Runs, BoardStep
<1>. QED
  BY <1>1, <1>2 DEF FabricNext

LEMMA InitTurn == FabricInit => TurnInv
<1>1. DOMAIN Nothing = {}
  BY DEF Nothing
<1>. QED
  BY <1>1, InitRights DEF FabricInit, TurnInv, Alive

(* Processes that take turns and do not die lose nothing: between calls    *)
(* policies.json and the process that is alive have the policies the calls *)
(* have reported.                                                          *)
THEOREM FabricTurnsKeepRights == FabricSpec => []TurnsKeepRights
<1>1. TurnInv => TurnsKeepRights
  BY DEF TurnInv, TurnsKeepRights, Alive
<1>. QED
  BY <1>1, InitTurn, NextTurn, PTL DEF FabricSpec

-----------------------------------------------------------------------------
(* Posts.  The key of a new post is larger than all that main has.         *)
Key(e) == <<e.agent, e.n>>
PostUnderWay(p) == pc[p] \in {"post", "commit"}
OnMain == committed["main"]
Committed == Cardinality(DOMAIN OnMain)

\* A file is as it is committed on the branch checked out.
Kept(k) == Entry(tree, k) = Entry(committed[boardHead], k)

IsPost(e) == e = [agent |-> e.agent, n |-> e.n, entry |-> e.entry, main |-> e.main]

BoardInv ==
    /\ pc \in [Processes -> Places]
    /\ post = [p \in Processes |-> post[p]] /\ \A p \in Processes : IsPost(post[p])
    /\ forked \subseteq BoardBranches /\ boardHead \in forked /\ "main" \in forked
    /\ committed = [b \in BoardBranches |-> committed[b]]
    /\ IsFiniteSet(DOMAIN tree) /\ DOMAIN committed[boardHead] \subseteq DOMAIN tree
    /\ \A b \in BoardBranches : IsFiniteSet(DOMAIN committed[b])

KeysInv ==
    /\ \A k \in DOMAIN tree : k[2] \in Nat /\ k[2] <= Committed + 1
    /\ \A b \in BoardBranches : \A k \in DOMAIN committed[b] : k[2] \in Nat /\ k[2] <= Committed + 1
    /\ \A k \in DOMAIN OnMain : k[2] <= Committed
    /\ \A p \in Processes : PostUnderWay(p) =>
            /\ post[p].n \in Nat /\ post[p].n <= Committed + 1
            /\ post[p].main => boardHead = "main"

(* An agent that does not post twice at once has one post under way, which *)
(* comes after all that are kept, and is in the tree once its file is      *)
(* written, as long as main is checked out.                                *)
AloneInv ==
    \A p \in Processes : PostUnderWay(p) /\ post[p].agent \notin doubled =>
        /\ \A q \in Processes : PostUnderWay(q) /\ post[q].agent = post[p].agent => q = p
        /\ \A e \in acked : e.main /\ e.agent = post[p].agent => e.n < post[p].n
        /\ pc[p] = "commit" /\ post[p].main =>
                Key(post[p]) \in DOMAIN tree /\ tree[Key(post[p])] = post[p].entry

AckedInv ==
    \A e \in acked : e.main /\ e.agent \notin doubled =>
        /\ Key(e) \in DOMAIN OnMain /\ OnMain[Key(e)] = e.entry
        /\ Kept(Key(e))

PostInv == BoardInv /\ KeysInv /\ AloneInv /\ AckedInv

LEMMA InitPost == FabricInit => PostInv
<1>1. DOMAIN Nothing = {} /\ IsFiniteSet({})
  BY FS_EmptySet DEF Nothing
<1>. SUFFICES ASSUME FabricInit
              PROVE  PostInv
  OBVIOUS
<1>2. /\ pc = [p \in Processes |-> "off"] /\ post = [p \in Processes |-> NoPost]
      /\ tree = Nothing /\ acked = {} /\ forked = {"main"} /\ boardHead = "main"
      /\ committed = [b \in BoardBranches |-> Nothing] /\ "main" \in BoardBranches
  BY DEF FabricInit, BoardBranches
<1>3. \A b \in BoardBranches : DOMAIN committed[b] = {}
  BY <1>1, <1>2
<1>4. BoardInv
  <2>1. pc \in [Processes -> Places]
    BY <1>2 DEF Places
  <2>2. post = [p \in Processes |-> post[p]] /\ \A p \in Processes : IsPost(post[p])
    BY <1>2 DEF IsPost, NoPost
  <2>3. committed = [b \in BoardBranches |-> committed[b]]
    BY <1>2
  <2>. QED
    BY <1>1, <1>2, <1>3, <2>1, <2>2, <2>3 DEF BoardInv
<1>5. \A p \in Processes : ~PostUnderWay(p)
  BY <1>2 DEF PostUnderWay
<1>6. KeysInv
  BY <1>1, <1>2, <1>3, <1>5 DEF KeysInv, OnMain
<1>. QED
  BY <1>2, <1>4, <1>5, <1>6 DEF PostInv, AloneInv, AckedInv

(* The number of main's entries.                                           *)
LEMMA CommittedNat == PostInv => Committed \in Nat
BY FS_CardinalityType DEF PostInv, BoardInv, Committed, OnMain, BoardBranches

(* A post begins: its key is behind all that main has.                     *)
LEMMA PostCountKeeps ==
    ASSUME PostInv, NEW p \in Processes, NEW agent \in Agents, PostCount(p, agent)
    PROVE  PostInv'
<1>1. /\ pc[p] = "idle" /\ pc' = [pc EXCEPT ![p] = "post"]
      /\ post' = [post EXCEPT ![p] = [agent |-> agent, n |-> Committed + 1, entry |-> calls + 1,
                                      main |-> boardHead = "main"]]
      /\ doubled' = doubled \cup (IF Posting(agent) = {} THEN {} ELSE {agent})
      /\ UNCHANGED <<tree, committed, forked, boardHead, acked>>
  BY DEF PostCount, Begins, Goto, NextEntry, Committed, OnMain
<1>2. Committed \in Nat /\ UNCHANGED <<Committed, OnMain>>
  BY <1>1, CommittedNat DEF Committed, OnMain
<1>3. /\ pc'[p] = "post" /\ post'[p].agent = agent /\ post'[p].n = Committed + 1
      /\ post'[p].main = (boardHead = "main")
      /\ \A q \in Processes : q # p => pc'[q] = pc[q] /\ post'[q] = post[q]
      /\ pc' \in [Processes -> Places] /\ post' = [q \in Processes |-> post'[q]]
      /\ ~PostUnderWay(p)
  BY <1>1 DEF PostInv, BoardInv, Places, PostUnderWay
<1>4. BoardInv' /\ KeysInv'
  <2>1. BoardInv'
    <3>1. \A q \in Processes : IsPost(post'[q])
      BY <1>1, <1>3 DEF PostInv, BoardInv, IsPost
    <3>. QED
      BY <1>1, <1>3, <3>1 DEF PostInv, BoardInv
  <2>2. \A q \in Processes : PostUnderWay(q)' =>
            /\ post'[q].n \in Nat /\ post'[q].n <= Committed + 1
            /\ post'[q].main => boardHead = "main"
    <3>1. /\ post'[p].n \in Nat /\ post'[p].n <= Committed + 1
          /\ post'[p].main => boardHead = "main"
      <4>1. Committed + 1 \in Nat /\ Committed + 1 <= Committed + 1
        BY <1>2
      <4>. QED
        BY <1>3, <4>1, Zenon
    <3>2. \A q \in Processes : q # p /\ PostUnderWay(q)' =>
                PostUnderWay(q) /\ post'[q] = post[q]
      BY <1>3 DEF PostUnderWay
    <3>3. \A q \in Processes : PostUnderWay(q) =>
                /\ post[q].n \in Nat /\ post[q].n <= Committed + 1
                /\ post[q].main => boardHead = "main"
      BY DEF PostInv, KeysInv
    <3>. QED
      BY <3>1, <3>2, <3>3
  <2>. QED
    BY <1>1, <1>2, <2>1, <2>2 DEF PostInv, KeysInv
<1>5. AckedInv'
  BY <1>1, <1>2 DEF PostInv, AckedInv, Kept, Entry
<1>6. AloneInv'
  <2>. SUFFICES ASSUME NEW q \in Processes, PostUnderWay(q)', post'[q].agent \notin doubled'
                PROVE  /\ \A r \in Processes : PostUnderWay(r)' /\ post'[r].agent = post'[q].agent => r = q
                       /\ \A e \in acked : e.main /\ e.agent = post'[q].agent => e.n < post'[q].n
                       /\ pc'[q] = "commit" /\ post'[q].main =>
                              /\ Key(post'[q]) \in DOMAIN tree
                              /\ tree[Key(post'[q])] = post'[q].entry
    BY <1>1 DEF AloneInv, Key
  <2>1. CASE q = p
    <3>1. Posting(agent) = {} /\ agent \notin doubled
      BY <1>1, <1>3, <2>1
    <3>2. \A r \in Processes : PostUnderWay(r) => post[r].agent # agent
      BY <3>1 DEF Posting, PostUnderWay
    <3>3. \A e \in acked : e.main /\ e.agent = agent => e.n <= Committed /\ e.n \in Nat
      <4>. SUFFICES ASSUME NEW e \in acked, e.main, e.agent = agent
                    PROVE  e.n <= Committed /\ e.n \in Nat
        OBVIOUS
      <4>1. <<e.agent, e.n>> \in DOMAIN OnMain
        BY <3>1 DEF PostInv, AckedInv, Key
      <4>2. <<e.agent, e.n>>[2] = e.n
        OBVIOUS
      <4>. QED
        BY <4>1, <4>2 DEF PostInv, KeysInv, OnMain, BoardBranches
    <3>. QED
      BY <1>2, <1>3, <2>1, <3>2, <3>3 DEF PostUnderWay
  <2>2. CASE q # p
    <3>1. PostUnderWay(q) /\ post'[q] = post[q] /\ post[q].agent \notin doubled /\ pc'[q] = pc[q]
      BY <1>1, <1>3, <2>2 DEF PostUnderWay
    <3>2. post[q].agent # agent
      BY <1>1, <3>1 DEF Posting, PostUnderWay
    <3>. QED
      BY <1>1, <1>3, <3>1, <3>2 DEF PostInv, AloneInv, PostUnderWay
  <2>. QED
    BY <2>1, <2>2
<1>. QED
  BY <1>4, <1>5, <1>6 DEF PostInv

(* The file of a post is written: only another post of the same agent      *)
(* could have its key.                                                     *)
LEMMA PostFileKeeps ==
    ASSUME PostInv, NEW p \in Processes, PostFile(p)
    PROVE  PostInv'
<1>. DEFINE k == Key(post[p])
<1>1. /\ pc[p] = "post" /\ pc' = [pc EXCEPT ![p] = "commit"]
      /\ tree' = With(tree, k, post[p].entry)
      /\ UNCHANGED <<post, committed, forked, boardHead, acked, doubled>>
  BY DEF PostFile, Goto, Key
<1>2. /\ pc'[p] = "commit" /\ \A q \in Processes : q # p => pc'[q] = pc[q]
      /\ pc' \in [Processes -> Places] /\ PostUnderWay(p)
      /\ \A q \in Processes : PostUnderWay(q)' = PostUnderWay(q)
  BY <1>1 DEF PostInv, BoardInv, Places, PostUnderWay
<1>3. /\ DOMAIN tree' = DOMAIN tree \cup {k} /\ tree'[k] = post[p].entry
      /\ \A l \in DOMAIN tree : l # k => tree'[l] = tree[l]
  BY <1>1 DEF With
<1>4. k[2] = post[p].n /\ \A e : Key(e) = k => e.agent = post[p].agent /\ e.n = post[p].n
  BY DEF Key
<1>5. UNCHANGED <<Committed, OnMain>>
  BY <1>1 DEF Committed, OnMain
<1>6. BoardInv' /\ KeysInv'
  <2>1. IsFiniteSet(DOMAIN tree')
    BY <1>3, FS_AddElement DEF PostInv, BoardInv
  <2>2. k[2] \in Nat /\ k[2] <= Committed + 1
    BY <1>2, <1>4 DEF PostInv, KeysInv
  <2>3. BoardInv'
    BY <1>1, <1>2, <1>3, <2>1 DEF PostInv, BoardInv
  <2>. QED
    BY <1>1, <1>2, <1>3, <1>5, <2>2, <2>3 DEF PostInv, KeysInv
<1>7. AloneInv'
  <2>. SUFFICES ASSUME NEW q \in Processes, PostUnderWay(q), post[q].agent \notin doubled
                PROVE  /\ \A r \in Processes : PostUnderWay(r) /\ post[r].agent = post[q].agent => r = q
                       /\ \A e \in acked : e.main /\ e.agent = post[q].agent => e.n < post[q].n
                       /\ pc'[q] = "commit" /\ post[q].main =>
                              /\ Key(post[q]) \in DOMAIN tree'
                              /\ tree'[Key(post[q])] = post[q].entry
    BY <1>1, <1>2 DEF AloneInv, Key
  <2>1. /\ \A r \in Processes : PostUnderWay(r) /\ post[r].agent = post[q].agent => r = q
        /\ \A e \in acked : e.main /\ e.agent = post[q].agent => e.n < post[q].n
        /\ pc[q] = "commit" /\ post[q].main =>
                Key(post[q]) \in DOMAIN tree /\ tree[Key(post[q])] = post[q].entry
    BY DEF PostInv, AloneInv
  <2>2. CASE q = p
    BY <1>3, <2>1, <2>2
  <2>3. CASE q # p
    <3>1. Key(post[q]) # k
      BY <1>2, <1>4, <2>1, <2>3
    <3>. QED
      BY <1>2, <1>3, <2>1, <2>3, <3>1
  <2>. QED
    BY <2>2, <2>3
<1>8. AckedInv'
  <2>. SUFFICES ASSUME NEW e \in acked, e.main, e.agent \notin doubled
                PROVE  /\ Key(e) \in DOMAIN OnMain /\ OnMain[Key(e)] = e.entry
                       /\ Entry(tree', Key(e)) = Entry(committed[boardHead], Key(e))
    BY <1>1, <1>5 DEF AckedInv, Key, Kept, Entry
  <2>1. /\ Key(e) \in DOMAIN OnMain /\ OnMain[Key(e)] = e.entry
        /\ Entry(tree, Key(e)) = Entry(committed[boardHead], Key(e))
    BY DEF PostInv, AckedInv, Kept
  <2>2. Key(e) # k
    <3>. SUFFICES ASSUME Key(e) = k PROVE FALSE
      OBVIOUS
    <3>1. e.agent = post[p].agent /\ e.n = post[p].n
      BY <1>4
    <3>2. e.n < post[p].n /\ post[p].n \in Nat
      BY <1>2, <3>1 DEF PostInv, AloneInv, KeysInv
    <3>. QED
      BY <3>1, <3>2
  <2>3. Entry(tree', Key(e)) = Entry(tree, Key(e))
    BY <1>3, <2>2 DEF Entry
  <2>. QED
    BY <2>1, <2>3
<1>. QED
  BY <1>6, <1>7, <1>8 DEF PostInv

(* The commit takes the whole tree along; on main it counts at least one   *)
(* key more if there is a new one.                                         *)
LEMMA PostCommitKeeps ==
    ASSUME PostInv, NEW p \in Processes, PostCommit(p)
    PROVE  PostInv'
<1>1. /\ pc[p] = "commit" /\ pc' = [pc EXCEPT ![p] = "idle"]
      /\ post' = [post EXCEPT ![p] = NoPost]
      /\ committed' = [committed EXCEPT ![boardHead] = tree]
      /\ acked' = acked \cup {post[p]} /\ UNCHANGED <<tree, forked, boardHead, doubled>>
  BY DEF PostCommit, PostDone, Goto
<1>2. /\ pc' \in [Processes -> Places] /\ post' = [q \in Processes |-> post'[q]]
      /\ ~PostUnderWay(p)' /\ PostUnderWay(p)
      /\ \A q \in Processes : q # p => pc'[q] = pc[q] /\ post'[q] = post[q]
  BY <1>1 DEF PostInv, BoardInv, Places, PostUnderWay
<1>a. boardHead \in BoardBranches /\ "main" \in BoardBranches
      /\ DOMAIN committed[boardHead] \subseteq DOMAIN tree /\ IsFiniteSet(DOMAIN tree)
  BY DEF PostInv, BoardInv, BoardBranches
<1>b. /\ committed' = [b \in BoardBranches |-> committed'[b]] /\ committed'[boardHead] = tree
      /\ \A b \in BoardBranches : b # boardHead => committed'[b] = committed[b]
  BY <1>1, <1>a DEF PostInv, BoardInv
<1>c. /\ boardHead = "main" => OnMain' = tree /\ DOMAIN OnMain \subseteq DOMAIN tree
      /\ boardHead # "main" => OnMain' = OnMain
  BY <1>a, <1>b DEF OnMain
<1>3. /\ Committed \in Nat /\ Committed' \in Nat /\ Committed <= Committed'
      /\ boardHead = "main" /\ DOMAIN OnMain # DOMAIN tree => Committed < Committed'
  <2>1. CASE boardHead = "main"
    <3>1. /\ IsFiniteSet(DOMAIN OnMain)
          /\ Cardinality(DOMAIN OnMain) <= Cardinality(DOMAIN tree)
          /\ Cardinality(DOMAIN tree) = Cardinality(DOMAIN OnMain) => DOMAIN tree = DOMAIN OnMain
      BY <1>a, <1>c, <2>1, FS_Subset
    <3>2. Cardinality(DOMAIN OnMain) \in Nat /\ Cardinality(DOMAIN tree) \in Nat
      BY <1>a, <3>1, FS_CardinalityType
    <3>. QED
      BY <1>c, <2>1, <3>1, <3>2 DEF Committed
  <2>2. CASE boardHead # "main"
    BY <1>c, <2>2, CommittedNat DEF Committed
  <2>. QED
    BY <2>1, <2>2
<1>4. BoardInv' /\ KeysInv'
  <2>1. ASSUME boardHead = "main", NEW k \in DOMAIN tree PROVE k[2] \in Nat /\ k[2] <= Committed'
    <3>1. k[2] \in Nat /\ k[2] <= Committed + 1 /\ (k \in DOMAIN OnMain => k[2] <= Committed)
      BY DEF PostInv, KeysInv
    <3>. QED
      BY <1>3, <2>1, <3>1
  <2>2. ASSUME NEW q \in Processes, PostUnderWay(q)'
        PROVE  /\ post'[q].n \in Nat /\ post'[q].n <= Committed' + 1
               /\ post'[q].main => boardHead = "main"
    <3>1. q # p
      BY <1>2, <2>2
    <3>2. PostUnderWay(q) /\ post'[q] = post[q]
      BY <1>2, <2>2, <3>1 DEF PostUnderWay
    <3>3. post[q].n \in Nat /\ post[q].n <= Committed + 1 /\ (post[q].main => boardHead = "main")
      BY <3>2 DEF PostInv, KeysInv
    <3>. QED
      BY <1>3, <3>2, <3>3
  <2>3. \A k \in DOMAIN tree : k[2] \in Nat /\ k[2] <= Committed' + 1
    BY <1>3 DEF PostInv, KeysInv
  <2>4. \A b \in BoardBranches : \A k \in DOMAIN committed'[b] : k[2] \in Nat /\ k[2] <= Committed' + 1
    <3>. SUFFICES ASSUME NEW b \in BoardBranches, NEW k \in DOMAIN committed'[b]
                  PROVE  k[2] \in Nat /\ k[2] <= Committed' + 1
      OBVIOUS
    <3>1. CASE b = boardHead
      BY <1>b, <2>3, <3>1
    <3>2. CASE b # boardHead
      <4>1. k[2] \in Nat /\ k[2] <= Committed + 1
        BY <1>b, <3>2 DEF PostInv, KeysInv
      <4>. QED
        BY <1>3, <4>1
    <3>. QED
      BY <3>1, <3>2
  <2>5. \A k \in DOMAIN OnMain' : k[2] <= Committed'
    <3>1. CASE boardHead = "main"
      BY <1>c, <2>1, <3>1
    <3>2. CASE boardHead # "main"
      BY <1>c, <3>2 DEF PostInv, KeysInv, Committed
    <3>. QED
      BY <3>1, <3>2
  <2>6. BoardInv'
    <3>1. \A b \in BoardBranches : IsFiniteSet(DOMAIN committed'[b])
      BY <1>a, <1>b DEF PostInv, BoardInv
    <3>2. \A q \in Processes : IsPost(post'[q])
      BY <1>1, <1>2 DEF PostInv, BoardInv, IsPost, NoPost
    <3>. QED
      BY <1>1, <1>2, <1>a, <1>b, <3>1, <3>2 DEF PostInv, BoardInv
  <2>. QED
    BY <1>1, <2>2, <2>3, <2>4, <2>5, <2>6 DEF KeysInv
<1>5. AloneInv'
  <2>. SUFFICES ASSUME NEW q \in Processes, PostUnderWay(q)', post'[q].agent \notin doubled
                PROVE  /\ \A r \in Processes : PostUnderWay(r)' /\ post'[r].agent = post'[q].agent => r = q
                       /\ \A e \in acked' : e.main /\ e.agent = post'[q].agent => e.n < post'[q].n
                       /\ pc'[q] = "commit" /\ post'[q].main =>
                              /\ Key(post'[q]) \in DOMAIN tree
                              /\ tree[Key(post'[q])] = post'[q].entry
    BY <1>1 DEF AloneInv, Key
  <2>1. q # p
    BY <1>2
  <2>2. PostUnderWay(q) /\ post'[q] = post[q] /\ pc'[q] = pc[q]
    BY <1>2, <2>1 DEF PostUnderWay
  <2>3. \A r \in Processes : PostUnderWay(r)' => PostUnderWay(r) /\ post'[r] = post[r]
    BY <1>2 DEF PostUnderWay
  <2>4. /\ \A r \in Processes : PostUnderWay(r) /\ post[r].agent = post[q].agent => r = q
        /\ \A e \in acked : e.main /\ e.agent = post[q].agent => e.n < post[q].n
        /\ pc[q] = "commit" /\ post[q].main =>
                Key(post[q]) \in DOMAIN tree /\ tree[Key(post[q])] = post[q].entry
    BY <2>2 DEF PostInv, AloneInv
  <2>5. post[p].agent # post[q].agent
    BY <1>2, <2>1, <2>4
  <2>. QED
    BY <1>1, <2>2, <2>3, <2>4, <2>5
<1>6. AckedInv'
  <2>. SUFFICES ASSUME NEW e \in acked', e.main, e.agent \notin doubled
                PROVE  Key(e) \in DOMAIN OnMain' /\ OnMain'[Key(e)] = e.entry
    BY <1>1, <1>b DEF AckedInv, Kept, Key, Entry
  <2>1. CASE e \in acked
    <3>1. Key(e) \in DOMAIN OnMain /\ OnMain[Key(e)] = e.entry /\ Kept(Key(e))
      BY <2>1 DEF PostInv, AckedInv
    <3>2. CASE boardHead # "main"
      BY <1>c, <3>1, <3>2
    <3>3. CASE boardHead = "main"
      <4>1. Key(e) \in DOMAIN tree
        BY <1>c, <3>1, <3>3
      <4>2. <<tree[Key(e)]>> = <<OnMain[Key(e)]>>
        BY <3>1, <3>3, <4>1 DEF Kept, Entry, OnMain
      <4>3. tree[Key(e)] = OnMain[Key(e)]
        BY <4>2
      <4>. QED
        BY <1>c, <3>1, <3>3, <4>1, <4>3
    <3>. QED
      BY <3>2, <3>3
  <2>2. CASE e = post[p]
    <3>1. boardHead = "main"
      BY <1>2, <2>2 DEF PostInv, KeysInv
    <3>2. Key(e) \in DOMAIN tree /\ tree[Key(e)] = e.entry
      BY <1>1, <1>2, <2>2 DEF PostInv, AloneInv
    <3>. QED
      BY <1>c, <3>1, <3>2
  <2>. QED
    BY <1>1, <2>1, <2>2
<1>. QED
  BY <1>4, <1>5, <1>6 DEF PostInv

(* git checkout keeps what is not committed, and what is committed becomes *)
(* that of the branch.                                                     *)
LEMMA MovedTree ==
    ASSUME PostInv, NEW b \in BoardBranches, NEW entries, Fits(entries), Moved(b, entries)
    PROVE  /\ DOMAIN tree' = Dirty \cup DOMAIN entries /\ boardHead' = b
           /\ \A k : Entry(tree, k) = Entry(committed[boardHead], k) =>
                     Entry(tree', k) = Entry(entries, k)
           /\ entries = committed[boardHead] =>
                  DOMAIN tree \subseteq DOMAIN tree' /\ \A k \in DOMAIN tree : tree'[k] = tree[k]
<1>1. /\ boardHead' = b /\ DOMAIN tree' = Dirty \cup DOMAIN entries
      /\ \A k \in Dirty : tree'[k] = tree[k]
      /\ \A k \in DOMAIN entries \ Dirty : tree'[k] = entries[k]
  BY DEF Moved
<1>2. ASSUME NEW k, Entry(tree, k) = Entry(committed[boardHead], k)
      PROVE  Entry(tree', k) = Entry(entries, k)
  <2>1. k \notin Dirty
    BY <1>2 DEF Dirty
  <2>. QED
    BY <1>1, <2>1 DEF Entry
<1>3. ASSUME entries = committed[boardHead], NEW k \in DOMAIN tree
      PROVE  k \in DOMAIN tree' /\ tree'[k] = tree[k]
  <2>1. CASE k \in Dirty
    BY <1>1, <2>1
  <2>2. CASE k \notin Dirty
    <3>1. <<tree[k]>> = Entry(entries, k)
      BY <1>3, <2>2 DEF Dirty, Entry
    <3>2. k \in DOMAIN entries /\ <<tree[k]>> = <<entries[k]>>
      BY <3>1 DEF Entry
    <3>3. entries[k] = tree[k]
      BY <3>2
    <3>. QED
      BY <1>1, <2>2, <3>2, <3>3
  <2>. QED
    BY <2>1, <2>2
<1>. QED
  BY <1>1, <1>2, <1>3

(* A checkout, of entries that a branch has, keeps the invariant; it ends  *)
(* no post, and none was under way in p.                                   *)
LEMMA MovedKeeps ==
    ASSUME PostInv, NEW p \in Processes, NEW b \in BoardBranches, NEW entries,
           Fits(entries), Moved(b, entries), \E c \in BoardBranches : entries = committed[c],
           b = "main" => entries = OnMain,
           committed' = [committed EXCEPT ![b] = entries],
           forked' \subseteq BoardBranches, b \in forked', "main" \in forked',
           UNCHANGED <<acked, doubled>>,
           ~PostUnderWay(p), NEW place \in Places \ {"post", "commit"},
           pc' = [pc EXCEPT ![p] = place]
    PROVE  PostInv'
<1>1. /\ DOMAIN tree' = Dirty \cup DOMAIN entries /\ boardHead' = b
      /\ \A k : Entry(tree, k) = Entry(committed[boardHead], k) => Entry(tree', k) = Entry(entries, k)
      /\ entries = committed[boardHead] =>
             DOMAIN tree \subseteq DOMAIN tree' /\ \A k \in DOMAIN tree : tree'[k] = tree[k]
  BY MovedTree
<1>2. /\ committed' = [c \in BoardBranches |-> committed'[c]] /\ committed'[b] = entries
      /\ \A c \in BoardBranches : c # b => committed'[c] = committed[c]
      /\ OnMain' = OnMain
  BY DEF PostInv, BoardInv, OnMain, BoardBranches
<1>3. Committed' = Committed
  BY <1>2 DEF Committed
<1>4. /\ IsFiniteSet(DOMAIN entries) /\ Dirty \subseteq DOMAIN tree /\ IsFiniteSet(Dirty)
      /\ \A k \in DOMAIN entries : k[2] \in Nat /\ k[2] <= Committed + 1
  <2>1. Dirty \subseteq DOMAIN tree
    BY DEF Dirty
  <2>. QED
    BY <2>1, FS_Subset DEF PostInv, BoardInv, KeysInv
<1>5. /\ \A q \in Processes : PostUnderWay(q)' = PostUnderWay(q)
      /\ \A q \in Processes : PostUnderWay(q) => pc'[q] = pc[q]
      /\ pc' \in [Processes -> Places]
  BY DEF PostInv, BoardInv, PostUnderWay
<1>6. /\ post' = [q \in Processes |-> post'[q]] /\ \A q \in Processes : IsPost(post'[q])
      /\ \A q \in Processes : /\ post'[q].agent = post[q].agent /\ post'[q].n = post[q].n
                              /\ post'[q].entry = post[q].entry
                              /\ PostUnderWay(q) /\ post'[q].main => post[q].main /\ b = "main"
  <2>1. CASE b = "main"
    BY <2>1 DEF Moved, PostInv, BoardInv
  <2>2. CASE b # "main"
    <3>1. post' = [q \in Processes |-> [post[q] EXCEPT !.main = FALSE]]
      BY <2>2 DEF Moved
    <3>2. \A q \in Processes : /\ post'[q].main = FALSE /\ post'[q].agent = post[q].agent
                               /\ post'[q].n = post[q].n /\ post'[q].entry = post[q].entry
      BY <3>1 DEF PostInv, BoardInv, IsPost
    <3>3. \A q \in Processes : IsPost(post'[q])
      BY <3>1 DEF PostInv, BoardInv, IsPost
    <3>. QED
      BY <3>1, <3>2, <3>3
  <2>. QED
    BY <2>1, <2>2
<1>7. BoardInv'
  <2>1. IsFiniteSet(DOMAIN tree')
    BY <1>1, <1>4, FS_Union
  <2>2. \A c \in BoardBranches : IsFiniteSet(DOMAIN committed'[c])
    BY <1>2, <1>4 DEF PostInv, BoardInv
  <2>. QED
    BY <1>1, <1>2, <1>5, <1>6, <2>1, <2>2 DEF BoardInv
<1>8. KeysInv'
  <2>1. \A k \in DOMAIN tree' : k[2] \in Nat /\ k[2] <= Committed + 1
    BY <1>1, <1>4 DEF PostInv, KeysInv
  <2>2. \A c \in BoardBranches : \A k \in DOMAIN committed'[c] : k[2] \in Nat /\ k[2] <= Committed + 1
    BY <1>2, <1>4 DEF PostInv, KeysInv
  <2>3. \A q \in Processes : PostUnderWay(q)' =>
            /\ post'[q].n \in Nat /\ post'[q].n <= Committed + 1
            /\ post'[q].main => boardHead' = "main"
    BY <1>1, <1>5, <1>6 DEF PostInv, KeysInv
  <2>4. \A k \in DOMAIN OnMain' : k[2] <= Committed
    BY <1>2 DEF PostInv, KeysInv
  <2>. QED
    BY <1>3, <2>1, <2>2, <2>3, <2>4 DEF KeysInv
<1>9. AckedInv'
  <2>. SUFFICES ASSUME NEW e \in acked, e.main, e.agent \notin doubled
                PROVE  /\ Key(e) \in DOMAIN OnMain /\ OnMain[Key(e)] = e.entry
                       /\ Entry(tree', Key(e)) = Entry(committed'[b], Key(e))
    BY <1>1, <1>2 DEF AckedInv, Key, Kept, Entry
  <2>. QED
    BY <1>1, <1>2 DEF PostInv, AckedInv, Kept
<1>10. AloneInv'
  <2>. SUFFICES ASSUME NEW q \in Processes, PostUnderWay(q), post[q].agent \notin doubled
                PROVE  /\ \A r \in Processes : PostUnderWay(r) /\ post[r].agent = post[q].agent => r = q
                       /\ \A e \in acked : e.main /\ e.agent = post[q].agent => e.n < post[q].n
                       /\ pc[q] = "commit" /\ post'[q].main =>
                              /\ Key(post[q]) \in DOMAIN tree'
                              /\ tree'[Key(post[q])] = post[q].entry
    BY <1>5, <1>6 DEF AloneInv, Key
  <2>1. /\ \A r \in Processes : PostUnderWay(r) /\ post[r].agent = post[q].agent => r = q
        /\ \A e \in acked : e.main /\ e.agent = post[q].agent => e.n < post[q].n
        /\ pc[q] = "commit" /\ post[q].main =>
                Key(post[q]) \in DOMAIN tree /\ tree[Key(post[q])] = post[q].entry
    BY DEF PostInv, AloneInv
  <2>2. ASSUME pc[q] = "commit", post'[q].main
        PROVE  Key(post[q]) \in DOMAIN tree' /\ tree'[Key(post[q])] = post[q].entry
    <3>1. post[q].main /\ b = "main" /\ boardHead = "main"
      BY <1>6, <2>2 DEF PostInv, KeysInv
    <3>2. entries = committed[boardHead]
      BY <3>1 DEF OnMain
    <3>. QED
      BY <1>1, <2>1, <2>2, <3>1, <3>2
  <2>. QED
    BY <2>1, <2>2
<1>. QED
  BY <1>7, <1>8, <1>9, <1>10 DEF PostInv

(* A step that leaves the whiteboard alone and begins no post keeps the    *)
(* invariant; it may end the post of p.                                    *)
LEMMA PostFrame ==
    ASSUME PostInv, NEW p \in Processes, UNCHANGED board, pc' \in [Processes -> Places],
           post' \in {post, [post EXCEPT ![p] = NoPost]}, ~PostUnderWay(p)',
           \A q \in Processes : q # p => pc'[q] = pc[q]
    PROVE  PostInv'
<1>1. \A q \in Processes : PostUnderWay(q)' =>
          q # p /\ PostUnderWay(q) /\ post'[q] = post[q] /\ pc'[q] = pc[q]
  BY DEF PostInv, BoardInv, PostUnderWay
<1>2. post' = [q \in Processes |-> post'[q]] /\ \A q \in Processes : IsPost(post'[q])
  <2>1. post = [q \in Processes |-> post[q]] /\ \A q \in Processes : IsPost(post[q])
    BY DEF PostInv, BoardInv
  <2>2. IsPost(NoPost)
    BY DEF IsPost, NoPost
  <2>3. CASE post' = [post EXCEPT ![p] = NoPost]
    <3>1. post' = [q \in Processes |-> IF q = p THEN NoPost ELSE post[q]]
      BY <2>1, <2>3, Zenon
    <3>. QED
      BY <2>1, <2>2, <3>1, Zenon
  <2>. QED
    BY <2>1, <2>3
<1>3. /\ UNCHANGED <<tree, committed, forked, boardHead, acked, doubled>>
      /\ UNCHANGED <<Committed, OnMain>>
  BY DEF board, Committed, OnMain
<1>4. BoardInv' /\ KeysInv'
  BY <1>1, <1>2, <1>3 DEF PostInv, BoardInv, KeysInv
<1>5. AckedInv'
  BY <1>3 DEF PostInv, AckedInv, Kept, Entry
<1>6. AloneInv'
  <2>. SUFFICES ASSUME NEW q \in Processes, PostUnderWay(q)', post'[q].agent \notin doubled
                PROVE  /\ \A r \in Processes : PostUnderWay(r)' /\ post'[r].agent = post'[q].agent => r = q
                       /\ \A e \in acked : e.main /\ e.agent = post'[q].agent => e.n < post'[q].n
                       /\ pc'[q] = "commit" /\ post'[q].main =>
                              /\ Key(post'[q]) \in DOMAIN tree
                              /\ tree[Key(post'[q])] = post'[q].entry
    BY <1>3 DEF AloneInv, Key
  <2>. QED
    BY <1>1 DEF PostInv, AloneInv
<1>. QED
  BY <1>4, <1>5, <1>6 DEF PostInv

(* The two steps of branch.                                                *)
LEMMA BranchBaseKeeps ==
    ASSUME PostInv, NEW p \in Processes, NEW b \in BoardBranches, BranchBase(p, b)
    PROVE  PostInv'
<1>1. /\ pc[p] = "idle" /\ pc' = [pc EXCEPT ![p] = "branch"]
      /\ Fits(committed[b]) /\ Moved(b, committed[b]) /\ b \in forked
      /\ UNCHANGED <<committed, forked, acked, doubled>>
  BY DEF BranchBase, Begins, Goto
<1>2. /\ committed' = [committed EXCEPT ![b] = committed[b]]
      /\ forked' \subseteq BoardBranches /\ b \in forked' /\ "main" \in forked'
  BY <1>1 DEF PostInv, BoardInv
<1>3. ~PostUnderWay(p) /\ "branch" \in Places \ {"post", "commit"}
  BY <1>1 DEF PostUnderWay, Places
<1>4. b = "main" => committed[b] = OnMain
  BY DEF OnMain
<1>. QED
  BY <1>1, <1>2, <1>3, <1>4, MovedKeeps

LEMMA BranchNewKeeps ==
    ASSUME PostInv, NEW p \in Processes, NEW b \in BoardBranches, BranchNew(p, b)
    PROVE  PostInv'
<1>. DEFINE entries == IF b \in forked THEN committed[b] ELSE committed[boardHead]
<1>1. /\ pc[p] = "branch" /\ pc' = [pc EXCEPT ![p] = "idle"]
      /\ forked' = forked \cup {b} /\ committed' = [committed EXCEPT ![b] = entries]
      /\ \/ Fits(entries) /\ Moved(b, entries)
         \/ ~Fits(entries) /\ UNCHANGED <<tree, boardHead, post>>
      /\ UNCHANGED <<acked, doubled>>
  BY DEF BranchNew, Goto
<1>2. /\ boardHead \in BoardBranches /\ forked' \subseteq BoardBranches
      /\ b \in forked' /\ "main" \in forked'
      /\ b = "main" => entries = OnMain
      /\ \E c \in BoardBranches : entries = committed[c]
  BY <1>1 DEF PostInv, BoardInv, OnMain
<1>3. ~PostUnderWay(p) /\ "idle" \in Places \ {"post", "commit"}
  BY <1>1 DEF PostUnderWay, Places
<1>4. CASE Fits(entries) /\ Moved(b, entries)
  <2>. HIDE DEF entries
  <2>. QED
    BY <1>1, <1>2, <1>3, <1>4, MovedKeeps
<1>5. CASE ~Fits(entries) /\ UNCHANGED <<tree, boardHead, post>>
  <2>1. b \in forked
    BY <1>5 DEF Fits
  <2>2. committed' = committed /\ forked' = forked
    BY <1>1, <2>1 DEF PostInv, BoardInv
  <2>3. UNCHANGED board
    BY <1>1, <1>5, <2>2 DEF board
  <2>4. /\ pc' \in [Processes -> Places] /\ ~PostUnderWay(p)'
        /\ \A q \in Processes : q # p => pc'[q] = pc[q]
    BY <1>1, <1>3 DEF PostInv, BoardInv, PostUnderWay
  <2>. QED
    BY <1>5, <2>3, <2>4, PostFrame
<1>. QED
  BY <1>1, <1>4, <1>5

(* Every step keeps the invariant.                                         *)
LEMMA NextPost == PostInv /\ [FabricNext]_fabricVars => PostInv'
<1>. SUFFICES ASSUME PostInv, [FabricNext]_fabricVars PROVE PostInv'
  OBVIOUS
<1>1. CASE UNCHANGED fabricVars
  BY <1>1 DEF fabricVars, board, PostInv, BoardInv, KeysInv, AloneInv, AckedInv, PostUnderWay,
              Committed, OnMain, Kept, Entry
<1>2. ASSUME NEW p \in Processes, Runs(p) PROVE PostInv'
  <2>0. pc \in [Processes -> Places]
    BY DEF PostInv, BoardInv
  <2>1. ASSUME UNCHANGED board, UNCHANGED post \/ post' = [post EXCEPT ![p] = NoPost],
               NEW place \in Places \ {"post", "commit"}, pc' = [pc EXCEPT ![p] = place]
        PROVE  PostInv'
    <3>1. /\ pc' \in [Processes -> Places] /\ ~PostUnderWay(p)'
          /\ \A q \in Processes : q # p => pc'[q] = pc[q]
      BY <2>0, <2>1 DEF PostUnderWay
    <3>. QED
      BY <2>1, <3>1, PostFrame
  <2>2. CASE Open(p) \/ Fill(p)
    <3>1. UNCHANGED board /\ UNCHANGED post /\ pc' = [pc EXCEPT ![p] = "idle"]
      BY <2>2 DEF Open, Fill, Goto
    <3>. QED
      BY <2>1, <3>1 DEF Places
  <2>3. ASSUME NEW store, NEW policy, CreateStore(p, store, policy) PROVE PostInv'
    <3>1. UNCHANGED board /\ UNCHANGED post /\ pc' = [pc EXCEPT ![p] = "persist"]
      BY <2>3 DEF CreateStore, Goto
    <3>. QED
      BY <2>1, <3>1 DEF Places
  <2>4. CASE Create(p) \/ WriteNew(p) \/ Whiteboard(p) \/ PullSnapshot(p)
    BY <2>3, <2>4 DEF Create, WriteNew, Whiteboard, PullSnapshot
  <2>5. ASSUME NEW store \in Stores, NEW agent \in Agents,
               Grant(p, store, agent) \/ Revoke(p, store, agent)
        PROVE  PostInv'
    <3>1. UNCHANGED board /\ UNCHANGED post /\ pc' = [pc EXCEPT ![p] = "persist"]
      BY <2>5 DEF Grant, Revoke, Goto
    <3>. QED
      BY <2>1, <3>1 DEF Places
  <2>6. CASE Truncate(p)
    <3>1. UNCHANGED board /\ UNCHANGED post /\ pc' = [pc EXCEPT ![p] = "write"]
      BY <2>6 DEF Truncate, Goto
    <3>. QED
      BY <2>1, <3>1 DEF Places
  <2>7. CASE PostRaises(p)
    <3>1. UNCHANGED board /\ post' = [post EXCEPT ![p] = NoPost] /\ pc' = [pc EXCEPT ![p] = "idle"]
      BY <2>7 DEF PostRaises, PostDone, Goto, board
    <3>. QED
      BY <2>1, <3>1 DEF Places
  <2>8. CASE Exit(p) \/ Crash(p)
    <3>1. UNCHANGED board /\ post' = [post EXCEPT ![p] = NoPost] /\ pc' = [pc EXCEPT ![p] = "off"]
      BY <2>8 DEF Exit, Crash, Gone, Goto
    <3>. QED
      BY <2>1, <3>1 DEF Places
  <2>9. CASE BranchRaises(p)
    <3>1. UNCHANGED board /\ UNCHANGED post /\ pc' = [pc EXCEPT ![p] = "idle"]
      BY <2>9 DEF BranchRaises, Goto
    <3>. QED
      BY <2>1, <3>1 DEF Places
  <2>10. ASSUME NEW b \in BoardBranches, BranchBase(p, b) PROVE PostInv'
    BY <2>10, BranchBaseKeeps
  <2>11. ASSUME NEW b \in BoardBranches, BranchNew(p, b) PROVE PostInv'
    BY <2>11, BranchNewKeeps
  <2>. QED
    BY <1>2, <2>2, <2>4, <2>5, <2>6, <2>7, <2>8, <2>9, <2>10, <2>11,
       PostCountKeeps, PostFileKeeps, PostCommitKeeps DEF Runs
<1>. QED
  BY <1>1, <1>2 DEF FabricNext

(* A post that was reported while main was checked out stays in main as it *)
(* was posted, unless its agent posted twice at once.                      *)
THEOREM FabricPostsKept == FabricSpec => []PostsKept
<1>1. PostInv => PostsKept
  BY DEF PostInv, AckedInv, PostsKept, Key, OnMain
<1>. QED
  BY <1>1, InitPost, NextPost, PTL DEF FabricSpec

=============================================================================
