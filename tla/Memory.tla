------------------------------- MODULE Memory -------------------------------
(***************************************************************************)
(* MemoryStore (nexinfer/memory/store.py): a key/value store in a git      *)
(* repository.  The value of key k in branch b is the file data/b/k.json:  *)
(* every branch has a directory of its own, and the tree of every git      *)
(* branch holds the directories of all of them.  set and delete write into *)
(* the directory of the branch they are given and commit on the branch     *)
(* that is checked out; get reads the directory b in the git branch b.     *)
(*                                                                         *)
(* A method is a sequence of git commands, and the first that fails raises *)
(* RuntimeError and leaves what the ones before it did.  The operators     *)
(* below take and return the repository, like commands of a shell script   *)
(* that stops at the first failure (the field ok).  A store is used by one *)
(* caller at a time here.                                                  *)
(*                                                                         *)
(* git itself is external: commits, three-way merge by file without rename *)
(* detection, checkout of a clean working tree.                            *)
(***************************************************************************)
EXTENDS Integers, Sequences, FiniteSets, FiniteSetsExt, SequencesExt

CONSTANTS
    Branches,       \* branch names
    Main,           \* "main"
    BranchOrder,    \* Branches in the order of git branch, i.e. by name
    Keys, Values,
    Snapshots,      \* what other nodes export: [some branches -> contents]
    None,           \* no file
    Garbled,        \* a file with conflict markers
    MaxCommits,     \* bound: commits of the repository
    MaxStrays       \* bound: calls that do not keep to the rules below

Contents == Values \cup {None, Garbled}

ASSUME MemoryAssumption ==
    /\ Main \in Branches
    /\ BranchOrder \in Seq(Branches) /\ ToSet(BranchOrder) = Branches
    /\ IsFiniteSet(Keys)
    /\ None \notin Values /\ Garbled \notin Values /\ None # Garbled
    /\ \A snapshot \in Snapshots :
        /\ DOMAIN snapshot \subseteq Branches
        /\ \A b \in DOMAIN snapshot : snapshot[b] \in [Keys -> Values \cup {None}]
    /\ MaxCommits \in Nat \ {0} /\ MaxStrays \in Nat

VARIABLES
    repo,           \* the repository and its working tree
    call,           \* the call made last: its name and arguments
    strays          \* history: how many calls did not keep to the rules

vars == <<repo, call, strays>>

Files == Branches \X Keys           \* data/<branch>/<key>.json

Policies == {"ours", "theirs", "last_write"}

-----------------------------------------------------------------------------
(* The repository.                                                         *)

\* commits: in order of creation; tip: the commit of each branch, 0 if there
\* is no such branch; head: the branch checked out; work: the working tree;
\* merging: the commit of an unfinished merge, or 0.
Fresh ==
    LET empty == [f \in Files |-> None]
    IN [commits |-> <<[tree |-> empty, parents |-> <<>>]>>,
        tip |-> [b \in Branches |-> IF b = Main THEN 1 ELSE 0],
        head |-> Main, work |-> empty, merging |-> 0, ok |-> TRUE]

Failed(r) == [r EXCEPT !.ok = FALSE]

Tree(r, c) == r.commits[c].tree

\* The commits each commit descends from, itself included.
Ancestors(commits) ==
    LET anc[c \in 1..Len(commits)] ==
            {c} \cup UNION {anc[p] : p \in ToSet(commits[c].parents)}
    IN anc

\* git checkout -q b.
Checkout(r, b) ==
    IF r.ok /\ r.tip[b] # 0 /\ r.merging = 0
    THEN [r EXCEPT !.head = b, !.work = Tree(r, r.tip[b])]
    ELSE Failed(r)

\* Fault: the file of the branch checked out is written.
WrittenOnHead(r, b, k, v) ==
    IF r.ok THEN [r EXCEPT !.work[<<r.head, k>>] = v] ELSE r

\* Opening and writing (or removing) the file data/b/k.json.  Values that
\* json.dump cannot write, which no caller of the package passes, are left
\* out: they would leave half a file behind, not committed.
Written(r, b, k, v) == IF r.ok THEN [r EXCEPT !.work[<<b, k>>] = v] ELSE r

\* git add -A; git commit: fails when there is nothing to commit, and
\* concludes an unfinished merge.
CommitAll(r) ==
    IF r.ok /\ (r.merging # 0 \/ r.work # Tree(r, r.tip[r.head]))
    THEN LET merged == IF r.merging = 0 THEN <<>> ELSE <<r.merging>>
             commit == [tree |-> r.work, parents |-> <<r.tip[r.head]>> \o merged]
         IN [r EXCEPT !.commits = Append(@, commit),
                      !.tip[r.head] = Len(r.commits) + 1,
                      !.merging = 0]
    ELSE Failed(r)

\* get(k, b): the file data/b/k.json in the commit of b.
Get(r, b, k) == IF r.tip[b] = 0 THEN None ELSE Tree(r, r.tip[b])[<<b, k>>]

-----------------------------------------------------------------------------
(* git merge.                                                              *)

MergeBase(r, s, t) ==
    LET anc == Ancestors(r.commits) IN Max(anc[s] \cap anc[t])

\* The files both sides changed since the base, to different contents.
Conflicts(r, s, t) ==
    LET base == Tree(r, MergeBase(r, s, t))
    IN {f \in Files : /\ Tree(r, s)[f] # base[f]
                      /\ Tree(r, t)[f] # base[f]
                      /\ Tree(r, s)[f] # Tree(r, t)[f]}

\* The working tree after the three-way merge of commit s into t: a file in
\* conflict has markers, or is the version of the side that did not delete it.
ThreeWay(r, s, t) ==
    LET base == Tree(r, MergeBase(r, s, t))
        ours == Tree(r, t)
        theirs == Tree(r, s)
        Conflicted(f) == CASE ours[f] = None -> theirs[f]
                           [] theirs[f] = None -> ours[f]
                           [] OTHER -> Garbled
    IN [f \in Files |-> IF f \in Conflicts(r, s, t) THEN Conflicted(f)
                        ELSE IF theirs[f] = base[f] THEN ours[f] ELSE theirs[f]]

\* git merge -q source: nothing to do, a fast-forward, a merge commit, or
\* conflicts.
GitMerge(r, source) ==
    LET s == r.tip[source]
        t == r.tip[r.head]
        merged == [r EXCEPT !.merging = s, !.work = ThreeWay(r, s, t)]
    IN IF ~r.ok \/ s = 0 THEN Failed(r)
       ELSE IF s \in Ancestors(r.commits)[t] THEN r
       ELSE IF t \in Ancestors(r.commits)[s]
            THEN [r EXCEPT !.tip[r.head] = s, !.work = Tree(r, s)]
       ELSE IF Conflicts(r, s, t) = {} THEN CommitAll(merged)
       ELSE Failed(merged)

\* git checkout --theirs (or --ours) .; git add -A; git commit: a side
\* that deleted a file in conflict cannot be taken.
Resolve(r, policy) ==
    LET s == r.merging
        t == r.tip[r.head]
        side == Tree(r, IF policy = "theirs" THEN s ELSE t)
        conflicts == Conflicts(r, s, t)
    IN IF s = 0 \/ \E f \in conflicts : side[f] = None THEN Failed(r)
       ELSE CommitAll([r EXCEPT !.ok = TRUE,
                                !.work = [f \in Files |-> IF f \in conflicts
                                                          THEN side[f] ELSE @[f]]])

\* Fault: the copies are not committed.
OverlayUncommitted(r, source, target, policy, newer) ==
    IF ~r.ok THEN r
    ELSE [r EXCEPT !.work = [f \in Files |-> IF f[1] = target /\ @[f] = None
                                             THEN @[<<source, f[2]>>] ELSE @[f]]]

\* Fault: the policy is forgotten, the target's values are overwritten.
OverlayAlways(r, source, target, policy, newer) ==
    LET copied == {k \in Keys : r.work[<<source, k>>] # None}
    IN IF ~r.ok \/ copied = {} THEN r
       ELSE CommitAll([r EXCEPT !.work =
                [f \in Files |-> IF f[1] = target /\ f[2] \in copied
                                 THEN @[<<source, f[2]>>] ELSE @[f]]])

\* A command rewrites the files it changes, from the working tree before to
\* the one after; the keys whose file in the source is then newer than that
\* in the target, where older has those for which it was before.  The order
\* of two files that one command rewrites is open.
NewerAfter(before, after, source, target, older, open) ==
    LET Rewritten(b) == {k \in Keys : before[<<b, k>>] # after[<<b, k>>]}
        s == Rewritten(source)
        t == Rewritten(target)
    IN (s \ t) \cup (open \cap s \cap t) \cup (older \ (s \cup t))

\* _overlay_branch: copy data/source/ over data/target/ in the working
\* tree.  last_write compares file times; newer has the keys whose file is
\* newer in the source.
Overlay(r, source, target, policy, newer) ==
    LET Has(b, k) == r.work[<<b, k>>] # None
        copied == {k \in Keys : /\ Has(source, k)
                                /\ \/ ~Has(target, k)
                                   \/ policy = "theirs"
                                   \/ policy = "last_write" /\ k \in newer}
    IN IF ~r.ok \/ copied = {} THEN r
       ELSE CommitAll([r EXCEPT !.work =
                [f \in Files |-> IF f[1] = target /\ f[2] \in copied
                                 THEN @[<<source, f[2]>>] ELSE @[f]]])

-----------------------------------------------------------------------------
(* The methods.                                                            *)

\* branch(name, base).
Branched(r, name, base) ==
    LET onBase == Checkout(r, base)
        created == IF onBase.ok /\ onBase.tip[name] = 0
                   THEN [onBase EXCEPT !.tip[name] = onBase.tip[base]]
                   ELSE onBase
    IN Checkout(created, name)

SetKey(r, b, k, v) == CommitAll(Written(r, b, k, v))

DeleteKey(r, b, k) ==
    IF r.work[<<b, k>>] = None THEN r ELSE CommitAll(Written(r, b, k, None))

\* File times are those that the checkout and the merge leave; what they do
\* not rewrite, or a conflict does, is ordered in any way (open).
Merged(r, source, target, policy, open) ==
    LET onTarget == Checkout(r, target)
        merge == GitMerge(onTarget, source)
        done == IF merge.ok \/ ~onTarget.ok THEN merge ELSE Resolve(merge, policy)
        out == NewerAfter(r.work, onTarget.work, source, target, open, open)
        newer == IF merge.ok
                 THEN NewerAfter(onTarget.work, merge.work, source, target, out, open)
                 ELSE open
    IN Overlay(done, source, target, policy, newer)

\* Fault: git reset --hard, which takes commits off the branch.
RevertedHard(r, target, to) ==
    LET onTarget == Checkout(r, target)
    IN IF ~onTarget.ok \/ to = 0 THEN Failed(onTarget)
       ELSE [onTarget EXCEPT !.tip[onTarget.head] = to, !.work = Tree(r, to)]

\* revert(target, to): git checkout to -- data brings back the files that
\* commit has, and removes none; to = 0 is HEAD~1.
Reverted(r, target, to) ==
    LET onTarget == Checkout(r, target)
        parents == onTarget.commits[onTarget.tip[onTarget.head]].parents
        ref == IF to # 0 THEN to ELSE IF parents = <<>> THEN 0 ELSE parents[1]
        Back(f) == IF Tree(r, ref)[f] # None THEN Tree(r, ref)[f] ELSE onTarget.work[f]
    IN IF ~onTarget.ok \/ ref = 0 THEN Failed(onTarget)
       ELSE CommitAll([onTarget EXCEPT !.work = [f \in Files |-> Back(f)]])

\* import_snapshot: branch by branch; branch() for all but main, then set
\* for every key whose value differs.
ImportKey(r, b, k, v) ==
    IF v = None \/ ~r.ok \/ Get(r, b, k) = v THEN r
    ELSE IF Get(r, b, k) = Garbled THEN Failed(r)
    ELSE SetKey(r, b, k, v)

ImportBranch(r, b, space) ==
    FoldLeft(LAMBDA x, k : ImportKey(x, b, k, space[k]),
             IF b = Main THEN r ELSE Branched(r, b, Main),
             SetToSeq(Keys))

Imported(r, snapshot) ==
    FoldLeft(LAMBDA x, b : IF b \in DOMAIN snapshot
                           THEN ImportBranch(x, b, snapshot[b]) ELSE x,
             r, BranchOrder)

-----------------------------------------------------------------------------
(* One action per call.                                                    *)

Init == repo = Fresh /\ call = <<"open">> /\ strays = 0

Begin == [repo EXCEPT !.ok = TRUE]

\* A call keeps to the rules if it is no revert and no import, a write names
\* the branch that is checked out, a new branch is made from Main, and a merge
\* is one into Main or of Main.
Call(c, kept, r) ==
    /\ call' = c
    /\ strays' = IF kept THEN strays ELSE strays + 1
    /\ strays' <= MaxStrays
    /\ repo' = r
    /\ Len(r.commits) <= MaxCommits

Set(b, k, v) == Call(<<"write", b, k, v>>, b = repo.head, SetKey(Begin, b, k, v))

Delete(b, k) == Call(<<"write", b, k, None>>, b = repo.head, DeleteKey(Begin, b, k))

Branch(b, base) == Call(<<"branch", b, base>>, base = Main \/ repo.tip[b] # 0,
                        Branched(Begin, b, base))

CheckoutBranch(b) == Call(<<"checkout", b>>, TRUE, Checkout(Begin, b))

Orders(policy) == IF policy = "last_write" THEN SUBSET Keys ELSE {{}}

Merge(s, t, policy) ==
    /\ s # t
    /\ \E open \in Orders(policy) :
            Call(<<"merge", s, t, policy>>, Main \in {s, t}, Merged(Begin, s, t, policy, open))

Revert(b, to) == Call(<<"revert", b, to>>, FALSE, Reverted(Begin, b, to))

Import(snapshot) == Call(<<"import", snapshot>>, FALSE, Imported(Begin, snapshot))

Next ==
    \/ \E b \in Branches, k \in Keys :
        \/ \E v \in Values : Set(b, k, v)
        \/ Delete(b, k)
    \/ \E b, base \in Branches : Branch(b, base)
    \/ \E b \in Branches : CheckoutBranch(b)
    \/ \E s, t \in Branches, policy \in Policies : Merge(s, t, policy)
    \/ \E b \in Branches, to \in 0..Len(repo.commits) : Revert(b, to)
    \/ \E snapshot \in Snapshots : Import(snapshot)

Spec == Init /\ [][Next]_vars

-----------------------------------------------------------------------------
(* Properties.                                                             *)

\* Commits have earlier parents and branches are commits.
TypeOK ==
    /\ strays \in 0..MaxStrays
    /\ repo.head \in Branches /\ repo.ok \in BOOLEAN
    /\ repo.work \in [Files -> Contents]
    /\ repo.tip \in [Branches -> 0..Len(repo.commits)]
    /\ repo.merging \in 0..Len(repo.commits)
    /\ \A c \in DOMAIN repo.commits :
        /\ repo.commits[c].tree \in [Files -> Contents]
        /\ ToSet(repo.commits[c].parents) \subseteq 1..c-1

\* Between calls nothing is uncommitted, also after a call that raised,
\* unless a merge is left unfinished; and the repository is well-formed.
CleanBetweenCalls ==
    TypeOK /\ (repo.merging = 0 => repo.work = Tree(repo, repo.tip[repo.head]))

\* The history is an audit trail: a branch only ever moves to a descendant
\* of its commit, whatever is merged, reverted or imported.
HistoryGrows ==
    [][\A b \in Branches : repo.tip[b] \notin {0, repo'.tip[b]} =>
        /\ repo'.tip[b] # 0
        /\ repo.tip[b] \in Ancestors(repo'.commits)[repo'.tip[b]]]_vars

\* A write, merge, revert or branch changes what is read in the branch it
\* names only, whichever is checked out, and a checkout nothing.  (A write
\* that concludes an unfinished merge changes more.)
Space(r, b) == [k \in Keys |-> Get(r, b, k)]

Named(c) == CASE c[1] \in {"write", "revert", "branch"} -> {c[2]}
              [] c[1] = "merge" -> {c[3]}
              [] c[1] = "checkout" -> {}
              [] OTHER -> Branches

OthersUntouched ==
    [][repo.merging = 0 =>
        \A b \in Branches \ Named(call') : Space(repo', b) = Space(repo, b)]_vars

\* As long as calls keep to the rules, a store is a map from branches to
\* maps, written and merged as Spaces says: a merge by "ours" or "theirs" does
\* what the policy asks for, one by "last_write" takes what the source changed
\* since it was last merged, whichever is newer, and it raises, changing
\* nothing, when no branch has the name or there is nothing to commit.
Copy(r, t, s) == [k \in Keys |-> IF r.tip[t] = 0 THEN None ELSE Tree(r, r.tip[t])[<<s, k>>]]

spaces == [b \in Branches |-> Space(repo, b)]
made == {b \in Branches : repo.tip[b] # 0}
seen == [p \in {q \in Branches \X Branches : q[1] # q[2] /\ Main \in {q[1], q[2]}} |->
            Copy(repo, p[1], p[2])]

Abstract == INSTANCE Spaces WITH ok <- repo.ok

ImplementsSpaces ==
    Abstract!Init /\
        [][strays' = 0 => [Abstract!Next]_<<spaces, seen, made, call, repo.ok>>]_vars
=============================================================================
