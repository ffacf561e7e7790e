------------------------------- MODULE Spaces -------------------------------
(***************************************************************************)
(* What a memory store promises (docs/memory-protocol.md, sections 1-3):   *)
(* each branch is a map of its own from keys to values; a write or a       *)
(* delete changes one key of one branch, a merge brings values of the      *)
(* source to the target as the policy says, and a call that raises changes *)
(* nothing.  A call raises when there is no such branch, or when it has    *)
(* nothing to commit (store.py:117-118, 222-249).  None is "no value".     *)
(*                                                                         *)
(* For last_write the documents say that the newest commit wins.  The      *)
(* store decides otherwise: what the source has changed since it was last  *)
(* merged wins, also over a later write of the target, and for the other   *)
(* keys file times decide that commands rewrite which change no value.     *)
(***************************************************************************)
CONSTANTS Branches, Main, Keys, Values, None

VARIABLES
    spaces,     \* [Branches -> [Keys -> Values \cup {None}]]
    seen,       \* seen[<<t, s>>]: the space of s when t was last given it,
                \* where s or t is Main
    made,       \* the branches that exist
    call,       \* the call made last: its name and arguments
    ok          \* FALSE: it raised

Policies == {"ours", "theirs", "last_write"}

NoCall == <<"open">>
NoValues == [k \in Keys |-> None]
Pairs == {p \in Branches \X Branches : p[1] # p[2] /\ Main \in {p[1], p[2]}}

Init ==
    /\ spaces = [b \in Branches |-> NoValues]
    /\ seen = [p \in Pairs |-> NoValues]
    /\ made = {Main}
    /\ call = NoCall /\ ok = TRUE

\* set(k, v, b), and delete(k, b) for the value None.  Writing the value
\* that is there is nothing to commit; deleting what is not there is no call
\* of git.
Write(b, k, v) ==
    /\ b \in made
    /\ call' = <<"write", b, k, v>>
    /\ ok' = (v = None \/ spaces[b][k] # v)
    /\ spaces' = [spaces EXCEPT ![b][k] = v]
    /\ UNCHANGED <<seen, made>>

\* The keys merge(s, t, policy) takes from the source: those the target does
\* not have, and of the others none, all, or those changed and any more.
Taken(s, t, policy) ==
    LET offered == {k \in Keys : spaces[s][k] # None}
        missing == {k \in offered : spaces[t][k] = None}
        changed == {k \in offered : spaces[s][k] # seen[<<t, s>>][k]}
    IN CASE policy = "ours" -> {missing}
         [] policy = "theirs" -> {offered}
         [] policy = "last_write" ->
                {missing \cup changed \cup more : more \in SUBSET offered}

\* A merge that takes only values that are there already has nothing to
\* commit.
Merge(s, t, policy) ==
    /\ <<t, s>> \in Pairs
    /\ call' = <<"merge", s, t, policy>>
    /\ UNCHANGED made
    /\ \/ /\ {s, t} \subseteq made
          /\ \E taken \in Taken(s, t, policy) :
                /\ spaces' = [spaces EXCEPT ![t] =
                        [k \in Keys |-> IF k \in taken THEN spaces[s][k] ELSE @[k]]]
                /\ ok' = (taken = {} \/ spaces' # spaces)
          /\ seen' = [seen EXCEPT ![<<t, s>>] = spaces[s]]
       \/ /\ ~({s, t} \subseteq made)
          /\ ok' = FALSE /\ UNCHANGED <<spaces, seen>>

\* branch(b, base) makes an empty space, which has seen that of Main.
Branch(b, base) ==
    /\ base = Main \/ b \in made
    /\ call' = <<"branch", b, base>>
    /\ ok' = (base \in made)
    /\ IF base \in made /\ b \notin made
       THEN made' = made \cup {b} /\ seen' = [seen EXCEPT ![<<b, Main>>] = spaces[Main]]
       ELSE UNCHANGED <<made, seen>>
    /\ UNCHANGED spaces

Checkout(b) ==
    /\ call' = <<"checkout", b>>
    /\ ok' = (b \in made)
    /\ UNCHANGED <<spaces, seen, made>>

Next ==
    \/ \E b \in Branches, k \in Keys, v \in Values \cup {None} : Write(b, k, v)
    \/ \E s, t \in Branches, policy \in Policies : Merge(s, t, policy)
    \/ \E b, base \in Branches : Branch(b, base)
    \/ \E b \in Branches : Checkout(b)

Spec == Init /\ [][Next]_<<spaces, seen, made, call, ok>>
=============================================================================
