-------------------------------- MODULE Fabric --------------------------------
(***************************************************************************)
(* MemoryFabric (memory/fabric.py): the stores below one root directory    *)
(* and policies.json, shared by processes that each read both when they    *)
(* start and afterwards trust their own copy: a command of the command     *)
(* line makes one call and exits, an MCP server (gateway/mcp_server.py)    *)
(* makes many and posts entries to the whiteboard.                         *)
(*                                                                         *)
(* A call is split where the file system is in between: policies.json is   *)
(* truncated by open() and filled at close(), the entry of a post is       *)
(* counted, written and committed.  A process may die between any two      *)
(* steps.  Of what a store holds, only the posts are here, on the branches *)
(* of the whiteboard; merges, reverts, imports and other writes to them    *)
(* are module Memory's.                                                    *)
(***************************************************************************)
EXTENDS Integers, FiniteSets, SequencesExt

CONSTANTS
    Processes,
    Stores,     \* names of stores
    Board,      \* "whiteboard"
    Sides,      \* branches that may be made of it beside main
    Asked,      \* policies that create asks for
    Agents,     \* agents that are named by policies, or that post
    MaxCalls    \* bound: calls that change something

Names == Agents \cup {"default", "*"}
Policy(p) == p = [kind |-> p.kind, owners |-> p.owners] /\ p.owners \in Seq(Names)

\* "unread" is what tells a file that is no table of policies from one.
ASSUME FabricAssumption ==
    /\ Board \in Stores /\ "unread" \notin Stores /\ "main" \notin Sides
    /\ \A p \in Asked : Policy(p)
    /\ MaxCalls \in Nat

VARIABLES
    stores,     \* the directories with a .git
    file,       \* policies.json: what it says, or Empty, or Torn
    known,      \* [Processes -> MemoryFabric._stores]
    policies,   \* [Processes -> MemoryFabric._policies]
    pc,         \* [Processes -> where the call in progress stands]
    post,       \* [Processes -> the post in progress]
    tree,       \* entries in the whiteboard's working tree
    committed,  \* [BoardBranches -> entries in the commit of the branch]
    forked,     \* the branches there are
    boardHead,  \* the branch checked out
    rights,     \* history: the policies that calls have reported
    disturbed,  \* history: two processes were alive at once, or one died
    given,      \* history: [Stores -> agents that were ever let in]
    acked,      \* history: posts reported done
    doubled,    \* history: agents with two posts under way at once
    calls       \* how many calls have changed something

board == <<tree, committed, forked, boardHead, acked, doubled>>
fabricVars == <<stores, file, known, policies, pc, post, board, rights, disturbed, given, calls>>

Nothing == <<>>     \* no policies, no entries
Empty == [unread |-> "empty"]
Torn == [unread |-> "torn"]
NoPost == [agent |-> "", n |-> 0, entry |-> 0, main |-> FALSE]
BoardBranches == {"main"} \cup Sides

Private == [kind |-> "private", owners |-> <<"default">>]
Shared == [kind |-> "shared", owners |-> <<"*">>]

With(f, x, y) == [z \in DOMAIN f \cup {x} |-> IF z = x THEN y ELSE f[z]]

\* _load_existing goes on without policies when the file does not parse.
Readable(f) == IF f \in {Empty, Torn} THEN Nothing ELSE f

\* can_write(agent, store), with the policies of one process.
CanWrite(view, agent, store) ==
    /\ store \in DOMAIN view
    /\ LET p == view[store]
       IN \/ p.kind = "shared"
          \/ p.kind = "private" /\ ToSet(p.owners) \cap {agent, "*"} # {}
          \/ p.kind = "grant" /\ agent \in ToSet(p.owners)

\* The agents a policy lets in; "*" is all of them.
LetIn(policy) == ToSet(policy.owners) \cup (IF policy.kind = "shared" THEN {"*"} ELSE {})

Alive(p) == pc[p] # "off"
\* A call that will change something begins.
Begins(p) == pc[p] = "idle" /\ calls < MaxCalls /\ calls' = calls + 1

Goto(p, place) == pc' = [pc EXCEPT ![p] = place]

\* rights counts only while nothing has been disturbed.
Report(view) == rights' = IF disturbed THEN Nothing ELSE view

-----------------------------------------------------------------------------
FabricInit ==
    /\ stores = {} /\ file = Nothing
    /\ known = [p \in Processes |-> {}] /\ policies = [p \in Processes |-> Nothing]
    /\ pc = [p \in Processes |-> "off"] /\ post = [p \in Processes |-> NoPost]
    /\ tree = Nothing /\ committed = [b \in BoardBranches |-> Nothing]
    /\ forked = {"main"} /\ boardHead = "main" /\ acked = {} /\ doubled = {}
    /\ rights = Nothing /\ disturbed = FALSE
    /\ given = [s \in Stores |-> {}] /\ calls = 0

(* MemoryFabric(root).                                                     *)
Open(p) ==
    /\ ~Alive(p)
    /\ known' = [known EXCEPT ![p] = stores]
    /\ policies' = [policies EXCEPT ![p] = Readable(file)]
    /\ Goto(p, "idle")
    /\ disturbed' = (disturbed \/ \E q \in Processes : Alive(q))
    /\ rights' = IF disturbed' THEN Nothing ELSE rights
    /\ UNCHANGED <<stores, file, post, board, given, calls>>

\* Fault: the store is made in memory only.
CreateUnmade(p, store, policy) ==
    /\ Begins(p) /\ store \notin known[p]
    /\ known' = [known EXCEPT ![p] = @ \cup {store}]
    /\ policies' = [policies EXCEPT ![p] = With(@, store, policy)]
    /\ given' = [given EXCEPT ![store] = @ \cup LetIn(policy)]
    /\ Report(policies'[p])
    /\ Goto(p, "persist")
    /\ UNCHANGED <<stores, file, post, board, disturbed>>

(* create_store of a store that this process does not know; a store that   *)
(* it knows is returned as it is.  An empty list of owners is ["default"]. *)
CreateStore(p, store, policy) ==
    /\ Begins(p) /\ store \notin known[p]
    /\ stores' = stores \cup {store}
    /\ known' = [known EXCEPT ![p] = @ \cup {store}]
    /\ policies' = [policies EXCEPT ![p] = With(@, store, policy)]
    /\ given' = [given EXCEPT ![store] = @ \cup LetIn(policy)]
    /\ Report(policies'[p])
    /\ Goto(p, "persist")
    /\ UNCHANGED <<file, post, board, disturbed>>

(* The callers: memory create; memory write, memory_write and              *)
(* memory_branch; whiteboard; memory sync pull.                            *)
Create(p) == \E store \in Stores, policy \in Asked :
    CreateStore(p, store, IF policy.owners = <<>> THEN [policy EXCEPT !.owners = <<"default">>]
                                                  ELSE policy)
WriteNew(p) == \E store \in Stores : CreateStore(p, store, Private)
Whiteboard(p) == CreateStore(p, Board, Shared)
PullSnapshot(p) == \E store \in Stores :
    CreateStore(p, store, IF store \in DOMAIN policies[p] THEN policies[p][store] ELSE Shared)

\* Fault: the list of owners is one object for all policies that equal it.
GrantAliased(p, store, agent) ==
    /\ Begins(p) /\ store \in DOMAIN policies[p]
    /\ ~Contains(policies[p][store].owners, agent)
    /\ policies' = [policies EXCEPT ![p] = [s \in DOMAIN @ |->
           IF @[s].owners = @[store].owners
           THEN [@[s] EXCEPT !.owners = Append(@, agent)] ELSE @[s]]]
    /\ given' = [given EXCEPT ![store] = @ \cup {agent}]
    /\ Report(policies'[p])
    /\ Goto(p, "persist")
    /\ UNCHANGED <<stores, file, known, post, board, disturbed>>

(* grant and revoke do nothing, not even report it, without a policy.      *)
Grant(p, store, agent) ==
    /\ Begins(p) /\ store \in DOMAIN policies[p]
    /\ ~Contains(policies[p][store].owners, agent)
    /\ policies' = [policies EXCEPT ![p][store].owners = Append(@, agent)]
    /\ given' = [given EXCEPT ![store] = @ \cup {agent}]
    /\ Report(policies'[p])
    /\ Goto(p, "persist")
    /\ UNCHANGED <<stores, file, known, post, board, disturbed>>

\* Fault: the change is not saved.
RevokeUnsaved(p, store, agent) ==
    /\ Begins(p) /\ store \in DOMAIN policies[p]
    /\ Contains(policies[p][store].owners, agent)
    /\ policies' = [policies EXCEPT ![p][store].owners = RemoveFirst(@, agent)]
    /\ Report(policies'[p])
    /\ UNCHANGED <<stores, file, known, pc, post, board, disturbed, given>>

\* list.remove takes the first occurrence; an owner may be listed twice.
Revoke(p, store, agent) ==
    /\ Begins(p) /\ store \in DOMAIN policies[p]
    /\ Contains(policies[p][store].owners, agent)
    /\ policies' = [policies EXCEPT ![p][store].owners = RemoveFirst(@, agent)]
    /\ Report(policies'[p])
    /\ Goto(p, "persist")
    /\ UNCHANGED <<stores, file, known, post, board, disturbed, given>>

(* _persist_policies: open(..., "w"), and the close that fills the file.   *)
Truncate(p) ==
    /\ pc[p] = "persist"
    /\ file' = Empty
    /\ Goto(p, "write")
    /\ UNCHANGED <<stores, known, policies, post, board, rights, disturbed, given, calls>>

\* Over the text of another process the end of a longer one stays behind.
Fill(p) ==
    /\ pc[p] = "write"
    /\ file' \in {policies[p]} \cup (IF file \in {Empty, policies[p]} THEN {} ELSE {Torn})
    /\ Goto(p, "idle")
    /\ UNCHANGED <<stores, known, policies, post, board, rights, disturbed, given, calls>>

-----------------------------------------------------------------------------
\* Fault: the agents that have posted are counted, not their entries.
NextAgent(agent) == Cardinality({k[1] : k \in DOMAIN committed["main"]}) + 1

\* The number of the next entry: len(list_keys("main")) + 1.
NextEntry(agent) == Cardinality(DOMAIN committed["main"]) + 1

Posting(agent) == {p \in Processes : pc[p] \in {"post", "commit"} /\ post[p].agent = agent}

(* whiteboard_write, once whiteboard() has the store: the key is chosen by *)
(* what main holds, the file written (MemoryStore.set), and everything     *)
(* committed on the branch that is checked out.  The field main of a post  *)
(* tells whether that has been main all the time.                          *)
PostCount(p, agent) ==
    /\ Begins(p) /\ Board \in known[p]
    /\ post' = [post EXCEPT ![p] = [agent |-> agent, n |-> NextEntry(agent),
                                   entry |-> calls + 1, main |-> boardHead = "main"]]
    /\ doubled' = doubled \cup (IF Posting(agent) = {} THEN {} ELSE {agent})
    /\ Goto(p, "post")
    /\ UNCHANGED <<stores, file, known, policies, tree, committed, forked, boardHead, acked,
                   rights, disturbed, given>>

PostFile(p) ==
    /\ pc[p] = "post"
    /\ tree' = With(tree, <<post[p].agent, post[p].n>>, post[p].entry)
    /\ Goto(p, "commit")
    /\ UNCHANGED <<stores, file, known, policies, post, committed, forked, boardHead, acked,
                   doubled, rights, disturbed, given, calls>>

PostDone(p) ==
    /\ Goto(p, "idle")
    /\ post' = [post EXCEPT ![p] = NoPost]
    /\ UNCHANGED <<stores, file, known, policies, tree, forked, boardHead, doubled,
                   rights, disturbed, given, calls>>

\* git add -A takes the files of others along.
PostCommit(p) ==
    /\ pc[p] = "commit" /\ tree # committed[boardHead]
    /\ committed' = [committed EXCEPT ![boardHead] = tree]
    /\ acked' = acked \cup {post[p]}
    /\ PostDone(p)

\* Another git may hold the index.
Busied(p) == \E q \in Processes \ {p} : pc[q] \in {"commit", "branch"}

\* There is nothing left to commit, or the index is locked.
PostRaises(p) ==
    /\ pc[p] = "commit"
    /\ tree = committed[boardHead] \/ Busied(p)
    /\ PostDone(p)
    /\ UNCHANGED <<committed, acked>>

-----------------------------------------------------------------------------
Entry(f, k) == IF k \in DOMAIN f THEN <<f[k]>> ELSE <<>>
\* The entries that are not committed on the branch checked out.
Dirty == {k \in DOMAIN tree : Entry(tree, k) # Entry(committed[boardHead], k)}

(* git checkout of a branch with these entries: it is refused when they    *)
(* differ from those of boardHead in a file that is not committed, and     *)
(* carries such files along otherwise.                                     *)
Fits(entries) == \A k \in Dirty : Entry(committed[boardHead], k) = Entry(entries, k)
Moved(b, entries) ==
    /\ boardHead' = b
    /\ tree' = [k \in Dirty \cup DOMAIN entries |-> IF k \in Dirty THEN tree[k] ELSE entries[k]]
    /\ post' = IF b = "main" THEN post ELSE [q \in Processes |-> [post[q] EXCEPT !.main = FALSE]]

(* MemoryStore.branch on the whiteboard, by memory_branch or by            *)
(* import_snapshot: the base is checked out, the branch made of what is    *)
(* then checked out unless there is one of its name, and checked out.      *)
BranchBase(p, base) ==
    /\ Begins(p) /\ Board \in known[p]
    /\ base \in forked /\ Fits(committed[base]) /\ Moved(base, committed[base])
    /\ Goto(p, "branch")
    /\ UNCHANGED <<stores, file, known, policies, committed, forked, acked, doubled,
                   rights, disturbed, given>>

BranchNew(p, b) ==
    LET entries == IF b \in forked THEN committed[b] ELSE committed[boardHead]
    IN  /\ pc[p] = "branch"
        /\ forked' = forked \cup {b}
        /\ committed' = [committed EXCEPT ![b] = entries]
        /\ \/ Fits(entries) /\ Moved(b, entries)
           \/ ~Fits(entries) /\ UNCHANGED <<tree, boardHead, post>>
        /\ Goto(p, "idle")
        /\ UNCHANGED <<stores, file, known, policies, acked, doubled,
                       rights, disturbed, given, calls>>

BranchRaises(p) ==
    /\ pc[p] = "branch" /\ Busied(p)
    /\ Goto(p, "idle")
    /\ UNCHANGED <<stores, file, known, policies, post, board, rights, disturbed, given, calls>>

-----------------------------------------------------------------------------
Gone(p) ==
    /\ Goto(p, "off")
    /\ known' = [known EXCEPT ![p] = {}]
    /\ policies' = [policies EXCEPT ![p] = Nothing]
    /\ post' = [post EXCEPT ![p] = NoPost]
    /\ UNCHANGED <<stores, file, board, given, calls>>

Exit(p) ==
    /\ pc[p] = "idle"
    /\ Gone(p)
    /\ UNCHANGED <<rights, disturbed>>

Crash(p) ==
    /\ Alive(p) /\ pc[p] # "idle"
    /\ Gone(p)
    /\ disturbed' = TRUE /\ rights' = Nothing

Runs(p) ==
    \/ Open(p) \/ Create(p) \/ WriteNew(p) \/ Whiteboard(p) \/ PullSnapshot(p)
    \/ \E store \in Stores, agent \in Agents : Grant(p, store, agent) \/ Revoke(p, store, agent)
    \/ Truncate(p) \/ Fill(p)
    \/ \E agent \in Agents : PostCount(p, agent)
    \/ PostFile(p) \/ PostCommit(p) \/ PostRaises(p)
    \/ \E b \in BoardBranches : BranchBase(p, b) \/ BranchNew(p, b)
    \/ BranchRaises(p)
    \/ Exit(p) \/ Crash(p)

FabricNext == \E p \in Processes : Runs(p)

FabricSpec == FabricInit /\ [][FabricNext]_fabricVars

-----------------------------------------------------------------------------
Views == {Readable(file)} \cup {policies[p] : p \in Processes}

(* Whatever processes overlap or die, a policy is never without its store, *)
(* on disk or in the process that holds it (fabric.py:79-84): the other    *)
(* way round happens, a store whose policy is lost.  So pull_snapshot      *)
(* never finds a policy for a store it has to create (fabric.py:143).      *)
PolicyHasStore ==
    /\ DOMAIN Readable(file) \subseteq stores
    /\ \A p \in Processes : DOMAIN policies[p] \subseteq known[p] /\ known[p] \subseteq stores

(* Rights are lost by overlaps and deaths but never invented: whoever      *)
(* can_write lets into a store, in any process or after a restart, was     *)
(* once named for that store by a creation or a grant (fabric.py:79-118,   *)
(* 140-147).                                                               *)
NeverWidened ==
    \A view \in Views, agent \in Agents, store \in Stores :
        CanWrite(view, agent, store) => given[store] \cap {agent, "*"} # {}

(* Processes that take turns and do not die lose nothing: between calls    *)
(* policies.json and the process that is alive have the policies the calls *)
(* have reported (fabric.py:38-70).                                        *)
TurnsKeepRights ==
    (~disturbed /\ \A p \in Processes : pc[p] \notin {"persist", "write"}) =>
        /\ file = rights
        /\ \A p \in Processes : Alive(p) => policies[p] = rights

(* A post that was reported while main was checked out stays in main as it *)
(* was posted, although its key is made from a count that other processes  *)
(* change, commits take along half-made posts and branches are made and    *)
(* checked out (mcp_server.py:120-129, store.py:96-102, 114-119).  An      *)
(* agent that posts twice at once may overwrite itself, and a post made    *)
(* while another branch was checked out need not be in main at all.        *)
PostsKept ==
    \A e \in acked :
        e.main /\ e.agent \notin doubled =>
            /\ <<e.agent, e.n>> \in DOMAIN committed["main"]
            /\ committed["main"][<<e.agent, e.n>>] = e.entry

=============================================================================
