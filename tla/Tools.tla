-------------------------------- MODULE Tools --------------------------------
(***************************************************************************)
(* Tool calls: ToolCaller.call (gateway/tool_registry.py) runs web_fetch   *)
(* through InternetGateway (services/internet_gateway.py), whose pool of   *)
(* threads works off a queue and shares the quota counters without a lock, *)
(* and mcp: tools through McpGatewayClient on an event loop.  Whoever      *)
(* waits for a result gives up after a time, and the work goes on.         *)
(***************************************************************************)
EXTENDS Integers, FiniteSets, SequencesExt

CONSTANTS
    Fetches,    \* calls of web_fetch
    Agent,      \* [Fetches -> agent id, or None]
    Quota,      \* [some agents -> fetches allowed]: quota_per_agent
    Blocked,    \* fetches whose scheme or domain the policy refuses
    Workers,    \* max_workers
    Remote,     \* calls of an mcp: tool
    OnLoop,     \* those made by code that runs on an event loop
    Connected,  \* McpGatewayClient.session is not None
    MaxCalls,   \* bound: calls made
    None

ASSUME ToolsAssumption ==
    /\ Blocked \subseteq Fetches /\ OnLoop \subseteq Remote /\ Fetches \cap Remote = {}
    /\ IsFiniteSet(Fetches) /\ Quota \in [DOMAIN Quota -> Nat]
    /\ Workers \in Nat \ {0} /\ Connected \in BOOLEAN /\ MaxCalls \in Nat
    /\ None \notin {"waiting", "ok", "error"}

Calls == Fetches \cup Remote
Limited == {f \in Fetches : Agent[f] \in DOMAIN Quota}

VARIABLES
    answer,     \* [Calls -> what the caller has: None, "waiting", "ok", "error"]
    queue,      \* the pool's queue
    work,       \* [Calls -> where the work of the call stands]
    seen,       \* [Fetches -> the count its thread has read]
    counts,     \* _counts, 0 where there is no entry
    log,        \* [Fetches -> status of its entries in FETCH_LOG]
    closed,     \* the pool is shut down
    effects,    \* history: [Calls -> how often it reached network or server]
    crowded     \* history: agents with two fetches in the quota test at once

vars == <<answer, queue, work, seen, counts, log, closed, effects, crowded>>

Init ==
    /\ answer = [c \in Calls |-> None]
    /\ queue = <<>>
    /\ work = [c \in Calls |-> "none"]
    /\ seen = [f \in Fetches |-> 0]
    /\ counts = [a \in DOMAIN Quota |-> 0]
    /\ log = [f \in Fetches |-> <<>>] /\ closed = FALSE
    /\ effects = [c \in Calls |-> 0] /\ crowded = {}

At(c, place) == work[c] = place
Goto(c, place) == work' = [work EXCEPT ![c] = place]
Answers(c, a) == answer' = [answer EXCEPT ![c] = a]

\* Someone makes a call.
Made(c) == answer[c] = None /\ Cardinality({d \in Calls : answer[d] # None}) < MaxCalls

InTest(a) == {f \in Limited : Agent[f] = a /\ work[f] \in {"read", "stored"}}

-----------------------------------------------------------------------------
(* InternetGateway.call: submit raises once the pool is shut down, which   *)
(* ToolCaller turns into an error.                                         *)
Submit(f) ==
    /\ Made(f)
    /\ IF closed THEN Answers(f, "error") /\ UNCHANGED <<queue, work>>
       ELSE Answers(f, "waiting") /\ queue' = Append(queue, f) /\ Goto(f, "queued")
    /\ UNCHANGED <<seen, counts, log, closed, effects, crowded>>

\* The finally of _fetch_sync: log_fetches is TRUE by default.
Logged(f, status) == log' = [log EXCEPT ![f] = Append(@, status)]

Busy == {f \in Fetches : work[f] \in {"read", "stored", "fetching"}}

(* A thread takes the next fetch: a refusal by scheme or domain, no quota  *)
(* to test, or the read of the counter.                                    *)
Start ==
    /\ queue # <<>> /\ Cardinality(Busy) < Workers
    /\ queue' = Tail(queue)
    /\ LET f == Head(queue) IN
          \/ f \in Blocked /\ Goto(f, "failed") /\ Logged(f, "error") /\ UNCHANGED <<seen, crowded>>
          \/ f \notin Blocked \cup Limited /\ Goto(f, "fetching") /\ UNCHANGED <<seen, log, crowded>>
          \/ /\ f \in Limited \ Blocked
             /\ Goto(f, "read")
             /\ seen' = [seen EXCEPT ![f] = counts[Agent[f]]]
             /\ crowded' = crowded \cup (IF InTest(Agent[f]) = {} THEN {} ELSE {Agent[f]})
             /\ UNCHANGED log
    /\ UNCHANGED <<answer, counts, closed, effects>>

Count(f) ==
    /\ At(f, "read") /\ Goto(f, "stored")
    /\ counts' = [counts EXCEPT ![Agent[f]] = seen[f] + 1]
    /\ UNCHANGED <<answer, queue, seen, log, closed, effects, crowded>>

\* Fault: the count has to stay below the quota.
WithinStrictly(f) == counts[Agent[f]] < Quota[Agent[f]]

\* The counter is read again for the comparison.
Within(f) == counts[Agent[f]] <= Quota[Agent[f]]

CheckQuota(f) ==
    /\ At(f, "stored")
    /\ IF Within(f) THEN Goto(f, "fetching") /\ UNCHANGED log
       ELSE Goto(f, "failed") /\ Logged(f, "error")
    /\ UNCHANGED <<answer, queue, seen, counts, closed, effects, crowded>>

(* urlopen and read, which end by their own limits of time and size; the   *)
(* log entry is made before the text is extracted and trimmed, which may   *)
(* raise.                                                                  *)
Fetched(f) ==
    /\ At(f, "fetching")
    /\ \/ Logged(f, "ok") /\ (Goto(f, "done") \/ Goto(f, "failed"))
       \/ Goto(f, "failed") /\ Logged(f, "error")
    /\ effects' = [effects EXCEPT ![f] = @ + 1]
    /\ UNCHANGED <<answer, queue, seen, counts, closed, crowded>>

Deliver(f) ==
    /\ answer[f] = "waiting" /\ work[f] \in {"done", "failed"}
    /\ Answers(f, IF At(f, "done") THEN "ok" ELSE "error")
    /\ UNCHANGED <<queue, work, seen, counts, log, closed, effects, crowded>>

\* Fault: a fetch nobody waits for is taken out of the queue.
ExpiresCancelled(f) ==
    /\ answer[f] = "waiting" /\ work[f] \notin {"done", "failed"}
    /\ Answers(f, "error")
    /\ queue' = SelectSeq(queue, LAMBDA g : g # f)
    /\ UNCHANGED <<work, seen, counts, log, closed, effects, crowded>>

(* future.result gives up; the future is not cancelled.                    *)
Expires(f) ==
    /\ answer[f] = "waiting" /\ work[f] \notin {"done", "failed"}
    /\ Answers(f, "error")
    /\ UNCHANGED <<queue, work, seen, counts, log, closed, effects, crowded>>

\* shutdown(wait=False): what is queued is still worked off.
ClosePool ==
    /\ ~closed /\ closed' = TRUE
    /\ UNCHANGED <<answer, queue, work, seen, counts, log, effects, crowded>>

-----------------------------------------------------------------------------
LoopBlocked == \E c \in OnLoop : answer[c] = "waiting"

(* An mcp: tool called without a running loop is run to its end            *)
(* (asyncio.run); called on a loop it is handed to that loop, and the      *)
(* caller keeps the loop's thread while it waits.                          *)
CallRemote(c) ==
    /\ Made(c) /\ (c \in OnLoop => ~LoopBlocked)
    /\ Answers(c, "waiting")
    /\ Goto(c, "scheduled")
    /\ UNCHANGED <<queue, seen, counts, log, closed, effects, crowded>>

\* Fault: the loop runs while its thread waits.
RunsAnyway(c) == c \in Remote

\* A coroutine of the loop runs when the loop's thread is free.
MayRun(c) == c \in OnLoop => ~LoopBlocked

(* McpGatewayClient.call_tool starts: it raises without a session.  With   *)
(* one it awaits the server's answer, and the session may belong to        *)
(* another loop, that of connect(), than the one of asyncio.run: then the  *)
(* request may not even leave.                                             *)
StartRemote(c) ==
    /\ At(c, "scheduled") /\ MayRun(c)
    /\ \/ ~Connected /\ Goto(c, "failed") /\ UNCHANGED effects
       \/ Connected /\ Goto(c, "called") /\ UNCHANGED effects
       \/ Connected /\ Goto(c, "called") /\ effects' = [effects EXCEPT ![c] = @ + 1]
    /\ UNCHANGED <<answer, queue, seen, counts, log, closed, crowded>>

\* session.call_tool returns or raises; it has no time limit.
Answered(c) ==
    /\ At(c, "called") /\ MayRun(c)
    /\ \/ effects[c] > 0 /\ Goto(c, "done")
       \/ Goto(c, "failed")
    /\ UNCHANGED <<answer, queue, seen, counts, log, closed, effects, crowded>>

DeliverRemote(c) ==
    /\ answer[c] = "waiting" /\ work[c] \in {"done", "failed"}
    /\ Answers(c, IF At(c, "done") THEN "ok" ELSE "error")
    /\ UNCHANGED <<queue, work, seen, counts, log, closed, effects, crowded>>

\* future.result(timeout=30)
ExpiresOnLoop(c) ==
    /\ c \in OnLoop /\ answer[c] = "waiting" /\ work[c] \notin {"done", "failed"}
    /\ Answers(c, "error")
    /\ UNCHANGED <<queue, work, seen, counts, log, closed, effects, crowded>>

-----------------------------------------------------------------------------
Next ==
    \/ \E f \in Fetches :
          Submit(f) \/ Count(f) \/ CheckQuota(f) \/ Fetched(f) \/ Deliver(f) \/ Expires(f)
    \/ Start \/ ClosePool
    \/ \E c \in Remote :
          \/ CallRemote(c) \/ StartRemote(c) \/ Answered(c)
          \/ DeliverRemote(c) \/ ExpiresOnLoop(c)

Spec == Init /\ [][Next]_vars

(* The pool's threads run and every urlopen ends; a wait on a loop is      *)
(* limited, and the loop runs what it is handed.  Nothing is assumed of an *)
(* MCP server: its answer may never come.                                  *)
Fairness ==
    /\ WF_vars(Start)
    /\ \A f \in Fetches :
          WF_vars(Count(f)) /\ WF_vars(CheckQuota(f)) /\ WF_vars(Fetched(f))
    /\ \A c \in Remote : WF_vars(StartRemote(c)) /\ WF_vars(ExpiresOnLoop(c))

FairSpec == Spec /\ Fairness

-----------------------------------------------------------------------------
Tested(a) == {f \in Limited \ Blocked : Agent[f] = a /\ work[f] \in {"fetching", "done", "failed"}}
Refused(a) == {f \in Tested(a) : effects[f] = 0 /\ work[f] = "failed"}
Passed(a) == Cardinality(Tested(a)) - Cardinality(Refused(a))

(* An agent whose fetches are tested one at a time gets exactly its quota. *)
(* With threads in the test together the counter loses increments, and the *)
(* agent gets more, but never less than the quota less one for each other  *)
(* thread, which may have counted itself before the first one compares     *)
(* (internet_gateway.py:147-150).                                          *)
QuotaServed ==
    \A a \in DOMAIN Quota :
        InTest(a) = {} =>
            LET n == Cardinality(Tested(a))
                due == IF n < Quota[a] THEN n ELSE Quota[a]
            IN  /\ a \notin crowded => Passed(a) = due
                /\ Passed(a) >= due - (Workers - 1)

(* Giving up does not undo: no call takes effect twice, one reported ok    *)
(* has taken effect, with its entry in the log if it was a fetch, and one  *)
(* made on a loop is never reported ok, because it cannot run before its   *)
(* caller has stopped waiting (internet_gateway.py:88-93,                  *)
(* tool_registry.py:183-188).                                              *)
EffectsOnce ==
    /\ \A c \in Calls : effects[c] <= 1
    /\ \A c \in Calls : answer[c] = "ok" => effects[c] = 1 /\ c \notin OnLoop
    /\ \A f \in Fetches : answer[f] = "ok" => log[f] = <<"ok">>

(* Every fetch the pool has accepted ends up in the log, also when its     *)
(* caller has given up or the pool is closed meanwhile, and every mcp:     *)
(* call handed over is started, also after its error was reported          *)
(* (internet_gateway.py:122-124, 155-156; tool_registry.py:187).           *)
CarriedOut ==
    /\ \A f \in Fetches : At(f, "queued") ~> log[f] # <<>>
    /\ \A c \in Remote : At(c, "scheduled") ~> work[c] \in {"called", "done", "failed"}

=============================================================================
