------------------------------ MODULE Generation ------------------------------
(***************************************************************************)
(* The life of a request in one process: Engine (runtime.py) with its      *)
(* abort registry, and GenerationEngine.generate_stream (generation.py),   *)
(* under nexinfer/engine/.  Each request is served by a thread of its own  *)
(* that runs the generator; other threads cancel.                          *)
(*                                                                         *)
(* A synchronous call pulls the generator to its end (generate); a stream  *)
(* is pulled by a client, who may close it at any yield.  The scheduler is *)
(* seen through the two calls generate_stream makes: add, which queues the *)
(* request, and finish, which looks only among the running ones; nothing   *)
(* here calls schedule, so no request ever runs in the scheduler's eyes.   *)
(***************************************************************************)
EXTENDS Engine, Integers, FiniteSets

CONSTANTS
    MaxTokens,   \* [Requests -> Nat]: max_tokens, 0 for no limit
    Streaming,   \* the requests pulled by a client (stream = True)
    WithTools,   \* the requests with tool schemas
    MaxWaiting,  \* Scheduler.max_waiting
    SafetyCap,   \* 4096: the cap of a synchronous request
    TokenBound   \* bound: the count of tokens of a stream stops here

ASSUME GenerationAssumption ==
    /\ MaxTokens \in [Requests -> Nat]
    /\ Streaming \subseteq Requests /\ WithTools \subseteq Requests
    /\ MaxWaiting \in Nat /\ SafetyCap \in Nat \ {0}
    /\ TokenBound \in Nat /\ TokenBound > SafetyCap
    /\ \A r \in Requests : TokenBound > MaxTokens[r]

VARIABLES
    pc,         \* [Requests -> where the serving thread stands]
    n_tokens,   \* [Requests -> Nat]: tokens sampled
    finish,     \* [Requests -> finish_reason of the last TokenOutput, or None]
    abort_flag, \* [Requests -> BOOLEAN]
    registry,   \* keys of Engine._abort_registry
    waiting,    \* requests in Scheduler.waiting
    sequences,  \* requests with blocks in the KV cache
    cancelled   \* history: cancel returned True

vars == <<pc, n_tokens, finish, abort_flag, registry, waiting, sequences, cancelled>>

\* Where the thread stands: closing is after the generator's last yield,
\* before the finally clause that empties the registry.
Places == {"new", "registered", "prefill", "check", "yield", "closing", "ended"}
Reasons == {"length", "stop", "tool_call", "abort", "error", "raised", "abandoned"}
ASSUME NoneAssumption == None \notin Reasons
Live == {r \in Requests : pc[r] \in {"prefill", "check", "yield"}}

-----------------------------------------------------------------------------
Init ==
    /\ pc = [r \in Requests |-> "new"]
    /\ n_tokens = [r \in Requests |-> 0]
    /\ finish = [r \in Requests |-> None]
    /\ abort_flag = [r \in Requests |-> FALSE]
    /\ registry = {}
    /\ waiting = {}
    /\ sequences = {}
    /\ cancelled = {}

At(r, place) == pc[r] = place
Goto(r, place) == pc' = [pc EXCEPT ![r] = place]
Ends(r, reason) == finish' = [finish EXCEPT ![r] = reason]

(* Engine.register.                                                        *)
Register(r) ==
    /\ At(r, "new") /\ Goto(r, "registered")
    /\ registry' = registry \cup {r}
    /\ UNCHANGED <<n_tokens, finish, abort_flag, waiting, sequences, cancelled>>

(* Engine.cancel, of a request it finds.                                   *)
Cancel(r) ==
    /\ r \in registry
    /\ abort_flag' = [abort_flag EXCEPT ![r] = TRUE]
    /\ cancelled' = cancelled \cup {r}
    /\ UNCHANGED <<pc, n_tokens, finish, registry, waiting, sequences>>

\* Scheduler.add at its limit; it counts nobody among the running.
Full == Cardinality(waiting) >= MaxWaiting

Refused(r) ==
    /\ At(r, "registered") /\ Full /\ Goto(r, "closing")
    /\ Ends(r, "error")
    /\ UNCHANGED <<n_tokens, abort_flag, registry, waiting, sequences, cancelled>>

Accepted(r) ==
    /\ At(r, "registered") /\ ~Full /\ Goto(r, "prefill")
    /\ waiting' = waiting \cup {r}
    /\ sequences' = sequences \cup {r}
    /\ UNCHANGED <<n_tokens, finish, abort_flag, registry, cancelled>>

Prefill(r) ==
    /\ At(r, "prefill") /\ Goto(r, "check")
    /\ UNCHANGED <<n_tokens, finish, abort_flag, registry, waiting, sequences, cancelled>>

\* Fault: the flag is read before the first token only.
AbortingAtFirst(r) == abort_flag[r] /\ n_tokens[r] = 0

Aborting(r) == abort_flag[r]

\* The backend, the sampler or the tokenizer raises: no finish, no free.
Raises(r) ==
    /\ \/ At(r, "prefill")
       \/ At(r, "check") /\ ~Aborting(r)
       \/ At(r, "yield") /\ finish[r] = None
    /\ Goto(r, "closing")
    /\ Ends(r, "raised")
    /\ UNCHANGED <<n_tokens, abort_flag, registry, waiting, sequences, cancelled>>

\* Fault: only scheduler.finish is called.
ReleaseNothing(r) == UNCHANGED <<sequences, waiting>>

\* scheduler.finish finds nobody running; kv_cache.free.
Release(r) == sequences' = sequences \ {r} /\ UNCHANGED waiting

Aborts(r) ==
    /\ At(r, "check") /\ Aborting(r) /\ Goto(r, "closing")
    /\ Ends(r, "abort")
    /\ Release(r)
    /\ UNCHANGED <<n_tokens, abort_flag, registry, cancelled>>

\* What ends a request at its n-th token; a stop sequence may end any.
Outcomes(r, n) ==
    (IF MaxTokens[r] > 0 /\ n >= MaxTokens[r] THEN {"length"} ELSE {None, "stop"})
        \cup (IF r \in WithTools /\ n > 2 THEN {"tool_call"} ELSE {})

Samples(r) ==
    LET n == IF n_tokens[r] < TokenBound THEN n_tokens[r] + 1 ELSE TokenBound
    IN  /\ At(r, "check") /\ ~Aborting(r) /\ Goto(r, "yield")
        /\ n_tokens' = [n_tokens EXCEPT ![r] = n]
        /\ \E f \in Outcomes(r, n) : Ends(r, f)
        /\ UNCHANGED <<abort_flag, registry, waiting, sequences, cancelled>>

\* The generator is resumed after a token that ended the request.
Completes(r) ==
    /\ At(r, "yield") /\ finish[r] # None /\ Goto(r, "closing")
    /\ Release(r)
    /\ UNCHANGED <<n_tokens, finish, abort_flag, registry, cancelled>>

\* Fault: the cap ends streams and not the synchronous requests.
CappedStream(r) == r \in Streaming /\ n_tokens[r] >= SafetyCap

\* The safety cap of a synchronous request.
Capped(r) == r \notin Streaming /\ n_tokens[r] >= SafetyCap

Decodes(r) ==
    /\ At(r, "yield") /\ finish[r] = None /\ ~Capped(r) /\ Goto(r, "check")
    /\ UNCHANGED <<n_tokens, finish, abort_flag, registry, waiting, sequences, cancelled>>

DecodesToCap(r) ==
    /\ At(r, "yield") /\ finish[r] = None /\ Capped(r) /\ Goto(r, "closing")
    /\ Ends(r, "length")
    /\ Release(r)
    /\ UNCHANGED <<n_tokens, abort_flag, registry, cancelled>>

\* Fault: only the normal way out empties the registry.
ClosesCompleted(r) ==
    /\ At(r, "closing") /\ Goto(r, "ended")
    /\ registry' = IF finish[r] \in {"raised", "error"} THEN registry ELSE registry \ {r}
    /\ UNCHANGED <<n_tokens, finish, abort_flag, waiting, sequences, cancelled>>

\* The finally clause of Engine.generate and Engine.generate_stream.
Closes(r) ==
    /\ At(r, "closing") /\ Goto(r, "ended")
    /\ registry' = registry \ {r}
    /\ UNCHANGED <<n_tokens, finish, abort_flag, waiting, sequences, cancelled>>

\* The client closes the stream at a yield: only the finally clause runs.
Abandons(r) ==
    /\ r \in Streaming /\ At(r, "yield") /\ Goto(r, "ended")
    /\ Ends(r, "abandoned")
    /\ registry' = registry \ {r}
    /\ UNCHANGED <<n_tokens, abort_flag, waiting, sequences, cancelled>>

-----------------------------------------------------------------------------
\* The thread that serves r, and for a stream the client that pulls it.
Runs(r) ==
    \/ Refused(r) \/ Accepted(r) \/ Prefill(r)
    \/ Aborts(r) \/ Samples(r)
    \/ Completes(r) \/ Decodes(r) \/ DecodesToCap(r)
    \/ Closes(r)

Next == \E r \in Requests :
            Register(r) \/ Cancel(r) \/ Runs(r) \/ Raises(r) \/ Abandons(r)

Spec == Init /\ [][Next]_vars

\* Threads run; a client that does not close its stream goes on pulling it.
\* Nobody has to make a request or cancel one.
Fairness == \A r \in Requests : WF_vars(Runs(r))

FairSpec == Spec /\ Fairness

-----------------------------------------------------------------------------
(* Type correctness of the requests' and the engine's state.               *)
TypeOK ==
    /\ pc \in [Requests -> Places]
    /\ n_tokens \in [Requests -> 0..TokenBound]
    /\ finish \in [Requests -> Reasons \cup {None}]
    /\ abort_flag \in [Requests -> BOOLEAN]
    /\ registry \subseteq Requests /\ waiting \subseteq Requests
    /\ sequences \subseteq Requests /\ cancelled \subseteq Requests

(* The registry knows a request from its registration to its end, however  *)
(* it ends (runtime.py:103-133): a cancel finds every request that is      *)
(* under way and none that is over.                                        *)
CancelFindsLive == registry = {r \in Requests : pc[r] \notin {"new", "ended"}}

(* Whatever races with a cancel, a request that is over has given its      *)
(* blocks back unless something raised or the client closed the stream     *)
(* (generation.py:68-76, 96-99, 104-108).                                  *)
BlocksReturned ==
    \A r \in sequences : r \in Live \/ finish[r] \in {"raised", "abandoned"}

(* A call answers at most the tokens it may: a limited one its max_tokens, *)
(* any synchronous one the safety cap (generation.py:81, 104;              *)
(* scheduler.py:49-50); beside that, the state is well-typed.              *)
TokensBounded ==
    /\ TypeOK
    /\ \A r \in Requests :
        /\ MaxTokens[r] > 0 => n_tokens[r] <= MaxTokens[r]
        /\ r \notin Streaming => n_tokens[r] <= SafetyCap

(* A synchronous call returns, also without a token limit and if nobody    *)
(* cancels it (generation.py:67-108).                                      *)
SyncReturns ==
    \A r \in Requests \ Streaming : At(r, "registered") ~> At(r, "ended")

(* A cancel that reports success ends the request, a stream without limit  *)
(* included (runtime.py:112-119, generation.py:68-76).                     *)
CancelEnds == \A r \in Requests : r \in cancelled ~> At(r, "ended")

=============================================================================
