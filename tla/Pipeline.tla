------------------------------ MODULE Pipeline ------------------------------
(***************************************************************************)
(* Generation over a ring of ranks: DistributedEngine (distributed/        *)
(* engine.py), Worker.generate at rank 0 and Worker.run_decode_loop at the *)
(* others (distributed/worker.py), over the channels of the transport.     *)
(* Every coroutine is split where it awaits.  A frame carries no request   *)
(* id; the request and step in it here are what it was computed from.      *)
(***************************************************************************)
EXTENDS Channels

CONSTANTS
    Requests,   \* requests callers make, numbered in the order they make them
    Load,       \* bound: [last rank of a ring -> requests made in such a ring]
    Tokens,     \* max_tokens of a request
    MaxFaults,  \* bound, by ring: links broken, prefills that raise, sends
                \* that block, ranks closed
    FaultLoad   \* bound, by ring: requests made when there still are faults

Edge(k) == <<"pp", k>>      \* _channel(k, "up")
Result == <<"result", 0>>  \* f"result:{node_id}" of the last rank

\* A ring has its ranks and keys, and any two of them can open a socket once
\* and again.
ASSUME PipelineAssumption ==
    /\ DOMAIN Load \subseteq Nat \ {0} /\ MaxFaults \in [DOMAIN Load -> Nat]
    /\ \A n \in DOMAIN Load : 0..n \subseteq Ranks /\ \A k \in 0..(n - 1) : Edge(k) \in Keys
    /\ Result \in Keys /\ MaxLinks > 2
    /\ Requests \subseteq Nat /\ Tokens \in Nat \ {0}

VARIABLES
    last,       \* the last rank, world_size - 1: fixed when the plan arrives
    engine,     \* [Requests -> what generate_stream's caller sees]
    run,        \* [Requests -> the coroutine of Worker.generate at rank 0]
    loop,       \* [1..last -> the coroutine of run_decode_loop]
    met,        \* history: requests whose runs were under way at the same time
    wrong,      \* history: requests that took logits of another frame
    early,      \* history: a wait ended while its answer was due, or its run alive
    faults

history == <<met, wrong, early>>
vars == <<channels, last, engine, run, loop, history, faults>>

Loops == 1..last

Idle == [pc |-> "idle", hop |-> 0, step |-> 0, on |-> None, cur |-> None]
Failed == [Idle EXCEPT !.pc = "error"]
Boot == [pc |-> "boot", on |-> None, cur |-> None]

Init ==
    /\ ChannelsInit /\ last \in DOMAIN Load
    /\ engine = [r \in Requests |-> "idle"]
    /\ run = [r \in Requests |-> Idle]
    /\ loop = [k \in Loops |-> Boot]
    /\ met = {} /\ wrong = {} /\ early = FALSE /\ faults = 0

\* The record t with the fields of s in the place of its own.
With(t, s) == [f \in DOMAIN t |-> IF f \in DOMAIN s THEN s[f] ELSE t[f]]
RootGoes(r, s) == run' = [run EXCEPT ![r] = With(run[r], s)]
LoopGoes(k, s) == loop' = [loop EXCEPT ![k] = With(loop[k], s)]

Fault ==
    /\ faults < MaxFaults[last] /\ faults' = faults + 1
    /\ \A r \in Requests : r > FaultLoad[last] => engine[r] = "idle"

-----------------------------------------------------------------------------
(* The engine's callers: nothing keeps one of them waiting for another.  A *)
(* run whose caller gave up is not cancelled.                              *)
UnderWay == {r \in Requests : run[r].pc \notin {"idle", "done", "error"}}

Submit(r) ==
    /\ engine[r] = "idle" /\ r <= Load[last]
    /\ \A q \in Requests : q < r => engine[q] # "idle"
    /\ engine' = [engine EXCEPT ![r] = "waiting"]
    /\ RootGoes(r, [pc |-> "prefill"])
    /\ met' = IF UnderWay = {} THEN met ELSE met \cup UnderWay \cup {r}
    /\ UNCHANGED <<last, channels, loop, wrong, early, faults>>

Collect(r) ==
    /\ engine[r] = "waiting" /\ run[r].pc \in {"done", "error"}
    /\ engine' = [engine EXCEPT ![r] = run[r].pc]
    /\ UNCHANGED <<last, channels, run, loop, history, faults>>

-----------------------------------------------------------------------------
\* Nothing is under way that could still answer.
Stuck ==
    /\ Settled
    /\ \A k \in Loops :
        \/ loop[k].pc = "dead"
        \/ /\ loop[k].pc \in {"read", "wait", "blocked"}
           /\ loop[k].pc # "blocked" => loop[k].on \in {None, queues[k][Edge(k - 1)]}
           /\ Frames(k, queues[k][Edge(k - 1)]) = <<>>
    /\ Frames(0, queues[0][Result]) = <<>>
    /\ \A r \in Requests : Frames(0, run[r].on) = <<>>

(* Rank 0: run its own layers, then send to rank hop + 1; between two hops *)
(* read the edge behind, after the last hop the result.                    *)
RootKey(r) == IF run[r].pc \in {"tap", "tapping"} THEN Edge(run[r].hop - 1)
              ELSE Edge(run[r].hop)
RootPeer(r) == IF run[r].pc \in {"tap", "tapping"} THEN run[r].hop ELSE run[r].hop + 1
ReadKey(r) == IF run[r].hop = last THEN Result ELSE Edge(run[r].hop - 1)

RootPrefills(r) ==
    /\ run[r].pc = "prefill"
    /\ \/ RootGoes(r, [pc |-> "send"]) /\ UNCHANGED faults
       \/ Fault /\ RootGoes(r, Failed)
    /\ UNCHANGED <<last, channels, engine, loop, history>>

RootConnects(r) ==
    /\ run[r].pc \in {"send", "tap"} /\ NoWriter(0, RootKey(r))
    /\ RootGoes(r, [pc |-> IF run[r].pc = "send" THEN "dialing" ELSE "tapping"])
    /\ UNCHANGED <<last, channels, engine, loop, history, faults>>

RootDials(r) ==
    /\ run[r].pc \in {"dialing", "tapping"}
    /\ \/ /\ Dial(0, RootPeer(r), RootKey(r))
          /\ RootGoes(r, [pc |-> IF run[r].pc = "dialing" THEN "send" ELSE "tap"])
       \/ /\ Refused(RootPeer(r))
          /\ RootGoes(r, Failed) /\ UNCHANGED channels
    /\ UNCHANGED <<last, engine, loop, history, faults>>

\* send() is over: the next read.
Forwarded(r) == [hop |-> run[r].hop + 1, on |-> None,
                 pc |-> IF run[r].hop + 1 = last THEN "read" ELSE "tap"]

\* The frame is written, and drain() returns or, while the socket takes no
\* more, does not.
RootForwards(r) ==
    LET frame == IF run[r].hop = 0 THEN <<r, run[r].step>> ELSE run[r].cur IN
    /\ run[r].pc = "send" /\ ~NoWriter(0, RootKey(r))
    /\ Sent(0, RootKey(r), frame)
    /\ \/ RootGoes(r, Forwarded(r)) /\ UNCHANGED faults
       \/ Fault /\ RootGoes(r, [pc |-> "blocked", on |-> writers[0][RootKey(r)]])
    /\ UNCHANGED <<last, engine, loop, history>>

RootResumes(r) ==
    /\ run[r].pc = "blocked"
    /\ RootGoes(r, Forwarded(r))
    /\ UNCHANGED <<last, channels, engine, loop, history, faults>>

\* drain() raises: the connection is lost, and the frame with it unless it
\* went while drain waited.
RootSendRaises(r) ==
    /\ \/ /\ run[r].pc = "send" /\ ~NoWriter(0, RootKey(r))
          /\ ~links[writers[0][RootKey(r)]].up
          /\ early' = early
       \/ /\ run[r].pc = "blocked" /\ ~links[run[r].on].up
          /\ early' = (early \/ ~Stuck)
    /\ RootGoes(r, Failed)
    /\ UNCHANGED <<last, channels, engine, loop, met, wrong, faults>>

RootTaps(r) ==
    /\ run[r].pc = "tap" /\ ~NoWriter(0, RootKey(r))
    /\ RootGoes(r, [pc |-> "read"])
    /\ UNCHANGED <<last, channels, engine, loop, history, faults>>

RootWaits(r) ==
    /\ run[r].pc = "read" /\ queues[0][ReadKey(r)] # None
    /\ RootGoes(r, [pc |-> "wait", on |-> queues[0][ReadKey(r)]])
    /\ UNCHANGED <<last, channels, engine, loop, history, faults>>

\* After a take: the next hop, the next step, or the end.
After(r, frame) ==
    IF run[r].hop < last THEN [pc |-> "send", cur |-> frame, on |-> None]
    ELSE IF run[r].step + 1 < Tokens
    THEN [pc |-> "prefill", step |-> run[r].step + 1, hop |-> 0, on |-> None]
    ELSE [Idle EXCEPT !.pc = "done"]

RootTakes(r) ==
    /\ run[r].pc = "wait" /\ Frames(0, run[r].on) # <<>>
    /\ LET frame == Head(Frames(0, run[r].on)) IN
        /\ RootGoes(r, After(r, frame))
        /\ wrong' = IF run[r].hop = last /\ frame # <<r, run[r].step>>
                    THEN wrong \cup {r} ELSE wrong
    /\ Received(0, run[r].on)
    /\ UNCHANGED <<last, engine, loop, met, early, faults>>

\* Fault: recv waits without its timeout once it has a queue.
RootExpiresUnlessQueue(r) ==
    /\ run[r].pc = "read"
    /\ RootGoes(r, Failed)
    /\ early' = (early \/ ~Stuck)
    /\ UNCHANGED <<last, channels, engine, loop, met, wrong, faults>>

(* recv's 60 s are over: the exception leaves generate.                    *)
RootExpires(r) ==
    /\ run[r].pc \in {"read", "wait"} /\ Frames(0, run[r].on) = <<>>
    /\ RootGoes(r, Failed)
    /\ early' = (early \/ ~Stuck)
    /\ UNCHANGED <<last, channels, engine, loop, met, wrong, faults>>

(* future.result's 120 s are over: the caller sees an error, the run goes   *)
(* on, and may take the answers of the next request.                       *)
EngineExpires(r) ==
    /\ engine[r] = "waiting" /\ r \in UnderWay
    /\ engine' = [engine EXCEPT ![r] = "error"]
    /\ early' = TRUE
    /\ UNCHANGED <<last, channels, run, loop, met, wrong, faults>>

-----------------------------------------------------------------------------
(* The other ranks: connect to the rank behind, then read, prefill, send.  *)
InKey(k) == Edge(k - 1)
OutKey(k) == IF k = last THEN Result ELSE Edge(k)
OutPeer(k) == IF k = last THEN 0 ELSE k + 1
LoopPeer(k) == IF loop[k].pc \in {"boot", "booting"} THEN k - 1 ELSE OutPeer(k)
LoopKey(k) == IF loop[k].pc \in {"boot", "booting"} THEN InKey(k) ELSE OutKey(k)

LoopConnects(k) ==
    /\ loop[k].pc \in {"boot", "push"} /\ NoWriter(k, LoopKey(k))
    /\ LoopGoes(k, [pc |-> IF loop[k].pc = "boot" THEN "booting" ELSE "pushing"])
    /\ UNCHANGED <<last, channels, engine, run, history, faults>>

\* A connect that raises leaves run_decode_loop.
LoopDials(k) ==
    /\ loop[k].pc \in {"booting", "pushing"}
    /\ \/ /\ Dial(k, LoopPeer(k), LoopKey(k))
          /\ LoopGoes(k, [pc |-> IF loop[k].pc = "booting" THEN "read" ELSE "push"])
       \/ /\ Refused(LoopPeer(k))
          /\ LoopGoes(k, [pc |-> "dead"]) /\ UNCHANGED channels
    /\ UNCHANGED <<last, engine, run, history, faults>>

LoopConnected(k) ==
    /\ loop[k].pc = "boot" /\ ~NoWriter(k, InKey(k))
    /\ LoopGoes(k, [pc |-> "read"])
    /\ UNCHANGED <<last, channels, engine, run, history, faults>>

LoopWaits(k) ==
    /\ loop[k].pc = "read" /\ queues[k][InKey(k)] # None
    /\ LoopGoes(k, [pc |-> "wait", on |-> queues[k][InKey(k)]])
    /\ UNCHANGED <<last, channels, engine, run, history, faults>>

\* recv's 1 s are over: the loop asks again, which matters if another queue,
\* or none, stands under the key by now.
LoopAsksAgain(k) ==
    /\ loop[k].pc = "wait" /\ Frames(k, loop[k].on) = <<>>
    /\ queues[k][InKey(k)] # loop[k].on
    /\ LoopGoes(k, [pc |-> "read", on |-> None])
    /\ UNCHANGED <<last, channels, engine, run, history, faults>>

\* Fault: a frame is put aside without being worked on.
LoopDrops(k) ==
    /\ loop[k].pc = "wait" /\ Frames(k, loop[k].on) # <<>>
    /\ Received(k, loop[k].on)
    /\ \E cur \in {None, Head(Frames(k, loop[k].on))} :
        LoopGoes(k, [pc |-> IF cur = None THEN "read" ELSE "push", on |-> None, cur |-> cur])
    /\ UNCHANGED <<last, engine, run, history, faults>>

\* The frame leaves the queue; a prefill that raises drops it.
LoopTakes(k) ==
    /\ loop[k].pc = "wait" /\ Frames(k, loop[k].on) # <<>>
    /\ Received(k, loop[k].on)
    /\ \/ /\ LoopGoes(k, [pc |-> "push", on |-> None, cur |-> Head(Frames(k, loop[k].on))])
          /\ UNCHANGED faults
       \/ Fault /\ LoopGoes(k, [pc |-> "read", on |-> None])
    /\ UNCHANGED <<last, engine, run, history>>

\* Fault: the output is pushed, and kept to be pushed again.
LoopPushesTwice(k) ==
    /\ loop[k].pc = "push" /\ ~NoWriter(k, OutKey(k))
    /\ Sent(k, OutKey(k), loop[k].cur)
    /\ \E again \in {"push", "read"} : LoopGoes(k, [pc |-> again])
    /\ UNCHANGED <<last, engine, run, history, faults>>

\* As at rank 0, drain() may not return.
LoopPushes(k) ==
    /\ loop[k].pc = "push" /\ ~NoWriter(k, OutKey(k))
    /\ Sent(k, OutKey(k), loop[k].cur)
    /\ \/ LoopGoes(k, [pc |-> "read", cur |-> None]) /\ UNCHANGED faults
       \/ Fault /\ LoopGoes(k, [pc |-> "blocked", on |-> writers[k][OutKey(k)], cur |-> None])
    /\ UNCHANGED <<last, engine, run, history>>

LoopResumes(k) ==
    /\ loop[k].pc = "blocked"
    /\ LoopGoes(k, [pc |-> "read", on |-> None])
    /\ UNCHANGED <<last, channels, engine, run, history, faults>>

\* drain() raises, which leaves run_decode_loop.
LoopSendRaises(k) ==
    /\ \/ /\ loop[k].pc = "push" /\ ~NoWriter(k, OutKey(k))
          /\ ~links[writers[k][OutKey(k)]].up
       \/ loop[k].pc = "blocked" /\ ~links[loop[k].on].up
    /\ LoopGoes(k, [pc |-> "dead", on |-> None, cur |-> None])
    /\ UNCHANGED <<last, channels, engine, run, history, faults>>

-----------------------------------------------------------------------------
Handshake(l) == Hello(l) /\ UNCHANGED <<last, engine, run, loop, history, faults>>

Disconnected(l) ==
    /\ \E p \in Ranks : ReaderEnds(l, p)
    /\ UNCHANGED <<last, engine, run, loop, history, faults>>

LinkBreaks(l) ==
    /\ Fault /\ Break(l)
    /\ UNCHANGED <<last, engine, run, loop, history>>

\* Worker.close(): the loop sees _running at its next turn.
WorkerCloses(k) ==
    /\ Fault
    /\ loop[k].pc \in {"read", "wait"}
    /\ CloseTransport(k) /\ LoopGoes(k, [pc |-> "dead", on |-> None])
    /\ UNCHANGED <<last, engine, run, history>>

RunSteps(r) ==
    \/ RootPrefills(r) \/ RootConnects(r) \/ RootDials(r) \/ RootForwards(r)
    \/ RootTaps(r) \/ RootWaits(r) \/ RootTakes(r)

LoopSteps(k) ==
    \/ LoopConnects(k) \/ LoopDials(k) \/ LoopConnected(k) \/ LoopWaits(k)
    \/ LoopAsksAgain(k) \/ LoopTakes(k) \/ LoopPushes(k) \/ LoopResumes(k)
    \/ LoopSendRaises(k)

Next ==
    \/ \E r \in Requests :
        \/ Submit(r) \/ Collect(r) \/ EngineExpires(r)
        \/ RunSteps(r) \/ RootResumes(r) \/ RootSendRaises(r) \/ RootExpires(r)
    \/ \E k \in Loops : LoopSteps(k) \/ WorkerCloses(k)
    \/ \E l \in Link : Handshake(l) \/ Disconnected(l) \/ LinkBreaks(l)

Spec == Init /\ [][Next]_vars

(* Rank 0's event loop runs what is ready, its timers fire, and so do the  *)
(* engine's: as long as something can be done for a request, something is. *)
(* Nothing is assumed of a drain that blocks, of links or of other ranks.  *)
Proceeds(r) == RunSteps(r) \/ RootExpires(r) \/ Collect(r) \/ EngineExpires(r)

FairSpec == Spec /\ \A r \in Requests : WF_vars(Proceeds(r))

-----------------------------------------------------------------------------
Places == {"idle", "prefill", "send", "dialing", "blocked", "tap", "tapping", "read", "wait",
           "done", "error"}

(* The tables hold links opened under their key by or to their owner; a    *)
(* coroutine waits on a queue of its own rank.                             *)
TypeOK ==
    /\ \A p \in Ranks, c \in Keys : \A l \in {queues[p][c], writers[p][c]} \ {None} :
        l \in Link /\ links[l].key = c /\ p \in {links[l].client, links[l].server}
    /\ \A r \in Requests : run[r].pc \in Places /\ run[r].hop \in 0..last
                            /\ run[r].step \in 0..Tokens
    /\ \A k \in Loops : loop[k].on # None => k \in {links[loop[k].on].client, links[loop[k].on].server}
    /\ faults \in 0..MaxFaults[last]

(* A request whose run was never under way together with another's takes   *)
(* in each step (worker.py:398) the logits computed from the frame it sent *)
(* in that step, whatever requests, overlapping or failed, came before, as *)
(* long as no wait was given up while its answer was due: frames name no   *)
(* request, and runs that overlap may take each other's.                   *)
AnswersInStep == ~early => wrong \subseteq met

(* In a ring of two, a caller sees an error (engine.py:90-92) only if a    *)
(* link, a prefill, a send or a rank failed, a wait was given up too early *)
(* or a key has two sockets, so that a frame may lie in a queue no table   *)
(* names any more; also if callers overlap.  Beside that, the state is     *)
(* well-typed.                                                             *)
Doubled == \E l, m \in Link : l # m /\ links[l].key = links[m].key
ErrorsExplained ==
    /\ TypeOK
    /\ last = 1 /\ (\E r \in Requests : engine[r] = "error") => early \/ faults > 0 \/ Doubled

(* A caller gets an answer or an error, whatever breaks, and a run of      *)
(* Worker.generate ends, unless a send blocks for ever.                    *)
RunEnds ==
    \A r \in Requests :
        /\ []<>(engine[r] # "waiting")
        /\ []<>(run[r].pc \in {"idle", "blocked", "done", "error"})

=============================================================================
