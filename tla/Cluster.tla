------------------------------- MODULE Cluster -------------------------------
(***************************************************************************)
(* The cluster control plane: Coordinator (coordinator.py) with its        *)
(* HealthMonitor (health.py) and the control side of the workers           *)
(* (worker.py), under nexinfer/distributed/.                               *)
(*                                                                         *)
(* The coordinator is one asyncio loop: a handler runs without             *)
(* interruption up to its next await, and the only await between a         *)
(* membership change and the end of its handler is the rpc that pushes a   *)
(* plan to one worker.  A task below is a handler (or the monitor's        *)
(* callback) in the middle of its pushes; several may be.                  *)
(*                                                                         *)
(* Every control message travels on a connection of its own, so messages   *)
(* of one worker may arrive in any order unless the worker waits for each  *)
(* answer (OrderedControl), and a plan whose rpc the coordinator has given *)
(* up on may still reach the worker (never when MaxFaults = 0).              *)
(***************************************************************************)
EXTENDS Integers, Sequences, FiniteSets, FiniteSetsExt, SequencesExt, Planner

CONSTANTS
    Workers,        \* node ids of the workers
    Root,           \* node id of the coordinator
    NumLayers,      \* ModelSpec.num_layers
    NumHeads,       \* ModelSpec.num_attention_heads
    Homogeneous,    \* TRUE: all workers report the same device kinds
    PreferredMode,  \* preferred_mode: "automatic", "pipeline" or "tensor"
    Tasks,          \* handlers that may be inside their pushes at once
    MaxHellos,      \* bound: registrations of all workers together
    OrderedControl, \* TRUE: a worker waits for each answer
    MaxFaults,      \* bound: crashes, and plans that arrive after their rpc
    None

ASSUME ClusterAssumption ==
    /\ IsFiniteSet(Workers) /\ Root \notin Workers
    /\ NumLayers \in Nat \ {0} /\ NumHeads \in Nat \ {0}
    /\ PreferredMode \in {"automatic", "pipeline", "tensor"}
    /\ Homogeneous \in BOOLEAN /\ OrderedControl \in BOOLEAN /\ MaxFaults \in Nat

Nodes == Workers \cup {Root}
Plans == [mode : {"pipeline", "tensor"}, nodes : Seq(Workers)]
Handlers == [kind : {"hello", "leave", "dead"}, src : Nodes, hello : Nat,
             plan : Plans, next : Nat, waiting : BOOLEAN]

ASSUME NoneAssumption == None \notin Plans \cup Handlers \cup Tasks

VARIABLES
    nodes,          \* self.nodes: the registered nodes
    last_heartbeat, \* keys of _last_heartbeat, in insertion order
    last_seen,      \* keys of HealthMonitor._last_seen, in insertion order
    silent,         \* nodes whose age exceeds the timeout
    dead,           \* HealthMonitor._dead
    plan,           \* self.plan, or None
    task,           \* [Tasks -> the handler in progress, or None]
    monitor,        \* control point of HealthMonitor._tick
    to_check,       \* what is left of _tick's snapshot of last_seen
    wire,           \* control messages on their way to the coordinator
    pipe,           \* plan messages on their way to workers
    up,             \* workers whose process runs
    member,         \* [Workers -> the worker's own view of its membership]
    hellos,         \* [Workers -> Nat]: registrations attempted
    crashes,        \* crashes so far
    late,           \* plans left to arrive after their rpc, so far
    layer_range,    \* [Workers -> <<first, end>>]: Worker.layer_range
    peers           \* [Workers -> Seq(Nodes)]: Worker.plan.nodes

health_vars == <<last_seen, silent, dead>>
coord_vars  == <<nodes, last_heartbeat, plan>>
tick_vars   == <<monitor, to_check>>
worker_vars == <<up, member, hellos, crashes, layer_range, peers>>
vars == <<health_vars, coord_vars, tick_vars, task, wire, pipe, late, worker_vars>>

-----------------------------------------------------------------------------
(* Plans.                                                                  *)

\* A Python dict keeps the place of a key that is set again.
Touch(keys, n) == IF Contains(keys, n) THEN keys ELSE Append(keys, n)
\* The items of a list that are in a set, in their order.
Only(s, S) ==
    LET kept[i \in 0..Len(s)] ==
            IF i = 0 THEN <<>>
            ELSE IF s[i] \in S THEN Append(kept[i - 1], s[i]) ELSE kept[i - 1]
    IN  kept[Len(s)]
Forget(keys, n) == Only(keys, Nodes \ {n})

PlanNodes == IF plan = None THEN {} ELSE ToSet(plan.nodes)

ModeFor(n) == IF PreferredMode = "automatic"
              THEN AutomaticMode(Homogeneous, NumHeads, n)
              ELSE PreferredMode

\* The range a worker takes from a plan; a tensor plan carries no pp_layers.
RangeIn(p, i) == IF p.mode = "pipeline"
                 THEN PipelineSlice(NumLayers, Len(p.nodes), i - 1)
                 ELSE <<0, NumLayers>>

\* _replan, up to the push, from the state its caller has just made:
\* beats = _last_heartbeat, quiet = the nodes that are not alive,
\* known = self.nodes.  It raises KeyError for a member that is not known and
\* ValueError for heads the ranks do not divide, and then keeps the old plan.
MembersOf(beats, quiet) == Only(beats, Workers \ quiet)
ReplanRaises(beats, quiet, known) ==
    LET members == MembersOf(beats, quiet)
    IN  \/ ToSet(members) \ known # {}
        \/ /\ members # <<>>
           /\ ModeFor(Len(members)) = "tensor"
           /\ ~TensorFits(NumHeads, Len(members))
\* Fault: replan before the handler has dropped the node.
NewPlanBeforePop(beats, quiet) ==
    LET members == MembersOf(last_heartbeat, silent)
    IN  IF members = <<>> THEN None
        ELSE [mode |-> ModeFor(Len(members)), nodes |-> members]

NewPlan(beats, quiet) ==
    LET members == MembersOf(beats, quiet)
    IN  IF members = <<>> THEN None
        ELSE [mode |-> ModeFor(Len(members)), nodes |-> members]

-----------------------------------------------------------------------------
(* Tasks.  A task walks the plan it started with (zip of plan.nodes and    *)
(* plan.per_node), but builds each payload from the plan of the moment.    *)

FreeTask == \E t \in Tasks : task[t] = None

\* The handler answers at once when there is nobody to push to.
Answer(kind, src, n) ==
    IF kind = "hello" /\ member[src] = "registering" /\ hellos[src] = n
    THEN member' = [member EXCEPT ![src] = "joined"]
    ELSE UNCHANGED member

\* Fault: each worker is sent the range of the rank after its own.
PlanMessageShifted(t, p, i, now) ==
    [to |-> p.nodes[i], task |-> t, rank |-> i,
     range |-> RangeIn(p, (i % Len(p.nodes)) + 1), nodes |-> now.nodes]

\* The i-th push of task t over its plan p, made while now is self.plan: the
\* worker's range in the task's plan, the addresses of the current plan.
PlanMessage(t, p, i, now) ==
    [to |-> p.nodes[i], task |-> t, rank |-> i,
     range |-> RangeIn(p, i), nodes |-> now.nodes]

\* _rpc reaches a worker that runs; nobody listens for the others.
Sent(m) == pipe' = pipe \cup {x \in {m} : x.to \in up}

\* The rest of a handler of kind, for src: replan, then answer, or push as far
\* as the first rpc, which is the first await.
ReplanAndPush(kind, src, n) ==
    IF ReplanRaises(last_heartbeat', silent', nodes')
    THEN UNCHANGED <<plan, task, pipe, member>>
    ELSE /\ plan' = NewPlan(last_heartbeat', silent')
         /\ IF plan' = None
            THEN UNCHANGED <<task, pipe>> /\ Answer(kind, src, n)
            ELSE /\ \E t \in Tasks :
                       /\ task[t] = None
                       /\ \A u \in Tasks : task[u] = None => t <= u
                       /\ task' = [task EXCEPT ![t] =
                             [kind |-> kind, src |-> src, hello |-> n,
                              plan |-> plan', next |-> 1, waiting |-> TRUE]]
                       /\ Sent(PlanMessage(t, plan', 1, plan'))
                 /\ UNCHANGED member

Running(t) == task[t] # None

PushDone(t) == task[t].next > Len(task[t].plan.nodes)
Moved(t) == [task EXCEPT ![t].next = @ + 1, ![t].waiting = FALSE]

\* The task resumes and starts its next rpc.
PushSend(t) ==
    /\ Running(t) /\ ~PushDone(t) /\ ~task[t].waiting
    /\ plan # None
    /\ Sent(PlanMessage(t, task[t].plan, task[t].next, plan))
    /\ task' = [task EXCEPT ![t].waiting = TRUE]
    /\ UNCHANGED <<late, health_vars, coord_vars, tick_vars, wire, worker_vars>>

\* self.plan became None meanwhile: self.plan.nodes raises AttributeError,
\* the handler ends without an answer.
PushRaises(t) ==
    /\ Running(t) /\ ~PushDone(t) /\ ~task[t].waiting
    /\ plan = None
    /\ task' = [task EXCEPT ![t] = None]
    /\ UNCHANGED <<late, health_vars, coord_vars, tick_vars, wire, pipe, worker_vars>>

\* The worker's answer is read in time; Worker._dispatch("plan").
PushAck(t) ==
    /\ Running(t)
    /\ \E m \in pipe :
          /\ m.task = t
          /\ pipe' = pipe \ {m}
          /\ layer_range' = [layer_range EXCEPT ![m.to] = m.range]
          /\ peers' = [peers EXCEPT ![m.to] = m.nodes]
    /\ task' = Moved(t)
    /\ UNCHANGED <<late, health_vars, coord_vars, tick_vars, wire, up, member, hellos, crashes>>

\* _rpc swallows the error: nobody listened or the connection broke.
PushFails(t) ==
    /\ Running(t) /\ task[t].waiting
    /\ \A m \in pipe : m.task # t
    /\ task' = Moved(t)
    /\ UNCHANGED <<health_vars, coord_vars, tick_vars, wire, pipe, late, worker_vars>>

\* The limit passes and the message is left to arrive later.
PushGivesUp(t) ==
    /\ Running(t)
    /\ crashes + late < MaxFaults
    /\ \E m \in pipe :
          /\ m.task = t
          /\ pipe' = (pipe \ {m}) \cup {[m EXCEPT !.task = None]}
    /\ late' = late + 1
    /\ task' = Moved(t)
    /\ UNCHANGED <<health_vars, coord_vars, tick_vars, wire, worker_vars>>

\* A plan nobody waits for any more reaches its worker.
LatePlan ==
    /\ \E m \in pipe :
          /\ m.task = None
          /\ pipe' = pipe \ {m}
          /\ layer_range' = [layer_range EXCEPT ![m.to] = m.range]
          /\ peers' = [peers EXCEPT ![m.to] = m.nodes]
    /\ UNCHANGED <<late, health_vars, coord_vars, tick_vars, task, wire,
                   up, member, hellos, crashes>>

\* The last push is over: the handler answers, the monitor goes on.
PushFinished(t) ==
    /\ Running(t) /\ PushDone(t)
    /\ Answer(task[t].kind, task[t].src, task[t].hello)
    /\ task' = [task EXCEPT ![t] = None]
    /\ UNCHANGED <<late, health_vars, coord_vars, tick_vars, wire, pipe,
                   up, hellos, crashes, layer_range, peers>>

-----------------------------------------------------------------------------
(* Control messages at the coordinator: _dispatch.                         *)

\* Fault: a node that is heard again stays declared dead.
RecordStaysDead(n) ==
    /\ last_seen' = Touch(last_seen, n)
    /\ silent' = silent \ {n}
    /\ UNCHANGED dead

\* HealthMonitor.record
Record(n) ==
    /\ last_seen' = Touch(last_seen, n)
    /\ silent' = silent \ {n}
    /\ dead' = dead \ {n}

Hello(m) ==
    /\ m \in wire /\ m.type = "hello"
    /\ FreeTask
    /\ wire' = wire \ {m}
    /\ nodes' = nodes \cup {m.src}
    /\ last_heartbeat' = Touch(last_heartbeat, m.src)
    /\ Record(m.src)
    /\ ReplanAndPush("hello", m.src, m.hello)
    /\ UNCHANGED <<late, tick_vars, up, hellos, crashes, layer_range, peers>>

Heartbeat(m) ==
    /\ m \in wire /\ m.type = "heartbeat"
    /\ wire' = wire \ {m}
    /\ last_heartbeat' = Touch(last_heartbeat, m.src)
    /\ Record(m.src)
    /\ UNCHANGED <<late, nodes, plan, tick_vars, task, pipe, worker_vars>>

Leave(m) ==
    /\ m \in wire /\ m.type = "leave"
    /\ FreeTask
    /\ wire' = wire \ {m}
    /\ last_heartbeat' = Forget(last_heartbeat, m.src)
    /\ last_seen' = Forget(last_seen, m.src)
    /\ silent' = silent \ {m.src}
    /\ dead' = dead \ {m.src}
    /\ nodes' = nodes \ {m.src}
    /\ ReplanAndPush("leave", m.src, m.hello)
    /\ UNCHANGED <<late, tick_vars, up, hellos, crashes, layer_range, peers>>

-----------------------------------------------------------------------------
(* The health monitor.                                                     *)

\* Time passes until a node's last contact is older than the timeout.
Age(n) ==
    /\ Contains(last_seen, n)
    /\ n \notin silent
    /\ silent' = silent \cup {n}
    /\ UNCHANGED <<late, last_seen, dead, coord_vars, tick_vars, task, wire, pipe, worker_vars>>

\* The monitor awaits its callback's pushes.
MonitorBusy == \E t \in Tasks : Running(t) /\ task[t].kind = "dead"

\* What is left of the pass over list(_last_seen), a new one after the sleep.
ToCheck == IF monitor = "asleep" THEN last_seen ELSE to_check

\* Declared dead, the first such node of the pass: nothing is awaited before
\* it.  _on_node_dead runs at once up to its first push.
TickDead ==
    /\ ~MonitorBusy /\ FreeTask
    /\ \E i \in DOMAIN ToCheck :
          /\ ToCheck[i] \in silent \ dead
          /\ \A j \in 1..(i - 1) : ToCheck[j] \notin silent \ dead
          /\ dead' = dead \cup {ToCheck[i]}
          /\ last_heartbeat' = Forget(last_heartbeat, ToCheck[i])
          /\ to_check' = SubSeq(ToCheck, i + 1, Len(ToCheck))
    /\ monitor' = "checking"
    /\ UNCHANGED <<last_seen, silent, nodes>>
    /\ ReplanAndPush("dead", Root, 0)
    /\ UNCHANGED <<late, wire, up, hellos, crashes, layer_range, peers>>

\* The rest of the pass finds nobody; back to sleep.
TickEnd ==
    /\ monitor = "checking" /\ ~MonitorBusy
    /\ ToSet(to_check) \cap (silent \ dead) = {}
    /\ monitor' = "asleep"
    /\ to_check' = <<>>
    /\ UNCHANGED <<late, health_vars, coord_vars, task, wire, pipe, worker_vars>>

-----------------------------------------------------------------------------
(* Workers.                                                                *)

Outstanding(w) ==
    \/ \E m \in wire : m.src = w
    \/ \E t \in Tasks : Running(t) /\ task[t].kind # "dead" /\ task[t].src = w

MaySend(w) == w \in up /\ (OrderedControl => ~Outstanding(w))

\* _register
Register(w) ==
    /\ member[w] = "out"
    /\ MaySend(w)
    /\ MapThenSumSet(LAMBDA v : hellos[v], Workers) < MaxHellos
    /\ hellos' = [hellos EXCEPT ![w] = @ + 1]
    /\ member' = [member EXCEPT ![w] = "registering"]
    /\ wire' = wire \cup {[type |-> "hello", src |-> w, hello |-> hellos[w] + 1]}
    /\ UNCHANGED <<late, health_vars, coord_vars, tick_vars, task, pipe,
                   up, crashes, layer_range, peers>>

\* No welcome within the limit: reconnect_loop will try again.
RegisterFails(w) ==
    /\ member[w] = "registering"
    /\ OrderedControl => ~Outstanding(w)
    /\ member' = [member EXCEPT ![w] = "out"]
    /\ UNCHANGED <<late, health_vars, coord_vars, tick_vars, task, wire, pipe,
                   up, hellos, crashes, layer_range, peers>>

\* wait_for_heartbeat
SendHeartbeat(w) ==
    /\ member[w] = "joined"
    /\ MaySend(w)
    /\ wire' = wire \cup {[type |-> "heartbeat", src |-> w, hello |-> 0]}
    /\ UNCHANGED <<late, health_vars, coord_vars, tick_vars, task, pipe, worker_vars>>

\* send_leave
SendLeave(w) ==
    /\ member[w] = "joined"
    /\ MaySend(w)
    /\ member' = [member EXCEPT ![w] = "out"]
    /\ wire' = wire \cup {[type |-> "leave", src |-> w, hello |-> 0]}
    /\ UNCHANGED <<late, health_vars, coord_vars, tick_vars, task, pipe,
                   up, hellos, crashes, layer_range, peers>>

\* The process dies; the plans on their way to it die with its sockets.
Crash(w) ==
    /\ w \in up
    /\ crashes + late < MaxFaults
    /\ crashes' = crashes + 1
    /\ up' = up \ {w}
    /\ member' = [member EXCEPT ![w] = "out"]
    /\ pipe' = {m \in pipe : m.to # w}
    /\ layer_range' = [layer_range EXCEPT ![w] = <<0, NumLayers>>]
    /\ peers' = [peers EXCEPT ![w] = <<>>]
    /\ UNCHANGED <<late, health_vars, coord_vars, tick_vars, task, wire, hellos>>

Restart(w) ==
    /\ w \in Workers \ up
    /\ up' = up \cup {w}
    /\ UNCHANGED <<late, health_vars, coord_vars, tick_vars, task, wire, pipe,
                   member, hellos, crashes, layer_range, peers>>

-----------------------------------------------------------------------------
\* Coordinator.start has run: the root counts itself as live.
Init ==
    /\ nodes = {Root}
    /\ last_heartbeat = <<Root>>
    /\ last_seen = <<Root>>
    /\ silent = {}
    /\ dead = {}
    /\ plan = None
    /\ task = [t \in Tasks |-> None]
    /\ monitor = "asleep"
    /\ to_check = <<>>
    /\ wire = {}
    /\ pipe = {}
    /\ up = Workers
    /\ member = [w \in Workers |-> "out"]
    /\ hellos = [w \in Workers |-> 0]
    /\ crashes = 0
    /\ late = 0
    /\ layer_range = [w \in Workers |-> <<0, NumLayers>>]
    /\ peers = [w \in Workers |-> <<>>]

Push(t) ==
    \/ PushSend(t) \/ PushRaises(t)
    \/ PushAck(t) \/ PushFails(t) \/ PushGivesUp(t) \/ PushFinished(t)

Control(m) == Hello(m) \/ Heartbeat(m) \/ Leave(m)

Tick == TickDead \/ TickEnd

WorkerStep(w) ==
    \/ Register(w) \/ RegisterFails(w) \/ SendHeartbeat(w) \/ SendLeave(w)
    \/ Crash(w) \/ Restart(w)

Next ==
    \/ \E t \in Tasks : Push(t)
    \/ LatePlan
    \/ \E m \in wire : Control(m)
    \/ Tick
    \/ \E n \in Nodes : Age(n)
    \/ \E w \in Workers : WorkerStep(w)

Spec == Init /\ [][Next]_vars

\* The event loop runs what is ready, the monitor's task goes on, and an rpc
\* ends.  Nothing makes workers, time or the network's late plans move.
Fairness ==
    /\ WF_vars(Tick)
    /\ \A t \in Tasks : WF_vars(Push(t))

FairSpec == Spec /\ Fairness

-----------------------------------------------------------------------------
(* Type correctness of the coordinator's, the monitor's and the workers'   *)
(* state (coordinator.py:51-69, health.py:47-56, worker.py:69-82).         *)
Ranges == {<<a, b>> : a, b \in 0..NumLayers}
Messages == [type : {"hello", "heartbeat", "leave"}, src : Workers, hello : Nat]
TypeOK ==
    /\ nodes \in SUBSET Nodes
    /\ last_heartbeat \in Seq(Nodes) /\ last_seen \in Seq(Nodes)
    /\ silent \in SUBSET Nodes /\ dead \in SUBSET Nodes
    /\ plan \in Plans \cup {None}
    /\ task \in [Tasks -> Handlers \cup {None}]
    /\ \A t \in Tasks : Running(t) => task[t].next \in 1..Len(task[t].plan.nodes) + 1
    /\ monitor \in {"asleep", "checking"}
    /\ to_check \in Seq(Nodes)
    /\ wire \in SUBSET Messages
    /\ \A m \in pipe : m.to \in Workers /\ m.range \in Ranges
    /\ up \in SUBSET Workers
    /\ member \in [Workers -> {"out", "registering", "joined"}]
    /\ hellos \in [Workers -> Nat]
    /\ crashes \in 0..MaxFaults
    /\ late \in 0..MaxFaults
    /\ layer_range \in [Workers -> Ranges]
    /\ peers \in [Workers -> Seq(Workers)]

(* The plan only ever names nodes that are registered and that the monitor *)
(* has not declared dead, whatever handlers and callbacks overlap          *)
(* (coordinator.py:192-198, 212-221, 240-256; health.py:87-97); beside     *)
(* that, the state is well-typed.                                          *)
DeadNotPlanned == PlanNodes \cap dead = {}
PlanAdmissible == TypeOK /\ PlanNodes \subseteq nodes \ {Root} /\ DeadNotPlanned

Quiet == (\A t \in Tasks : task[t] = None) /\ pipe = {}

(* Once no push is under way, and if every rpc was answered in time, every *)
(* planned worker that runs and knows it is a member serves the range the  *)
(* current plan gives it and knows the addresses of that plan's ranks      *)
(* (coordinator.py:264-275, worker.py:183-197).                            *)
WorkersFollowPlan ==
    Quiet /\ late = 0 /\ plan # None =>
        \A i \in DOMAIN plan.nodes :
            LET w == plan.nodes[i]
            IN  w \in up /\ member[w] = "joined" =>
                    layer_range[w] = RangeIn(plan, i) /\ peers[w] = plan.nodes

(* While handlers do not overlap, a worker's range and the addresses it    *)
(* has come from one plan that names it, also when a plan arrives late     *)
(* (coordinator.py:267-275, worker.py:183-195).                            *)
PeersMatchRange ==
    \A w \in Workers : peers[w] # <<>> =>
        \E i \in DOMAIN peers[w] :
            /\ peers[w][i] = w
            /\ layer_range[w] =
                  RangeIn([mode |-> ModeFor(Len(peers[w])), nodes |-> peers[w]], i)

(* A node that stays silent is out of the plan for good after a while      *)
(* (health.py:87-97, coordinator.py:212-221).                              *)
SilentLeavesPlan ==
    \A w \in Workers : <>[](w \in silent) => <>[](w \notin PlanNodes)

=============================================================================
