------------------------------ MODULE Scheduler ------------------------------
(***************************************************************************)
(* The continuous-batching scheduler: class Scheduler of                   *)
(* nexinfer/engine/scheduler.py, used by the threads that serve requests   *)
(* (add, finish) and by one engine loop that executes the running batch    *)
(* (schedule, preempt).  The class takes no lock, so a call is split where *)
(* another thread's call can fall between its reads and its writes:        *)
(*                                                                         *)
(*   add      the limit check and the construction of the RunningRequest   *)
(*            | the append to the deque                                    *)
(*   schedule the computation of the free budget | each loop iteration     *)
(*   finish   the pop and the computation of the new ledger value          *)
(*            | the store of that value                                    *)
(*   preempt  the choice of the victim | its pop | the store and requeue   *)
(*                                                                         *)
(* Callers is the number of threads that may be inside a call at once;     *)
(* with Callers = 1 the calls never overlap (the command line's use).      *)
(***************************************************************************)
EXTENDS Integers, Sequences, FiniteSets

CONSTANTS
    Requests,       \* the GenerationRequest objects clients submit
    MaxTokens,      \* [Requests -> Nat]: GenerationRequest.max_tokens
    SafetyCap,      \* tokens after which a request without a limit is ended
    MaxRunning,     \* max_running
    MaxWaiting,     \* max_waiting
    TotalBlocks,    \* device_blocks + host_blocks
    BlockSize,      \* block_size
    Recompute,      \* preempt_mode = "recompute" (FALSE: "swap")
    Callers,        \* threads that may be inside the scheduler at once
    None            \* Python's None

ASSUME RequestsAssumption == IsFiniteSet(Requests) /\ None \notin Requests
ASSUME LimitsAssumption ==
    /\ MaxTokens \in [Requests -> Nat]
    /\ SafetyCap \in Nat
    /\ MaxRunning \in Nat
    /\ MaxWaiting \in Nat
    /\ TotalBlocks \in Nat
    /\ BlockSize \in Nat \ {0}
    /\ Recompute \in BOOLEAN
    /\ Callers \in Nat \ {0}

VARIABLES
    waiting,        \* the deque of queued requests, left end first
    running,        \* the keys of the running dict
    used_blocks,    \* _used_blocks: the reservation ledger
    generated,      \* [Requests -> Nat]: len(generated_ids)
    status,         \* [Requests -> ReqStatus]
    waiting_since,  \* [Requests -> Nat]: creation order of the RunningRequests
    phase,          \* [Requests -> Phase]: where the caller of r stands
    ledger,         \* [Requests -> Nat]: value finish(r) is about to store
    sched,          \* control point of the engine loop
    scan,           \* what is left of list(self.waiting) in schedule
    free,           \* the local variable free of schedule
    victim,         \* the local variable victim of preempt
    victim_ledger   \* value preempt is about to store

queue_vars   == <<waiting, running, used_blocks>>
request_vars == <<generated, status, waiting_since>>
loop_vars    == <<sched, scan, free, victim, victim_ledger>>
vars == <<queue_vars, request_vars, phase, ledger, loop_vars>>

ReqStatus == {"waiting", "running", "finished", "swapped"}
Phase == {"new", "adding", "refused", "live", "finishing", "done"}

-----------------------------------------------------------------------------
(* Blocks and the calls in progress.                                       *)

Blocks(tokens) == (tokens + BlockSize - 1) \div BlockSize

\* _blocks_needed_for: blocks for the tokens r has plus future_len more.
BlocksNeeded(r, future_len) == Blocks(generated[r] + future_len)

\* Fault: the blocks of the whole reservation are computed at release time.
LedgerWithoutReservation(r) == used_blocks - BlocksNeeded(r, MaxTokens[r])

\* The ledger after giving back the blocks of the tokens r has produced.
LedgerWithout(r) ==
    LET need == BlocksNeeded(r, 0)
    IN  IF need > used_blocks THEN 0 ELSE used_blocks - need

\* should_stop's length limit, or the cap of a request that has none.
TokenLimit(r) == IF MaxTokens[r] > 0 THEN MaxTokens[r] ELSE SafetyCap

Adding == {r \in Requests : phase[r] = "adding"}
Finishing == {r \in Requests : phase[r] = "finishing"}
LoopCalls == IF sched = "idle" THEN 0 ELSE 1

\* A thread may enter the scheduler.
MayEnter == Cardinality(Adding) + Cardinality(Finishing) + LoopCalls < Callers

Elements(s) == {s[i] : i \in DOMAIN s}

-----------------------------------------------------------------------------
Init ==
    /\ waiting = <<>>
    /\ running = {}
    /\ used_blocks = 0
    /\ generated = [r \in Requests |-> 0]
    /\ status = [r \in Requests |-> "waiting"]
    /\ waiting_since = [r \in Requests |-> 0]
    /\ phase = [r \in Requests |-> "new"]
    /\ ledger = [r \in Requests |-> 0]
    /\ sched = "idle"
    /\ scan = <<>>
    /\ free = 0
    /\ victim = None
    /\ victim_ledger = 0

\* Fault: the limit test forgets the running requests.
WaitingFull == Len(waiting) >= MaxWaiting

\* The limit test of add.
Full == Len(waiting) + Cardinality(running) >= MaxWaiting

(* add: refused at the limit, else a RunningRequest stamped with the time. *)
AddRefused(r) ==
    /\ phase[r] = "new"
    /\ MayEnter
    /\ Full
    /\ phase' = [phase EXCEPT ![r] = "refused"]
    /\ UNCHANGED <<queue_vars, request_vars, ledger, loop_vars>>

AddCheck(r) ==
    /\ phase[r] = "new"
    /\ MayEnter
    /\ ~Full
    /\ phase' = [phase EXCEPT ![r] = "adding"]
    /\ waiting_since' = [waiting_since EXCEPT
                            ![r] = Cardinality({q \in Requests : phase[q] # "new"})]
    /\ UNCHANGED <<queue_vars, generated, status, ledger, loop_vars>>

AddAppend(r) ==
    /\ phase[r] = "adding"
    /\ waiting' = Append(waiting, r)
    /\ phase' = [phase EXCEPT ![r] = "live"]
    /\ UNCHANGED <<running, used_blocks, request_vars, ledger, loop_vars>>

(* RunningRequest.append, by the backend step that executes the batch.     *)
Token(r) ==
    /\ phase[r] = "live"
    /\ r \in running
    /\ generated[r] < TokenLimit(r)
    /\ generated' = [generated EXCEPT ![r] = @ + 1]
    /\ UNCHANGED <<queue_vars, status, waiting_since, phase, ledger, loop_vars>>

(* finish: a stop condition or an abort, at any length.                    *)
FinishPop(r) ==
    /\ phase[r] = "live"
    /\ MayEnter
    /\ r \in running
    /\ running' = running \ {r}
    /\ status' = [status EXCEPT ![r] = "finished"]
    /\ ledger' = [ledger EXCEPT ![r] = LedgerWithout(r)]
    /\ phase' = [phase EXCEPT ![r] = "finishing"]
    /\ UNCHANGED <<waiting, used_blocks, generated, waiting_since, loop_vars>>

FinishStore(r) ==
    /\ phase[r] = "finishing"
    /\ used_blocks' = ledger[r]
    /\ ledger' = [ledger EXCEPT ![r] = 0]
    /\ phase' = [phase EXCEPT ![r] = "done"]
    /\ UNCHANGED <<waiting, running, request_vars, loop_vars>>

\* Fault: a request that is not running is taken out of the deque.
FinishWithdraws(r) ==
    /\ phase[r] = "live"
    /\ MayEnter
    /\ r \notin running
    /\ waiting' = SelectSeq(waiting, LAMBDA q : q # r)
    /\ phase' = [phase EXCEPT ![r] = "done"]
    /\ UNCHANGED <<running, used_blocks, request_vars, ledger, loop_vars>>

\* The pop finds nothing: the request stays in the deque, if it is there.
FinishMissing(r) ==
    /\ phase[r] = "live"
    /\ MayEnter
    /\ r \notin running
    /\ phase' = [phase EXCEPT ![r] = "done"]
    /\ UNCHANGED <<queue_vars, request_vars, ledger, loop_vars>>

-----------------------------------------------------------------------------
(* schedule: free is computed once and the loop runs over a snapshot.      *)
ScheduleBegin ==
    /\ sched = "idle"
    /\ MayEnter
    /\ sched' = "scan"
    /\ scan' = waiting
    /\ free' = TotalBlocks - used_blocks
    /\ UNCHANGED <<queue_vars, request_vars, phase, ledger, victim, victim_ledger>>

ScheduleNeed == BlocksNeeded(Head(scan), MaxTokens[Head(scan)])

\* Fault: off by one.
BatchOverfull == Cardinality(running) > MaxRunning

\* The break of the loop.
BatchFull == Cardinality(running) >= MaxRunning

\* One iteration that admits: the deque loses its left end, whoever that is.
ScheduleAdmit ==
    /\ sched = "scan"
    /\ scan # <<>>
    /\ ~BatchFull
    /\ ScheduleNeed <= free
    /\ waiting' = Tail(waiting)
    /\ status' = [status EXCEPT ![Head(scan)] = "running"]
    /\ running' = running \cup {Head(scan)}
    /\ used_blocks' = used_blocks + ScheduleNeed
    /\ scan' = Tail(scan)
    /\ UNCHANGED <<generated, waiting_since, phase, ledger,
                   sched, free, victim, victim_ledger>>

\* One iteration whose request does not fit.
ScheduleSkip ==
    /\ sched = "scan"
    /\ scan # <<>>
    /\ ~BatchFull
    /\ ScheduleNeed > free
    /\ scan' = Tail(scan)
    /\ UNCHANGED <<queue_vars, request_vars, phase, ledger,
                   sched, free, victim, victim_ledger>>

\* The loop ends, or breaks at max_running.
ScheduleEnd ==
    /\ sched = "scan"
    /\ scan = <<>> \/ BatchFull
    /\ sched' = "idle"
    /\ scan' = <<>>
    /\ free' = 0
    /\ UNCHANGED <<queue_vars, request_vars, phase, ledger, victim, victim_ledger>>

-----------------------------------------------------------------------------
(* preempt: the victim is the running request created first, whatever the *)
(* request named by the caller; a victim that finish() removes meanwhile   *)
(* makes the pop raise KeyError.                                           *)
PreemptPick ==
    /\ sched = "idle"
    /\ MayEnter
    /\ \E v \in running :
          /\ \A q \in running : waiting_since[v] <= waiting_since[q]
          /\ victim' = v
    /\ sched' = "picked"
    /\ UNCHANGED <<queue_vars, request_vars, phase, ledger, scan, free, victim_ledger>>

PreemptPop ==
    /\ sched = "picked"
    /\ victim \in running
    /\ running' = running \ {victim}
    /\ victim_ledger' = LedgerWithout(victim)
    /\ sched' = "popped"
    /\ UNCHANGED <<waiting, used_blocks, request_vars, phase, ledger, scan, free, victim>>

PreemptKeyError ==
    /\ sched = "picked"
    /\ victim \notin running
    /\ sched' = "idle"
    /\ victim' = None
    /\ UNCHANGED <<queue_vars, request_vars, phase, ledger, scan, free, victim_ledger>>

\* Faults: the victim is queued behind the others, or dropped.
RequeueLast == Append(waiting, victim)
RequeueNowhere == waiting

\* appendleft and the status of the victim.
Requeue == <<victim>> \o waiting
SwappedOut == [status EXCEPT ![victim] = "swapped"]

PreemptStore ==
    /\ sched = "popped"
    /\ used_blocks' = victim_ledger
    /\ generated' = IF Recompute THEN [generated EXCEPT ![victim] = 0] ELSE generated
    /\ status' = SwappedOut
    /\ waiting' = Requeue
    /\ sched' = "idle"
    /\ victim' = None
    /\ victim_ledger' = 0
    /\ UNCHANGED <<running, waiting_since, phase, ledger, scan, free>>

-----------------------------------------------------------------------------
Caller(r) ==
    \/ AddRefused(r) \/ AddCheck(r) \/ AddAppend(r)
    \/ Token(r)
    \/ FinishPop(r) \/ FinishStore(r) \/ FinishMissing(r)

EngineLoop ==
    \/ ScheduleBegin \/ ScheduleAdmit \/ ScheduleSkip \/ ScheduleEnd
    \/ PreemptPick \/ PreemptPop \/ PreemptKeyError \/ PreemptStore

Next == (\E r \in Requests : Caller(r)) \/ EngineLoop

Spec == Init /\ [][Next]_vars

-----------------------------------------------------------------------------
(* Type correctness of the scheduler's state (scheduler.py:60-76), with    *)
(* what its control points imply for the engine loop's locals.             *)
TypeOK ==
    /\ waiting \in Seq(Requests)
    /\ running \in SUBSET Requests
    /\ used_blocks \in Nat
    /\ generated \in [Requests -> Nat]
    /\ status \in [Requests -> ReqStatus]
    /\ waiting_since \in [Requests -> Nat]
    /\ phase \in [Requests -> Phase]
    /\ ledger \in [Requests -> Nat]
    /\ sched \in {"idle", "scan", "picked", "popped"}
    /\ scan \in Seq(Requests)
    /\ free \in Int
    /\ victim \in Requests \cup {None}
    /\ victim_ledger \in Nat
    /\ sched \in {"picked", "popped"} <=> victim # None

(* A request between preempt's pop and its requeue is in neither queue.    *)
InTransit == IF sched = "popped" THEN 1 ELSE 0

(* The requests held by the scheduler never exceed max_waiting by more     *)
(* than one per extra thread that can race add's check (scheduler.py:83)   *)
(* against its append (86); a single-threaded user never exceeds it.       *)
QueueBound ==
    Len(waiting) + Cardinality(running) + InTransit <= MaxWaiting - 1 + Callers

(* At most max_running requests run, even though the limit is tested once  *)
(* per iteration while other threads finish requests (scheduler.py:97).    *)
RunningBound == Cardinality(running) <= MaxRunning

(* popleft (scheduler.py:101) never meets an empty deque: every snapshot   *)
(* entry the loop still has to visit has a deque entry left to be popped.  *)
ScanInsideQueue == Len(scan) <= Len(waiting)

\* How often r is held: in the deque, in the running dict, or in transit.
Places(r) ==
    Cardinality({i \in DOMAIN waiting : waiting[i] = r})
      + (IF r \in running THEN 1 ELSE 0)
      + (IF sched = "popped" /\ victim = r THEN 1 ELSE 0)

(* With equal projected sizes and recompute preemption the left end that   *)
(* schedule pops is the request it admits (scheduler.py:96-103), so an     *)
(* added request whose caller has not finished it is held exactly once,    *)
(* never lost and never both queued and running; no other request is held  *)
(* more than once; and the status field agrees with the place (102-103,    *)
(* 110, 126).                                                              *)
HeldExactlyOnce ==
    /\ \A r \in Requests :
          /\ phase[r] = "live" => Places(r) = 1
          /\ phase[r] \in {"finishing", "done"} => Places(r) <= 1
          /\ phase[r] \in {"new", "adding", "refused"} => Places(r) = 0
    /\ \A r \in running : status[r] = "running"
    /\ \A r \in Elements(waiting) : status[r] \in {"waiting", "swapped"}

\* Blocks the admitted requests were promised (scheduler.py:99, gen = 0).
Promised(S) == Cardinality(UNION {{r} \X (1..Blocks(MaxTokens[r])) : r \in S})

(* The ledger never under-reports: finish and preempt give back fewer      *)
(* blocks than admission took (scheduler.py:104, 112, 122), so what the    *)
(* ledger shows as used covers the promise to every running request.       *)
LedgerCoversRunning == used_blocks >= Promised(running)

\* r is ahead of q in the order the deque keeps.
Ahead(r, q) ==
    \/ status[r] = "swapped" /\ status[q] = "waiting"
    \/ status[r] = status[q] /\ status[r] = "waiting" /\ waiting_since[r] < waiting_since[q]
    \/ status[r] = status[q] /\ status[r] = "swapped"

(* An admission never overtakes: a preempted request is readmitted before  *)
(* fresh ones (appendleft, scheduler.py:127) and fresh ones are admitted   *)
(* in the order of their creation (85-86, 101), by callers that take turns.*)
NoOvertakingStep ==
    \A r \in running' \ running :
        \A q \in Elements(waiting') : Ahead(r, q)

=============================================================================
