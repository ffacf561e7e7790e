--------------------------- MODULE SchedulerProofs ---------------------------
(***************************************************************************)
(* Safety of Scheduler for every number of requests, threads, blocks and   *)
(* every limit: type correctness, the queue bound under racing add calls,  *)
(* the running bound, and that popleft never meets an empty deque.         *)
(***************************************************************************)
EXTENDS MCScheduler, FiniteSetTheorems, SequenceTheorems, TLAPS

-----------------------------------------------------------------------------
(* Arithmetic of blocks and of the ledger.                                 *)

(* The ceiling division of _blocks_needed_for yields a natural number.     *)
LEMMA BlocksType ==
    ASSUME NEW n \in Nat
    PROVE  Blocks(n) \in Nat
  BY LimitsAssumption DEF Blocks

(* The reservation computed for a request is a natural number.             *)
LEMMA BlocksNeededType ==
    ASSUME TypeOK, NEW r \in Requests, NEW n \in Nat
    PROVE  BlocksNeeded(r, n) \in Nat
<1>1. generated[r] + n \in Nat
  BY DEF TypeOK
<1>. QED
  BY <1>1, BlocksType DEF BlocksNeeded

(* max(0, ...) keeps the ledger a natural number.                          *)
LEMMA LedgerType ==
    ASSUME TypeOK, NEW r \in Requests
    PROVE  LedgerWithout(r) \in Nat
<1>1. BlocksNeeded(r, 0) \in Nat
  BY BlocksNeededType
<1>. QED
  BY <1>1 DEF LedgerWithout, TypeOK

(* What the loop's snapshot offers while it is not exhausted.              *)
LEMMA ScanHead ==
    ASSUME TypeOK, scan # <<>>
    PROVE  /\ Head(scan) \in Requests
           /\ Tail(scan) \in Seq(Requests)
           /\ Len(Tail(scan)) = Len(scan) - 1
           /\ Len(scan) \in Nat \ {0}
           /\ ScheduleNeed \in Nat
<1>1. scan \in Seq(Requests)
  BY DEF TypeOK
<1>2. /\ Head(scan) \in Requests
      /\ Tail(scan) \in Seq(Requests)
      /\ Len(Tail(scan)) = Len(scan) - 1
  BY <1>1, HeadTailProperties
<1>3. Len(scan) \in Nat \ {0}
  BY <1>1, EmptySeq
<1>4. MaxTokens[Head(scan)] \in Nat
  BY <1>2, LimitsAssumption
<1>5. ScheduleNeed \in Nat
  BY <1>2, <1>4, BlocksNeededType DEF ScheduleNeed
<1>. QED
  BY <1>2, <1>3, <1>5

-----------------------------------------------------------------------------
(* The inductive invariant.  The queue bound counts the threads between    *)
(* add's check and its append; the deque and its snapshot are compared     *)
(* because schedule pops the one while walking the other.                  *)

QueueBoundInv ==
    Len(waiting) + Cardinality(running) + InTransit + Cardinality(Adding)
        <= MaxWaiting - 1 + Callers

IInv == TypeOK /\ QueueBoundInv /\ RunningBound /\ ScanInsideQueue

(* The initial state satisfies the invariant.                              *)
LEMMA InitIInv == Init => IInv
<1>. SUFFICES ASSUME Init PROVE IInv
  OBVIOUS
<1>1. TypeOK
  BY RequestsAssumption DEF Init, TypeOK, ReqStatus, Phase
<1>2. Adding = {}
  BY DEF Init, Adding
<1>3. Cardinality(running) = 0 /\ Cardinality(Adding) = 0 /\ Len(waiting) = 0 /\ Len(scan) = 0
  BY <1>2, FS_EmptySet DEF Init
<1>4. InTransit = 0
  BY DEF Init, InTransit
<1>. QED
  BY <1>1, <1>3, <1>4, LimitsAssumption
     DEF IInv, QueueBoundInv, RunningBound, ScanInsideQueue

(* Every call of a request's thread keeps the types.                       *)
LEMMA CallerType ==
    ASSUME IInv, NEW r \in Requests, Caller(r)
    PROVE  TypeOK'
<1>. USE DEF queue_vars, request_vars, loop_vars, ReqStatus, Phase
<1>. TypeOK
  BY DEF IInv
<1>1. CASE AddRefused(r)
  BY <1>1 DEF AddRefused, TypeOK
<1>2. CASE AddCheck(r)
  <2>1. Cardinality({q \in Requests : phase[q] # "new"}) \in Nat
    BY RequestsAssumption, FS_Subset, FS_CardinalityType
  <2>. QED
    BY <1>2, <2>1 DEF AddCheck, TypeOK
<1>3. CASE AddAppend(r)
  BY <1>3 DEF AddAppend, TypeOK
<1>4. CASE Token(r)
  BY <1>4 DEF Token, TypeOK
<1>5. CASE FinishPop(r)
  BY <1>5, LedgerType DEF FinishPop, TypeOK
<1>6. CASE FinishStore(r)
  BY <1>6 DEF FinishStore, TypeOK
<1>7. CASE FinishMissing(r)
  BY <1>7 DEF FinishMissing, TypeOK
<1>. QED
  BY <1>1, <1>2, <1>3, <1>4, <1>5, <1>6, <1>7 DEF Caller

(* Every step of the engine loop keeps the types.                          *)
LEMMA EngineLoopType ==
    ASSUME IInv, EngineLoop
    PROVE  TypeOK'
<1>. USE DEF queue_vars, request_vars, loop_vars, ReqStatus, Phase
<1>. TypeOK
  BY DEF IInv
<1>1. CASE ScheduleBegin
  BY <1>1, LimitsAssumption DEF ScheduleBegin, TypeOK
<1>2. CASE ScheduleAdmit
  <2>1. waiting # <<>>
    BY <1>2, ScanHead DEF ScheduleAdmit, IInv, ScanInsideQueue
  <2>2. Tail(waiting) \in Seq(Requests)
    BY <2>1, HeadTailProperties DEF TypeOK
  <2>3. /\ Head(scan) \in Requests
        /\ Tail(scan) \in Seq(Requests)
        /\ ScheduleNeed \in Nat
    BY <1>2, ScanHead DEF ScheduleAdmit
  <2>4. used_blocks' \in Nat
    BY <1>2, <2>3 DEF ScheduleAdmit, TypeOK
  <2>5. running' \in SUBSET Requests /\ status' \in [Requests -> ReqStatus]
    BY <1>2, <2>3 DEF ScheduleAdmit, TypeOK
  <2>. QED
    BY <1>2, <2>2, <2>3, <2>4, <2>5 DEF ScheduleAdmit, TypeOK
<1>3. CASE ScheduleSkip
  BY <1>3, ScanHead DEF ScheduleSkip, TypeOK
<1>4. CASE ScheduleEnd
  BY <1>4 DEF ScheduleEnd, TypeOK
<1>5. CASE PreemptPick
  BY <1>5, RequestsAssumption DEF PreemptPick, TypeOK
<1>6. CASE PreemptPop
  BY <1>6, LedgerType DEF PreemptPop, TypeOK
<1>7. CASE PreemptKeyError
  BY <1>7 DEF PreemptKeyError, TypeOK
<1>8. CASE PreemptStore
  <2>1. victim \in Requests
    BY <1>8 DEF PreemptStore, TypeOK
  <2>2. <<victim>> \in Seq(Requests)
    BY <2>1
  <2>3. <<victim>> \o waiting \in Seq(Requests)
    BY <2>2, ConcatProperties DEF TypeOK
  <2>. QED
    BY <1>8, <2>1, <2>3 DEF PreemptStore, Requeue, SwappedOut, TypeOK
<1>. QED
  BY <1>1, <1>2, <1>3, <1>4, <1>5, <1>6, <1>7, <1>8 DEF EngineLoop

-----------------------------------------------------------------------------
(* Counting.  Every count the bounds use is a natural number.              *)
LEMMA Counts ==
    ASSUME TypeOK
    PROVE  /\ IsFiniteSet(running) /\ Cardinality(running) \in Nat
           /\ IsFiniteSet(Adding) /\ Cardinality(Adding) \in Nat
           /\ Cardinality(Finishing) \in Nat
           /\ Len(waiting) \in Nat
           /\ Len(scan) \in Nat
           /\ InTransit \in Nat
<1>1. running \in SUBSET Requests /\ Adding \in SUBSET Requests
                                  /\ Finishing \in SUBSET Requests
  BY DEF TypeOK, Adding, Finishing
<1>2. /\ IsFiniteSet(running) /\ IsFiniteSet(Adding) /\ IsFiniteSet(Finishing)
  BY <1>1, RequestsAssumption, FS_Subset
<1>3. Len(waiting) \in Nat /\ Len(scan) \in Nat
  BY LenProperties DEF TypeOK
<1>. QED
  BY <1>2, <1>3, FS_CardinalityType DEF InTransit

(* A call of a request's thread keeps the three bounds.                    *)
LEMMA CallerBounds ==
    ASSUME IInv, NEW r \in Requests, Caller(r)
    PROVE  QueueBoundInv' /\ RunningBound' /\ ScanInsideQueue'
<1>. USE DEF queue_vars, request_vars, loop_vars
<1>. TypeOK /\ QueueBoundInv /\ RunningBound /\ ScanInsideQueue
  BY DEF IInv
<1>. DEFINE Quiet == UNCHANGED <<waiting, running, sched, scan>>
<1>0. ASSUME Quiet, Adding' = Adding
      PROVE  QueueBoundInv' /\ RunningBound' /\ ScanInsideQueue'
  BY <1>0 DEF QueueBoundInv, RunningBound, ScanInsideQueue, InTransit
<1>1. CASE AddRefused(r)
  <2>1. Adding' = Adding
    BY <1>1 DEF AddRefused, Adding, TypeOK
  <2>. QED
    BY <1>0, <1>1, <2>1 DEF AddRefused
<1>2. CASE AddCheck(r)
  <2>1. Adding' = Adding \cup {r} /\ r \notin Adding
    BY <1>2 DEF AddCheck, Adding, TypeOK
  <2>2. Cardinality(Adding') = Cardinality(Adding) + 1
    BY <2>1, Counts, FS_AddElement
  <2>3. Cardinality(Adding) + InTransit < Callers
    BY <1>2, Counts, LimitsAssumption DEF AddCheck, MayEnter, LoopCalls, InTransit
  <2>4. Len(waiting) + Cardinality(running) <= MaxWaiting - 1
    BY <1>2, Counts, LimitsAssumption DEF AddCheck, Full
  <2>5. QueueBoundInv'
    BY <1>2, <2>2, <2>3, <2>4, Counts, LimitsAssumption
       DEF AddCheck, QueueBoundInv, InTransit
  <2>. QED
    BY <1>2, <2>5 DEF AddCheck, RunningBound, ScanInsideQueue
<1>3. CASE AddAppend(r)
  <2>1. Adding' = Adding \ {r} /\ r \in Adding
    BY <1>3 DEF AddAppend, Adding, TypeOK
  <2>2. Cardinality(Adding') = Cardinality(Adding) - 1
    BY <2>1, Counts, FS_RemoveElement
  <2>3. Len(waiting') = Len(waiting) + 1
    BY <1>3 DEF AddAppend, TypeOK
  <2>. QED
    BY <1>3, <2>2, <2>3, Counts, LimitsAssumption
       DEF AddAppend, QueueBoundInv, RunningBound, ScanInsideQueue, InTransit
<1>4. CASE Token(r)
  BY <1>0, <1>4 DEF Token, Adding
<1>5. CASE FinishPop(r)
  <2>1. Adding' = Adding
    BY <1>5 DEF FinishPop, Adding, TypeOK
  <2>2. Cardinality(running') = Cardinality(running) - 1
    BY <1>5, Counts, FS_RemoveElement DEF FinishPop
  <2>. QED
    BY <1>5, <2>1, <2>2, Counts, LimitsAssumption
       DEF FinishPop, QueueBoundInv, RunningBound, ScanInsideQueue, InTransit
<1>6. CASE FinishStore(r)
  <2>1. Adding' = Adding
    BY <1>6 DEF FinishStore, Adding, TypeOK
  <2>. QED
    BY <1>0, <1>6, <2>1 DEF FinishStore
<1>7. CASE FinishMissing(r)
  <2>1. Adding' = Adding
    BY <1>7 DEF FinishMissing, Adding, TypeOK
  <2>. QED
    BY <1>0, <1>7, <2>1 DEF FinishMissing
<1>. QED
  BY <1>1, <1>2, <1>3, <1>4, <1>5, <1>6, <1>7 DEF Caller

(* A step of the engine loop keeps the three bounds.                       *)
LEMMA EngineLoopBounds ==
    ASSUME IInv, EngineLoop
    PROVE  QueueBoundInv' /\ RunningBound' /\ ScanInsideQueue'
<1>. USE DEF queue_vars, request_vars, loop_vars
<1>. TypeOK /\ QueueBoundInv /\ RunningBound /\ ScanInsideQueue
  BY DEF IInv
<1>0. Adding' = Adding
  <2>1. phase' = phase
    BY DEF EngineLoop, ScheduleBegin, ScheduleAdmit, ScheduleSkip, ScheduleEnd,
           PreemptPick, PreemptPop, PreemptKeyError, PreemptStore
  <2>. QED
    BY <2>1 DEF Adding
<1>1. CASE ScheduleBegin
  BY <1>0, <1>1, Counts
     DEF ScheduleBegin, QueueBoundInv, RunningBound, ScanInsideQueue, InTransit
<1>2. CASE ScheduleAdmit
  <2>1. Len(scan') = Len(scan) - 1 /\ Len(scan) \in Nat \ {0}
    BY <1>2, ScanHead DEF ScheduleAdmit
  <2>2. waiting # <<>>
    BY <2>1, Counts, EmptySeq DEF ScanInsideQueue
  <2>3. Len(waiting') = Len(waiting) - 1
    BY <1>2, <2>2, HeadTailProperties DEF ScheduleAdmit, TypeOK
  <2>9. IsFiniteSet(running) /\ Cardinality(running) \in Nat
    BY Counts
  <2>10. running' = running \cup {Head(scan)}
    BY <1>2 DEF ScheduleAdmit
  <2>11. Cardinality(running') = IF Head(scan) \in running THEN Cardinality(running)
                                                         ELSE Cardinality(running) + 1
    BY <2>9, <2>10, FS_AddElement, Zenon
  <2>4. Cardinality(running') <= Cardinality(running) + 1
    BY <2>9, <2>11
  <2>5. Cardinality(running') \in Nat
    BY <2>9, <2>11
  <2>6. QueueBoundInv'
    <3>1. InTransit' = InTransit
      BY <1>2 DEF ScheduleAdmit, InTransit
    <3>. QED
      BY <1>0, <2>3, <2>4, <2>5, <3>1, Counts, LimitsAssumption DEF QueueBoundInv
  <2>7. RunningBound'
    <3>1. Cardinality(running) < MaxRunning
      BY <1>2, <2>9, LimitsAssumption DEF ScheduleAdmit, BatchFull
    <3>. QED
      BY <2>4, <2>5, <2>9, <3>1, LimitsAssumption DEF RunningBound
  <2>8. ScanInsideQueue'
    BY <2>1, <2>3, Counts DEF ScanInsideQueue
  <2>. QED
    BY <2>6, <2>7, <2>8
<1>3. CASE ScheduleSkip
  <2>1. Len(scan') = Len(scan) - 1
    BY <1>3, ScanHead DEF ScheduleSkip
  <2>. QED
    BY <1>0, <1>3, <2>1, Counts
       DEF ScheduleSkip, QueueBoundInv, RunningBound, ScanInsideQueue, InTransit
<1>4. CASE ScheduleEnd
  <2>1. Len(scan') = 0
    BY <1>4 DEF ScheduleEnd
  <2>. QED
    BY <1>0, <1>4, <2>1, Counts
       DEF ScheduleEnd, QueueBoundInv, RunningBound, ScanInsideQueue, InTransit
<1>5. CASE PreemptPick
  BY <1>0, <1>5
     DEF PreemptPick, QueueBoundInv, RunningBound, ScanInsideQueue, InTransit
<1>6. CASE PreemptPop
  <2>1. Cardinality(running') = Cardinality(running) - 1
    BY <1>6, Counts, FS_RemoveElement DEF PreemptPop
  <2>2. InTransit = 0 /\ InTransit' = 1
    BY <1>6 DEF PreemptPop, InTransit
  <2>. QED
    BY <1>0, <1>6, <2>1, <2>2, Counts, LimitsAssumption
       DEF PreemptPop, QueueBoundInv, RunningBound, ScanInsideQueue
<1>7. CASE PreemptKeyError
  BY <1>0, <1>7
     DEF PreemptKeyError, QueueBoundInv, RunningBound, ScanInsideQueue, InTransit
<1>8. CASE PreemptStore
  <2>1. victim \in Requests
    BY <1>8 DEF PreemptStore, TypeOK
  <2>2. <<victim>> \in Seq(Requests) /\ Len(<<victim>>) = 1
    BY <2>1
  <2>3. Len(waiting') = Len(waiting) + 1
    BY <1>8, <2>2, ConcatProperties DEF PreemptStore, Requeue, TypeOK
  <2>4. InTransit = 1 /\ InTransit' = 0
    BY <1>8 DEF PreemptStore, InTransit
  <2>. QED
    BY <1>0, <1>8, <2>3, <2>4, Counts, LimitsAssumption
       DEF PreemptStore, QueueBoundInv, RunningBound, ScanInsideQueue
<1>. QED
  BY <1>1, <1>2, <1>3, <1>4, <1>5, <1>6, <1>7, <1>8 DEF EngineLoop

(* Every step, stuttering included, keeps the invariant.                   *)
LEMMA NextIInv == IInv /\ [Next]_vars => IInv'
<1>. SUFFICES ASSUME IInv, [Next]_vars PROVE IInv'
  OBVIOUS
<1>1. ASSUME NEW r \in Requests, Caller(r) PROVE IInv'
  BY <1>1, CallerType, CallerBounds DEF IInv
<1>2. CASE EngineLoop
  BY <1>2, EngineLoopType, EngineLoopBounds DEF IInv
<1>3. CASE UNCHANGED vars
  BY <1>3 DEF vars, queue_vars, request_vars, loop_vars, IInv, TypeOK, QueueBoundInv,
              RunningBound, ScanInsideQueue, InTransit, Adding
<1>. QED
  BY <1>1, <1>2, <1>3 DEF Next

(* The inductive invariant holds in every reachable state.                 *)
LEMMA Inductive == Spec => []IInv
  BY InitIInv, NextIInv, PTL DEF Spec

-----------------------------------------------------------------------------
(* The scheduler's state is well typed, for every number of requests and   *)
(* threads (scheduler.py:60-76).                                           *)
THEOREM SchedulerTypes == Spec => []TypeOK
<1>1. IInv => TypeOK
  BY DEF IInv
<1>. QED
  BY <1>1, Inductive, PTL

(* The scheduler holds at most MaxWaiting - 1 + Callers requests: racing   *)
(* threads overshoot add's limit (scheduler.py:83) by at most one each.    *)
THEOREM SchedulerQueueBound == Spec => []QueueBound
<1>1. IInv => QueueBound
  BY Counts, LimitsAssumption DEF IInv, QueueBoundInv, QueueBound
<1>. QED
  BY <1>1, Inductive, PTL

(* Never more than max_running requests run (scheduler.py:97).             *)
THEOREM SchedulerRunningBound == Spec => []RunningBound
<1>1. IInv => RunningBound
  BY DEF IInv
<1>. QED
  BY <1>1, Inductive, PTL

(* schedule never pops an empty deque (scheduler.py:101), for every mix of *)
(* request sizes and every interleaving.                                   *)
THEOREM SchedulerPopSafe == Spec => []ScanInsideQueue
<1>1. IInv => ScanInsideQueue
  BY DEF IInv
<1>. QED
  BY <1>1, Inductive, PTL

-----------------------------------------------------------------------------
(* Where a request is.                                                     *)

\* The blocks that admission takes for r.
Size(r) == Blocks(MaxTokens[r])

\* Preemption starts over, and every request takes as many blocks.
Uniform == Recompute /\ \A q, r \in Requests : Size(q) = Size(r)

\* preempt has taken r out of the running ones and not queued it yet.
Popped(r) == sched = "popped" /\ victim = r

\* A queued request is queued once, is nowhere else, and starts from nothing.
QueueInv ==
    /\ \A i, j \in DOMAIN waiting : waiting[i] = waiting[j] => i = j
    /\ \A r \in Elements(waiting) : r \notin running /\ generated[r] = 0
    /\ \A r \in Requests : Popped(r) => r \notin running /\ r \notin Elements(waiting)

\* The scheduler has a request from its append on.
PhaseInv ==
    /\ \A r \in Requests : phase[r] \in {"new", "adding", "refused"} =>
          /\ r \notin running /\ r \notin Elements(waiting) /\ ~Popped(r)
          /\ generated[r] = 0 /\ status[r] = "waiting"
    /\ \A r \in Requests : phase[r] = "live" =>
          r \in running \/ r \in Elements(waiting) \/ Popped(r)

StatusInv ==
    /\ \A r \in running : status[r] = "running"
    /\ \A r \in Elements(waiting) : status[r] \in {"waiting", "swapped"}

\* What the loop has still to visit is in the deque, and at its left end if
\* the loop admits at all.
ScanInv ==
    sched = "scan" =>
        /\ Elements(scan) \subseteq Elements(waiting)
        /\ (\A r \in Requests : Size(r) <= free) => \A i \in DOMAIN scan : scan[i] = waiting[i]

HeldInv == QueueInv /\ PhaseInv /\ StatusInv /\ ScanInv

\* Requests with a limit of their own.
Limited == \A r \in Requests : MaxTokens[r] > 0

\* No request produces more than was promised to it.
TokensInv == \A r \in Requests : generated[r] <= MaxTokens[r]

-----------------------------------------------------------------------------
(* Where a request of a uniform scheduler is, to begin with.               *)
LEMMA InitHeld == Init => HeldInv
  BY DEF Init, HeldInv, QueueInv, PhaseInv, StatusInv, ScanInv, Elements, Popped

(* The left end of a deque, and what remains.                              *)
LEMMA TailElements ==
    ASSUME NEW s \in Seq(Requests), s # <<>>
    PROVE  /\ 1 \in DOMAIN s /\ Head(s) = s[1]
           /\ Tail(s) \in Seq(Requests)
           /\ \A i \in DOMAIN Tail(s) : i + 1 \in DOMAIN s /\ Tail(s)[i] = s[i + 1] /\ i + 1 # 1
           /\ \A i \in DOMAIN s : i # 1 => i - 1 \in DOMAIN Tail(s) /\ s[i] = Tail(s)[i - 1]
           /\ DOMAIN Tail(s) \subseteq Nat /\ DOMAIN s \subseteq Nat
<1>1. /\ Len(s) \in Nat \ {0} /\ DOMAIN s = 1..Len(s) /\ Tail(s) \in Seq(Requests)
      /\ Len(Tail(s)) = Len(s) - 1 /\ DOMAIN Tail(s) = 1..Len(Tail(s))
      /\ \A i \in 1..Len(Tail(s)) : Tail(s)[i] = s[i + 1]
  BY EmptySeq, LenProperties, HeadTailProperties
<1>2. Head(s) = s[1]
  OBVIOUS
<1>3. \A i \in 1..Len(s) : i # 1 => i - 1 \in 1..Len(s) - 1 /\ (i - 1) + 1 = i
  BY <1>1
<1>4. \A i \in 1..Len(s) - 1 : i + 1 \in 1..Len(s) /\ i + 1 # 1
  BY <1>1
<1>. QED
  BY <1>1, <1>2, <1>3, <1>4

(* What is appended, and what is put to the left end.                      *)
LEMMA AddedElements ==
    ASSUME NEW s \in Seq(Requests), NEW r \in Requests
    PROVE  /\ Elements(Append(s, r)) = Elements(s) \cup {r}
           /\ Elements(<<r>> \o s) = Elements(s) \cup {r}
           /\ DOMAIN s \subseteq DOMAIN Append(s, r) /\ \A i \in DOMAIN s : Append(s, r)[i] = s[i]
           /\ \A i \in DOMAIN Append(s, r) : i \notin DOMAIN s => i = Len(s) + 1 /\ Append(s, r)[i] = r
           /\ \A i \in DOMAIN (<<r>> \o s) :
                 IF i = 1 THEN (<<r>> \o s)[i] = r
                          ELSE i - 1 \in DOMAIN s /\ (<<r>> \o s)[i] = s[i - 1]
           /\ DOMAIN (<<r>> \o s) \subseteq Nat /\ DOMAIN Append(s, r) \subseteq Nat
<1>. DEFINE a == Append(s, r)
            c == <<r>> \o s
<1>1. /\ Len(s) \in Nat /\ DOMAIN s = 1..Len(s)
      /\ DOMAIN a = 1..Len(s) + 1 /\ a[Len(s) + 1] = r
      /\ \A i \in 1..Len(s) : a[i] = s[i]
  BY LenProperties, AppendProperties
<1>2. /\ DOMAIN c = 1..Len(s) + 1
      /\ \A i \in 1..Len(s) + 1 : c[i] = IF i <= 1 THEN r ELSE s[i - 1]
  <2>1. <<r>> \in Seq(Requests) /\ Len(<<r>>) = 1 /\ <<r>>[1] = r
    OBVIOUS
  <2>2. /\ c \in Seq(Requests) /\ Len(c) = 1 + Len(s)
        /\ \A i \in 1..1 + Len(s) : c[i] = IF i <= 1 THEN <<r>>[i] ELSE s[i - 1]
    BY <2>1, ConcatProperties
  <2>3. DOMAIN c = 1..Len(c) /\ 1 + Len(s) = Len(s) + 1
    BY <1>1, <2>2, LenProperties
  <2>4. \A i \in 1..Len(s) + 1 : i <= 1 => i = 1
    OBVIOUS
  <2>. HIDE DEF c
  <2>. QED
    BY <2>1, <2>2, <2>3, <2>4
<1>. HIDE DEF a, c
<1>3. \A i \in 1..Len(s) + 1 : /\ i \in 1..Len(s) \/ i = Len(s) + 1
                               /\ i # 1 => i - 1 \in 1..Len(s) /\ ~(i <= 1)
  BY <1>1
<1>4. \A i \in 1..Len(s) : /\ i \in 1..Len(s) + 1 /\ i + 1 \in 1..Len(s) + 1
                           /\ ~(i + 1 <= 1) /\ (i + 1) - 1 = i
  BY <1>1
<1>5. 1 \in 1..Len(s) + 1 /\ Len(s) + 1 \in 1..Len(s) + 1 /\ 1 <= 1
  BY <1>1
<1>6. Elements(a) = Elements(s) \cup {r}
  BY <1>1, <1>3, <1>4, <1>5 DEF Elements
<1>7. Elements(c) = Elements(s) \cup {r}
  <2>1. c[1] = r /\ \A i \in 1..Len(s) : c[i + 1] = s[i]
    BY <1>2, <1>4, <1>5
  <2>2. \A i \in 1..Len(s) + 1 : i = 1 \/ (i - 1 \in 1..Len(s) /\ c[i] = s[i - 1])
    BY <1>2, <1>3
  <2>3. \A q \in Elements(c) : q = r \/ q \in Elements(s)
    BY <1>1, <1>2, <2>1, <2>2 DEF Elements
  <2>4. \A q \in Elements(s) : q \in Elements(c)
    <3>1. SUFFICES ASSUME NEW i \in 1..Len(s) PROVE s[i] \in Elements(c)
      BY <1>1 DEF Elements
    <3>2. i + 1 \in DOMAIN c /\ c[i + 1] = s[i]
      BY <1>2, <1>4, <2>1
    <3>. QED
      BY <3>2 DEF Elements
  <2>5. r \in Elements(c)
    BY <1>2, <1>5, <2>1 DEF Elements
  <2>. QED
    BY <2>3, <2>4, <2>5
<1>8. \A i \in DOMAIN c : IF i = 1 THEN c[i] = r ELSE i - 1 \in DOMAIN s /\ c[i] = s[i - 1]
  BY <1>1, <1>2, <1>3, <1>5
<1>9. \A i \in DOMAIN a : i \notin DOMAIN s => i = Len(s) + 1 /\ a[i] = r
  BY <1>1, <1>3
<1>10. DOMAIN s \subseteq DOMAIN a /\ \A i \in DOMAIN s : a[i] = s[i]
  BY <1>1, <1>4
<1>11. DOMAIN c \subseteq Nat /\ DOMAIN a \subseteq Nat
  BY <1>1, <1>2
<1>. QED
  BY <1>6, <1>7, <1>8, <1>9, <1>10, <1>11 DEF a, c

(* A call of a request's thread keeps every request in its place.          *)
LEMMA CallerHeld ==
    ASSUME IInv, HeldInv, NEW r \in Requests, Caller(r)
    PROVE  HeldInv'
<1>. USE DEF queue_vars, request_vars, loop_vars
<1>1. /\ phase \in [Requests -> Phase] /\ generated \in [Requests -> Nat]
      /\ status \in [Requests -> ReqStatus] /\ waiting \in Seq(Requests)
      /\ scan \in Seq(Requests) /\ ScanInsideQueue
      /\ running \subseteq Requests /\ Elements(waiting) \subseteq Requests
  BY LenProperties DEF IInv, TypeOK, Elements
<1>2. UNCHANGED <<waiting, scan, sched, free>> => ScanInv'
  BY DEF HeldInv, ScanInv, Elements
<1>3. UNCHANGED <<waiting, running, sched, victim, generated>> => QueueInv'
  BY DEF HeldInv, QueueInv, Elements, Popped
<1>4. UNCHANGED <<waiting, running, status>> => StatusInv'
  BY DEF HeldInv, StatusInv, Elements
<1>5. CASE AddRefused(r) \/ AddCheck(r) \/ FinishStore(r) \/ FinishMissing(r)
  <2>1. UNCHANGED <<waiting, running, sched, victim, generated, status, scan, free>>
    BY <1>5 DEF AddRefused, AddCheck, FinishStore, FinishMissing
  <2>2. \E p \in {"refused", "adding", "done"} :
            /\ phase' = [phase EXCEPT ![r] = p]
            /\ p # "done" => phase[r] = "new"
    BY <1>5 DEF AddRefused, AddCheck, FinishStore, FinishMissing
  <2>3. PhaseInv'
    BY <1>1, <2>1, <2>2 DEF HeldInv, PhaseInv, Popped, Elements
  <2>. QED
    BY <1>2, <1>3, <1>4, <2>1, <2>3 DEF HeldInv
<1>6. CASE AddAppend(r)
  <2>1. /\ phase[r] = "adding" /\ waiting' = Append(waiting, r)
        /\ phase' = [phase EXCEPT ![r] = "live"]
        /\ UNCHANGED <<running, generated, status, scan, sched, free, victim>>
    BY <1>6 DEF AddAppend
  <2>2. Elements(waiting)' = Elements(waiting) \cup {r}
    BY <1>1, <2>1, AddedElements
  <2>3. r \notin running /\ r \notin Elements(waiting) /\ ~Popped(r) /\ generated[r] = 0
        /\ status[r] = "waiting"
    BY <2>1 DEF HeldInv, PhaseInv
  <2>4. /\ \A i \in DOMAIN waiting : i \in DOMAIN waiting' /\ waiting'[i] = waiting[i]
        /\ \A i \in DOMAIN waiting' : i \notin DOMAIN waiting => i = Len(waiting) + 1 /\ waiting'[i] = r
    BY <1>1, <2>1, AddedElements
  <2>5. QueueInv'
    <3>1. \A i \in DOMAIN waiting : waiting[i] # r
      BY <2>3 DEF Elements
    <3>2. \A i, j \in DOMAIN waiting' : waiting'[i] = waiting'[j] => i = j
      BY <2>4, <3>1 DEF HeldInv, QueueInv
    <3>. QED
      BY <2>1, <2>2, <2>3, <3>2 DEF HeldInv, QueueInv, Popped
  <2>6. PhaseInv'
    BY <1>1, <2>1, <2>2 DEF HeldInv, PhaseInv, Popped
  <2>7. StatusInv'
    BY <2>1, <2>2, <2>3 DEF HeldInv, StatusInv
  <2>8. ScanInv'
    <3>1. sched = "scan" /\ (\A q \in Requests : Size(q) <= free) =>
              \A i \in DOMAIN scan : i \in DOMAIN waiting
      BY <1>1, LenProperties DEF ScanInsideQueue
    <3>. QED
      BY <2>1, <2>2, <2>4, <3>1 DEF HeldInv, ScanInv, Elements
  <2>. QED
    BY <2>5, <2>6, <2>7, <2>8 DEF HeldInv
<1>7. CASE Token(r)
  <2>1. /\ r \in running /\ phase[r] = "live"
        /\ generated' = [generated EXCEPT ![r] = @ + 1]
        /\ UNCHANGED <<waiting, running, status, phase, scan, sched, free, victim>>
    BY <1>7 DEF Token
  <2>2. \A q \in Requests : q # r => generated'[q] = generated[q]
    BY <1>1, <2>1
  <2>3. QueueInv'
    BY <1>1, <2>1, <2>2 DEF HeldInv, QueueInv, Popped, Elements
  <2>4. PhaseInv'
    BY <2>1, <2>2 DEF HeldInv, PhaseInv, Popped, Elements
  <2>. QED
    BY <1>2, <1>4, <2>1, <2>3, <2>4 DEF HeldInv
<1>8. CASE FinishPop(r)
  <2>1. /\ phase[r] = "live" /\ running' = running \ {r}
        /\ status' = [status EXCEPT ![r] = "finished"]
        /\ phase' = [phase EXCEPT ![r] = "finishing"]
        /\ UNCHANGED <<waiting, generated, scan, sched, free, victim>>
        /\ r \in running
    BY <1>8 DEF FinishPop
  <2>2. r \notin Elements(waiting)
    BY <2>1 DEF HeldInv, QueueInv
  <2>3. QueueInv'
    BY <2>1 DEF HeldInv, QueueInv, Popped, Elements
  <2>4. PhaseInv'
    BY <1>1, <2>1 DEF HeldInv, PhaseInv, Popped, Elements
  <2>5. StatusInv'
    BY <1>1, <2>1, <2>2 DEF HeldInv, StatusInv, Elements
  <2>. QED
    BY <1>2, <2>1, <2>3, <2>4, <2>5 DEF HeldInv
<1>. QED
  BY <1>5, <1>6, <1>7, <1>8 DEF Caller

(* A step of the engine loop keeps every request in its place: what        *)
(* schedule pops is what it admits.                                        *)
LEMMA EngineHeld ==
    ASSUME Uniform, IInv, HeldInv, EngineLoop
    PROVE  HeldInv'
<1>. USE DEF queue_vars, request_vars, loop_vars
<1>1. /\ phase \in [Requests -> Phase] /\ generated \in [Requests -> Nat]
      /\ status \in [Requests -> ReqStatus] /\ waiting \in Seq(Requests) /\ scan \in Seq(Requests)
      /\ running \subseteq Requests /\ Elements(waiting) \subseteq Requests
      /\ TypeOK /\ ScanInsideQueue
  BY LenProperties DEF IInv, TypeOK, Elements
<1>2. \A q \in Requests : Size(q) \in Nat
  BY BlocksType, LimitsAssumption DEF Size
<1>3. /\ UNCHANGED <<waiting, running, generated>> => QueueInv' \/ sched' = "popped"
      /\ UNCHANGED <<waiting, running, status>> => StatusInv'
      /\ sched' # "scan" => ScanInv'
  BY DEF HeldInv, QueueInv, StatusInv, ScanInv, Elements, Popped
<1>4. ASSUME UNCHANGED <<waiting, running, generated, status, phase>>,
             sched # "popped", sched' # "popped"
      PROVE  PhaseInv' /\ StatusInv' /\ QueueInv'
  BY <1>4 DEF HeldInv, PhaseInv, StatusInv, QueueInv, Popped, Elements
<1>5. CASE ScheduleBegin
  <2>1. ScanInv'
    BY <1>5 DEF ScheduleBegin, ScanInv, Elements
  <2>. QED
    BY <1>4, <1>5, <2>1 DEF ScheduleBegin, HeldInv
<1>6. ASSUME sched = "scan", scan # <<>>
      PROVE  /\ Head(scan) \in Requests /\ Head(scan) \in Elements(waiting)
             /\ ScheduleNeed = Size(Head(scan))
             /\ Elements(Tail(scan)) \subseteq Elements(scan)
  <2>1. Head(scan) \in Elements(scan)
    BY <1>1, <1>6, TailElements DEF Elements
  <2>2. Head(scan) \in Requests /\ Head(scan) \in Elements(waiting)
    BY <1>1, <1>6, <2>1 DEF HeldInv, ScanInv
  <2>3. generated[Head(scan)] = 0
    BY <2>2 DEF HeldInv, QueueInv
  <2>4. MaxTokens[Head(scan)] \in Nat
    BY <2>2, LimitsAssumption
  <2>5. ScheduleNeed = Size(Head(scan))
    BY <2>3, <2>4 DEF ScheduleNeed, BlocksNeeded, Size
  <2>6. Elements(Tail(scan)) \subseteq Elements(scan)
    BY <1>1, <1>6, TailElements DEF Elements
  <2>. QED
    BY <2>2, <2>5, <2>6
<1>7. CASE ScheduleSkip
  <2>1. /\ sched = "scan" /\ scan # <<>> /\ ScheduleNeed > free /\ scan' = Tail(scan)
        /\ UNCHANGED <<waiting, running, generated, status, phase, sched, free>>
    BY <1>7 DEF ScheduleSkip
  <2>2. ~(Size(Head(scan)) <= free) /\ Head(scan) \in Requests
    BY <1>1, <1>2, <1>6, <2>1 DEF TypeOK
  <2>3. ScanInv'
    BY <1>6, <2>1, <2>2 DEF HeldInv, ScanInv, Elements
  <2>. QED
    BY <1>4, <2>1, <2>3 DEF HeldInv
<1>8. CASE ScheduleEnd
  BY <1>3, <1>4, <1>8 DEF ScheduleEnd, HeldInv
<1>9. CASE PreemptKeyError
  BY <1>3, <1>4, <1>9 DEF PreemptKeyError, HeldInv
<1>10. CASE PreemptPick
  BY <1>3, <1>4, <1>10 DEF PreemptPick, HeldInv
<1>11. CASE ScheduleAdmit
  <2>1. /\ sched = "scan" /\ scan # <<>> /\ ScheduleNeed <= free
        /\ waiting' = Tail(waiting) /\ scan' = Tail(scan)
        /\ status' = [status EXCEPT ![Head(scan)] = "running"]
        /\ running' = running \cup {Head(scan)}
        /\ UNCHANGED <<generated, phase, sched, free, victim>>
    BY <1>11 DEF ScheduleAdmit
  <2>. DEFINE h == Head(scan)
  <2>2. h \in Requests /\ Size(h) <= free
    BY <1>6, <2>1
  <2>3. \A q \in Requests : Size(q) <= free
    BY <2>2 DEF Uniform
  <2>4. waiting # <<>>
    BY <1>1, <2>1, EmptySeq, LenProperties DEF ScanInsideQueue
  <2>5. h = scan[1] /\ 1 \in DOMAIN scan
    BY <1>1, <2>1, TailElements
  <2>6. /\ 1 \in DOMAIN waiting
        /\ \A i \in DOMAIN Tail(waiting) :
              i + 1 \in DOMAIN waiting /\ Tail(waiting)[i] = waiting[i + 1] /\ i + 1 # 1
        /\ \A i \in DOMAIN waiting : i # 1 => i - 1 \in DOMAIN Tail(waiting)
                                              /\ waiting[i] = Tail(waiting)[i - 1]
        /\ DOMAIN Tail(waiting) \subseteq Nat
    BY <1>1, <2>4, TailElements
  <2>7. waiting[1] = h
    BY <2>1, <2>3, <2>5 DEF HeldInv, ScanInv
  <2>8. Elements(waiting)' = Elements(waiting) \ {h}
    <3>. HIDE DEF h
    <3>1. \A i \in DOMAIN waiting : i # 1 => waiting[i] # h
      BY <2>6, <2>7 DEF HeldInv, QueueInv
    <3>2. \A i \in DOMAIN Tail(waiting) : Tail(waiting)[i] \in Elements(waiting) \ {h}
      BY <2>6, <3>1 DEF Elements
    <3>3. \A q \in Elements(waiting) \ {h} : q \in Elements(Tail(waiting))
      BY <2>6, <2>7 DEF Elements
    <3>. QED
      BY <2>1, <3>2, <3>3 DEF Elements
  <2>9. h \in Elements(waiting)
    BY <2>6, <2>7 DEF Elements
  <2>. HIDE DEF h
  <2>10. QueueInv'
    <3>1. \A i, j \in DOMAIN Tail(waiting) : i + 1 = j + 1 => i = j
      BY <2>6
    <3>2. \A i, j \in DOMAIN waiting' : waiting'[i] = waiting'[j] => i = j
      BY <2>1, <2>6, <3>1 DEF HeldInv, QueueInv
    <3>3. \A q \in Requests : ~Popped(q)'
      BY <2>1 DEF Popped
    <3>. QED
      BY <2>1, <2>8, <3>2, <3>3 DEF HeldInv, QueueInv, h
  <2>11. PhaseInv'
    <3>1. status' = [status EXCEPT ![h] = "running"] /\ running' = running \cup {h}
      BY <2>1 DEF h
    <3>2. phase[h] \notin {"new", "adding", "refused"}
      BY <2>2, <2>9 DEF HeldInv, PhaseInv
    <3>. QED
      BY <1>1, <2>1, <2>8, <3>1, <3>2 DEF HeldInv, PhaseInv, Popped
  <2>12. StatusInv'
    <3>1. status' = [status EXCEPT ![h] = "running"] /\ running' = running \cup {h}
      BY <2>1 DEF h
    <3>. QED
      BY <1>1, <2>2, <2>8, <3>1 DEF HeldInv, StatusInv
  <2>13. ScanInv'
    <3>1. \A i \in DOMAIN Tail(scan) : i + 1 \in DOMAIN scan /\ Tail(scan)[i] = scan[i + 1]
                                       /\ i + 1 # 1 /\ i \in Nat
      BY <1>1, <2>1, TailElements
    <3>2. DOMAIN scan \subseteq DOMAIN waiting
      BY <1>1, LenProperties DEF ScanInsideQueue
    <3>3. \A i \in DOMAIN Tail(scan) : i \in DOMAIN Tail(waiting) /\ Tail(scan)[i] = Tail(waiting)[i]
      <4>. SUFFICES ASSUME NEW i \in DOMAIN Tail(scan)
                    PROVE  i \in DOMAIN Tail(waiting) /\ Tail(scan)[i] = Tail(waiting)[i]
        OBVIOUS
      <4>1. i + 1 \in DOMAIN waiting /\ waiting[i + 1] = scan[i + 1] /\ i + 1 # 1
        BY <2>1, <2>3, <3>1, <3>2 DEF HeldInv, ScanInv
      <4>2. (i + 1) - 1 = i
        BY <3>1
      <4>. QED
        BY <2>6, <3>1, <4>1, <4>2
    <3>. QED
      BY <2>1, <3>3 DEF ScanInv, Elements
  <2>. QED
    BY <2>10, <2>11, <2>12, <2>13 DEF HeldInv
<1>12. CASE PreemptPop
  <2>1. /\ sched = "picked" /\ sched' = "popped" /\ victim \in running
        /\ running' = running \ {victim}
        /\ UNCHANGED <<waiting, generated, status, phase, victim>>
    BY <1>12 DEF PreemptPop
  <2>2. QueueInv'
    BY <2>1 DEF HeldInv, QueueInv, Popped, Elements
  <2>3. PhaseInv'
    BY <1>1, <2>1 DEF HeldInv, PhaseInv, Popped, Elements
  <2>4. StatusInv'
    BY <2>1 DEF HeldInv, StatusInv, Elements
  <2>. QED
    BY <1>3, <2>1, <2>2, <2>3, <2>4 DEF HeldInv
<1>13. CASE PreemptStore
  <2>1. /\ sched = "popped" /\ sched' = "idle"
        /\ generated' = [generated EXCEPT ![victim] = 0]
        /\ status' = [status EXCEPT ![victim] = "swapped"]
        /\ waiting' = <<victim>> \o waiting
        /\ UNCHANGED <<running, phase>>
    BY <1>13 DEF PreemptStore, Requeue, SwappedOut, Uniform
  <2>2. victim \in Requests /\ Popped(victim)
    BY <1>1, <2>1 DEF TypeOK, Popped
  <2>3. Elements(waiting)' = Elements(waiting) \cup {victim}
    BY <1>1, <2>1, <2>2, AddedElements
  <2>4. victim \notin running /\ victim \notin Elements(waiting)
        /\ phase[victim] \notin {"new", "adding", "refused"}
    BY <2>2 DEF HeldInv, QueueInv, PhaseInv
  <2>5. QueueInv'
    <3>1. /\ \A i \in DOMAIN waiting' : IF i = 1 THEN waiting'[i] = victim
                                        ELSE i - 1 \in DOMAIN waiting /\ waiting'[i] = waiting[i - 1]
          /\ DOMAIN waiting' \subseteq Nat
      BY <1>1, <2>1, <2>2, AddedElements
    <3>2. \A i \in DOMAIN waiting : waiting[i] # victim
      BY <2>4 DEF Elements
    <3>3. \A i, j \in DOMAIN waiting' : i - 1 = j - 1 => i = j
      BY <3>1
    <3>4. \A i, j \in DOMAIN waiting' : waiting'[i] = waiting'[j] => i = j
      BY <3>1, <3>2, <3>3 DEF HeldInv, QueueInv
    <3>5. \A q \in Requests : ~Popped(q)'
      BY <2>1 DEF Popped
    <3>6. generated'[victim] = 0 /\ \A q \in Elements(waiting) : generated'[q] = 0
      BY <1>1, <2>1, <2>2 DEF HeldInv, QueueInv
    <3>7. \A q \in Elements(waiting)' : q \notin running' /\ generated'[q] = 0
      BY <2>1, <2>3, <2>4, <3>6 DEF HeldInv, QueueInv
    <3>. QED
      BY <3>4, <3>5, <3>7 DEF QueueInv
  <2>6. PhaseInv'
    BY <1>1, <2>1, <2>2, <2>3, <2>4 DEF HeldInv, PhaseInv, Popped
  <2>7. StatusInv'
    BY <1>1, <2>1, <2>2, <2>3, <2>4 DEF HeldInv, StatusInv
  <2>. QED
    BY <1>3, <2>1, <2>5, <2>6, <2>7 DEF HeldInv
<1>. QED
  BY <1>5, <1>7, <1>8, <1>9, <1>10, <1>11, <1>12, <1>13 DEF EngineLoop
(* Every request of a uniform scheduler stays in its place.                *)
LEMMA HeldHolds == ASSUME Uniform PROVE Spec => []HeldInv
<1>1. IInv /\ HeldInv /\ [Next]_vars => HeldInv'
  <2>. SUFFICES ASSUME IInv, HeldInv, [Next]_vars PROVE HeldInv'
    OBVIOUS
  <2>1. ASSUME NEW r \in Requests, Caller(r) PROVE HeldInv'
    BY <2>1, CallerHeld
  <2>2. CASE EngineLoop
    BY <2>2, EngineHeld
  <2>3. CASE UNCHANGED vars
    BY <2>3 DEF vars, queue_vars, request_vars, loop_vars, HeldInv, QueueInv, PhaseInv,
                StatusInv, ScanInv, Elements, Popped
  <2>. QED
    BY <2>1, <2>2, <2>3 DEF Next
<1>. QED
  BY <1>1, InitHeld, Inductive, PTL DEF Spec

(* A deque that holds nothing twice has a request at most at one place.    *)
LEMMA PlacesOf ==
    ASSUME TypeOK, QueueInv, NEW r \in Requests
    PROVE  Places(r) = IF r \in running \/ r \in Elements(waiting) \/ Popped(r) THEN 1 ELSE 0
<1>. DEFINE At == {i \in DOMAIN waiting : waiting[i] = r}
<1>1. CASE r \in Elements(waiting)
  <2>1. PICK i \in DOMAIN waiting : waiting[i] = r
    BY <1>1 DEF Elements
  <2>2. At = {i}
    BY <2>1 DEF QueueInv
  <2>3. Cardinality(At) = 1
    BY <2>2, FS_Singleton
  <2>4. r \notin running /\ ~Popped(r)
    BY <1>1 DEF QueueInv
  <2>. QED
    BY <1>1, <2>3, <2>4 DEF Places, Popped
<1>2. CASE r \notin Elements(waiting)
  <2>1. At = {}
    BY <1>2 DEF Elements
  <2>2. Cardinality(At) = 0
    BY <2>1, FS_EmptySet
  <2>3. ~(Popped(r) /\ r \in running)
    BY DEF QueueInv
  <2>. QED
    BY <1>2, <2>2, <2>3 DEF Places, Popped
<1>. QED
  BY <1>1, <1>2

(* A request of a uniform scheduler is held exactly once from its append   *)
(* until its caller finishes it, and its status says where it is           *)
(* (scheduler.py:85-127): no interleaving loses or duplicates one.         *)
THEOREM SchedulerHeldExactlyOnce == ASSUME Uniform PROVE Spec => []HeldExactlyOnce
<1>1. IInv /\ HeldInv => HeldExactlyOnce
  <2>. SUFFICES ASSUME IInv, HeldInv PROVE HeldExactlyOnce
    OBVIOUS
  <2>1. \A r \in Requests :
            Places(r) = IF r \in running \/ r \in Elements(waiting) \/ Popped(r) THEN 1 ELSE 0
    BY PlacesOf DEF IInv, HeldInv
  <2>. QED
    BY <2>1 DEF HeldInv, PhaseInv, StatusInv, HeldExactlyOnce
<1>. QED
  BY <1>1, Inductive, HeldHolds, PTL
-----------------------------------------------------------------------------
(* The reservation ledger.                                                 *)

(* A product grows with its second factor.                                 *)
LEMMA Times ==
    ASSUME NEW l \in Nat, NEW k \in Nat, NEW m \in Nat
    PROVE  l * k \in Nat /\ l * (k + 1) = l * k + l /\ (k <= m => l * k <= l * m)
<1>1. l * k \in Nat /\ l * (k + 1) = l * k + l
  OBVIOUS
<1>2. ASSUME k <= m PROVE l * k <= l * m
  <2>1. m - k \in Nat /\ l * (m - k) \in Nat
    BY <1>2
  <2>2. l * m = l * k + l * (m - k)
    OBVIOUS
  <2>. QED
    BY <1>1, <2>1, <2>2
<1>. QED
  BY <1>1, <1>2

(* More tokens never take fewer blocks.                                    *)
LEMMA BlocksGrow ==
    ASSUME NEW a \in Nat, NEW b \in Nat, a <= b
    PROVE  Blocks(a) <= Blocks(b)
<1>. DEFINE p == Blocks(a)
            q == Blocks(b)
<1>1. BlockSize \in Nat \ {0} /\ a + BlockSize - 1 \in Nat /\ b + BlockSize - 1 \in Nat
  BY LimitsAssumption
<1>2. /\ p \in Nat /\ BlockSize * p <= a + BlockSize - 1
      /\ q \in Nat /\ b + BlockSize - 1 < BlockSize * q + BlockSize
  BY <1>1 DEF Blocks
<1>. HIDE DEF p, q
<1>3. ASSUME q + 1 <= p PROVE FALSE
  <2>1. BlockSize * (q + 1) <= BlockSize * p /\ BlockSize * (q + 1) = BlockSize * q + BlockSize
    BY <1>1, <1>2, <1>3, Times
  <2>2. BlockSize * q \in Nat /\ BlockSize * p \in Nat
    BY <1>1, <1>2, Times
  <2>. QED
    BY <1>1, <1>2, <2>1, <2>2
<1>4. p <= q
  BY <1>2, <1>3
<1>. QED
  BY <1>4 DEF p, q

\* The blocks promised to r, and to each request of S.
Own(r) == {r} \X (1..Size(r))
Owned(S) == UNION {Own(r) : r \in S}

(* A request's own blocks are as many as its size.                         *)
LEMMA OwnCount ==
    ASSUME NEW r \in Requests
    PROVE  Size(r) \in Nat /\ IsFiniteSet(Own(r)) /\ Cardinality(Own(r)) = Size(r)
<1>1. Size(r) \in Nat
  BY BlocksType, LimitsAssumption DEF Size
<1>2. IsFiniteSet(1..Size(r)) /\ Cardinality(1..Size(r)) = Size(r)
  <2>1. /\ IsFiniteSet(1..Size(r))
        /\ Cardinality(1..Size(r)) = IF 1 > Size(r) THEN 0 ELSE Size(r) - 1 + 1
    BY <1>1, FS_Interval
  <2>. QED
    BY <1>1, <2>1
<1>3. IsFiniteSet({r}) /\ Cardinality({r}) = 1
  BY FS_Singleton
<1>4. IsFiniteSet(Own(r)) /\ Cardinality(Own(r)) = 1 * Size(r)
  BY <1>2, <1>3, FS_Product DEF Own
<1>. QED
  BY <1>1, <1>4

(* Finitely many requests own finitely many blocks.                        *)
LEMMA OwnedFinite ==
    ASSUME NEW S \in SUBSET Requests
    PROVE  IsFiniteSet(Owned(S)) /\ Promised(S) = Cardinality(Owned(S)) /\ Promised(S) \in Nat
<1>1. IsFiniteSet(S)
  BY RequestsAssumption, FS_Subset
<1>. DEFINE T == {Own(r) : r \in S}
            f == [r \in S |-> Own(r)]
<1>2. f \in Surjection(S, T)
  BY DEF Surjection
<1>3. IsFiniteSet(T)
  BY <1>1, <1>2, FS_Surjection
<1>4. \A t \in T : IsFiniteSet(t)
  BY OwnCount
<1>5. IsFiniteSet(UNION T)
  BY <1>3, <1>4, FS_UNION
<1>6. Promised(S) = Cardinality(Owned(S))
  BY DEF Promised, Owned, Own, Size
<1>. QED
  BY <1>5, <1>6, FS_CardinalityType DEF Owned

(* One request more takes its size more.                                   *)
LEMMA PromisedOne ==
    ASSUME NEW S \in SUBSET Requests, NEW r \in Requests
    PROVE  /\ r \notin S => Promised(S \cup {r}) = Promised(S) + Size(r)
           /\ r \in S => Promised(S \ {r}) = Promised(S) - Size(r)
           /\ Promised(S \cup {r}) <= Promised(S) + Size(r)
           /\ Promised(S) \in Nat /\ Size(r) \in Nat
<1>1. ASSUME NEW T \in SUBSET Requests, r \notin T
      PROVE  Promised(T \cup {r}) = Promised(T) + Size(r)
  <2>1. Owned(T \cup {r}) = Owned(T) \cup Own(r)
    BY DEF Owned
  <2>2. Owned(T) \cap Own(r) = {}
    BY <1>1 DEF Owned, Own
  <2>3. /\ IsFiniteSet(Owned(T)) /\ Promised(T) = Cardinality(Owned(T)) /\ Promised(T) \in Nat
        /\ IsFiniteSet(Own(r)) /\ Cardinality(Own(r)) = Size(r) /\ Size(r) \in Nat
    BY OwnedFinite, OwnCount
  <2>4. Promised(T \cup {r}) = Cardinality(Owned(T) \cup Own(r))
    <3>1. T \cup {r} \in SUBSET Requests
      OBVIOUS
    <3>. QED
      BY <2>1, <3>1, OwnedFinite
  <2>5. Cardinality(Owned(T) \cup Own(r))
            = Cardinality(Owned(T)) + Cardinality(Own(r)) - Cardinality({})
    BY <2>2, <2>3, FS_Union
  <2>. QED
    BY <2>3, <2>4, <2>5, FS_EmptySet
<1>2. Promised(S) \in Nat /\ Size(r) \in Nat
  BY OwnedFinite, OwnCount
<1>3. ASSUME r \in S PROVE Promised(S \ {r}) = Promised(S) - Size(r)
  <2>1. (S \ {r}) \cup {r} = S /\ S \ {r} \in SUBSET Requests
    BY <1>3
  <2>2. Promised(S) = Promised(S \ {r}) + Size(r)
    BY <1>1, <2>1
  <2>3. Promised(S \ {r}) \in Nat
    BY <2>1, OwnedFinite
  <2>. QED
    BY <1>2, <2>2, <2>3
<1>4. ASSUME r \in S PROVE S \cup {r} = S
  BY <1>4
<1>. QED
  BY <1>1, <1>2, <1>3, <1>4
\* No two calls are in progress.
Turns == Cardinality(Adding) + Cardinality(Finishing) + LoopCalls <= 1

\* The ledger covers the promises, and so does what is about to be stored.
Covers ==
    /\ used_blocks >= Promised(running)
    /\ \A r \in Finishing : ledger[r] >= Promised(running)
    /\ sched = "popped" => victim_ledger >= Promised(running)

CoverInv == TokensInv /\ (alone => Turns /\ Covers)

(* Where at most one call is in progress, one excludes the others.         *)
LEMMA OneOfAll ==
    ASSUME NEW A \in SUBSET Requests, NEW F \in SUBSET Requests, NEW n \in {0, 1},
           Cardinality(A) + Cardinality(F) + n <= 1
    PROVE  /\ n = 1 => F = {} /\ A = {}
           /\ \A r \in F : F = {r} /\ A = {} /\ n = 0
           /\ \A r \in A : A = {r} /\ F = {} /\ n = 0
<1>1. /\ IsFiniteSet(A) /\ Cardinality(A) \in Nat
      /\ IsFiniteSet(F) /\ Cardinality(F) \in Nat
  BY RequestsAssumption, FS_Subset, FS_CardinalityType
<1>2. ASSUME NEW S, IsFiniteSet(S), Cardinality(S) <= 1, NEW r \in S PROVE S = {r} /\ Cardinality(S) = 1
  <2>1. Cardinality(S) \in Nat /\ Cardinality(S) # 0
    BY <1>2, FS_EmptySet, FS_CardinalityType
  <2>2. Cardinality(S) = 1
    BY <1>2, <2>1
  <2>. QED
    BY <1>2, <2>2, FS_Singleton
<1>3. /\ Cardinality(A) <= 1 /\ Cardinality(F) <= 1
      /\ Cardinality(A) = 1 => Cardinality(F) = 0 /\ n = 0
      /\ Cardinality(F) = 1 => Cardinality(A) = 0 /\ n = 0
      /\ n = 1 => Cardinality(A) = 0 /\ Cardinality(F) = 0
  BY <1>1
<1>4. /\ \A r \in A : A = {r} /\ Cardinality(A) = 1
      /\ \A r \in F : F = {r} /\ Cardinality(F) = 1
  BY <1>1, <1>2, <1>3
<1>5. /\ Cardinality(A) = 0 => A = {}
      /\ Cardinality(F) = 0 => F = {}
  BY <1>1, FS_EmptySet
<1>. QED
  BY <1>3, <1>4, <1>5

(* Callers that take turns are never two.                                  *)
LEMMA OneCall ==
    /\ Turns => /\ sched # "idle" => Finishing = {} /\ Adding = {}
                /\ \A r \in Finishing : Finishing = {r} /\ Adding = {} /\ sched = "idle"
                /\ \A r \in Adding : Adding = {r} /\ Finishing = {} /\ sched = "idle"
    /\ Turns' => /\ \A r \in Finishing' : Finishing' = {r} /\ Adding' = {} /\ sched' = "idle"
                 /\ \A r \in Adding' : Adding' = {r} /\ Finishing' = {} /\ sched' = "idle"
<1>1. Adding \in SUBSET Requests /\ Finishing \in SUBSET Requests
  BY DEF Adding, Finishing
<1>2. Adding' \in SUBSET Requests /\ Finishing' \in SUBSET Requests
  BY DEF Adding, Finishing
<1>3. /\ LoopCalls \in {0, 1} /\ (LoopCalls = 0 <=> sched = "idle")
      /\ LoopCalls' \in {0, 1} /\ (LoopCalls' = 0 <=> sched' = "idle")
  BY DEF LoopCalls
<1>4. Turns => /\ LoopCalls = 1 => Finishing = {} /\ Adding = {}
               /\ \A r \in Finishing : Finishing = {r} /\ Adding = {} /\ LoopCalls = 0
               /\ \A r \in Adding : Adding = {r} /\ Finishing = {} /\ LoopCalls = 0
  BY <1>1, <1>3, OneOfAll DEF Turns
<1>5. Turns' => /\ \A r \in Finishing' : Finishing' = {r} /\ Adding' = {} /\ LoopCalls' = 0
                /\ \A r \in Adding' : Adding' = {r} /\ Finishing' = {} /\ LoopCalls' = 0
  BY <1>2, <1>3, OneOfAll DEF Turns
<1>. QED
  BY <1>3, <1>4, <1>5

(* Every step of the watched specification is one of the scheduler's.      *)
LEMMA Watched ==
    ASSUME [MCNext]_<<vars, alone>>
    PROVE  /\ [Next]_vars
           /\ alone' => alone /\ (Turns' \/ UNCHANGED vars)
<1>1. CASE UNCHANGED <<vars, alone>>
  BY <1>1
<1>2. CASE MCNext
  <2>1. Next /\ Watch
    BY <1>2 DEF MCNext, Next, Caller, EngineLoop
  <2>. QED
    BY <2>1 DEF Watch, Turns
<1>. QED
  BY <1>1, <1>2

(* No request with a limit produces more than the limit.                   *)
LEMMA TokensKept ==
    ASSUME Limited, IInv, TokensInv, [Next]_vars
    PROVE  TokensInv'
<1>1. generated \in [Requests -> Nat] /\ MaxTokens \in [Requests -> Nat] /\ TypeOK
  BY LimitsAssumption DEF IInv, TypeOK
<1>2. ASSUME NEW r \in Requests, Token(r) PROVE TokensInv'
  <2>1. generated[r] < MaxTokens[r] /\ generated' = [generated EXCEPT ![r] = @ + 1]
    BY <1>2 DEF Token, TokenLimit, Limited
  <2>2. generated[r] + 1 <= MaxTokens[r]
    BY <1>1, <2>1
  <2>. QED
    BY <1>1, <2>1, <2>2 DEF TokensInv
<1>3. CASE PreemptStore
  <2>1. generated' = [generated EXCEPT ![victim] = 0] \/ generated' = generated
    BY <1>3 DEF PreemptStore
  <2>2. \A r \in Requests : 0 <= MaxTokens[r]
    BY <1>1
  <2>. QED
    BY <1>1, <2>1, <2>2 DEF TokensInv
<1>4. CASE UNCHANGED generated
  BY <1>4 DEF TokensInv
<1>5. UNCHANGED generated \/ PreemptStore \/ \E r \in Requests : Token(r)
  BY DEF Next, Caller, AddRefused, AddCheck, AddAppend, FinishPop, FinishStore, FinishMissing,
         EngineLoop, ScheduleBegin, ScheduleAdmit, ScheduleSkip, ScheduleEnd, PreemptPick,
         PreemptPop, PreemptKeyError, vars, queue_vars, request_vars, loop_vars
<1>. QED
  BY <1>2, <1>3, <1>4, <1>5

(* Giving back what was produced leaves what the others were promised.     *)
LEMMA LedgerCovers ==
    ASSUME IInv, TokensInv, used_blocks >= Promised(running), NEW r \in running
    PROVE  /\ LedgerWithout(r) >= Promised(running \ {r})
           /\ used_blocks >= Promised(running \ {r})
<1>1. /\ running \in SUBSET Requests /\ r \in Requests /\ used_blocks \in Nat
      /\ generated[r] \in Nat /\ MaxTokens[r] \in Nat
  BY LimitsAssumption DEF IInv, TypeOK
<1>2. /\ Promised(running \ {r}) = Promised(running) - Size(r)
      /\ Promised(running) \in Nat /\ Size(r) \in Nat
  BY <1>1, PromisedOne
<1>3. BlocksNeeded(r, 0) <= Size(r) /\ BlocksNeeded(r, 0) \in Nat
  <2>1. generated[r] + 0 = generated[r] /\ generated[r] <= MaxTokens[r]
    BY <1>1 DEF TokensInv
  <2>. QED
    BY <1>1, <2>1, BlocksGrow, BlocksType DEF BlocksNeeded, Size
<1>4. Promised(running \ {r}) \in Nat
  <2>1. running \ {r} \in SUBSET Requests
    BY <1>1
  <2>. QED
    BY <2>1, OwnedFinite
<1>. QED
  BY <1>1, <1>2, <1>3, <1>4 DEF LedgerWithout
(* A call of a request's thread keeps the promises covered.                *)
LEMMA CallerCovers ==
    ASSUME IInv, IInv', TokensInv, Turns, Turns', Covers, NEW r \in Requests, Caller(r)
    PROVE  Covers'
<1>. USE DEF queue_vars, request_vars, loop_vars
<1>1. /\ phase \in [Requests -> Phase] /\ ledger \in [Requests -> Nat] /\ TypeOK /\ TypeOK'
  BY DEF IInv, TypeOK
<1>2. CASE AddRefused(r) \/ AddCheck(r) \/ AddAppend(r) \/ Token(r) \/ FinishMissing(r)
  <2>1. UNCHANGED <<running, used_blocks, ledger, sched, victim_ledger>>
    BY <1>2 DEF AddRefused, AddCheck, AddAppend, Token, FinishMissing
  <2>2. Finishing' = Finishing
    BY <1>1, <1>2 DEF AddRefused, AddCheck, AddAppend, Token, FinishMissing, Finishing
  <2>. QED
    BY <2>1, <2>2 DEF Covers
<1>3. CASE FinishPop(r)
  <2>1. /\ r \in running /\ running' = running \ {r}
        /\ ledger' = [ledger EXCEPT ![r] = LedgerWithout(r)]
        /\ phase' = [phase EXCEPT ![r] = "finishing"]
        /\ UNCHANGED used_blocks
    BY <1>3 DEF FinishPop
  <2>2. r \in Finishing'
    BY <1>1, <2>1 DEF Finishing
  <2>3. Finishing' = {r} /\ sched' = "idle"
    BY <1>1, <2>2, OneCall
  <2>4. ledger'[r] = LedgerWithout(r)
    BY <1>1, <2>1
  <2>. QED
    BY <2>1, <2>3, <2>4, LedgerCovers DEF Covers
<1>4. CASE FinishStore(r)
  <2>1. /\ phase[r] = "finishing" /\ used_blocks' = ledger[r]
        /\ ledger' = [ledger EXCEPT ![r] = 0] /\ phase' = [phase EXCEPT ![r] = "done"]
        /\ UNCHANGED <<running, sched, victim_ledger>>
    BY <1>4 DEF FinishStore
  <2>2. r \in Finishing
    BY <2>1 DEF Finishing
  <2>3. Finishing' = {}
    BY <1>1, <2>1, <2>2, OneCall DEF Finishing
  <2>. QED
    BY <2>1, <2>2, <2>3 DEF Covers
<1>. QED
  BY <1>2, <1>3, <1>4 DEF Caller

(* A step of the engine loop keeps the promises covered.                   *)
LEMMA EngineCovers ==
    ASSUME IInv, TokensInv, Turns, Covers, EngineLoop
    PROVE  Covers'
<1>. USE DEF queue_vars, request_vars, loop_vars
<1>1. /\ running \in SUBSET Requests /\ used_blocks \in Nat /\ TypeOK
      /\ generated \in [Requests -> Nat] /\ MaxTokens \in [Requests -> Nat]
  BY LimitsAssumption DEF IInv, TypeOK
<1>2. Finishing' = Finishing /\ ledger' = ledger
  BY DEF EngineLoop, ScheduleBegin, ScheduleAdmit, ScheduleSkip, ScheduleEnd,
         PreemptPick, PreemptPop, PreemptKeyError, PreemptStore, Finishing
<1>3. CASE \/ ScheduleBegin \/ ScheduleSkip \/ ScheduleEnd \/ PreemptPick \/ PreemptKeyError
  <2>1. UNCHANGED <<running, used_blocks, victim_ledger>> /\ sched' # "popped"
    BY <1>3 DEF ScheduleBegin, ScheduleSkip, ScheduleEnd, PreemptPick, PreemptKeyError
  <2>. QED
    BY <1>2, <2>1 DEF Covers
<1>4. CASE ScheduleAdmit
  <2>. DEFINE h == Head(scan)
  <2>1. /\ sched = "scan" /\ scan # <<>> /\ running' = running \cup {h}
        /\ used_blocks' = used_blocks + ScheduleNeed /\ UNCHANGED sched
    BY <1>4 DEF ScheduleAdmit
  <2>2. h \in Requests /\ ScheduleNeed \in Nat
    BY <1>1, <2>1, ScanHead
  <2>3. ScheduleNeed >= Size(h)
    <3>1. MaxTokens[h] \in Nat /\ generated[h] + MaxTokens[h] \in Nat
          /\ MaxTokens[h] <= generated[h] + MaxTokens[h]
      BY <1>1, <2>2
    <3>2. Size(h) <= ScheduleNeed
      BY <3>1, BlocksGrow DEF Size, ScheduleNeed, BlocksNeeded
    <3>. QED
      BY <2>2, <3>1, <3>2, BlocksType DEF Size
  <2>4. /\ Promised(running \cup {h}) <= Promised(running) + Size(h)
        /\ Promised(running) \in Nat /\ Size(h) \in Nat
    BY <1>1, <2>2, PromisedOne
  <2>5. running \cup {h} \in SUBSET Requests
    BY <1>1, <2>2
  <2>6. Promised(running \cup {h}) \in Nat
    BY <2>5, OwnedFinite
  <2>. HIDE DEF h
  <2>7. used_blocks + ScheduleNeed >= Promised(running \cup {h})
    BY <1>1, <2>2, <2>3, <2>4, <2>6 DEF Covers
  <2>8. Finishing = {}
    BY <1>1, <2>1, OneCall
  <2>. QED
    BY <1>2, <2>1, <2>7, <2>8 DEF Covers
<1>5. CASE PreemptPop
  <2>1. /\ sched = "picked" /\ victim \in running /\ running' = running \ {victim}
        /\ victim_ledger' = LedgerWithout(victim) /\ UNCHANGED used_blocks
    BY <1>5 DEF PreemptPop
  <2>2. Finishing = {}
    BY <1>1, <2>1, OneCall
  <2>. QED
    BY <1>2, <2>1, <2>2, LedgerCovers DEF Covers
<1>6. CASE PreemptStore
  <2>1. /\ sched = "popped" /\ sched' = "idle" /\ used_blocks' = victim_ledger
        /\ UNCHANGED running
    BY <1>6 DEF PreemptStore
  <2>. QED
    BY <1>2, <2>1 DEF Covers
<1>. QED
  BY <1>3, <1>4, <1>5, <1>6 DEF EngineLoop

(* The ledger covers the promises as long as the calls take turns.         *)
LEMMA CoverHolds == ASSUME Limited PROVE MCSpec => [](IInv /\ CoverInv)
<1>1. MCInit => IInv /\ CoverInv
  <2>. SUFFICES ASSUME MCInit PROVE IInv /\ CoverInv
    OBVIOUS
  <2>1. Init /\ IInv
    BY InitIInv DEF MCInit
  <2>2. Adding = {} /\ Finishing = {} /\ LoopCalls = 0
    BY <2>1 DEF Init, Adding, Finishing, LoopCalls
  <2>3. Turns
    BY <2>2, FS_EmptySet DEF Turns
  <2>4. Promised(running) = 0
    <3>1. UNION {{r} \X (1..Blocks(MaxTokens[r])) : r \in {}} = {}
      OBVIOUS
    <3>. QED
      BY <2>1, <3>1, FS_EmptySet DEF Init, Promised
  <2>5. Covers
    BY <2>1, <2>2, <2>4 DEF Init, Covers
  <2>6. TokensInv
    <3>1. \A r \in Requests : 0 <= MaxTokens[r]
      BY LimitsAssumption
    <3>. QED
      BY <2>1, <3>1 DEF Init, TokensInv
  <2>. QED
    BY <2>1, <2>3, <2>5, <2>6 DEF CoverInv
<1>2. IInv /\ CoverInv /\ [MCNext]_<<vars, alone>> => IInv' /\ CoverInv'
  <2>. SUFFICES ASSUME IInv, CoverInv, [MCNext]_<<vars, alone>> PROVE IInv' /\ CoverInv'
    OBVIOUS
  <2>1. [Next]_vars /\ (alone' => alone /\ (Turns' \/ UNCHANGED vars))
    BY Watched
  <2>2. IInv'
    BY <2>1, NextIInv
  <2>3. TokensInv'
    BY <2>1, TokensKept DEF CoverInv
  <2>4. CASE UNCHANGED vars
    <3>1. Turns' = Turns /\ Covers' = Covers
      BY <2>4 DEF vars, queue_vars, request_vars, loop_vars, Turns, Covers, Adding, Finishing, LoopCalls
    <3>. QED
      BY <2>1, <2>2, <2>3, <3>1 DEF CoverInv
  <2>5. ASSUME Next, alone' PROVE Turns' /\ Covers'
    <3>1. Turns /\ Covers /\ TokensInv
      BY <2>1, <2>5 DEF CoverInv
    <3>2. Turns'
      BY <2>1, <2>5, <3>1 DEF vars, queue_vars, request_vars, loop_vars, Turns, Adding, Finishing, LoopCalls
    <3>3. Covers'
      BY <2>2, <2>5, <3>1, <3>2, CallerCovers, EngineCovers DEF Next
    <3>. QED
      BY <3>2, <3>3
  <2>. QED
    BY <2>1, <2>2, <2>3, <2>4, <2>5 DEF CoverInv
<1>. QED
  BY <1>1, <1>2, PTL DEF MCSpec

(* The ledger never under-reports to callers that take turns, when every   *)
(* request has a limit (scheduler.py:99-122): what is given back is never  *)
(* more than the admission took.                                           *)
THEOREM SchedulerLedgerCovers == ASSUME Limited PROVE MCSpec => []LedgerCoversAlone
<1>1. CoverInv => LedgerCoversAlone
  BY DEF CoverInv, Covers, LedgerCoversAlone, LedgerCoversRunning
<1>. QED
  BY <1>1, CoverHolds, PTL
-----------------------------------------------------------------------------
(* The order of admission.                                                 *)

\* r has a RunningRequest, stamped with the time it was made.
Created(r) == phase[r] \in {"adding", "live", "finishing", "done"}

\* The stamp of the next one.
Stamp == Cardinality({q \in Requests : phase[q] # "new"})

\* The deque is in order, and the request to be appended is the youngest.
Ordered ==
    /\ \A i, j \in DOMAIN waiting : i < j => Ahead(waiting[i], waiting[j])
    /\ \A r \in Requests : Created(r) => waiting_since[r] < Stamp
    /\ \A r \in Adding : \A q \in Requests \ {r} : Created(q) => waiting_since[q] < waiting_since[r]

OrderInv == alone => Turns /\ Ordered

(* The next stamp is a number that never shrinks.                          *)
LEMMA StampGrows ==
    ASSUME TypeOK, NEW r \in Requests, NEW p \in Phase \ {"new"}
    PROVE  /\ Stamp \in Nat
           /\ phase' = [phase EXCEPT ![r] = p] =>
                 /\ Stamp' \in Nat /\ Stamp <= Stamp'
                 /\ phase[r] = "new" => Stamp' = Stamp + 1
<1>. DEFINE S == {q \in Requests : phase[q] # "new"}
<1>1. phase \in [Requests -> Phase]
  BY DEF TypeOK
<1>2. IsFiniteSet(S) /\ Cardinality(S) \in Nat
  BY RequestsAssumption, FS_Subset, FS_CardinalityType
<1>3. ASSUME phase' = [phase EXCEPT ![r] = p]
      PROVE  /\ Stamp' \in Nat /\ Stamp <= Stamp'
             /\ phase[r] = "new" => Stamp' = Stamp + 1
  <2>1. S' = S \cup {r}
    BY <1>1, <1>3
  <2>2. Cardinality(S \cup {r}) = IF r \in S THEN Cardinality(S) ELSE Cardinality(S) + 1
    BY <1>2, FS_AddElement
  <2>3. r \in S <=> phase[r] # "new"
    OBVIOUS
  <2>4. Stamp = Cardinality(S) /\ Stamp' = Cardinality(S \cup {r})
    BY <2>1 DEF Stamp
  <2>. HIDE DEF S
  <2>. QED
    BY <1>2, <2>2, <2>3, <2>4
<1>. QED
  BY <1>2, <1>3 DEF Stamp

(* A call of a request's thread keeps the order.                           *)
LEMMA CallerOrdered ==
    ASSUME IInv, HeldInv, Turns, Turns', Ordered, NEW r \in Requests, Caller(r)
    PROVE  Ordered'
<1>. USE DEF queue_vars, request_vars, loop_vars
<1>1. /\ phase \in [Requests -> Phase] /\ waiting_since \in [Requests -> Nat]
      /\ status \in [Requests -> ReqStatus] /\ waiting \in Seq(Requests)
      /\ Elements(waiting) \subseteq Requests /\ TypeOK
  BY LenProperties DEF IInv, TypeOK, Elements
<1>2. \A i \in DOMAIN waiting : waiting[i] \in Elements(waiting)
  BY DEF Elements
<1>3. CASE Token(r)
  <2>1. UNCHANGED <<waiting, status, phase, waiting_since>>
    BY <1>3 DEF Token
  <2>. QED
    BY <2>1 DEF Ordered, Ahead, Created, Stamp, Adding
<1>4. CASE AddRefused(r)
  <2>1. phase' = [phase EXCEPT ![r] = "refused"] /\ UNCHANGED <<waiting, status, waiting_since>>
    BY <1>4 DEF AddRefused
  <2>2. /\ \A q \in Requests : Created(q)' => Created(q)
        /\ Adding' \subseteq Adding
    BY <1>1, <2>1 DEF Created, Adding
  <2>3. Stamp \in Nat /\ Stamp' \in Nat /\ Stamp <= Stamp'
    BY <1>1, <2>1, StampGrows DEF Phase
  <2>4. \A q \in Requests : waiting_since[q] < Stamp => waiting_since[q] < Stamp'
    BY <1>1, <2>3
  <2>. QED
    BY <2>1, <2>2, <2>4 DEF Ordered, Ahead
<1>5. CASE AddCheck(r)
  <2>1. /\ phase[r] = "new" /\ phase' = [phase EXCEPT ![r] = "adding"]
        /\ waiting_since' = [waiting_since EXCEPT ![r] = Stamp]
        /\ UNCHANGED <<waiting, status>>
    BY <1>5 DEF AddCheck, Stamp
  <2>2. Stamp \in Nat /\ Stamp' = Stamp + 1
    <3>1. "adding" \in Phase \ {"new"}
      BY DEF Phase
    <3>. QED
      BY <1>1, <2>1, <3>1, StampGrows
  <2>3. /\ \A q \in Requests \ {r} : waiting_since'[q] = waiting_since[q] /\ (Created(q)' => Created(q))
        /\ waiting_since'[r] = Stamp
    BY <1>1, <2>1 DEF Created
  <2>4. Adding' = {r}
    <3>1. r \in Adding'
      BY <1>1, <2>1 DEF Adding
    <3>. QED
      BY <3>1, OneCall
  <2>5. r \notin Elements(waiting)
    BY <2>1 DEF HeldInv, PhaseInv
  <2>6. \A q \in Requests : Created(q)' => waiting_since'[q] < Stamp'
    <3>1. \A q \in Requests : waiting_since[q] < Stamp => waiting_since[q] < Stamp + 1
      BY <1>1, <2>2
    <3>2. Stamp < Stamp + 1
      BY <2>2
    <3>. QED
      BY <2>2, <2>3, <3>1, <3>2 DEF Ordered
  <2>7. \A q \in Requests \ {r} : Created(q)' => waiting_since'[q] < waiting_since'[r]
    BY <2>3 DEF Ordered
  <2>8. \A i, j \in DOMAIN waiting' : i < j => Ahead(waiting[i], waiting[j])'
    <3>1. \A i \in DOMAIN waiting : waiting_since'[waiting[i]] = waiting_since[waiting[i]]
      BY <1>1, <1>2, <2>3, <2>5
    <3>. QED
      BY <2>1, <3>1 DEF Ordered, Ahead
  <2>. QED
    BY <2>4, <2>6, <2>7, <2>8 DEF Ordered
<1>6. CASE AddAppend(r)
  <2>1. /\ phase[r] = "adding" /\ waiting' = Append(waiting, r)
        /\ phase' = [phase EXCEPT ![r] = "live"]
        /\ UNCHANGED <<status, waiting_since>>
    BY <1>6 DEF AddAppend
  <2>2. Adding' = {}
    <3>1. Adding = {r}
      BY <2>1, OneCall DEF Adding
    <3>. QED
      BY <1>1, <2>1, <3>1 DEF Adding
  <2>3. /\ r \in Adding /\ r \notin Elements(waiting) /\ status[r] = "waiting"
        /\ \A q \in Requests : Created(q)' => Created(q)
    BY <1>1, <2>1 DEF HeldInv, PhaseInv, Created, Adding
  <2>4. \A q \in Elements(waiting) : Ahead(q, r)
    <3>. SUFFICES ASSUME NEW q \in Elements(waiting) PROVE Ahead(q, r)
      OBVIOUS
    <3>1. q \in Requests \ {r} /\ Created(q) /\ status[q] \in {"waiting", "swapped"}
      BY <1>1, <2>3 DEF HeldInv, PhaseInv, StatusInv, Created, Phase
    <3>2. waiting_since[q] < waiting_since[r]
      BY <2>3, <3>1 DEF Ordered
    <3>. QED
      BY <2>3, <3>1, <3>2 DEF Ahead
  <2>5. /\ \A i \in DOMAIN waiting : i \in DOMAIN waiting' /\ waiting'[i] = waiting[i]
        /\ \A i \in DOMAIN waiting' : i \notin DOMAIN waiting => i = Len(waiting) + 1 /\ waiting'[i] = r
    BY <1>1, <2>1, AddedElements
  <2>6. \A i, j \in DOMAIN waiting' : i < j => Ahead(waiting'[i], waiting'[j])
    <3>. SUFFICES ASSUME NEW i \in DOMAIN waiting', NEW j \in DOMAIN waiting', i < j
                  PROVE  Ahead(waiting'[i], waiting'[j])
      OBVIOUS
    <3>1. i \in DOMAIN waiting
      <4>1. /\ Len(waiting) \in Nat /\ DOMAIN waiting = 1..Len(waiting)
            /\ DOMAIN waiting' = 1..Len(waiting) + 1
        BY <1>1, <2>1, LenProperties, AppendProperties
      <4>. QED
        BY <4>1
    <3>2. CASE j \in DOMAIN waiting
      BY <2>5, <3>1, <3>2 DEF Ordered
    <3>3. CASE j \notin DOMAIN waiting
      BY <1>2, <2>4, <2>5, <3>1, <3>3
    <3>. QED
      BY <3>2, <3>3
  <2>7. Stamp \in Nat /\ Stamp' \in Nat /\ Stamp <= Stamp'
    BY <1>1, <2>1, StampGrows DEF Phase
  <2>8. \A q \in Requests : waiting_since[q] < Stamp => waiting_since[q] < Stamp'
    BY <1>1, <2>7
  <2>9. \A i, j \in DOMAIN waiting' : i < j => Ahead(waiting[i], waiting[j])'
    BY <2>1, <2>6 DEF Ahead
  <2>. QED
    BY <2>1, <2>2, <2>3, <2>8, <2>9 DEF Ordered
<1>7. CASE FinishPop(r) \/ FinishStore(r) \/ FinishMissing(r)
  <2>1. /\ UNCHANGED <<waiting, waiting_since>>
        /\ phase[r] \in {"live", "finishing"}
        /\ \E p \in {"finishing", "done"} : phase' = [phase EXCEPT ![r] = p]
        /\ \A q \in Elements(waiting) : status'[q] = status[q]
    <3>1. r \in running => r \notin Elements(waiting)
      BY DEF HeldInv, QueueInv
    <3>. QED
      BY <1>1, <1>7, <3>1 DEF FinishPop, FinishStore, FinishMissing
  <2>2. /\ \A q \in Requests : Created(q)' => Created(q)
        /\ Adding' \subseteq Adding
    BY <1>1, <2>1 DEF Created, Adding
  <2>3. Stamp \in Nat /\ Stamp' \in Nat /\ Stamp <= Stamp'
    BY <1>1, <2>1, StampGrows DEF Phase
  <2>4. \A q \in Requests : waiting_since[q] < Stamp => waiting_since[q] < Stamp'
    BY <1>1, <2>3
  <2>5. \A i, j \in DOMAIN waiting' : i < j => Ahead(waiting[i], waiting[j])'
    BY <1>2, <2>1 DEF Ordered, Ahead
  <2>. QED
    BY <2>1, <2>2, <2>4, <2>5 DEF Ordered
<1>. QED
  BY <1>3, <1>4, <1>5, <1>6, <1>7 DEF Caller
(* What the loop admits is the left end of the deque, ahead of the rest.   *)
LEMMA AdmitsFirst ==
    ASSUME Uniform, IInv, HeldInv, Ordered, ScheduleAdmit
    PROVE  /\ Head(scan) \in Requests
           /\ \A q \in Elements(waiting') : q # Head(scan) /\ q \in Elements(waiting) /\ Ahead(Head(scan), q)
           /\ \A i \in DOMAIN waiting' : i + 1 \in DOMAIN waiting /\ waiting'[i] = waiting[i + 1]
           /\ DOMAIN waiting' \subseteq Nat
<1>1. waiting \in Seq(Requests) /\ scan \in Seq(Requests) /\ ScanInsideQueue /\ TypeOK
  BY DEF IInv, TypeOK
<1>2. /\ sched = "scan" /\ scan # <<>> /\ ScheduleNeed <= free /\ waiting' = Tail(waiting)
  BY DEF ScheduleAdmit
<1>. DEFINE h == Head(scan)
<1>3. h = scan[1] /\ 1 \in DOMAIN scan /\ h \in Elements(waiting)
  <2>1. h = scan[1] /\ 1 \in DOMAIN scan
    BY <1>1, <1>2, TailElements
  <2>2. h \in Elements(scan)
    BY <2>1 DEF Elements
  <2>. QED
    BY <1>2, <2>1, <2>2 DEF HeldInv, ScanInv
<1>4. h \in Requests /\ Size(h) <= free
  <2>1. h \in Requests
    BY <1>1, <1>2, ScanHead
  <2>2. generated[h] = 0 /\ MaxTokens[h] \in Nat
    BY <1>3, <2>1, LimitsAssumption DEF HeldInv, QueueInv
  <2>3. ScheduleNeed = Size(h)
    BY <2>2 DEF ScheduleNeed, BlocksNeeded, Size
  <2>. QED
    BY <1>2, <2>1, <2>3
<1>5. waiting # <<>>
  BY <1>1, <1>2, EmptySeq, LenProperties DEF ScanInsideQueue
<1>6. waiting[1] = h
  BY <1>2, <1>3, <1>4 DEF HeldInv, ScanInv, Uniform
<1>. HIDE DEF h
<1>7. /\ 1 \in DOMAIN waiting /\ DOMAIN Tail(waiting) \subseteq Nat
      /\ \A i \in DOMAIN Tail(waiting) : i + 1 \in DOMAIN waiting /\ waiting'[i] = waiting[i + 1]
                                          /\ i + 1 # 1
  BY <1>1, <1>2, <1>5, TailElements
<1>8. \A i \in DOMAIN Tail(waiting) :
          /\ waiting'[i] # h /\ waiting'[i] \in Elements(waiting) /\ Ahead(h, waiting'[i])
  <2>. SUFFICES ASSUME NEW i \in DOMAIN Tail(waiting)
                PROVE  /\ waiting'[i] # h /\ waiting'[i] \in Elements(waiting)
                       /\ Ahead(h, waiting'[i])
    OBVIOUS
  <2>1. i + 1 \in DOMAIN waiting /\ waiting'[i] = waiting[i + 1] /\ i + 1 # 1
    BY <1>7
  <2>2. 1 < i + 1
    <3>1. i \in Nat
      BY <1>7
    <3>. QED
      BY <2>1, <3>1
  <2>3. Ahead(waiting[1], waiting[i + 1])
    BY <1>7, <2>1, <2>2 DEF Ordered
  <2>4. waiting[i + 1] # h
    BY <1>6, <1>7, <2>1 DEF HeldInv, QueueInv
  <2>. QED
    BY <1>6, <2>1, <2>3, <2>4 DEF Elements
<1>. QED
  BY <1>2, <1>4, <1>7, <1>8 DEF Elements, h

(* A step of the engine loop keeps the order.                              *)
LEMMA EngineOrdered ==
    ASSUME Uniform, IInv, HeldInv, Ordered, EngineLoop
    PROVE  Ordered'
<1>. USE DEF queue_vars, request_vars, loop_vars
<1>1. /\ status \in [Requests -> ReqStatus] /\ waiting \in Seq(Requests)
      /\ Elements(waiting) \subseteq Requests /\ TypeOK
  BY LenProperties DEF IInv, TypeOK, Elements
<1>2. \A i \in DOMAIN waiting : waiting[i] \in Elements(waiting)
  BY DEF Elements
<1>3. UNCHANGED <<phase, waiting_since>>
  BY DEF EngineLoop, ScheduleBegin, ScheduleAdmit, ScheduleSkip, ScheduleEnd,
         PreemptPick, PreemptPop, PreemptKeyError, PreemptStore
<1>4. ASSUME \A i, j \in DOMAIN waiting' : i < j => Ahead(waiting[i], waiting[j])'
      PROVE  Ordered'
  BY <1>3, <1>4 DEF Ordered, Created, Stamp, Adding
<1>5. CASE \/ ScheduleBegin \/ ScheduleSkip \/ ScheduleEnd
           \/ PreemptPick \/ PreemptPop \/ PreemptKeyError
  <2>1. UNCHANGED <<waiting, status>>
    BY <1>5 DEF ScheduleBegin, ScheduleSkip, ScheduleEnd, PreemptPick, PreemptPop, PreemptKeyError
  <2>. QED
    BY <1>3, <1>4, <2>1 DEF Ordered, Ahead
<1>6. CASE ScheduleAdmit
  <2>1. status' = [status EXCEPT ![Head(scan)] = "running"]
    BY <1>6 DEF ScheduleAdmit
  <2>2. /\ Head(scan) \in Requests
        /\ \A i \in DOMAIN waiting' : waiting'[i] # Head(scan)
        /\ \A i \in DOMAIN waiting' : /\ i \in Nat /\ i + 1 \in DOMAIN waiting
                                        /\ waiting'[i] = waiting[i + 1]
    BY <1>6, AdmitsFirst DEF Elements
  <2>3. \A i \in DOMAIN waiting' : status'[waiting'[i]] = status[waiting'[i]]
    BY <1>1, <1>2, <2>1, <2>2
  <2>4. \A i, j \in DOMAIN waiting' : i < j => i + 1 < j + 1
    BY <2>2
  <2>5. \A i, j \in DOMAIN waiting' : i < j => Ahead(waiting'[i], waiting'[j])
    BY <2>2, <2>4 DEF Ordered
  <2>6. \A i, j \in DOMAIN waiting' : i < j => Ahead(waiting[i], waiting[j])'
    BY <1>3, <2>3, <2>5 DEF Ahead
  <2>. QED
    BY <1>4, <2>6
<1>7. CASE PreemptStore
  <2>1. /\ status' = [status EXCEPT ![victim] = "swapped"] /\ waiting' = <<victim>> \o waiting
        /\ sched = "popped"
    BY <1>7 DEF PreemptStore, Requeue, SwappedOut
  <2>2. victim \in Requests /\ victim \notin Elements(waiting)
    BY <1>1, <2>1 DEF TypeOK, HeldInv, QueueInv, Popped
  <2>3. /\ \A i \in DOMAIN waiting' : IF i = 1 THEN waiting'[i] = victim
                                       ELSE i - 1 \in DOMAIN waiting /\ waiting'[i] = waiting[i - 1]
        /\ DOMAIN waiting' \subseteq Nat
    BY <1>1, <2>1, <2>2, AddedElements
  <2>4. \A i \in DOMAIN waiting : 1 <= i /\ i \in Nat
    BY <1>1, LenProperties
  <2>5. /\ status'[victim] = "swapped"
        /\ \A q \in Elements(waiting) : /\ status'[q] = status[q]
                                         /\ status[q] \in {"waiting", "swapped"}
    BY <1>1, <2>1, <2>2 DEF HeldInv, StatusInv
  <2>6. \A i, j \in DOMAIN waiting' : i < j => Ahead(waiting[i], waiting[j])'
    <3>. SUFFICES ASSUME NEW i \in DOMAIN waiting', NEW j \in DOMAIN waiting', i < j
                  PROVE  Ahead(waiting[i], waiting[j])'
      OBVIOUS
    <3>1. j # 1 /\ i \in Nat /\ j \in Nat
      <4>1. i # 1 => i - 1 \in DOMAIN waiting
        BY <2>3
      <4>2. i \in Nat /\ j \in Nat
        BY <2>3
      <4>3. i >= 1
        BY <2>4, <4>1, <4>2
      <4>. QED
        BY <4>2, <4>3
    <3>2. j - 1 \in DOMAIN waiting /\ waiting'[j] = waiting[j - 1]
      BY <2>3, <3>1
    <3>3. CASE i = 1
      BY <1>2, <2>3, <2>5, <3>2, <3>3 DEF Ahead
    <3>4. CASE i # 1
      <4>1. i - 1 \in DOMAIN waiting /\ waiting'[i] = waiting[i - 1] /\ i - 1 < j - 1
        BY <2>3, <3>1, <3>4
      <4>2. Ahead(waiting[i - 1], waiting[j - 1])
        BY <3>2, <4>1 DEF Ordered
      <4>. QED
        BY <1>2, <1>3, <2>5, <3>2, <4>1, <4>2 DEF Ahead
    <3>. QED
      BY <3>3, <3>4
  <2>. QED
    BY <1>4, <2>6
<1>. QED
  BY <1>5, <1>6, <1>7 DEF EngineLoop

(* An admission never overtakes: a preempted request goes before fresh     *)
(* ones, and those go in the order of their creation (scheduler.py:86,     *)
(* 101, 127), as long as the calls take turns.                             *)
THEOREM SchedulerNoOvertaking == ASSUME Uniform PROVE MCSpec => NoOvertakingAlone
<1>1. MCInit => OrderInv
  <2>. SUFFICES ASSUME MCInit PROVE OrderInv
    OBVIOUS
  <2>1. Init
    BY DEF MCInit
  <2>2. Adding = {} /\ Finishing = {} /\ LoopCalls = 0
    BY <2>1 DEF Init, Adding, Finishing, LoopCalls
  <2>3. Turns
    BY <2>2, FS_EmptySet DEF Turns
  <2>4. Ordered
    BY <2>1, <2>2 DEF Init, Ordered, Created
  <2>. QED
    BY <2>3, <2>4 DEF OrderInv
<1>2. IInv /\ HeldInv /\ OrderInv /\ [MCNext]_<<vars, alone>> => OrderInv'
  <2>. SUFFICES ASSUME IInv, HeldInv, OrderInv, [MCNext]_<<vars, alone>>, alone'
                PROVE  Turns' /\ Ordered'
    BY DEF OrderInv
  <2>1. [Next]_vars /\ alone /\ (Turns' \/ UNCHANGED vars)
    BY Watched
  <2>2. Turns /\ Ordered
    BY <2>1 DEF OrderInv
  <2>3. CASE UNCHANGED vars
    BY <2>2, <2>3 DEF vars, queue_vars, request_vars, loop_vars, Turns, Ordered, Ahead,
                      Created, Stamp, Adding, Finishing, LoopCalls
  <2>4. CASE Next /\ Turns'
    BY <2>2, <2>4, CallerOrdered, EngineOrdered DEF Next
  <2>. QED
    BY <2>1, <2>3, <2>4
<1>3. IInv /\ HeldInv /\ OrderInv /\ [MCNext]_<<vars, alone>> => (alone' => NoOvertakingStep)
  <2>. SUFFICES ASSUME IInv, HeldInv, OrderInv, [MCNext]_<<vars, alone>>, alone'
                PROVE  NoOvertakingStep
    OBVIOUS
  <2>1. [Next]_vars /\ Ordered
    BY Watched DEF OrderInv
  <2>2. CASE ScheduleAdmit
    <3>1. running' = running \cup {Head(scan)}
      BY <2>2 DEF ScheduleAdmit
    <3>. QED
      BY <2>1, <2>2, <3>1, AdmitsFirst DEF NoOvertakingStep
  <2>3. CASE running' \subseteq running
    BY <2>3 DEF NoOvertakingStep
  <2>4. ScheduleAdmit \/ running' \subseteq running
    BY <2>1 DEF Next, Caller, AddRefused, AddCheck, AddAppend, Token, FinishPop, FinishStore,
         FinishMissing, EngineLoop, ScheduleBegin, ScheduleSkip, ScheduleEnd, PreemptPick,
         PreemptPop, PreemptKeyError, PreemptStore, vars, queue_vars, request_vars, loop_vars
  <2>. QED
    BY <2>2, <2>3, <2>4
<1>4. MCSpec => Spec
  <2>1. MCInit => Init
    BY DEF MCInit
  <2>2. [MCNext]_<<vars, alone>> => [Next]_vars
    BY Watched
  <2>. QED
    BY <2>1, <2>2, PTL DEF MCSpec, Spec
<1>. QED
  BY <1>1, <1>2, <1>3, <1>4, Inductive, HeldHolds, PTL DEF MCSpec, NoOvertakingAlone
=============================================================================
