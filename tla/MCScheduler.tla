----------------------------- MODULE MCScheduler -----------------------------
(* Instances of Scheduler for TLC, with a history variable.                *)
EXTENDS Scheduler, TLC

CONSTANTS r1, r2, r3, r4

Four == {r1, r2, r3, r4}

\* Every request asks for the same number of tokens.
UniformTokens == [r \in Requests |-> 2]

Symmetry == Permutations(Requests)

VARIABLE alone      \* history: no two calls have been in progress at once

Watch ==
    alone' = (alone /\ Cardinality(Adding') + Cardinality(Finishing') + LoopCalls' <= 1)

MCInit == Init /\ alone = TRUE

MCNext ==
    \/ \E r \in Requests :
          \/ AddRefused(r) /\ Watch
          \/ AddCheck(r) /\ Watch
          \/ AddAppend(r) /\ Watch
          \/ Token(r) /\ Watch
          \/ FinishPop(r) /\ Watch
          \/ FinishStore(r) /\ Watch
          \/ FinishMissing(r) /\ Watch
    \/ ScheduleBegin /\ Watch
    \/ ScheduleAdmit /\ Watch
    \/ ScheduleSkip /\ Watch
    \/ ScheduleEnd /\ Watch
    \/ PreemptPick /\ Watch
    \/ PreemptPop /\ Watch
    \/ PreemptKeyError /\ Watch
    \/ PreemptStore /\ Watch

MCSpec == MCInit /\ [][MCNext]_<<vars, alone>>

(* Two properties hold of callers that take turns.                         *)

(* The ledger never under-reports (scheduler.py:99-122), as long as the    *)
(* calls have not overlapped: LedgerCoversRunning.                         *)
LedgerCoversAlone == alone => LedgerCoversRunning

(* No admission overtakes (scheduler.py:86, 101, 127), as long as the      *)
(* calls have not overlapped.                                              *)
NoOvertakingAlone == [][alone' => NoOvertakingStep]_<<vars, alone>>

=============================================================================
