------------------------------ MODULE ToolsProofs ------------------------------
(***************************************************************************)
(* Safety of Tools for every number of fetches, remote calls, threads and  *)
(* agents and every quota: nothing takes effect twice or is reported       *)
(* without its effect, and quotas are served in full, as far as racing     *)
(* threads allow.                                                          *)
(***************************************************************************)
EXTENDS Tools, FiniteSetTheorems, SequenceTheorems, TLAPS

-----------------------------------------------------------------------------
(* Types.                                                                  *)
FetchPlaces == {"none", "queued", "read", "stored", "fetching", "done", "failed"}
RemotePlaces == {"none", "scheduled", "called", "done", "failed"}
Places ==
    {"none", "queued", "read", "stored", "fetching", "scheduled", "called", "done", "failed"}

Types ==
    /\ answer \in [Calls -> {None, "waiting", "ok", "error"}]
    /\ queue \in Seq(Fetches)
    /\ work \in [Calls -> Places]
    /\ \A f \in Fetches : work[f] \in FetchPlaces
    /\ \A c \in Remote : work[c] \in RemotePlaces
    /\ seen \in [Fetches -> Nat]
    /\ counts \in [DOMAIN Quota -> Nat]
    /\ log \in [Fetches -> Seq({"ok", "error"})]
    /\ effects \in [Calls -> Nat]

(* The pool's queue holds each fetch that waits for a thread, once.        *)
QueueInv ==
    /\ \A i \in DOMAIN queue : work[queue[i]] = "queued"
    /\ \A i, j \in DOMAIN queue : queue[i] = queue[j] => i = j

(* What a fetch has done, by the place where it stands.                    *)
FetchAt(f) ==
    /\ answer[f] = None => work[f] = "none"
    /\ work[f] \in {"none", "queued", "read", "stored", "fetching"} =>
            effects[f] = 0 /\ log[f] = <<>>
    /\ work[f] = "done" => effects[f] = 1 /\ log[f] = <<"ok">>
    /\ work[f] = "failed" => effects[f] <= 1
    /\ answer[f] = "ok" => work[f] = "done"
    /\ f \in Blocked => work[f] # "fetching"
    /\ work[f] \in {"read", "stored"} => f \in Limited \ Blocked

(* The same for a remote call; one made on a loop does not run while its   *)
(* caller waits.                                                           *)
RemoteAt(c) ==
    /\ answer[c] = None => work[c] = "none"
    /\ work[c] \in {"none", "scheduled"} => effects[c] = 0
    /\ work[c] = "done" => effects[c] = 1
    /\ work[c] \in {"called", "failed"} => effects[c] <= 1
    /\ answer[c] = "ok" => work[c] = "done" /\ c \notin OnLoop
    /\ c \in OnLoop /\ answer[c] = "waiting" => work[c] = "scheduled"

EffectInv ==
    /\ Types /\ QueueInv
    /\ \A f \in Fetches : FetchAt(f)
    /\ \A c \in Remote : RemoteAt(c)

(* The initial state satisfies the invariant.                              *)
LEMMA InitEffectInv == Init => EffectInv
<1>. SUFFICES ASSUME Init PROVE EffectInv
  OBVIOUS
<1>1. Types
  BY ToolsAssumption DEF Init, Types, Places, FetchPlaces, RemotePlaces, Calls
<1>2. QueueInv
  BY DEF Init, QueueInv
<1>. QED
  BY <1>1, <1>2, ToolsAssumption DEF Init, EffectInv, FetchAt, RemoteAt, Calls

(* The head of the queue, and what is left of it.                          *)
LEMMA QueueHead ==
    ASSUME EffectInv, queue # <<>>
    PROVE  /\ Head(queue) \in Fetches /\ work[Head(queue)] = "queued"
           /\ Tail(queue) \in Seq(Fetches)
           /\ \A i \in DOMAIN Tail(queue) :
                  work[Tail(queue)[i]] = "queued" /\ Tail(queue)[i] # Head(queue)
           /\ \A i, j \in DOMAIN Tail(queue) : Tail(queue)[i] = Tail(queue)[j] => i = j
<1>1. queue \in Seq(Fetches) /\ QueueInv
  BY DEF EffectInv, Types
<1>2. /\ Head(queue) \in Fetches /\ Tail(queue) \in Seq(Fetches)
      /\ Len(Tail(queue)) = Len(queue) - 1 /\ Len(queue) \in Nat \ {0}
      /\ Head(queue) = queue[1]
      /\ \A i \in 1..Len(Tail(queue)) : Tail(queue)[i] = queue[i + 1]
  BY <1>1, HeadTailProperties, EmptySeq
<1>3. DOMAIN queue = 1..Len(queue) /\ DOMAIN Tail(queue) = 1..Len(Tail(queue))
  BY <1>1, <1>2, LenProperties
<1>4. \A i \in DOMAIN Tail(queue) : i + 1 \in DOMAIN queue /\ i + 1 # 1 /\ 1 \in DOMAIN queue
  BY <1>2, <1>3
<1>. QED
  BY <1>1, <1>2, <1>3, <1>4 DEF QueueInv

(* The steps of one fetch in the pool keep the invariant.                  *)
LEMMA FetchStep ==
    ASSUME EffectInv, NEW f \in Fetches,
           \/ Submit(f) \/ Count(f) \/ CheckQuota(f)
           \/ Fetched(f) \/ Deliver(f) \/ Expires(f)
    PROVE  EffectInv'
<1>. USE DEF At, Goto, Answers, Logged, Made
<1>0. /\ Types /\ QueueInv /\ f \in Calls /\ f \notin Remote
      /\ \A g \in Fetches : FetchAt(g) /\ g \in Calls
      /\ \A c \in Remote : RemoteAt(c) /\ c \in Calls /\ c # f
      /\ None \notin {"waiting", "ok", "error"}
  BY ToolsAssumption DEF EffectInv, Calls
<1>t. /\ Types /\ f \in Calls /\ f \in Fetches
      /\ Append(queue, f) \in Seq(Fetches)
      /\ Append(log[f], "ok") \in Seq({"ok", "error"})
      /\ Append(log[f], "error") \in Seq({"ok", "error"})
  BY <1>0, AppendProperties DEF Types
<1>1. CASE Submit(f)
  <2>0. FetchAt(f) /\ answer[f] = None
    BY <1>0, <1>1 DEF Submit
  <2>1. CASE closed
    <3>1. Types' /\ QueueInv'
      BY <1>0, <1>1, <2>1 DEF Submit, Types, QueueInv
    <3>2. \A g \in Fetches : FetchAt(g)'
      BY <1>0, <1>1, <2>0, <2>1 DEF Submit, Types, FetchAt
    <3>3. \A c \in Remote : RemoteAt(c)'
      BY <1>0, <1>1, <2>1 DEF Submit, Types, RemoteAt
    <3>. QED
      BY <3>1, <3>2, <3>3 DEF EffectInv
  <2>2. CASE ~closed
    <3>1. Types'
      <4>1. /\ answer' \in [Calls -> {None, "waiting", "ok", "error"}]
            /\ seen' \in [Fetches -> Nat] /\ counts' \in [DOMAIN Quota -> Nat]
            /\ effects' \in [Calls -> Nat]
        BY <1>t, <1>1, <2>2 DEF Submit, Types
      <4>2. queue' \in Seq(Fetches)
        BY <1>t, <1>1, <2>2 DEF Submit, Types
      <4>3. log' \in [Fetches -> Seq({"ok", "error"})]
        BY <1>t, <1>1, <2>2 DEF Submit, Types
      <4>4. work' \in [Calls -> Places]
        BY <1>0, <1>1, <2>2 DEF Submit, Types, Places
      <4>5. /\ \A g \in Fetches : work'[g] \in FetchPlaces
            /\ \A c \in Remote : work'[c] \in RemotePlaces
        BY <1>0, <1>1, <2>2 DEF Submit, Types, FetchPlaces, RemotePlaces
      <4>. QED
        BY <4>1, <4>2, <4>3, <4>4, <4>5 DEF Types
    <3>2. QueueInv'
      <4>1. /\ queue \in Seq(Fetches) /\ work[f] = "none" /\ queue' = Append(queue, f)
            /\ work' = [work EXCEPT ![f] = "queued"]
            /\ \A c \in Calls : c # f => work'[c] = work[c]
            /\ work'[f] = "queued"
        BY <1>0, <1>1, <2>0, <2>2 DEF Submit, Types, FetchAt
      <4>2. /\ DOMAIN queue = 1..Len(queue) /\ DOMAIN queue' = 1..(Len(queue) + 1)
            /\ Len(queue) \in Nat /\ queue'[Len(queue) + 1] = f
            /\ \A i \in 1..Len(queue) : queue'[i] = queue[i] /\ queue[i] \in Fetches
        BY <4>1, AppendProperties, LenProperties, ElementOfSeq
      <4>3. \A i \in 1..Len(queue) : queue[i] # f
        BY <1>0, <4>1, <4>2 DEF QueueInv
      <4>4. \A i \in DOMAIN queue' : i \in 1..Len(queue) \/ i = Len(queue) + 1
        BY <4>2
      <4>. QED
        BY <1>0, <4>1, <4>2, <4>3, <4>4 DEF QueueInv
    <3>3. \A g \in Fetches : FetchAt(g)'
      <4>. SUFFICES ASSUME NEW g \in Fetches PROVE FetchAt(g)'
        OBVIOUS
      <4>1. /\ UNCHANGED <<effects, log>> /\ work'[f] = "queued" /\ answer'[f] = "waiting"
            /\ g # f => work'[g] = work[g] /\ answer'[g] = answer[g]
        BY <1>0, <1>1, <2>2 DEF Submit, Types
      <4>. QED
        BY <1>0, <2>0, <4>1 DEF FetchAt
    <3>4. \A c \in Remote : RemoteAt(c)'
      BY <1>0, <1>1, <2>2 DEF Submit, Types, RemoteAt
    <3>. QED
      BY <3>1, <3>2, <3>3, <3>4 DEF EffectInv
  <2>. QED
    BY <2>1, <2>2
<1>2. CASE Count(f)
  <2>1. Types'
    <3>1. /\ answer' \in [Calls -> {None, "waiting", "ok", "error"}]
          /\ seen' \in [Fetches -> Nat] /\ counts' \in [DOMAIN Quota -> Nat]
          /\ effects' \in [Calls -> Nat]
      <4>1. seen[f] + 1 \in Nat
        BY <1>t DEF Types
      <4>2. counts' = [counts EXCEPT ![Agent[f]] = seen[f] + 1]
        BY <1>2 DEF Count
      <4>3. counts' \in [DOMAIN Quota -> Nat]
        BY <1>t, <4>1, <4>2 DEF Types
      <4>. QED
        BY <1>t, <1>2, <4>3 DEF Count, Types
    <3>2. queue' \in Seq(Fetches)
      BY <1>t, <1>2 DEF Count, Types
    <3>3. log' \in [Fetches -> Seq({"ok", "error"})]
      BY <1>t, <1>2 DEF Count, Types
    <3>4. work' \in [Calls -> Places]
      BY <1>0, <1>2 DEF Count, Types, Places
    <3>5. /\ \A g \in Fetches : work'[g] \in FetchPlaces
          /\ \A c \in Remote : work'[c] \in RemotePlaces
      BY <1>0, <1>2 DEF Count, Types, FetchPlaces, RemotePlaces
    <3>. QED
      BY <3>1, <3>2, <3>3, <3>4, <3>5 DEF Types
  <2>2. QueueInv'
    BY <1>0, <1>2, ElementOfSeq DEF Count, Types, QueueInv
  <2>3. \A g \in Fetches : FetchAt(g)'
    BY <1>0, <1>2 DEF Count, Types, FetchAt
  <2>4. \A c \in Remote : RemoteAt(c)'
    BY <1>0, <1>2 DEF Count, Types, RemoteAt
  <2>. QED
    BY <2>1, <2>2, <2>3, <2>4 DEF EffectInv
<1>3. CASE CheckQuota(f)
  <2>1. Types'
    <3>1. /\ answer' \in [Calls -> {None, "waiting", "ok", "error"}]
          /\ seen' \in [Fetches -> Nat] /\ counts' \in [DOMAIN Quota -> Nat]
          /\ effects' \in [Calls -> Nat]
      BY <1>t, <1>3 DEF CheckQuota, Types
    <3>2. queue' \in Seq(Fetches)
      BY <1>t, <1>3 DEF CheckQuota, Types
    <3>3. log' \in [Fetches -> Seq({"ok", "error"})]
      BY <1>t, <1>3 DEF CheckQuota, Types
    <3>4. work' \in [Calls -> Places]
      BY <1>0, <1>3 DEF CheckQuota, Types, Places
    <3>5. /\ \A g \in Fetches : work'[g] \in FetchPlaces
          /\ \A c \in Remote : work'[c] \in RemotePlaces
      BY <1>0, <1>3 DEF CheckQuota, Types, FetchPlaces, RemotePlaces
    <3>. QED
      BY <3>1, <3>2, <3>3, <3>4, <3>5 DEF Types
  <2>2. QueueInv'
    BY <1>0, <1>3, ElementOfSeq DEF CheckQuota, Types, QueueInv
  <2>3. \A g \in Fetches : FetchAt(g)'
    BY <1>0, <1>3 DEF CheckQuota, Types, FetchAt
  <2>4. \A c \in Remote : RemoteAt(c)'
    BY <1>0, <1>3 DEF CheckQuota, Types, RemoteAt
  <2>. QED
    BY <2>1, <2>2, <2>3, <2>4 DEF EffectInv
<1>4. CASE Fetched(f)
  <2>0. effects[f] = 0 /\ log[f] = <<>> /\ Append(<<>>, "ok") = <<"ok">>
    BY <1>0, <1>4 DEF Fetched, FetchAt
  <2>1. Types'
    <3>1. /\ answer' \in [Calls -> {None, "waiting", "ok", "error"}]
          /\ seen' \in [Fetches -> Nat] /\ counts' \in [DOMAIN Quota -> Nat]
          /\ effects' \in [Calls -> Nat]
      BY <1>t, <1>4 DEF Fetched, Types
    <3>2. queue' \in Seq(Fetches)
      BY <1>t, <1>4 DEF Fetched, Types
    <3>3. log' \in [Fetches -> Seq({"ok", "error"})]
      BY <1>t, <1>4 DEF Fetched, Types
    <3>4. work' \in [Calls -> Places]
      BY <1>0, <1>4 DEF Fetched, Types, Places
    <3>5. /\ \A g \in Fetches : work'[g] \in FetchPlaces
          /\ \A c \in Remote : work'[c] \in RemotePlaces
      BY <1>0, <1>4 DEF Fetched, Types, FetchPlaces, RemotePlaces
    <3>. QED
      BY <3>1, <3>2, <3>3, <3>4, <3>5 DEF Types
  <2>2. QueueInv'
    BY <1>0, <1>4, ElementOfSeq DEF Fetched, Types, QueueInv
  <2>3. \A g \in Fetches : FetchAt(g)'
    BY <1>0, <1>4, <2>0 DEF Fetched, Types, FetchAt
  <2>4. \A c \in Remote : RemoteAt(c)'
    BY <1>0, <1>4 DEF Fetched, Types, RemoteAt
  <2>. QED
    BY <2>1, <2>2, <2>3, <2>4 DEF EffectInv
<1>5. CASE Deliver(f)
  <2>1. Types'
    BY <1>0, <1>5 DEF Deliver, Types
  <2>2. QueueInv'
    BY <1>0, <1>5 DEF Deliver, QueueInv
  <2>3. \A g \in Fetches : FetchAt(g)'
    BY <1>0, <1>5 DEF Deliver, Types, FetchAt
  <2>4. \A c \in Remote : RemoteAt(c)'
    BY <1>0, <1>5 DEF Deliver, Types, RemoteAt
  <2>. QED
    BY <2>1, <2>2, <2>3, <2>4 DEF EffectInv
<1>6. CASE Expires(f)
  <2>1. Types'
    BY <1>0, <1>6 DEF Expires, Types
  <2>2. QueueInv'
    BY <1>0, <1>6 DEF Expires, QueueInv
  <2>3. \A g \in Fetches : FetchAt(g)'
    BY <1>0, <1>6 DEF Expires, Types, FetchAt
  <2>4. \A c \in Remote : RemoteAt(c)'
    BY <1>0, <1>6 DEF Expires, Types, RemoteAt
  <2>. QED
    BY <2>1, <2>2, <2>3, <2>4 DEF EffectInv
<1>. QED
  BY <1>1, <1>2, <1>3, <1>4, <1>5, <1>6

(* So does a thread that takes the head of the queue.                      *)
LEMMA StartStep ==
    ASSUME EffectInv, Start
    PROVE  EffectInv'
<1>. USE DEF At, Goto, Answers, Logged
<1>. DEFINE f == Head(queue)
<1>0. /\ Types /\ QueueInv /\ f \in Calls /\ f \notin Remote /\ f \in Fetches
      /\ \A g \in Fetches : FetchAt(g) /\ g \in Calls
      /\ \A c \in Remote : RemoteAt(c) /\ c \in Calls /\ c # f
      /\ work[f] = "queued" /\ queue' = Tail(queue)
      /\ Tail(queue) \in Seq(Fetches)
      /\ \A i \in DOMAIN Tail(queue) : work[Tail(queue)[i]] = "queued" /\ Tail(queue)[i] # f
      /\ \A i, j \in DOMAIN Tail(queue) : Tail(queue)[i] = Tail(queue)[j] => i = j
  BY QueueHead, ToolsAssumption DEF EffectInv, Calls, Start
<1>t. /\ Types /\ f \in Calls /\ f \in Fetches
      /\ queue' \in Seq(Fetches)
      /\ Append(log[f], "error") \in Seq({"ok", "error"})
  BY <1>0, AppendProperties DEF Types
<1>1. \/ f \in Blocked /\ Goto(f, "failed") /\ Logged(f, "error") /\ UNCHANGED <<seen, crowded>>
      \/ f \notin Blocked \cup Limited /\ Goto(f, "fetching") /\ UNCHANGED <<seen, log, crowded>>
      \/ /\ f \in Limited \ Blocked
         /\ Goto(f, "read")
         /\ seen' = [seen EXCEPT ![f] = counts[Agent[f]]]
         /\ UNCHANGED log
  BY DEF Start
<1>2. UNCHANGED <<answer, counts, closed, effects>>
  BY DEF Start
<1>3. Types'
  <2>1. /\ answer' \in [Calls -> {None, "waiting", "ok", "error"}]
        /\ seen' \in [Fetches -> Nat] /\ counts' \in [DOMAIN Quota -> Nat]
        /\ effects' \in [Calls -> Nat]
    BY <1>t, <1>1, <1>2 DEF Types, Limited
  <2>2. queue' \in Seq(Fetches)
    BY <1>t, <1>1, <1>2 DEF Types
  <2>3. log' \in [Fetches -> Seq({"ok", "error"})]
    BY <1>t, <1>1, <1>2 DEF Types
  <2>4. work' \in [Calls -> Places]
    BY <1>0, <1>1, <1>2 DEF Types, Places
  <2>5. /\ \A g \in Fetches : work'[g] \in FetchPlaces
        /\ \A c \in Remote : work'[c] \in RemotePlaces
    BY <1>0, <1>1, <1>2 DEF Types, FetchPlaces, RemotePlaces
  <2>. QED
    BY <2>1, <2>2, <2>3, <2>4, <2>5 DEF Types
<1>4. \A g \in Calls : g # f => work'[g] = work[g]
  BY <1>0, <1>1 DEF Types
<1>5. QueueInv'
  BY <1>0, <1>4, ElementOfSeq DEF QueueInv, Calls
<1>6. \A g \in Fetches : FetchAt(g)'
  <2>. SUFFICES ASSUME NEW g \in Fetches PROVE FetchAt(g)'
    OBVIOUS
  <2>1. CASE g # f
    BY <1>0, <1>1, <1>2, <2>1 DEF Types, FetchAt
  <2>2. CASE g = f
    <3>1. /\ answer'[f] = answer[f] /\ effects'[f] = 0
          /\ answer[f] # None /\ answer[f] # "ok" /\ log[f] = <<>>
      BY <1>0, <1>2 DEF FetchAt
    <3>2. \/ f \in Blocked /\ work'[f] = "failed"
          \/ f \notin Blocked /\ work'[f] = "fetching" /\ log' = log
          \/ f \in Limited \ Blocked /\ work'[f] = "read" /\ log' = log
      BY <1>0, <1>1 DEF Types
    <3>. QED
      BY <2>2, <3>1, <3>2 DEF FetchAt
  <2>. QED
    BY <2>1, <2>2
<1>7. \A c \in Remote : RemoteAt(c)'
  BY <1>0, <1>2, <1>4 DEF RemoteAt
<1>. QED
  BY <1>3, <1>5, <1>6, <1>7 DEF EffectInv

(* So do the steps of a remote call.                                       *)
LEMMA RemoteStep ==
    ASSUME EffectInv, NEW c \in Remote,
           \/ CallRemote(c) \/ StartRemote(c) \/ Answered(c)
           \/ DeliverRemote(c) \/ ExpiresOnLoop(c)
    PROVE  EffectInv'
<1>. USE DEF At, Goto, Answers, Made
<1>0. /\ Types /\ QueueInv /\ c \in Calls /\ c \notin Fetches
      /\ \A g \in Fetches : FetchAt(g) /\ g \in Calls /\ g # c
      /\ \A d \in Remote : RemoteAt(d) /\ d \in Calls
      /\ None \notin {"waiting", "ok", "error"} /\ OnLoop \subseteq Remote
  BY ToolsAssumption DEF EffectInv, Calls
<1>t. Types /\ c \in Calls /\ c \in Remote
  BY <1>0
<1>1. CASE CallRemote(c)
  <2>1. Types'
    BY <1>0, <1>1 DEF CallRemote, Types, RemotePlaces, FetchPlaces, Places
  <2>2. QueueInv'
    BY <1>0, <1>1, ElementOfSeq DEF CallRemote, Types, QueueInv
  <2>3. \A g \in Fetches : FetchAt(g)'
    BY <1>0, <1>1 DEF CallRemote, Types, FetchAt
  <2>4. \A d \in Remote : RemoteAt(d)'
    BY <1>0, <1>1 DEF CallRemote, Types, RemoteAt
  <2>. QED
    BY <2>1, <2>2, <2>3, <2>4 DEF EffectInv
<1>2. CASE StartRemote(c)
  <2>0. c \in OnLoop => answer[c] # "waiting"
    BY <1>0, <1>2 DEF StartRemote, MayRun, LoopBlocked
  <2>1. Types'
    <3>1. /\ answer' \in [Calls -> {None, "waiting", "ok", "error"}]
          /\ seen' \in [Fetches -> Nat] /\ counts' \in [DOMAIN Quota -> Nat]
          /\ effects' \in [Calls -> Nat]
      <4>1. effects[c] + 1 \in Nat /\ UNCHANGED <<seen, counts>>
        BY <1>t, <1>2 DEF StartRemote, Types
      <4>2. effects' = effects \/ effects' = [effects EXCEPT ![c] = effects[c] + 1]
        BY <1>2 DEF StartRemote
      <4>3. effects' \in [Calls -> Nat]
        BY <1>t, <4>1, <4>2 DEF Types
      <4>. QED
        BY <1>t, <1>2, <4>1, <4>3 DEF StartRemote, Types
    <3>2. queue' \in Seq(Fetches)
      BY <1>t, <1>2 DEF StartRemote, Types
    <3>3. log' \in [Fetches -> Seq({"ok", "error"})]
      BY <1>t, <1>2 DEF StartRemote, Types
    <3>4. work' \in [Calls -> Places]
      BY <1>0, <1>2 DEF StartRemote, Types, Places
    <3>5. /\ \A g \in Fetches : work'[g] \in FetchPlaces
          /\ \A d \in Remote : work'[d] \in RemotePlaces
      BY <1>0, <1>2 DEF StartRemote, Types, FetchPlaces, RemotePlaces
    <3>. QED
      BY <3>1, <3>2, <3>3, <3>4, <3>5 DEF Types
  <2>2. QueueInv'
    BY <1>0, <1>2, ElementOfSeq DEF StartRemote, Types, QueueInv
  <2>3. \A g \in Fetches : FetchAt(g)'
    BY <1>0, <1>2 DEF StartRemote, Types, FetchAt
  <2>4. \A d \in Remote : RemoteAt(d)'
    BY <1>0, <1>2, <2>0 DEF StartRemote, Types, RemoteAt
  <2>. QED
    BY <2>1, <2>2, <2>3, <2>4 DEF EffectInv
<1>3. CASE DeliverRemote(c)
  <2>0. c \notin OnLoop
    BY <1>0, <1>3 DEF DeliverRemote, RemoteAt
  <2>1. Types'
    BY <1>0, <1>3 DEF DeliverRemote, Types
  <2>2. QueueInv'
    BY <1>0, <1>3 DEF DeliverRemote, QueueInv
  <2>3. \A g \in Fetches : FetchAt(g)'
    BY <1>0, <1>3 DEF DeliverRemote, Types, FetchAt
  <2>4. \A d \in Remote : RemoteAt(d)'
    BY <1>0, <1>3, <2>0 DEF DeliverRemote, Types, RemoteAt
  <2>. QED
    BY <2>1, <2>2, <2>3, <2>4 DEF EffectInv
<1>4. CASE ExpiresOnLoop(c)
  <2>1. Types'
    BY <1>0, <1>4 DEF ExpiresOnLoop, Types
  <2>2. QueueInv'
    BY <1>0, <1>4 DEF ExpiresOnLoop, QueueInv
  <2>3. \A g \in Fetches : FetchAt(g)'
    BY <1>0, <1>4 DEF ExpiresOnLoop, Types, FetchAt
  <2>4. \A d \in Remote : RemoteAt(d)'
    BY <1>0, <1>4 DEF ExpiresOnLoop, Types, RemoteAt
  <2>. QED
    BY <2>1, <2>2, <2>3, <2>4 DEF EffectInv
<1>5. CASE Answered(c)
  <2>0. /\ c \in OnLoop => answer[c] # "waiting"
        /\ effects[c] \in Nat /\ effects[c] <= 1 /\ answer[c] # None /\ answer[c] # "ok"
    BY <1>0, <1>5 DEF Answered, MayRun, LoopBlocked, RemoteAt, Types
  <2>1. Types'
    <3>1. /\ work' \in [Calls -> Places]
          /\ \A g \in Fetches : work'[g] \in FetchPlaces
          /\ \A d \in Remote : work'[d] \in RemotePlaces
      BY <1>0, <1>5 DEF Answered, Types, FetchPlaces, RemotePlaces, Places
    <3>. QED
      BY <1>t, <1>5, <3>1 DEF Answered, Types
  <2>2. QueueInv'
    BY <1>0, <1>5, ElementOfSeq DEF Answered, Types, QueueInv
  <2>3. \A g \in Fetches : FetchAt(g)'
    BY <1>0, <1>5 DEF Answered, Types, FetchAt
  <2>4. \A d \in Remote : RemoteAt(d)'
    BY <1>0, <1>5, <2>0 DEF Answered, Types, RemoteAt
  <2>. QED
    BY <2>1, <2>2, <2>3, <2>4 DEF EffectInv
<1>. QED
  BY <1>1, <1>2, <1>3, <1>4, <1>5

(* Every step keeps the invariant.                                         *)
LEMMA NextEffectInv == EffectInv /\ [Next]_vars => EffectInv'
<1>. SUFFICES ASSUME EffectInv, [Next]_vars PROVE EffectInv'
  OBVIOUS
<1>1. CASE ClosePool
  BY <1>1 DEF ClosePool, EffectInv, Types, QueueInv, FetchAt, RemoteAt
<1>2. CASE UNCHANGED vars
  BY <1>2 DEF vars, EffectInv, Types, QueueInv, FetchAt, RemoteAt
<1>. QED
  BY <1>1, <1>2, FetchStep, StartStep, RemoteStep DEF Next

LEMMA EffectInvariant == Spec => []EffectInv
BY InitEffectInv, NextEffectInv, PTL DEF Spec

(* Giving up does not undo: no call takes effect twice, one reported ok    *)
(* has taken effect, with its entry in the log if it was a fetch, and one  *)
(* made on an event loop is never reported ok.                             *)
THEOREM ToolsEffectsOnce == Spec => []EffectsOnce
<1>1. EffectInv => EffectsOnce
  <2>. SUFFICES ASSUME EffectInv PROVE EffectsOnce
    OBVIOUS
  <2>1. \A f \in Fetches : /\ effects[f] \in Nat /\ effects[f] <= 1
                           /\ answer[f] = "ok" => effects[f] = 1 /\ log[f] = <<"ok">>
                           /\ f \notin OnLoop
    <3>. SUFFICES ASSUME NEW f \in Fetches
                  PROVE  /\ effects[f] \in Nat /\ effects[f] <= 1
                         /\ answer[f] = "ok" => effects[f] = 1 /\ log[f] = <<"ok">>
                         /\ f \notin OnLoop
      OBVIOUS
    <3>1. FetchAt(f) /\ effects[f] \in Nat /\ work[f] \in FetchPlaces /\ f \notin OnLoop
      BY ToolsAssumption DEF EffectInv, Types, Calls
    <3>. QED
      BY <3>1 DEF FetchAt, FetchPlaces
  <2>2. \A c \in Remote : /\ effects[c] \in Nat /\ effects[c] <= 1
                          /\ answer[c] = "ok" => effects[c] = 1 /\ c \notin OnLoop
    <3>. SUFFICES ASSUME NEW c \in Remote
                  PROVE  /\ effects[c] \in Nat /\ effects[c] <= 1
                         /\ answer[c] = "ok" => effects[c] = 1 /\ c \notin OnLoop
      OBVIOUS
    <3>1. RemoteAt(c) /\ effects[c] \in Nat /\ work[c] \in RemotePlaces
      BY DEF EffectInv, Types, Calls
    <3>. QED
      BY <3>1 DEF RemoteAt, RemotePlaces
  <2>. QED
    BY <2>1, <2>2 DEF EffectsOnce, Calls
<1>. QED
  BY <1>1, EffectInvariant, PTL

-----------------------------------------------------------------------------
(* Quotas.                                                                 *)

\* The fetches of an agent that have been counted, and of these the ones
\* that are still to be compared.
Stored(a) == {f \in Limited \ Blocked : Agent[f] = a /\ work[f] = "stored"}
Served(a) == Stored(a) \cup Tested(a)

(* A thread writes what it has read plus one, so the counter of an agent   *)
(* never runs ahead of the fetches counted.                                *)
CountsBehind ==
    /\ \A a \in DOMAIN Quota : counts[a] <= Cardinality(Served(a))
    /\ \A f \in Limited : work[f] = "read" => seen[f] <= Cardinality(Served(Agent[f]))

(* When a fetch was refused, all but the threads' own were served.         *)
RefusedLate ==
    \A a \in DOMAIN Quota :
        Refused(a) # {} => Passed(a) >= Quota[a] - (Workers - 1)

(* An agent whose fetches never met in the quota test is counted exactly.  *)
Exact(a) ==
    /\ \A f, g \in InTest(a) : f = g
    /\ counts[a] = Cardinality(Served(a))
    /\ \A f \in InTest(a) : work[f] = "read" => seen[f] = counts[a]
    /\ Cardinality(Tested(a)) <= Quota[a] => Refused(a) = {}
    /\ Cardinality(Tested(a)) > Quota[a] => Passed(a) = Quota[a]

QuotaInv ==
    /\ EffectInv
    /\ Cardinality(Busy) <= Workers
    /\ CountsBehind /\ RefusedLate
    /\ \A a \in DOMAIN Quota : a \notin crowded => Exact(a)

(* The sets that are counted are finite.                                   *)
LEMMA SetsFinite ==
    ASSUME NEW a
    PROVE  /\ IsFiniteSet(Busy) /\ Cardinality(Busy) \in Nat
           /\ IsFiniteSet(Stored(a)) /\ Cardinality(Stored(a)) \in Nat
           /\ IsFiniteSet(Tested(a)) /\ Cardinality(Tested(a)) \in Nat
           /\ IsFiniteSet(Refused(a)) /\ Cardinality(Refused(a)) \in Nat
           /\ IsFiniteSet(Served(a)) /\ Cardinality(Served(a)) \in Nat
           /\ Stored(a) \subseteq Busy
           /\ Cardinality(Stored(a)) <= Cardinality(Busy)
           /\ Cardinality(Served(a)) = Cardinality(Stored(a)) + Cardinality(Tested(a))
           /\ Cardinality(Refused(a)) <= Cardinality(Tested(a))
<1>1. /\ IsFiniteSet(Fetches) /\ Busy \subseteq Fetches /\ Stored(a) \subseteq Busy
      /\ Tested(a) \subseteq Fetches /\ Refused(a) \subseteq Tested(a)
      /\ Stored(a) \cap Tested(a) = {}
  BY ToolsAssumption DEF Busy, Stored, Tested, Refused, Limited
<1>2. IsFiniteSet(Busy) /\ IsFiniteSet(Tested(a))
  BY <1>1, FS_Subset
<1>3. IsFiniteSet(Stored(a)) /\ IsFiniteSet(Refused(a))
  BY <1>1, <1>2, FS_Subset
<1>4. IsFiniteSet(Served(a))
  BY <1>2, <1>3, FS_Union DEF Served
<1>5. /\ Cardinality(Stored(a)) <= Cardinality(Busy)
      /\ Cardinality(Refused(a)) <= Cardinality(Tested(a))
  BY <1>1, <1>2, FS_Subset
<1>6. Cardinality(Stored(a) \cap Tested(a)) = 0
  BY <1>1, FS_EmptySet
<1>7. /\ Cardinality(Busy) \in Nat /\ Cardinality(Stored(a)) \in Nat
      /\ Cardinality(Tested(a)) \in Nat /\ Cardinality(Refused(a)) \in Nat
      /\ Cardinality(Served(a)) \in Nat
  BY <1>2, <1>3, <1>4, FS_CardinalityType
<1>8. Cardinality(Served(a)) = Cardinality(Stored(a)) + Cardinality(Tested(a))
  <2>1. Cardinality(Served(a)) = Cardinality(Stored(a)) + Cardinality(Tested(a))
                                     - Cardinality(Stored(a) \cap Tested(a))
    BY <1>2, <1>3, FS_Union DEF Served
  <2>. QED
    BY <2>1, <1>6, <1>7
<1>. QED
  BY <1>1, <1>2, <1>3, <1>4, <1>5, <1>7, <1>8

(* The initial state satisfies the invariant.                              *)
LEMMA InitQuotaInv == Init => QuotaInv
<1>. SUFFICES ASSUME Init PROVE QuotaInv
  OBVIOUS
<1>1. /\ Busy = {} /\ \A a : Served(a) = {} /\ Tested(a) = {} /\ Refused(a) = {} /\ InTest(a) = {}
      /\ \A f \in Fetches : work[f] = "none"
  BY DEF Init, Busy, Served, Stored, Tested, Refused, InTest, Limited, Calls
<1>2. Cardinality({}) = 0
  BY FS_EmptySet
<1>3. Cardinality(Busy) <= Workers
  BY <1>1, <1>2, ToolsAssumption
<1>c. \A a \in DOMAIN Quota :
          counts[a] = 0 /\ Cardinality(Served(a)) = 0 /\ Cardinality(Tested(a)) = 0
  BY <1>1, <1>2 DEF Init
<1>4. CountsBehind
  BY <1>1, <1>c DEF CountsBehind, Limited
<1>5. RefusedLate
  BY <1>1 DEF RefusedLate
<1>6. \A a \in DOMAIN Quota : Exact(a)
  BY <1>1, <1>c, ToolsAssumption DEF Exact
<1>. QED
  BY <1>3, <1>4, <1>5, <1>6, InitEffectInv DEF QuotaInv

(* A step that moves no fetch through the quota test keeps the invariant.  *)
LEMMA QuotaFrame ==
    ASSUME QuotaInv, EffectInv', UNCHANGED <<seen, counts, crowded>>,
           Cardinality(Busy)' <= Workers,
           \A f \in Limited : work'[f] = "read" <=> work[f] = "read",
           \A a \in DOMAIN Quota :
               /\ Stored(a)' = Stored(a) /\ InTest(a)' = InTest(a)
               /\ Tested(a)' = Tested(a) /\ Refused(a)' = Refused(a)
    PROVE  QuotaInv'
<1>1. \A a \in DOMAIN Quota :
          Served(a)' = Served(a) /\ Passed(a)' = Passed(a)
  BY DEF Served, Passed
<1>2. \A f \in Limited : Agent[f] \in DOMAIN Quota
  BY DEF Limited
<1>3. CountsBehind'
  BY <1>1, <1>2 DEF QuotaInv, CountsBehind
<1>4. RefusedLate'
  BY <1>1 DEF QuotaInv, RefusedLate
<1>5. \A a \in DOMAIN Quota : a \notin crowded' => Exact(a)'
  <2>. SUFFICES ASSUME NEW a \in DOMAIN Quota, a \notin crowded' PROVE Exact(a)'
    OBVIOUS
  <2>1. Exact(a) /\ \A f \in InTest(a) : f \in Limited
    BY DEF QuotaInv, InTest
  <2>. QED
    BY <1>1, <2>1 DEF Exact
<1>. QED
  BY <1>3, <1>4, <1>5 DEF QuotaInv

(* A fetch that goes on to the quota test has read the counter.            *)
LEMMA QuotaStart ==
    ASSUME QuotaInv, EffectInv', Start
    PROVE  QuotaInv'
<1>. USE DEF At, Goto
<1>. DEFINE f == Head(queue)
<1>0. /\ EffectInv /\ Types /\ f \in Fetches /\ f \in Calls /\ work[f] = "queued"
      /\ effects' = effects /\ counts' = counts /\ effects[f] = 0
      /\ Cardinality(Busy) < Workers /\ crowded \subseteq crowded'
  BY QueueHead DEF QuotaInv, EffectInv, Start, Calls, FetchAt
<1>1. \A g \in Fetches : g # f => work'[g] = work[g]
  BY <1>0 DEF Start, Types, Calls
<1>2. \/ f \in Blocked /\ work'[f] = "failed" /\ UNCHANGED <<seen, crowded>>
      \/ f \notin Blocked \cup Limited /\ work'[f] = "fetching" /\ UNCHANGED <<seen, crowded>>
      \/ /\ f \in Limited \ Blocked
         /\ work'[f] = "read"
         /\ seen' = [seen EXCEPT ![f] = counts[Agent[f]]]
         /\ crowded' = crowded \cup (IF InTest(Agent[f]) = {} THEN {} ELSE {Agent[f]})
  BY <1>0 DEF Start, Types
<1>3. Cardinality(Busy)' <= Workers
  <2>1. Busy' \subseteq Busy \cup {f}
    BY <1>1 DEF Busy
  <2>2. /\ IsFiniteSet(Busy) /\ Cardinality(Busy) \in Nat /\ IsFiniteSet(Busy \cup {f})
        /\ Cardinality(Busy \cup {f}) <= Cardinality(Busy) + 1
    BY SetsFinite, FS_AddElement
  <2>3. Cardinality(Busy') <= Cardinality(Busy \cup {f}) /\ Cardinality(Busy') \in Nat
        /\ Cardinality(Busy \cup {f}) \in Nat
    BY <2>1, <2>2, FS_Subset, FS_CardinalityType
  <2>. QED
    BY <1>0, <2>2, <2>3, ToolsAssumption
<1>4. \A a : Stored(a)' = Stored(a) /\ Tested(a)' = Tested(a) /\ Refused(a)' = Refused(a)
  BY <1>0, <1>1, <1>2 DEF Stored, Tested, Refused, Limited
<1>5. CASE ~(f \in Limited \ Blocked)
  <2>1. UNCHANGED <<seen, crowded>> /\ work'[f] \in {"failed", "fetching"}
    BY <1>2, <1>5
  <2>2. \A g \in Limited : work'[g] = "read" <=> work[g] = "read"
    BY <1>0, <1>1, <2>1 DEF Limited
  <2>3. \A a : InTest(a)' = InTest(a)
    BY <1>0, <1>1, <2>1 DEF InTest, Limited
  <2>. QED
    BY <1>0, <1>3, <1>4, <2>1, <2>2, <2>3, QuotaFrame
<1>6. CASE f \in Limited \ Blocked
  <2>1. /\ work'[f] = "read" /\ seen'[f] = counts[Agent[f]] /\ Agent[f] \in DOMAIN Quota
        /\ \A g \in Fetches : g # f => seen'[g] = seen[g]
        /\ InTest(Agent[f]) # {} => Agent[f] \in crowded'
    BY <1>0, <1>2, <1>6 DEF Types, Limited
  <2>2. \A a : Served(a)' = Served(a) /\ Passed(a)' = Passed(a)
    BY <1>4 DEF Served, Passed
  <2>3. CountsBehind'
    <3>1. CountsBehind
      BY DEF QuotaInv
    <3>2. \A a \in DOMAIN Quota : counts'[a] <= Cardinality(Served(a)')
      BY <1>0, <2>2, <3>1 DEF CountsBehind
    <3>3. \A g \in Limited : work'[g] = "read" => seen'[g] <= Cardinality(Served(Agent[g])')
      <4>. SUFFICES ASSUME NEW g \in Limited, work'[g] = "read"
                    PROVE  seen'[g] <= Cardinality(Served(Agent[g]))
        BY <2>2
      <4>1. CASE g = f
        BY <2>1, <3>1, <4>1 DEF CountsBehind
      <4>2. CASE g # f
        BY <1>1, <2>1, <3>1, <4>2 DEF CountsBehind, Limited
      <4>. QED
        BY <4>1, <4>2
    <3>. QED
      BY <3>2, <3>3 DEF CountsBehind
  <2>4. RefusedLate'
    BY <1>4, <2>2 DEF QuotaInv, RefusedLate
  <2>5. \A a \in DOMAIN Quota : a \notin crowded' => Exact(a)'
    <3>. SUFFICES ASSUME NEW a \in DOMAIN Quota, a \notin crowded' PROVE Exact(a)'
      OBVIOUS
    <3>1. Exact(a)
      BY <1>0 DEF QuotaInv
    <3>2. CASE a = Agent[f]
      <4>1. InTest(a) = {}
        BY <2>1, <3>2
      <4>2. \A g \in InTest(a)' : g = f
        BY <1>1, <4>1 DEF InTest, Limited
      <4>. QED
        BY <1>0, <1>4, <2>1, <2>2, <3>1, <3>2, <4>2 DEF Exact
    <3>3. CASE a # Agent[f]
      <4>1. InTest(a)' = InTest(a)
        BY <1>1, <3>3 DEF InTest, Limited
      <4>2. \A g \in InTest(a) : seen'[g] = seen[g] /\ work'[g] = work[g]
        BY <1>1, <2>1, <3>3 DEF InTest, Limited
      <4>. QED
        BY <1>0, <1>4, <2>2, <3>1, <4>1, <4>2 DEF Exact
    <3>. QED
      BY <3>2, <3>3
  <2>. QED
    BY <1>3, <2>3, <2>4, <2>5 DEF QuotaInv
<1>. QED
  BY <1>5, <1>6

(* A fetch is counted.                                                     *)
LEMMA QuotaCount ==
    ASSUME QuotaInv, EffectInv', NEW f \in Fetches, Count(f)
    PROVE  QuotaInv'
<1>. USE DEF At, Goto
<1>. DEFINE b == Agent[f]
<1>0. /\ EffectInv /\ Types /\ f \in Calls /\ work[f] = "read" /\ work'[f] = "stored"
      /\ effects' = effects /\ seen' = seen /\ crowded' = crowded
      /\ counts' = [counts EXCEPT ![b] = seen[f] + 1]
      /\ \A g \in Fetches : g # f => work'[g] = work[g]
      /\ f \notin Blocked /\ seen[f] \in Nat
  BY DEF QuotaInv, EffectInv, Count, Calls, FetchAt, Types
<1>1. f \in Limited /\ b \in DOMAIN Quota
  BY <1>0 DEF EffectInv, FetchAt, Limited
<1>2. Cardinality(Busy)' <= Workers
  <2>1. Busy' = Busy
    BY <1>0 DEF Busy
  <2>. QED
    BY <2>1 DEF QuotaInv
<1>3. \A a : Tested(a)' = Tested(a) /\ Refused(a)' = Refused(a) /\ Passed(a)' = Passed(a)
  BY <1>0 DEF Tested, Refused, Passed, Limited
<1>4. \A a : InTest(a)' = InTest(a)
  BY <1>0 DEF InTest, Limited
<1>5. /\ Cardinality(Served(b)') = Cardinality(Served(b)) + 1
      /\ \A a : a # b => Served(a)' = Served(a)
      /\ \A a : Cardinality(Served(a)) \in Nat
  <2>1. Served(b)' = Served(b) \cup {f} /\ f \notin Served(b)
    BY <1>0, <1>1, <1>3 DEF Served, Stored, Tested, Limited
  <2>2. \A a : a # b => Served(a)' = Served(a)
    BY <1>0, <1>3 DEF Served, Stored, Limited
  <2>. QED
    BY <2>1, <2>2, SetsFinite, FS_AddElement
<1>6. CountsBehind'
  <2>1. CountsBehind /\ seen[f] <= Cardinality(Served(b))
    BY <1>0, <1>1 DEF QuotaInv, CountsBehind
  <2>2. \A a \in DOMAIN Quota : counts'[a] <= Cardinality(Served(a)')
    BY <1>0, <1>1, <1>5, <2>1 DEF CountsBehind, Types
  <2>3. ASSUME NEW g \in Limited, work'[g] = "read"
        PROVE  seen'[g] <= Cardinality(Served(Agent[g])')
    <3>1. work[g] = "read" /\ g # f /\ seen[g] \in Nat
      BY <1>0, <2>3 DEF Limited, Types
    <3>2. seen[g] <= Cardinality(Served(Agent[g]))
      BY <2>1, <3>1 DEF CountsBehind
    <3>. QED
      BY <1>0, <1>5, <3>1, <3>2
  <2>. QED
    BY <2>2, <2>3 DEF CountsBehind
<1>7. RefusedLate'
  BY <1>3 DEF QuotaInv, RefusedLate
<1>8. \A a \in DOMAIN Quota : a \notin crowded' => Exact(a)'
  <2>. SUFFICES ASSUME NEW a \in DOMAIN Quota, a \notin crowded' PROVE Exact(a)'
    OBVIOUS
  <2>1. Exact(a)
    BY <1>0 DEF QuotaInv
  <2>2. CASE a = b
    <3>1. f \in InTest(a) /\ seen[f] = counts[a]
      BY <1>0, <1>1, <2>1, <2>2 DEF Exact, InTest
    <3>2. \A g \in InTest(a)' : g = f
      BY <1>4, <2>1, <3>1 DEF Exact
    <3>3. counts'[a] = Cardinality(Served(a)')
      BY <1>0, <1>1, <1>5, <2>1, <2>2, <3>1 DEF Exact, Types
    <3>. QED
      BY <1>0, <1>3, <2>1, <3>2, <3>3 DEF Exact
  <2>3. CASE a # b
    <3>1. counts'[a] = counts[a] /\ Served(a)' = Served(a)
      BY <1>0, <1>5, <2>3 DEF Types
    <3>2. \A g \in InTest(a) : work'[g] = work[g]
      BY <1>0, <2>3 DEF InTest, Limited
    <3>. QED
      BY <1>0, <1>3, <1>4, <2>1, <3>1, <3>2 DEF Exact
  <2>. QED
    BY <2>2, <2>3
<1>. QED
  BY <1>2, <1>6, <1>7, <1>8 DEF QuotaInv

(* A fetch is compared: a refusal means that the counter, and with it the  *)
(* fetches counted, have passed the quota, and of these all but one for    *)
(* each busy thread have been compared before.                             *)
LEMMA QuotaCheck ==
    ASSUME QuotaInv, EffectInv', NEW f \in Fetches, CheckQuota(f)
    PROVE  QuotaInv'
<1>. USE DEF At, Goto
<1>. DEFINE b == Agent[f]
<1>0. /\ EffectInv /\ Types /\ f \in Calls /\ work[f] = "stored"
      /\ effects' = effects /\ seen' = seen /\ crowded' = crowded /\ counts' = counts
      /\ work'[f] = IF Within(f) THEN "fetching" ELSE "failed"
      /\ \A g \in Fetches : g # f => work'[g] = work[g]
      /\ effects[f] = 0
  BY DEF QuotaInv, EffectInv, CheckQuota, Calls, FetchAt, Types
<1>1. f \in Limited \ Blocked /\ b \in DOMAIN Quota /\ counts[b] \in Nat /\ Quota[b] \in Nat
  BY <1>0, ToolsAssumption DEF EffectInv, FetchAt, Limited, Types
<1>2. Cardinality(Busy)' <= Workers
  <2>1. Busy' \subseteq Busy
    BY <1>0 DEF Busy
  <2>2. Cardinality(Busy') <= Cardinality(Busy) /\ Cardinality(Busy) \in Nat
        /\ Cardinality(Busy') \in Nat
    BY <2>1, SetsFinite, FS_Subset, FS_CardinalityType
  <2>. QED
    BY <2>2, ToolsAssumption DEF QuotaInv
<1>3. \A a : Served(a)' = Served(a)
  BY <1>0 DEF Served, Stored, Tested, Limited
<1>4. \A a : a # b => /\ Tested(a)' = Tested(a) /\ Refused(a)' = Refused(a)
                      /\ Passed(a)' = Passed(a)
  BY <1>0 DEF Tested, Refused, Passed, Limited
<1>5. Tested(b)' = Tested(b) \cup {f} /\ f \notin Tested(b)
  BY <1>0, <1>1 DEF Tested, Limited
<1>6. Refused(b)' = IF Within(f) THEN Refused(b) ELSE Refused(b) \cup {f}
  <2>1. \A g \in Tested(b) : g # f /\ g \in Fetches
    BY <1>5 DEF Tested, Limited
  <2>2. \A g \in Tested(b) : effects'[g] = effects[g] /\ work'[g] = work[g]
    BY <1>0, <2>1
  <2>. QED
    BY <1>0, <1>5, <2>2 DEF Refused
<1>7. /\ Cardinality(Tested(b)') = Cardinality(Tested(b)) + 1
      /\ Cardinality(Tested(b)) \in Nat /\ Cardinality(Refused(b)) \in Nat
      /\ f \notin Refused(b)
      /\ Cardinality(Refused(b)') = IF Within(f) THEN Cardinality(Refused(b))
                                    ELSE Cardinality(Refused(b)) + 1
  BY <1>5, <1>6, SetsFinite, FS_AddElement DEF Refused
<1>8. CountsBehind'
  <2>1. CountsBehind /\ \A g \in Limited : work'[g] = "read" => work[g] = "read"
    BY <1>0, <1>1 DEF QuotaInv, Limited
  <2>. QED
    BY <1>0, <1>3, <2>1 DEF CountsBehind
<1>9. RefusedLate'
  <2>. SUFFICES ASSUME NEW a \in DOMAIN Quota, Refused(a)' # {}
                PROVE  Passed(a)' >= Quota[a] - (Workers - 1)
    BY DEF RefusedLate
  <2>1. RefusedLate
    BY DEF QuotaInv
  <2>2. CASE a # b
    BY <1>4, <2>1, <2>2 DEF RefusedLate
  <2>3. CASE a = b /\ Refused(b) # {}
    <3>1. Passed(b) >= Quota[b] - (Workers - 1)
      BY <1>1, <2>1, <2>3 DEF RefusedLate
    <3>2. Passed(b)' >= Passed(b)
      BY <1>7 DEF Passed
    <3>3. Passed(b) \in Int /\ Passed(b)' \in Int
      BY <1>7 DEF Passed
    <3>. QED
      BY <1>1, <2>3, <3>1, <3>2, <3>3, ToolsAssumption
  <2>4. CASE a = b /\ Refused(b) = {}
    <3>1. ~Within(f)
      BY <1>6, <2>4
    <3>2. counts[b] > Quota[b] /\ counts[b] <= Cardinality(Served(b))
      BY <1>1, <3>1 DEF Within, QuotaInv, CountsBehind
    <3>3. /\ Cardinality(Served(b)) = Cardinality(Stored(b)) + Cardinality(Tested(b))
          /\ Cardinality(Stored(b)) <= Workers /\ Cardinality(Stored(b)) \in Nat
      <4>1. Cardinality(Busy) <= Workers
        BY DEF QuotaInv
      <4>. QED
        BY <4>1, SetsFinite, ToolsAssumption
    <3>4. Cardinality(Refused(b)) = 0
      BY <2>4, FS_EmptySet
    <3>5. Passed(b)' = Cardinality(Tested(b))
      BY <1>7, <3>1, <3>4 DEF Passed
    <3>. QED
      BY <1>1, <1>7, <2>4, <3>2, <3>3, <3>5, ToolsAssumption
  <2>. QED
    BY <2>2, <2>3, <2>4
<1>10. \A a \in DOMAIN Quota : a \notin crowded' => Exact(a)'
  <2>. SUFFICES ASSUME NEW a \in DOMAIN Quota, a \notin crowded' PROVE Exact(a)'
    OBVIOUS
  <2>1. Exact(a)
    BY <1>0 DEF QuotaInv
  <2>2. CASE a # b
    <3>1. InTest(a)' = InTest(a) /\ \A g \in InTest(a) : work'[g] = work[g]
      BY <1>0, <2>2 DEF InTest, Limited
    <3>. QED
      BY <1>0, <1>3, <1>4, <2>1, <2>2, <3>1 DEF Exact
  <2>3. CASE a = b
    <3>1. f \in InTest(b)
      BY <1>0, <1>1 DEF InTest
    <3>2. InTest(b)' = {}
      BY <1>0, <2>1, <2>3, <3>1 DEF InTest, Exact, Limited
    <3>3. Stored(b) = {f}
      BY <1>0, <1>1, <2>1, <2>3, <3>1 DEF Stored, InTest, Exact
    <3>4. counts[b] = Cardinality(Tested(b)) + 1
      BY <1>7, <2>1, <2>3, <3>3, SetsFinite, FS_Singleton DEF Exact
    <3>5. Within(f) <=> Cardinality(Tested(b)') <= Quota[b]
      BY <1>7, <3>4 DEF Within
    <3>6. Refused(b) = {} => Cardinality(Refused(b)) = 0
      BY FS_EmptySet
    <3>7. Cardinality(Tested(b)') <= Quota[b] => Refused(b)' = {}
      BY <1>1, <1>6, <1>7, <2>1, <2>3, <3>5 DEF Exact
    <3>8. Cardinality(Tested(b)') > Quota[b] => Passed(b)' = Quota[b]
      <4>. SUFFICES ASSUME Cardinality(Tested(b)') > Quota[b] PROVE Passed(b)' = Quota[b]
        OBVIOUS
      <4>1. ~Within(f)
        BY <1>1, <1>7, <3>5
      <4>2. Passed(b)' = Cardinality(Tested(b)) - Cardinality(Refused(b))
        BY <1>7, <4>1 DEF Passed
      <4>3. CASE Cardinality(Tested(b)) <= Quota[b]
        BY <1>1, <1>7, <2>1, <2>3, <3>6, <4>2, <4>3 DEF Exact
      <4>4. CASE Cardinality(Tested(b)) > Quota[b]
        BY <2>1, <2>3, <4>2, <4>4 DEF Exact, Passed
      <4>. QED
        BY <1>1, <1>7, <4>3, <4>4
    <3>. QED
      BY <1>0, <1>3, <2>1, <2>3, <3>2, <3>7, <3>8 DEF Exact
  <2>. QED
    BY <2>2, <2>3
<1>. QED
  BY <1>2, <1>8, <1>9, <1>10 DEF QuotaInv

(* The other steps of a fetch are frames of the quota test.                *)
LEMMA QuotaOthers ==
    ASSUME QuotaInv, EffectInv', NEW f \in Fetches,
           Submit(f) \/ Fetched(f) \/ Deliver(f) \/ Expires(f)
    PROVE  QuotaInv'
<1>. USE DEF At, Goto
<1>0. /\ EffectInv /\ Types /\ f \in Calls /\ UNCHANGED <<seen, counts, crowded>>
      /\ \A g \in Fetches : g # f => work'[g] = work[g] /\ effects'[g] = effects[g]
      /\ \/ work'[f] = work[f] /\ effects'[f] = effects[f]
         \/ work[f] = "none" /\ work'[f] = "queued"
         \/ work[f] = "fetching" /\ work'[f] \in {"done", "failed"} /\ effects'[f] = 1
  <2>0. EffectInv /\ Types /\ f \in Calls /\ FetchAt(f) /\ \A g \in Fetches : g \in Calls
    BY DEF QuotaInv, EffectInv, Calls
  <2>1. CASE Submit(f)
    BY <2>0, <2>1 DEF Submit, Made, Types, FetchAt
  <2>2. CASE Fetched(f)
    <3>1. effects[f] = 0 /\ work[f] = "fetching"
      BY <2>0, <2>2 DEF Fetched, FetchAt
    <3>2. /\ UNCHANGED <<seen, counts, crowded>>
          /\ work' = [work EXCEPT ![f] = "done"] \/ work' = [work EXCEPT ![f] = "failed"]
          /\ effects' = [effects EXCEPT ![f] = @ + 1]
      BY <2>2 DEF Fetched
    <3>. QED
      BY <2>0, <3>1, <3>2 DEF Types
  <2>3. CASE Deliver(f) \/ Expires(f)
    BY <2>0, <2>3 DEF Deliver, Expires
  <2>. QED
    BY <2>1, <2>2, <2>3
<1>1. Cardinality(Busy)' <= Workers
  <2>1. Busy' \subseteq Busy
    BY <1>0 DEF Busy
  <2>2. Cardinality(Busy') <= Cardinality(Busy) /\ Cardinality(Busy) \in Nat
        /\ Cardinality(Busy') \in Nat
    BY <2>1, SetsFinite, FS_Subset, FS_CardinalityType
  <2>. QED
    BY <2>2, ToolsAssumption DEF QuotaInv
<1>2. \A g \in Limited : work'[g] = "read" <=> work[g] = "read"
  BY <1>0 DEF Limited
<1>3. \A a : /\ Stored(a)' = Stored(a) /\ InTest(a)' = InTest(a)
             /\ Tested(a)' = Tested(a) /\ Refused(a)' = Refused(a)
  BY <1>0 DEF Stored, InTest, Tested, Refused, Limited
<1>. QED
  BY <1>0, <1>1, <1>2, <1>3, QuotaFrame

(* Steps that leave the fetches' places alone keep the invariant.          *)
LEMMA QuotaIdle ==
    ASSUME QuotaInv, EffectInv', UNCHANGED <<seen, counts, crowded>>,
           \A g \in Fetches : work'[g] = work[g] /\ effects'[g] = effects[g]
    PROVE  QuotaInv'
<1>1. Busy' = Busy
  BY DEF Busy
<1>2. \A g \in Limited : work'[g] = "read" <=> work[g] = "read"
  BY DEF Limited
<1>3. \A a : /\ Stored(a)' = Stored(a) /\ InTest(a)' = InTest(a)
             /\ Tested(a)' = Tested(a) /\ Refused(a)' = Refused(a)
  BY DEF Stored, InTest, Tested, Refused, Limited
<1>. QED
  BY <1>1, <1>2, <1>3, QuotaFrame DEF QuotaInv

(* Every step keeps the invariant.                                         *)
LEMMA NextQuotaInv == QuotaInv /\ [Next]_vars => QuotaInv'
<1>. SUFFICES ASSUME QuotaInv, [Next]_vars PROVE QuotaInv'
  OBVIOUS
<1>0. EffectInv /\ EffectInv' /\ Types
  BY NextEffectInv DEF QuotaInv, EffectInv
<1>1. ASSUME NEW c \in Remote,
             \/ CallRemote(c) \/ StartRemote(c) \/ Answered(c)
             \/ DeliverRemote(c) \/ ExpiresOnLoop(c)
      PROVE  QuotaInv'
  <2>1. \A g \in Fetches : g # c /\ g \in Calls
    BY <1>1, ToolsAssumption DEF Calls
  <2>2. /\ UNCHANGED <<seen, counts, crowded>>
        /\ \A g \in Fetches : work'[g] = work[g] /\ effects'[g] = effects[g]
    BY <1>0, <1>1, <2>1
       DEF CallRemote, StartRemote, Answered, DeliverRemote, ExpiresOnLoop, Goto, Types
  <2>. QED
    BY <1>0, <2>2, QuotaIdle
<1>2. CASE ClosePool \/ UNCHANGED vars
  <2>1. UNCHANGED <<seen, counts, crowded, work, effects>>
    BY <1>2 DEF ClosePool, vars
  <2>. QED
    BY <1>0, <2>1, QuotaIdle
<1>. QED
  BY <1>0, <1>1, <1>2, QuotaStart, QuotaCount, QuotaCheck, QuotaOthers DEF Next

LEMMA QuotaInvariant == Spec => []QuotaInv
BY InitQuotaInv, NextQuotaInv, PTL DEF Spec

(* An agent whose fetches are tested one at a time gets exactly its quota; *)
(* racing threads lose increments of the counter and may refuse at most    *)
(* one fetch each too early.                                               *)
THEOREM ToolsQuotaServed == Spec => []QuotaServed
<1>1. QuotaInv => QuotaServed
  <2>. SUFFICES ASSUME QuotaInv, NEW a \in DOMAIN Quota
                PROVE  LET n == Cardinality(Tested(a))
                           due == IF n < Quota[a] THEN n ELSE Quota[a]
                       IN  /\ a \notin crowded => Passed(a) = due
                           /\ Passed(a) >= due - (Workers - 1)
    BY DEF QuotaServed
  <2>1. /\ Cardinality(Tested(a)) \in Nat /\ Quota[a] \in Nat /\ Workers \in Nat \ {0}
        /\ Cardinality(Refused(a)) \in Nat
        /\ Refused(a) = {} => Passed(a) = Cardinality(Tested(a))
    BY SetsFinite, FS_EmptySet, ToolsAssumption DEF Passed
  <2>2. a \notin crowded =>
            /\ Cardinality(Tested(a)) <= Quota[a] => Refused(a) = {}
            /\ Cardinality(Tested(a)) > Quota[a] => Passed(a) = Quota[a]
    BY DEF QuotaInv, Exact
  <2>3. Refused(a) # {} => Passed(a) >= Quota[a] - (Workers - 1)
    BY DEF QuotaInv, RefusedLate
  <2>4. Passed(a) \in Int
    BY <2>1 DEF Passed
  <2>. QED
    BY <2>1, <2>2, <2>3, <2>4
<1>. QED
  BY <1>1, QuotaInvariant, PTL

=============================================================================
