---------------------------- MODULE FrontendProofs ----------------------------
(***************************************************************************)
(* Safety of Frontend for any number of connections and clients, every     *)
(* limit, window, body and latency: what is registered is what runs, the   *)
(* counters agree with what happened, bursts are bounded, and a page of    *)
(* metrics shows one moment.                                               *)
(***************************************************************************)
EXTENDS Frontend, FiniteSetTheorems, SequenceTheorems, WellFoundedInduction, TLAPS

-----------------------------------------------------------------------------
(* Types, and the registry.                                                *)
Entry == [start : 0..MaxTime, count : Nat]

TypeInv ==
    /\ TypeOK
    /\ buckets \in [Clients -> Entry \cup {None}]
    /\ granted \in [Clients -> Seq(0..MaxTime)]
    /\ late \in Nat /\ tidied \in BOOLEAN
    /\ \A r \in Requests : now[r] <= clock /\ (pc[r] = "limiter" => setup.limit > 0)

Counted == {"count", "encode", "generate"}

RegistryInv ==
    /\ \A r \in registry : asked[r] \in 1..Cap
    /\ \A r \in leaked : pc[r] = "dropped"
    /\ \A r \in Requests : r \in registry <=> r \in leaked \/ pc[r] \in Counted

(* The initial state satisfies both.                                       *)
LEMMA InitTypes == Init => TypeInv /\ RegistryInv
<1>. SUFFICES ASSUME Init PROVE TypeInv /\ RegistryInv
  OBVIOUS
<1>1. 0 \in 0..MaxTime /\ <<>> \in Seq(0..MaxTime)
  BY FrontendAssumption
<1>2. TypeOK
  BY <1>1 DEF Init, TypeOK, Places
<1>3. RegistryInv
  BY DEF Init, RegistryInv, Counted
<1>4. buckets \in [Clients -> Entry \cup {None}] /\ granted \in [Clients -> Seq(0..MaxTime)]
  BY <1>1 DEF Init
<1>5. \A r \in Requests : now[r] <= clock /\ pc[r] = "new"
  BY DEF Init
<1>6. late \in Nat /\ tidied \in BOOLEAN
  BY DEF Init
<1>. QED
  BY <1>2, <1>3, <1>4, <1>5, <1>6 DEF TypeInv

(* The larger of two numbers.                                              *)
LEMMA MaxOfTwo ==
    ASSUME NEW a \in Int, NEW b \in Int
    PROVE  Max({a, b}) \in {a, b} /\ Max({a, b}) >= a /\ Max({a, b}) >= b
<1>1. \E x \in {a, b} : \A y \in {a, b} : x >= y
  OBVIOUS
<1>. QED
  BY <1>1 DEF Max

(* The entry that allow works with: a count of 0 is a new window.          *)
LEMMA FreshEntry ==
    ASSUME TypeInv, NEW r \in Requests
    PROVE  /\ Fresh(Client[r], now[r]) \in Entry
           /\ [Fresh(Client[r], now[r]) EXCEPT !.count = @ + 1] \in Entry
           /\ [Fresh(Client[r], now[r]) EXCEPT !.count = @ + 1].count
                  = Fresh(Client[r], now[r]).count + 1
           /\ [Fresh(Client[r], now[r]) EXCEPT !.count = @ + 1].start
                  = Fresh(Client[r], now[r]).start
<1>1. Client[r] \in Clients /\ now[r] \in 0..MaxTime
  BY DEF TypeInv, TypeOK, Clients
<1>2. Fresh(Client[r], now[r]) \in Entry
  BY <1>1 DEF Fresh, TypeInv, Entry
<1>. QED
  BY <1>2 DEF Entry

(* allow keeps the types.                                                  *)
LEMMA AllowTypes ==
    ASSUME TypeInv, RegistryInv, NEW r \in Requests, Allow(r)
    PROVE  TypeInv' /\ RegistryInv'
<1>. DEFINE c == Client[r]
            b == Fresh(c, now[r])
<1>1. /\ pc[r] = "limiter" /\ late' = Max({late, clock - now[r]})
      /\ UNCHANGED <<setup, clock, now, asked, registry, tidied, leaked>>
      /\ \/ /\ b.count + 1 <= setup.limit /\ pc' = [pc EXCEPT ![r] = "body"]
            /\ buckets' = [buckets EXCEPT ![c] = [b EXCEPT !.count = @ + 1]]
            /\ granted' = [granted EXCEPT ![c] = Append(granted[c], clock)]
         \/ pc' = [pc EXCEPT ![r] = "429"] /\ UNCHANGED <<buckets, granted>>
  BY DEF Allow, At, Goto
<1>2. c \in Clients /\ clock \in 0..MaxTime /\ now[r] \in 0..MaxTime /\ late \in Nat /\ now[r] <= clock
  BY DEF TypeInv, TypeOK, Clients
<1>3. late' \in Nat
  <2>1. clock - now[r] \in Nat
    BY <1>2, FrontendAssumption
  <2>. DEFINE lag == clock - now[r]
  <2>2. late \in Int /\ lag \in Int /\ late' = Max({late, lag})
    BY <1>1, <1>2, <2>1
  <2>. HIDE DEF lag
  <2>3. Max({late, lag}) \in {late, lag}
    BY <2>2, MaxOfTwo, Zenon
  <2>. QED
    BY <1>2, <2>1, <2>2, <2>3 DEF lag
<1>4. b \in Entry /\ [b EXCEPT !.count = @ + 1] \in Entry /\ [b EXCEPT !.count = @ + 1].count = b.count + 1
  BY FreshEntry
<1>5. buckets' \in [Clients -> Entry \cup {None}]
  BY <1>1, <1>2, <1>4 DEF TypeInv
<1>6. \A d \in Clients : buckets'[d] # None => buckets'[d].count \in 1..setup.limit
  <2>1. CASE UNCHANGED buckets
    BY <1>1, <2>1 DEF TypeInv, TypeOK
  <2>2. CASE /\ b.count + 1 <= setup.limit
             /\ buckets' = [buckets EXCEPT ![c] = [b EXCEPT !.count = @ + 1]]
    <3>1. b.count \in Nat /\ setup.limit \in Nat
      BY <1>4, FrontendAssumption DEF Entry, TypeInv, TypeOK
    <3>2. b.count + 1 \in 1..setup.limit
      BY <2>2, <3>1
    <3>3. buckets'[c].count \in 1..setup.limit
      BY <1>2, <1>4, <2>2, <3>2 DEF TypeInv
    <3>4. \A d \in Clients : d # c => buckets'[d] = buckets[d]
      BY <2>2 DEF TypeInv
    <3>. QED
      BY <1>1, <3>3, <3>4 DEF TypeInv, TypeOK
  <2>. QED
    BY <1>1, <2>1, <2>2
<1>7. granted' \in [Clients -> Seq(0..MaxTime)]
  <2>1. Append(granted[c], clock) \in Seq(0..MaxTime)
    BY <1>2 DEF TypeInv
  <2>. QED
    BY <1>1, <1>2, <2>1 DEF TypeInv
<1>8. /\ pc' \in [Requests -> Places] /\ pc'[r] \in {"body", "429"}
      /\ \A q \in Requests : q # r => pc'[q] = pc[q]
  BY <1>1 DEF TypeInv, TypeOK, Places
<1>9. TypeOK'
  BY <1>1, <1>6, <1>8 DEF TypeInv, TypeOK, Clients
<1>10. RegistryInv'
  BY <1>1, <1>8 DEF RegistryInv, Counted, TypeInv, TypeOK
<1>. QED
  BY <1>1, <1>3, <1>5, <1>7, <1>8, <1>9, <1>10 DEF TypeInv

(* A step that leaves the limiter alone and moves thread r outside the     *)
(* registered part keeps both.                                             *)
LEMMA MoveTypes ==
    ASSUME TypeInv, RegistryInv, NEW r \in Requests, NEW place \in Places \ {"limiter"},
           pc' = [pc EXCEPT ![r] = place],
           UNCHANGED <<setup, clock, now, limiter, asked>>,
           \/ pc[r] \notin Counted \cup {"dropped"} /\ place \notin Counted /\ UNCHANGED <<registry, leaked>>
           \/ pc[r] \in Counted /\ place \in Counted /\ UNCHANGED <<registry, leaked>>
           \/ /\ pc[r] \in Counted /\ place = "dropped" /\ leaked' = leaked \cup {r}
              /\ UNCHANGED registry
           \/ /\ pc[r] \in Counted /\ place \notin Counted /\ registry' = registry \ {r}
              /\ UNCHANGED leaked
    PROVE  TypeInv' /\ RegistryInv'
<1>1. /\ pc' \in [Requests -> Places] /\ pc'[r] = place
      /\ \A q \in Requests : q # r => pc'[q] = pc[q]
  BY DEF TypeInv, TypeOK
<1>2. UNCHANGED <<buckets, granted, late, tidied>>
  BY DEF limiter
<1>3. registry' \subseteq registry /\ leaked' \subseteq leaked \cup {r}
  OBVIOUS
<1>4. TypeOK'
  BY <1>1, <1>2, <1>3 DEF TypeInv, TypeOK
<1>5. TypeInv'
  BY <1>1, <1>2, <1>4 DEF TypeInv
<1>6. RegistryInv'
  BY <1>1, <1>3 DEF RegistryInv, Counted, TypeInv, TypeOK
<1>. QED
  BY <1>5, <1>6

(* A step of no thread that leaves the limiter alone keeps both.           *)
LEMMA IdleTypes ==
    ASSUME TypeInv, RegistryInv, clock' \in clock..MaxTime, tidied' \in BOOLEAN,
           \A c \in Clients : buckets'[c] \in {buckets[c], None},
           buckets' = [c \in Clients |-> buckets'[c]],
           UNCHANGED <<setup, pc, now, granted, late, asked, registry, leaked>>
    PROVE  TypeInv' /\ RegistryInv'
<1>1. clock \in 0..MaxTime /\ clock' \in 0..MaxTime /\ clock <= clock'
  BY FrontendAssumption DEF TypeInv, TypeOK
<1>2. TypeOK'
  BY <1>1 DEF TypeInv, TypeOK
<1>3. \A q \in Requests : now[q] \in 0..MaxTime /\ now[q] <= clock'
  BY <1>1 DEF TypeInv, TypeOK
<1>4. buckets' \in [Clients -> Entry \cup {None}]
  BY DEF TypeInv
<1>5. TypeInv'
  BY <1>2, <1>3, <1>4 DEF TypeInv
<1>. QED
  BY <1>5 DEF RegistryInv

(* A connection reaches the limiter only where there is one.               *)
LEMMA ArriveTypes ==
    ASSUME TypeInv, RegistryInv, NEW r \in Requests, NEW header \in Headers, Arrive(r, header)
    PROVE  TypeInv' /\ RegistryInv'
<1>. DEFINE place == IF Check(header) = "denied" THEN "401"
                     ELSE IF Check(header) = "dropped" THEN "dropped"
                     ELSE IF setup.limit = 0 THEN "body" ELSE "limiter"
<1>1. /\ pc[r] = "new" /\ pc' = [pc EXCEPT ![r] = place] /\ now' = [now EXCEPT ![r] = clock]
      /\ UNCHANGED <<setup, clock, limiter, asked, registry, leaked>>
  BY DEF Arrive, At, Goto
<1>2. /\ place \in {"401", "dropped", "body", "limiter"}
      /\ place = "limiter" => setup.limit # 0
  OBVIOUS
<1>. HIDE DEF place
<1>3. /\ pc' \in [Requests -> Places] /\ pc'[r] = place
      /\ \A q \in Requests : q # r => pc'[q] = pc[q]
  BY <1>1, <1>2 DEF TypeInv, TypeOK, Places
<1>4. UNCHANGED <<buckets, granted, late, tidied>>
  BY <1>1 DEF limiter
<1>5. clock \in 0..MaxTime /\ setup.limit \in Nat
  BY FrontendAssumption DEF TypeInv, TypeOK
<1>6. /\ now' \in [Requests -> 0..MaxTime] /\ now'[r] = clock
      /\ \A q \in Requests : q # r => now'[q] = now[q]
  BY <1>1, <1>5 DEF TypeInv, TypeOK
<1>7. TypeOK'
  BY <1>1, <1>3, <1>4, <1>6 DEF TypeInv, TypeOK
<1>8. \A q \in Requests : now'[q] <= clock' /\ (pc'[q] = "limiter" => setup'.limit > 0)
  <2>. SUFFICES ASSUME NEW q \in Requests
                PROVE  now'[q] <= clock' /\ (pc'[q] = "limiter" => setup'.limit > 0)
    OBVIOUS
  <2>1. CASE q = r
    BY <1>1, <1>2, <1>3, <1>5, <1>6, <2>1, FrontendAssumption
  <2>2. CASE q # r
    BY <1>1, <1>3, <1>6, <2>2 DEF TypeInv
  <2>. QED
    BY <2>1, <2>2
<1>9. TypeInv'
  BY <1>4, <1>7, <1>8 DEF TypeInv
<1>10. RegistryInv'
  BY <1>1, <1>2, <1>3 DEF RegistryInv, Counted, TypeInv, TypeOK
<1>. QED
  BY <1>9, <1>10

(* What is registered passed every check.                                  *)
LEMMA ParseTypes ==
    ASSUME TypeInv, RegistryInv, NEW r \in Requests, Parse(r)
    PROVE  TypeInv' /\ RegistryInv'
<1>1. pc[r] = "body" /\ UNCHANGED <<setup, clock, now, limiter, leaked>>
  BY DEF Parse, At
<1>2. CASE \E place \in {"503", "400", "dropped"} :
               pc' = [pc EXCEPT ![r] = place] /\ UNCHANGED <<asked, registry>>
  <2>1. PICK place \in {"503", "400", "dropped"} :
               pc' = [pc EXCEPT ![r] = place] /\ UNCHANGED <<asked, registry>>
    BY <1>2
  <2>2. place \in Places \ {"limiter"} /\ place \notin Counted
        /\ pc[r] \notin Counted \cup {"dropped"}
    BY <1>1 DEF Places, Counted
  <2>. QED
    BY <1>1, <2>1, <2>2, MoveTypes
<1>3. CASE \E body \in Bodies :
               /\ Given(body) \in 1..Cap /\ pc' = [pc EXCEPT ![r] = "count"]
               /\ asked' = [asked EXCEPT ![r] = Given(body)] /\ registry' = registry \cup {r}
  <2>1. PICK n \in 1..Cap :
               /\ pc' = [pc EXCEPT ![r] = "count"]
               /\ asked' = [asked EXCEPT ![r] = n] /\ registry' = registry \cup {r}
    BY <1>3
  <2>2. /\ pc' \in [Requests -> Places] /\ pc'[r] = "count"
        /\ \A q \in Requests : q # r => pc'[q] = pc[q]
    BY <2>1 DEF TypeInv, TypeOK, Places
  <2>3. /\ asked' \in [Requests -> Int \cup {None}] /\ asked'[r] = n
        /\ \A q \in Requests : q # r => asked'[q] = asked[q]
    BY <2>1 DEF TypeInv, TypeOK
  <2>4. UNCHANGED <<buckets, granted, late, tidied>>
    BY <1>1 DEF limiter
  <2>5. TypeOK'
    BY <1>1, <2>1, <2>2, <2>3, <2>4 DEF TypeInv, TypeOK
  <2>6. TypeInv'
    BY <1>1, <2>2, <2>4, <2>5 DEF TypeInv
  <2>7. RegistryInv'
    BY <1>1, <2>1, <2>2, <2>3 DEF RegistryInv, Counted, TypeInv, TypeOK
  <2>. QED
    BY <2>6, <2>7
<1>4. ASSUME NEW body \in Bodies, Verdict(body) = "accepted"
      PROVE  Given(body) \in 1..Cap
  BY <1>4 DEF Verdict
<1>5. ASSUME NEW body \in Bodies, Verdict(body) # "accepted"
      PROVE  Verdict(body) \in {"503", "400", "dropped"}
  BY <1>5 DEF Verdict
<1>. QED
  BY <1>2, <1>3, <1>4, <1>5 DEF Parse, Goto

(* Every step keeps both.                                                  *)
LEMMA TypesKept ==
    ASSUME TypeInv, RegistryInv, [Next]_vars
    PROVE  TypeInv' /\ RegistryInv'
<1>1. ASSUME NEW r \in Requests, Thread(r) PROVE TypeInv' /\ RegistryInv'
  <2>1. CASE \E header \in Headers : Arrive(r, header)
    BY <2>1, ArriveTypes
  <2>2. CASE Allow(r)
    BY <2>2, AllowTypes
  <2>3. CASE Parse(r)
    BY <2>3, ParseTypes
  <2>4. CASE CountRequest(r)
    <3>1. /\ pc[r] = "count" /\ pc' = [pc EXCEPT ![r] = "encode"]
          /\ UNCHANGED <<setup, clock, now, limiter, asked, registry, leaked>>
      BY <2>4 DEF CountRequest, At, Goto
    <3>2. "encode" \in Places \ {"limiter"} /\ pc[r] \in Counted /\ "encode" \in Counted
      BY <3>1 DEF Places, Counted
    <3>. QED
      BY <3>1, <3>2, MoveTypes
  <2>5. CASE Encode(r)
    <3>1. /\ pc[r] = "encode" /\ UNCHANGED <<setup, clock, now, limiter, asked, registry>>
          /\ \/ pc' = [pc EXCEPT ![r] = "generate"] /\ UNCHANGED leaked
             \/ pc' = [pc EXCEPT ![r] = "dropped"] /\ leaked' = leaked \cup {r}
      BY <2>5 DEF Encode, At, Goto
    <3>2. /\ "generate" \in Places \ {"limiter"} /\ "dropped" \in Places \ {"limiter"}
          /\ pc[r] \in Counted /\ "generate" \in Counted
      BY <3>1 DEF Places, Counted
    <3>. QED
      BY <3>1, <3>2, MoveTypes
  <2>6. CASE Generate(r)
    <3>1. /\ pc[r] = "generate" /\ UNCHANGED <<setup, clock, now, limiter, asked, leaked>>
          /\ registry' = registry \ {r}
          /\ pc' = [pc EXCEPT ![r] = "answered"] \/ pc' = [pc EXCEPT ![r] = "failing"]
      BY <2>6 DEF Generate, At, Goto
    <3>2. /\ "answered" \in Places \ {"limiter"} /\ "failing" \in Places \ {"limiter"}
          /\ pc[r] \in Counted /\ "answered" \notin Counted /\ "failing" \notin Counted
      BY <3>1 DEF Places, Counted
    <3>. QED
      BY <3>1, <3>2, MoveTypes
  <2>7. CASE CountFailure(r)
    <3>1. /\ pc[r] = "failing" /\ pc' = [pc EXCEPT ![r] = "failed"]
          /\ UNCHANGED <<setup, clock, now, limiter, asked, registry, leaked>>
      BY <2>7 DEF CountFailure, At, Goto
    <3>2. /\ "failed" \in Places \ {"limiter"} /\ "failed" \notin Counted
          /\ pc[r] \notin Counted \cup {"dropped"}
      BY <3>1 DEF Places, Counted
    <3>. QED
      BY <3>1, <3>2, MoveTypes
  <2>8. CASE \E seconds \in Latencies : EndSpan(r, seconds)
    <3>1. /\ pc[r] \in {"answered", "failed"}
          /\ \E place \in {"200", "500"} : pc' = [pc EXCEPT ![r] = place]
          /\ UNCHANGED <<setup, clock, now, limiter, asked, registry, leaked>>
      BY <2>8 DEF EndSpan, At, Goto
    <3>2. PICK place \in {"200", "500"} : pc' = [pc EXCEPT ![r] = place]
      BY <3>1
    <3>3. /\ place \in Places \ {"limiter"} /\ place \notin Counted
          /\ pc[r] \notin Counted \cup {"dropped"}
      BY <3>1 DEF Places, Counted
    <3>. QED
      BY <3>1, <3>2, <3>3, MoveTypes
  <2>. QED
    BY <1>1, <2>1, <2>2, <2>3, <2>4, <2>5, <2>6, <2>7, <2>8 DEF Thread
<1>2. clock \in clock..MaxTime /\ buckets = [c \in Clients |-> buckets[c]] /\ tidied \in BOOLEAN
  BY FrontendAssumption DEF TypeInv, TypeOK
<1>3. CASE ReadTotal \/ ReadFailed \/ ReadSeconds \/ ReadHistogram \/ UNCHANGED vars
  <2>1. UNCHANGED <<setup, clock, pc, now, buckets, granted, late, tidied, asked, registry, leaked>>
    BY <1>3 DEF ReadTotal, ReadFailed, ReadSeconds, ReadHistogram, vars, limiter
  <2>. QED
    BY <1>2, <2>1, IdleTypes
<1>4. CASE Cleanup
  <2>1. /\ UNCHANGED <<setup, clock, pc, now, granted, late, asked, registry, leaked>>
        /\ tidied' \in BOOLEAN /\ buckets' = [c \in Clients |-> buckets'[c]]
        /\ \A c \in Clients : buckets'[c] \in {buckets[c], None}
    BY <1>4 DEF Cleanup
  <2>. QED
    BY <1>2, <2>1, IdleTypes
<1>5. CASE Tick
  <2>1. /\ UNCHANGED <<setup, pc, now, buckets, granted, late, tidied, asked, registry, leaked>>
        /\ clock < MaxTime /\ clock' = clock + 1
    BY <1>5 DEF Tick, limiter
  <2>2. clock' \in clock..MaxTime
    BY <2>1, FrontendAssumption DEF TypeInv, TypeOK
  <2>. QED
    BY <1>2, <2>1, <2>2, IdleTypes
<1>. QED
  BY <1>1, <1>3, <1>4, <1>5 DEF Next

(* A DELETE finds a request exactly while it is between its registration   *)
(* and the end of generate, or leaked; what is registered is in the cap.   *)
THEOREM FrontendRegistryDrained == Spec => []RegistryDrained
<1>1. Init => TypeInv /\ RegistryInv
  BY InitTypes
<1>2. TypeInv /\ RegistryInv /\ [Next]_vars => (TypeInv /\ RegistryInv)'
  BY TypesKept
<1>3. TypeInv /\ RegistryInv => RegistryDrained
  BY DEF TypeInv, RegistryInv, RegistryDrained, Cancels, Counted, TypeOK
<1>. QED
  BY <1>1, <1>2, <1>3, PTL DEF Spec

-----------------------------------------------------------------------------
(* The counters.                                                           *)
Lost == {"failed", "500"}
Entered == {"encode", "generate", "answered", "failing", "failed", "200", "500"}
Ended == {"200", "500"}

(* A thread that moves counts where it went, and no more where it was.     *)
LEMMA StandsMoves ==
    ASSUME TypeOK, NEW CONSTANT P, NEW r \in Requests, NEW CONSTANT place,
           pc' = [pc EXCEPT ![r] = place]
    PROVE  /\ Stands(P) \in Nat
           /\ pc[r] \in P /\ place \in P => Stands(P)' = Stands(P)
           /\ pc[r] \notin P /\ place \notin P => Stands(P)' = Stands(P)
           /\ pc[r] \notin P /\ place \in P => Stands(P)' = Stands(P) + 1
           /\ pc[r] \in P /\ place \notin P => Stands(P)' = Stands(P) - 1
<1>. DEFINE S == {q \in Requests : pc[q] \in P}
            T == {q \in Requests : pc'[q] \in P}
<1>1. /\ pc'[r] = place /\ \A q \in Requests : q # r => pc'[q] = pc[q]
  BY DEF TypeOK
<1>2. IsFiniteSet(S) /\ IsFiniteSet(T)
  BY FrontendAssumption, FS_Subset
<1>3. Stands(P) = Cardinality(S) /\ Stands(P)' = Cardinality(T)
  BY DEF Stands
<1>4. Cardinality(S) \in Nat
  BY <1>2, FS_CardinalityType
<1>5. /\ (pc[r] \in P <=> place \in P) => T = S
      /\ pc[r] \notin P /\ place \in P => T = S \cup {r} /\ r \notin S
      /\ pc[r] \in P /\ place \notin P => T = S \ {r} /\ r \in S
  BY <1>1
<1>. HIDE DEF S, T
<1>6. /\ r \notin S => Cardinality(S \cup {r}) = Cardinality(S) + 1
      /\ r \in S => Cardinality(S \ {r}) = Cardinality(S) - 1
  BY <1>2, FS_AddElement, FS_RemoveElement
<1>. QED
  BY <1>3, <1>4, <1>5, <1>6

(* What each counter is, exactly: a failed request is counted twice.       *)
CountsInv ==
    /\ failed = Stands(Lost) /\ Len(spans) = Stands(Ended)
    /\ total = failed + Cardinality(leaked) + Stands(Entered)

(* What a page shows or forgets, and the clock, do not touch the counters. *)
LEMMA CountsIdle ==
    ASSUME CountsInv, UNCHANGED <<pc, total, failed, spans, leaked>>
    PROVE  CountsInv'
BY DEF CountsInv, Stands

(* Every step of a thread keeps the counters.                              *)
LEMMA CountsThread ==
    ASSUME TypeInv, RegistryInv, CountsInv, spans \in Seq(Nat), NEW r \in Requests, Thread(r)
    PROVE  CountsInv' /\ spans' \in Seq(Nat)
<1>. DEFINE Move(place) == pc' = [pc EXCEPT ![r] = place]
<1>1. TypeOK /\ IsFiniteSet(leaked) /\ Cardinality(leaked) \in Nat /\ Len(spans) \in Nat
      /\ (r \in leaked => pc[r] = "dropped")
  BY FrontendAssumption, FS_Subset, FS_CardinalityType DEF TypeInv, TypeOK, RegistryInv
<1>2. /\ failed = Stands(Lost) /\ Len(spans) = Stands(Ended)
      /\ total = failed + Cardinality(leaked) + Stands(Entered)
  BY DEF CountsInv
<1>3. Stands(Lost) \in Nat /\ Stands(Entered) \in Nat /\ Stands(Ended) \in Nat
  <2>1. \A P : Stands(P) \in Nat
    BY FrontendAssumption, FS_Subset, FS_CardinalityType DEF Stands
  <2>. QED
    BY <2>1
<1>4. SUFFICES /\ failed' = Stands(Lost)' /\ Len(spans') = Stands(Ended)' /\ spans' \in Seq(Nat)
               /\ total' = failed' + Cardinality(leaked') + Stands(Entered)'
  BY DEF CountsInv
<1>5. CASE /\ \E place \in {"401", "dropped", "body", "limiter", "429", "400", "503", "count"} :
                  Move(place)
           /\ pc[r] \in {"new", "limiter", "body"} /\ UNCHANGED <<counters, leaked>>
  <2>1. PICK place \in {"401", "dropped", "body", "limiter", "429", "400", "503", "count"} :
                  Move(place)
    BY <1>5
  <2>2. /\ pc[r] \notin Lost /\ place \notin Lost /\ pc[r] \notin Entered /\ place \notin Entered
        /\ pc[r] \notin Ended /\ place \notin Ended
    BY <1>5 DEF Lost, Entered, Ended
  <2>3. /\ Stands(Lost)' = Stands(Lost) /\ Stands(Entered)' = Stands(Entered)
        /\ Stands(Ended)' = Stands(Ended)
    BY <1>1, <2>1, <2>2, StandsMoves
  <2>. QED
    BY <1>2, <1>5, <2>3 DEF counters
<1>6. CASE CountRequest(r)
  <2>1. /\ pc[r] = "count" /\ Move("encode") /\ total' = total + 1
        /\ UNCHANGED <<failed, spans, leaked>>
    BY <1>6 DEF CountRequest, RecordRequest, At, Goto
  <2>2. /\ pc[r] \notin Lost /\ pc[r] \notin Entered /\ pc[r] \notin Ended
        /\ "encode" \notin Lost /\ "encode" \in Entered /\ "encode" \notin Ended
    BY <2>1 DEF Lost, Entered, Ended
  <2>3. /\ Stands(Lost)' = Stands(Lost) /\ Stands(Entered)' = Stands(Entered) + 1
        /\ Stands(Ended)' = Stands(Ended)
    BY <1>1, <2>1, <2>2, StandsMoves
  <2>. QED
    BY <1>1, <1>2, <1>3, <2>1, <2>3
<1>7. CASE Encode(r)
  <2>1. /\ pc[r] = "encode" /\ UNCHANGED counters
        /\ \/ Move("generate") /\ UNCHANGED leaked
           \/ Move("dropped") /\ leaked' = leaked \cup {r}
    BY <1>7 DEF Encode, At, Goto
  <2>2. CASE Move("generate") /\ UNCHANGED leaked
    <3>1. /\ Stands(Lost)' = Stands(Lost) /\ Stands(Entered)' = Stands(Entered)
          /\ Stands(Ended)' = Stands(Ended)
      BY <1>1, <2>1, <2>2, StandsMoves DEF Lost, Entered, Ended
    <3>. QED
      BY <1>2, <2>1, <2>2, <3>1 DEF counters
  <2>3. CASE Move("dropped") /\ leaked' = leaked \cup {r}
    <3>1. /\ pc[r] \notin Lost /\ pc[r] \in Entered /\ pc[r] \notin Ended
          /\ "dropped" \notin Lost /\ "dropped" \notin Entered /\ "dropped" \notin Ended
      BY <2>1 DEF Lost, Entered, Ended
    <3>2. /\ Stands(Lost)' = Stands(Lost) /\ Stands(Entered)' = Stands(Entered) - 1
          /\ Stands(Ended)' = Stands(Ended)
      BY <1>1, <2>3, <3>1, StandsMoves
    <3>3. Cardinality(leaked') = Cardinality(leaked) + 1
      BY <1>1, <2>1, <2>3, FS_AddElement
    <3>. QED
      BY <1>1, <1>2, <1>3, <2>1, <3>2, <3>3 DEF counters
  <2>. QED
    BY <2>1, <2>2, <2>3
<1>8. CASE Generate(r)
  <2>1. /\ pc[r] = "generate" /\ UNCHANGED <<counters, leaked>>
        /\ Move("answered") \/ Move("failing")
    BY <1>8 DEF Generate, At, Goto
  <2>2. /\ Stands(Lost)' = Stands(Lost) /\ Stands(Entered)' = Stands(Entered)
        /\ Stands(Ended)' = Stands(Ended)
    BY <1>1, <2>1, StandsMoves DEF Lost, Entered, Ended
  <2>. QED
    BY <1>2, <2>1, <2>2 DEF counters
<1>9. CASE CountFailure(r)
  <2>1. /\ pc[r] = "failing" /\ Move("failed") /\ total' = total + 1 /\ failed' = failed + 1
        /\ UNCHANGED <<spans, leaked>>
    BY <1>9 DEF CountFailure, RecordRequest, At, Goto
  <2>2. /\ pc[r] \notin Lost /\ pc[r] \in Entered /\ pc[r] \notin Ended
        /\ "failed" \in Lost /\ "failed" \in Entered /\ "failed" \notin Ended
    BY <2>1 DEF Lost, Entered, Ended
  <2>3. /\ Stands(Lost)' = Stands(Lost) + 1 /\ Stands(Entered)' = Stands(Entered)
        /\ Stands(Ended)' = Stands(Ended)
    BY <1>1, <2>1, <2>2, StandsMoves
  <2>. QED
    BY <1>1, <1>2, <1>3, <2>1, <2>3
<1>10. CASE \E seconds \in Latencies : EndSpan(r, seconds)
  <2>1. PICK seconds \in Latencies : EndSpan(r, seconds)
    BY <1>10
  <2>2. /\ (pc[r] = "answered" /\ Move("200")) \/ (pc[r] = "failed" /\ Move("500"))
        /\ spans' = Append(spans, seconds) /\ UNCHANGED <<total, failed, leaked>>
    <3>1. /\ pc[r] \in {"answered", "failed"}
          /\ Move(IF pc[r] = "failed" THEN "500" ELSE "200")
          /\ spans' = Append(spans, seconds) /\ UNCHANGED <<total, failed, leaked>>
      BY <2>1 DEF EndSpan, RecordLatency, At, Goto
    <3>2. CASE pc[r] = "failed"
      BY <3>1, <3>2
    <3>3. CASE pc[r] = "answered"
      <4>1. pc[r] # "failed"
        BY <3>3
      <4>2. Move("200")
        BY <3>1, <4>1, Zenon
      <4>. QED
        BY <3>1, <3>3, <4>2
    <3>. QED
      BY <3>1, <3>2, <3>3
  <2>3. Len(spans') = Len(spans) + 1 /\ spans' \in Seq(Nat)
    BY <2>2, FrontendAssumption, AppendProperties
  <2>4. /\ Stands(Lost)' = Stands(Lost) /\ Stands(Entered)' = Stands(Entered)
        /\ Stands(Ended)' = Stands(Ended) + 1
    BY <1>1, <2>2, StandsMoves DEF Lost, Entered, Ended
  <2>. QED
    BY <1>2, <2>2, <2>3, <2>4
<1>11. ASSUME NEW header \in Headers, Arrive(r, header)
       PROVE  /\ \E place \in {"401", "dropped", "body", "limiter"} : Move(place)
              /\ pc[r] = "new" /\ UNCHANGED <<counters, leaked>>
  <2>. DEFINE place == IF Check(header) = "denied" THEN "401"
                       ELSE IF Check(header) = "dropped" THEN "dropped"
                       ELSE IF setup.limit = 0 THEN "body" ELSE "limiter"
  <2>1. Move(place) /\ pc[r] = "new" /\ UNCHANGED <<counters, leaked>>
    BY <1>11 DEF Arrive, At, Goto
  <2>2. place \in {"401", "dropped", "body", "limiter"}
    OBVIOUS
  <2>. HIDE DEF place
  <2>. QED
    BY <2>1, <2>2
<1>12. ASSUME Allow(r)
       PROVE  /\ Move("body") \/ Move("429")
              /\ pc[r] = "limiter" /\ UNCHANGED <<counters, leaked>>
  BY <1>12 DEF Allow, At, Goto
<1>13. ASSUME Parse(r)
       PROVE  /\ \E place \in {"503", "400", "dropped", "count"} : Move(place)
              /\ pc[r] = "body" /\ UNCHANGED <<counters, leaked>>
  BY <1>13 DEF Parse, Verdict, At, Goto
<1>. QED
  BY <1>5, <1>6, <1>7, <1>8, <1>9, <1>10, <1>11, <1>12, <1>13 DEF Thread

(* requests_failed and the spans are those of the requests that have got   *)
(* there, and requests_total is between all that passed the checks and     *)
(* them with the failed ones once more, in every state.                    *)
THEOREM FrontendCountsAgree == Spec => []CountsAgree
<1>. DEFINE IInv == TypeInv /\ RegistryInv /\ CountsInv /\ spans \in Seq(Nat)
<1>1. Init => IInv
  <2>. SUFFICES ASSUME Init PROVE CountsInv /\ spans \in Seq(Nat)
    BY InitTypes
  <2>1. /\ failed = 0 /\ total = 0 /\ spans = <<>> /\ leaked = {}
        /\ pc = [r \in Requests |-> "new"]
    BY DEF Init
  <2>2. \A P : "new" \notin P => Stands(P) = 0
    BY <2>1, FS_EmptySet DEF Stands
  <2>3. Stands(Lost) = 0 /\ Stands(Entered) = 0 /\ Stands(Ended) = 0
    BY <2>2 DEF Lost, Entered, Ended
  <2>. QED
    BY <2>1, <2>3, FS_EmptySet DEF CountsInv
<1>2. IInv /\ [Next]_vars => IInv'
  <2>. SUFFICES ASSUME IInv, [Next]_vars PROVE CountsInv' /\ spans' \in Seq(Nat)
    BY TypesKept
  <2>1. CASE \E r \in Requests : Thread(r)
    BY <2>1, CountsThread
  <2>2. CASE ReadTotal \/ ReadFailed \/ ReadSeconds \/ ReadHistogram \/ Cleanup \/ Tick
             \/ UNCHANGED vars
    <3>1. UNCHANGED <<pc, total, failed, spans, leaked>>
      BY <2>2 DEF ReadTotal, ReadFailed, ReadSeconds, ReadHistogram, Cleanup, Tick, vars, counters
    <3>. QED
      BY <3>1, CountsIdle
  <2>. QED
    BY <2>1, <2>2 DEF Next
<1>3. IInv => CountsAgree
  <2>. SUFFICES ASSUME IInv PROVE CountsAgree
    OBVIOUS
  <2>1. \A P : Stands(P) \in Nat
    BY FrontendAssumption, FS_Subset, FS_CardinalityType DEF Stands
  <2>2. /\ Cardinality(leaked) \in Nat
        /\ Begun = Stands(Entered) + Cardinality(leaked)
    BY FrontendAssumption, FS_Subset, FS_CardinalityType DEF TypeInv, TypeOK, Begun, Entered
  <2>3. /\ Stands(Lost) \in Nat /\ Stands(Entered) \in Nat
        /\ failed = Stands(Lost) /\ Len(spans) = Stands(Ended)
    BY <2>1 DEF CountsInv
  <2>4. total \in Begun..(Begun + failed)
    BY <2>2, <2>3 DEF CountsInv
  <2>. QED
    BY <2>3, <2>4 DEF CountsAgree, Lost, Ended
<1>. QED
  BY <1>1, <1>2, <1>3, PTL DEF Spec

-----------------------------------------------------------------------------
(* Sums.  f holds the sums of the first items of s.                        *)
Sums(s, n, f) ==
    f \in [0..n -> Nat] /\ f[0] = 0 /\ \A k \in 1..n : f[k] = f[k - 1] + s[k]

(* A set of naturals that is not empty has a smallest element.             *)
LEMMA Smallest ==
    ASSUME NEW S \in SUBSET Nat, S # {}
    PROVE  \E m \in S : \A n \in S : m <= n
<1>. DEFINE R == OpToRel(<, Nat)
<1>1. \E x \in S : \A y \in S : ~ (<<y, x>> \in R)
  BY NatLessThanWellFounded, WFMin
<1>2. \A x, y \in Nat : <<y, x>> \in R <=> y < x
  BY DEF OpToRel
<1>. HIDE DEF R
<1>3. PICK m \in S : \A n \in S : ~ (<<n, m>> \in R)
  BY <1>1
<1>4. m \in Nat /\ \A n \in S : n \in Nat /\ ~ (n < m)
  BY <1>2, <1>3, Zenon
<1>5. \A n \in S : m <= n
  BY <1>4
<1>. QED
  BY <1>5

(* Every list of naturals has its sums.                                    *)
LEMMA SumsExist ==
    ASSUME NEW s \in Seq(Nat)
    PROVE  \E f : Sums(s, Len(s), f)
<1>. DEFINE S == {n \in 0..Len(s) : ~ \E f : Sums(s, n, f)}
<1>1. Len(s) \in Nat /\ \A k \in 1..Len(s) : s[k] \in Nat
  BY LenProperties
<1>2. SUFFICES ASSUME S # {} PROVE FALSE
  BY <1>1
<1>3. PICK m \in S : \A n \in S : m <= n
  <2>1. S \in SUBSET Nat
    BY <1>1
  <2>. HIDE DEF S
  <2>. QED
    BY <1>2, <2>1, Smallest
<1>4. m \in 0..Len(s) /\ ~ \E f : Sums(s, m, f)
  OBVIOUS
<1>5. m # 0
  <2>1. Sums(s, 0, [k \in 0..0 |-> 0])
    BY DEF Sums
  <2>. QED
    BY <1>4, <2>1
<1>6. m - 1 \in 0..Len(s) /\ m \in 1..Len(s) /\ m - 1 < m
  BY <1>1, <1>4, <1>5
<1>7. PICK f : Sums(s, m - 1, f)
  BY <1>1, <1>3, <1>6
<1>. HIDE DEF S
<1>. DEFINE g == [k \in 0..m |-> IF k = m THEN f[m - 1] + s[m] ELSE f[k]]
<1>8. f \in [0..m - 1 -> Nat] /\ f[0] = 0 /\ \A k \in 1..m - 1 : f[k] = f[k - 1] + s[k]
  BY <1>7 DEF Sums
<1>9. f[m - 1] \in Nat /\ s[m] \in Nat
  BY <1>1, <1>6, <1>8
<1>10. g \in [0..m -> Nat]
  BY <1>6, <1>8, <1>9
<1>11. g[0] = 0 /\ g[m] = f[m - 1] + s[m] /\ \A k \in 0..m - 1 : g[k] = f[k]
  BY <1>1, <1>6, <1>8
<1>. HIDE DEF g
<1>12. \A k \in 1..m : g[k] = g[k - 1] + s[k]
  <2>. SUFFICES ASSUME NEW k \in 1..m PROVE g[k] = g[k - 1] + s[k]
    OBVIOUS
  <2>1. k - 1 \in 0..m - 1 /\ (k = m \/ k \in 1..m - 1) /\ (k \in 1..m - 1 => k \in 0..m - 1)
    BY <1>6
  <2>. QED
    BY <1>8, <1>11, <2>1
<1>. QED
  BY <1>4, <1>10, <1>11, <1>12 DEF Sums

(* The sums of two lists agree as far as the lists do.                     *)
LEMMA SumsAgree ==
    ASSUME NEW n \in Nat, NEW m \in Nat, n <= m, NEW s, NEW t, \A k \in 1..n : s[k] = t[k],
           NEW f, Sums(s, n, f), NEW g, Sums(t, m, g)
    PROVE  f[n] = g[n] /\ f[n] \in Nat
<1>. DEFINE S == {k \in 0..n : f[k] # g[k]}
<1>1. /\ f \in [0..n -> Nat] /\ f[0] = 0 /\ \A k \in 1..n : f[k] = f[k - 1] + s[k]
      /\ g[0] = 0 /\ \A k \in 1..m : g[k] = g[k - 1] + t[k]
  BY DEF Sums
<1>2. S = {}
  <2>. SUFFICES ASSUME S # {} PROVE FALSE
    OBVIOUS
  <2>1. PICK k \in S : \A j \in S : k <= j
    <3>1. S \in SUBSET Nat
      OBVIOUS
    <3>. HIDE DEF S
    <3>. QED
      BY <3>1, Smallest
  <2>2. k \in 1..n /\ k \in 1..m /\ k - 1 \in 0..n /\ k - 1 < k /\ f[k] # g[k]
    BY <1>1
  <2>3. f[k - 1] = g[k - 1]
    BY <2>1, <2>2
  <2>. QED
    BY <1>1, <2>2, <2>3
<1>3. n \in 0..n
  OBVIOUS
<1>4. ~ (f[n] # g[n])
  BY <1>2, <1>3, Zenon
<1>. QED
  BY <1>1, <1>3, <1>4

(* Total is the last of the sums.                                          *)
LEMMA TotalIsSum ==
    ASSUME NEW s \in Seq(Nat)
    PROVE  \E f : Sums(s, Len(s), f) /\ Total(s) = f[Len(s)]
<1>. DEFINE Is(f) == f = [k \in 0..Len(s) |-> IF k = 0 THEN 0 ELSE f[k - 1] + s[k]]
            h == CHOOSE f : Is(f)
<1>1. Len(s) \in Nat
  BY LenProperties
<1>2. Total(s) = h[Len(s)]
  BY DEF Total
<1>3. PICK f : Sums(s, Len(s), f)
  BY SumsExist
<1>4. f \in [0..Len(s) -> Nat] /\ f[0] = 0 /\ \A k \in 1..Len(s) : f[k] = f[k - 1] + s[k]
  BY <1>3 DEF Sums
<1>5. Is(f)
  BY <1>1, <1>4
<1>6. Is(h)
  <2>. HIDE DEF Is
  <2>. QED
    BY <1>5
<1>. HIDE DEF h
<1>7. /\ DOMAIN h = 0..Len(s)
      /\ h = [k \in 0..Len(s) |-> h[k]]
      /\ \A k \in 0..Len(s) : h[k] = IF k = 0 THEN 0 ELSE h[k - 1] + s[k]
  BY <1>6
<1>8. h = f
  <2>. DEFINE S == {k \in 0..Len(s) : h[k] # f[k]}
  <2>1. S = {}
    <3>. SUFFICES ASSUME S # {} PROVE FALSE
      OBVIOUS
    <3>1. PICK k \in S : \A j \in S : k <= j
      <4>1. S \in SUBSET Nat
        BY <1>1
      <4>. HIDE DEF S
      <4>. QED
        BY <4>1, Smallest
    <3>2. k \in 0..Len(s) /\ h[k] # f[k]
      OBVIOUS
    <3>3. k # 0
      BY <1>1, <1>4, <1>7, <3>2
    <3>4. k \in 1..Len(s) /\ k - 1 \in 0..Len(s) /\ k - 1 < k
      BY <1>1, <3>2, <3>3
    <3>5. h[k - 1] = f[k - 1]
      BY <3>1, <3>4
    <3>. QED
      BY <1>4, <1>7, <3>2, <3>3, <3>4, <3>5
  <2>2. \A k \in 0..Len(s) : h[k] = f[k]
    BY <2>1, Zenon
  <2>. QED
    BY <1>4, <1>7, <2>2
<1>. QED
  BY <1>2, <1>3, <1>8

(* What one more item does to the sum.                                     *)
LEMMA TotalAppend ==
    ASSUME NEW s \in Seq(Nat), NEW x \in Nat
    PROVE  Total(s) \in Nat /\ Total(<<>>) = 0 /\ Total(Append(s, x)) = Total(s) + x
<1>. DEFINE t == Append(s, x)
<1>1. /\ Len(s) \in Nat /\ t \in Seq(Nat) /\ Len(t) = Len(s) + 1 /\ t[Len(s) + 1] = x
      /\ \A k \in 1..Len(s) : s[k] = t[k]
  BY LenProperties, AppendProperties
<1>. HIDE DEF t
<1>2. PICK f : Sums(s, Len(s), f) /\ Total(s) = f[Len(s)]
  BY TotalIsSum
<1>3. PICK g : Sums(t, Len(t), g) /\ Total(t) = g[Len(t)]
  BY <1>1, TotalIsSum
<1>4. f[Len(s)] = g[Len(s)] /\ f[Len(s)] \in Nat
  <2>1. Len(t) \in Nat /\ Len(s) <= Len(t)
    BY <1>1
  <2>. QED
    BY <1>1, <1>2, <1>3, <2>1, SumsAgree
<1>5. g[Len(s) + 1] = g[Len(s)] + x
  <2>1. \A k \in 1..Len(t) : g[k] = g[k - 1] + t[k]
    BY <1>3 DEF Sums
  <2>2. Len(s) + 1 \in 1..Len(t) /\ (Len(s) + 1) - 1 = Len(s)
    BY <1>1
  <2>. QED
    BY <1>1, <2>1, <2>2
<1>6. Total(<<>>) = 0
  <2>1. <<>> \in Seq(Nat) /\ Len(<<>>) = 0
    BY EmptySeq
  <2>2. PICK e : Sums(<<>>, 0, e) /\ Total(<<>>) = e[0]
    BY <2>1, TotalIsSum
  <2>. QED
    BY <2>2 DEF Sums
<1>. QED
  BY <1>1, <1>2, <1>3, <1>4, <1>5, <1>6 DEF t

-----------------------------------------------------------------------------
(* The page of metrics.  The histogram and its sum are those of all spans, *)
(* and the seconds of a page in progress are those of some of them.        *)
SpansInv ==
    /\ spans \in Seq(Nat)
    /\ latency_sum = Seconds(Len(spans)) /\ bucket_counts = Tally(Len(spans))

SecondsRead == \E m \in 0..Len(spans) : page.seconds = Seconds(m)

PageInv ==
    /\ SpansInv /\ PageAgrees
    /\ page \in [at : {"idle", "failed", "seconds", "histogram"}, done : Nat, total : {page.total},
                 failed : {page.failed}, seconds : {page.seconds}, counts : {page.counts},
                 sum : {page.sum}]
    /\ page.at = "histogram" => SecondsRead

(* A span that ends adds to all that were before, and changes none.        *)
LEMMA SpanAdds ==
    ASSUME SpansInv, NEW seconds \in Latencies, RecordLatency(seconds)
    PROVE  /\ SpansInv' /\ Len(spans') = Len(spans) + 1
           /\ \A n \in 0..Len(spans) : Seconds(n)' = Seconds(n) /\ Tally(n)' = Tally(n)
<1>. DEFINE L == Len(spans)
<1>1. /\ spans' = Append(spans, seconds) /\ seconds \in Nat /\ latency_sum' = latency_sum + seconds
      /\ bucket_counts' = [i \in Slots |-> IF i \in Holding(seconds)
                                           THEN bucket_counts[i] + 1 ELSE bucket_counts[i]]
  BY FrontendAssumption DEF RecordLatency
<1>2. /\ L \in Nat /\ spans \in Seq(Nat) /\ spans' \in Seq(Nat) /\ Len(spans') = L + 1
      /\ spans'[L + 1] = seconds /\ \A k \in 1..L : spans'[k] = spans[k]
  BY <1>1, LenProperties, AppendProperties DEF SpansInv
<1>3. \A n \in 0..L : SubSeq(spans', 1, n) = SubSeq(spans, 1, n)
  <2>. SUFFICES ASSUME NEW n \in 0..L PROVE SubSeq(spans', 1, n) = SubSeq(spans, 1, n)
    OBVIOUS
  <2>. DEFINE u == SubSeq(spans', 1, n)
              v == SubSeq(spans, 1, n)
  <2>1. n \in Int /\ n <= L /\ (n - 1) + 1 = n /\ \A k \in 1..n : k \in 1..L /\ 1 + k - 1 = k
    BY <1>2
  <2>2. \A k \in 1..n : spans[k] \in Nat /\ spans'[k] \in Nat
    BY <1>2, <2>1
  <2>3. u \in Seq(Nat) /\ v \in Seq(Nat) /\ Len(u) = Len(v) /\ DOMAIN u = 1..n /\ DOMAIN v = 1..n
    BY <2>1, <2>2, SubSeqProperties, LenProperties
  <2>4. \A k \in 1..n : u[k] = spans'[k] /\ v[k] = spans[k]
    BY <2>1, <2>2, SubSeqProperties
  <2>. HIDE DEF u, v
  <2>5. \A k \in 1..n : u[k] = v[k]
    BY <1>2, <2>1, <2>4
  <2>6. u = v
    BY <2>3, <2>5, SeqEqual, LenProperties
  <2>. QED
    BY <2>6 DEF u, v
<1>4. \A n \in 0..L : Seconds(n)' = Seconds(n)
  BY <1>3 DEF Seconds
<1>5. \A n \in 0..L : Tally(n)' = Tally(n)
  <2>. SUFFICES ASSUME NEW n \in 0..L PROVE Tally(n)' = Tally(n)
    OBVIOUS
  <2>1. \A k \in 1..n : spans'[k] = spans[k]
    BY <1>2
  <2>2. ASSUME NEW i \in Slots
        PROVE  {k \in 1..n : i \in Holding(spans'[k])} = {k \in 1..n : i \in Holding(spans[k])}
    BY <2>1
  <2>. QED
    BY <2>2 DEF Tally
<1>6. latency_sum' = Seconds(L)'
  <2>1. Seconds(L) = Total(spans) /\ Seconds(L)' = Total(spans')
    <3>1. SubSeq(spans, 1, Len(spans)) = spans /\ SubSeq(spans', 1, Len(spans')) = spans'
      BY <1>2, SubSeqFull
    <3>. QED
      BY <3>1 DEF Seconds
  <2>. QED
    BY <1>1, <1>2, <2>1, TotalAppend DEF SpansInv
<1>7. bucket_counts' = Tally(L)'
  <2>1. bucket_counts = [i \in Slots |-> Cardinality({k \in 1..L : i \in Holding(spans[k])})]
    BY DEF SpansInv, Tally
  <2>2. ASSUME NEW i \in Slots
        PROVE  bucket_counts'[i] = Cardinality({k \in 1..(L + 1) : i \in Holding(spans'[k])})
    <3>. DEFINE A == {k \in 1..L : i \in Holding(spans[k])}
                B == {k \in 1..(L + 1) : i \in Holding(spans'[k])}
    <3>1. /\ i \in Holding(seconds) => B = A \cup {L + 1}
          /\ i \notin Holding(seconds) => B = A
      <4>1. \A k \in 1..(L + 1) : k \in 1..L \/ k = L + 1
        BY <1>2
      <4>2. 1..L \subseteq 1..(L + 1) /\ L + 1 \in 1..(L + 1) /\ L + 1 \notin 1..L
        BY <1>2
      <4>. QED
        BY <1>2, <4>1, <4>2
    <3>2. IsFiniteSet(A) /\ L + 1 \notin A
      <4>1. IsFiniteSet(1..L)
        BY <1>2, FS_Interval
      <4>. QED
        BY <1>2, <4>1, FS_Subset
    <3>3. /\ Cardinality(A \cup {L + 1}) = Cardinality(A) + 1
          /\ bucket_counts[i] = Cardinality(A)
      BY <2>1, <3>2, FS_AddElement
    <3>. HIDE DEF A, B
    <3>4. Cardinality(B) = IF i \in Holding(seconds) THEN bucket_counts[i] + 1 ELSE bucket_counts[i]
      BY <3>1, <3>3
    <3>. QED
      BY <1>1, <3>4 DEF B
  <2>3. bucket_counts' = [i \in Slots |-> bucket_counts'[i]]
    BY <1>1
  <2>. QED
    BY <1>2, <2>2, <2>3 DEF Tally
<1>. QED
  BY <1>2, <1>4, <1>5, <1>6, <1>7 DEF SpansInv

(* Every step keeps what the page shows.                                   *)
LEMMA PageKept ==
    ASSUME PageInv, [Next]_vars
    PROVE  PageInv'
<1>1. Len(spans) \in Nat
  BY LenProperties DEF PageInv, SpansInv
<1>2. CASE UNCHANGED <<spans, bucket_counts, latency_sum, page>>
  <2>1. /\ spans' = spans /\ bucket_counts' = bucket_counts
        /\ latency_sum' = latency_sum /\ page' = page
    BY <1>2
  <2>2. \A n : Seconds(n)' = Seconds(n)
    BY <2>1 DEF Seconds
  <2>3. \A n : Tally(n)' = Tally(n)
    BY <2>1 DEF Tally
  <2>4. SpansInv'
    BY <2>1, <2>2, <2>3, Zenon DEF PageInv, SpansInv
  <2>5. PageAgrees'
    BY <2>1, <2>2, <2>3, Zenon DEF PageInv, PageAgrees
  <2>6. SecondsRead' = SecondsRead
    BY <2>1, <2>2, Zenon DEF SecondsRead
  <2>. QED
    BY <2>1, <2>4, <2>5, <2>6 DEF PageInv
<1>3. CASE \E seconds \in Latencies : RecordLatency(seconds) /\ UNCHANGED page
  <2>1. PICK seconds \in Latencies : RecordLatency(seconds)
    BY <1>3
  <2>2. /\ SpansInv' /\ Len(spans') = Len(spans) + 1 /\ UNCHANGED page
        /\ \A n \in 0..Len(spans) : Seconds(n)' = Seconds(n) /\ Tally(n)' = Tally(n)
    BY <1>3, <2>1, SpanAdds DEF PageInv
  <2>3. \A n \in 0..Len(spans) : n \in 0..Len(spans')
    BY <1>1, <2>2
  <2>4. SecondsRead => SecondsRead'
    BY <2>2, <2>3 DEF SecondsRead
  <2>5. PageAgrees'
    <3>. SUFFICES ASSUME page'.at = "idle" /\ page'.done > 0
                  PROVE  \E n \in 0..Len(spans') :
                            /\ page'.counts = Tally(n)' /\ page'.sum = Seconds(n)'
                            /\ \E m \in 0..n : page'.seconds = Seconds(m)'
      BY DEF PageAgrees
    <3>1. PICK n \in 0..Len(spans) :
                    /\ page.counts = Tally(n) /\ page.sum = Seconds(n)
                    /\ \E m \in 0..n : page.seconds = Seconds(m)
      BY <2>2 DEF PageInv, PageAgrees
    <3>2. PICK m \in 0..n : page.seconds = Seconds(m)
      BY <3>1
    <3>3. m \in 0..Len(spans)
      BY <1>1
    <3>. QED
      BY <2>2, <2>3, <3>1, <3>2, <3>3
  <2>. QED
    BY <2>2, <2>4, <2>5 DEF PageInv
<1>4. CASE UNCHANGED <<spans, bucket_counts, latency_sum>> /\ (ReadTotal \/ ReadFailed)
  <2>1. page'.at \in {"failed", "seconds"}
    BY <1>4 DEF ReadTotal, ReadFailed, Page, PageInv
  <2>2. page' \in [at : {"idle", "failed", "seconds", "histogram"}, done : Nat, total : {page'.total},
                 failed : {page'.failed}, seconds : {page'.seconds}, counts : {page'.counts},
                 sum : {page'.sum}]
    BY <1>4 DEF ReadTotal, ReadFailed, Page, PageInv
  <2>3. SpansInv'
    BY <1>4 DEF PageInv, SpansInv, Seconds, Tally
  <2>. QED
    BY <2>1, <2>2, <2>3 DEF PageInv, PageAgrees
<1>5. CASE UNCHANGED <<spans, bucket_counts, latency_sum>> /\ ReadSeconds
  <2>1. page'.at = "histogram" /\ page'.seconds = latency_sum
    BY <1>5 DEF ReadSeconds, Page, PageInv
  <2>2. page' \in [at : {"idle", "failed", "seconds", "histogram"}, done : Nat, total : {page'.total},
                 failed : {page'.failed}, seconds : {page'.seconds}, counts : {page'.counts},
                 sum : {page'.sum}]
    BY <1>5 DEF ReadSeconds, Page, PageInv
  <2>3. SpansInv'
    BY <1>5 DEF PageInv, SpansInv, Seconds, Tally
  <2>4. SecondsRead'
    BY <1>1, <1>5, <2>1 DEF PageInv, SpansInv, SecondsRead, Seconds
  <2>. QED
    BY <2>1, <2>2, <2>3, <2>4 DEF PageInv, PageAgrees
<1>6. CASE UNCHANGED <<spans, bucket_counts, latency_sum>> /\ ReadHistogram
  <2>1. /\ page.at = "histogram" /\ page'.at = "idle" /\ page'.seconds = page.seconds
        /\ page'.counts = bucket_counts /\ page'.sum = latency_sum
    BY <1>6 DEF ReadHistogram, Page, PageInv
  <2>2. page' \in [at : {"idle", "failed", "seconds", "histogram"}, done : Nat, total : {page'.total},
                 failed : {page'.failed}, seconds : {page'.seconds}, counts : {page'.counts},
                 sum : {page'.sum}]
    <3>1. page' = [page EXCEPT !.at = "idle", !.counts = bucket_counts, !.sum = latency_sum,
                               !.done = page.done + 1]
      BY <1>6 DEF ReadHistogram, Page
    <3>2. page.done + 1 \in Nat
      BY DEF PageInv
    <3>. QED
      BY <3>1, <3>2 DEF PageInv
  <2>3. SpansInv'
    BY <1>6 DEF PageInv, SpansInv, Seconds, Tally
  <2>4. PICK m \in 0..Len(spans) : page.seconds = Seconds(m)
    BY <2>1 DEF PageInv, SecondsRead
  <2>5. /\ Len(spans) \in 0..Len(spans) /\ page'.counts = Tally(Len(spans))
        /\ page'.sum = Seconds(Len(spans)) /\ page'.seconds = Seconds(m)
    BY <1>1, <2>1, <2>4 DEF PageInv, SpansInv
  <2>6. PageAgrees'
    BY <1>6, <2>5 DEF PageAgrees, Tally, Seconds
  <2>. QED
    BY <2>1, <2>2, <2>3, <2>6 DEF PageInv
<1>7. ASSUME NEW r \in Requests, Thread(r)
      PROVE  /\ UNCHANGED page
             /\ \/ UNCHANGED <<spans, bucket_counts, latency_sum>>
                \/ \E seconds \in Latencies : RecordLatency(seconds)
  BY <1>7 DEF Thread, Arrive, Allow, Parse, CountRequest, Encode, Generate, CountFailure, EndSpan,
              RecordRequest, counters
<1>8. CASE ReadTotal \/ ReadFailed \/ ReadSeconds \/ ReadHistogram
  <2>1. UNCHANGED <<spans, bucket_counts, latency_sum>>
    BY <1>8 DEF ReadTotal, ReadFailed, ReadSeconds, ReadHistogram, counters
  <2>. QED
    BY <1>4, <1>5, <1>6, <1>8, <2>1
<1>9. CASE Cleanup \/ Tick \/ UNCHANGED vars
  BY <1>2, <1>9 DEF Cleanup, Tick, vars, counters
<1>. QED
  BY <1>2, <1>3, <1>7, <1>8, <1>9 DEF Next

(* A page shows the histogram and the sum of one moment, and the seconds   *)
(* of an earlier one.                                                      *)
THEOREM FrontendPageAgrees == Spec => []PageAgrees
<1>1. Init => PageInv
  <2>. SUFFICES ASSUME Init PROVE PageInv
    OBVIOUS
  <2>1. /\ spans = <<>> /\ bucket_counts = [i \in Slots |-> 0] /\ latency_sum = 0 /\ page = Blank
    BY DEF Init
  <2>2. <<>> \in Seq(Nat) /\ Len(<<>>) = 0 /\ SubSeq(<<>>, 1, 0) = <<>>
    BY EmptySeq, SubSeqFull
  <2>3. Seconds(Len(spans)) = 0
    BY <2>1, <2>2, TotalAppend DEF Seconds
  <2>4. Tally(Len(spans)) = [i \in Slots |-> 0]
    <3>1. \A i \in Slots : {k \in 1..Len(spans) : i \in Holding(spans[k])} = {}
      BY <2>1, <2>2
    <3>. QED
      BY <3>1, FS_EmptySet DEF Tally
  <2>5. /\ page.at = "idle" /\ page.done = 0
        /\ page \in [at : {"idle", "failed", "seconds", "histogram"}, done : Nat,
                     total : {page.total}, failed : {page.failed}, seconds : {page.seconds},
                     counts : {page.counts}, sum : {page.sum}]
    BY <2>1 DEF Blank
  <2>. QED
    BY <2>1, <2>2, <2>3, <2>4, <2>5 DEF PageInv, SpansInv, PageAgrees
<1>2. PageInv /\ [Next]_vars => PageInv'
  BY PageKept
<1>. QED
  BY <1>1, <1>2, PTL DEF PageInv, Spec

-----------------------------------------------------------------------------
(* Products and quotients.                                                 *)
LEMMA Times ==
    ASSUME NEW l \in Nat, NEW k \in Nat, NEW m \in Nat, k <= m
    PROVE  l * k \in Nat /\ l * k <= l * m /\ l * (k + 1) = l * k + l
<1>1. \A d \in Nat : l * d \in Nat
  OBVIOUS
<1>2. m - k \in Nat
  OBVIOUS
<1>3. l * m = l * k + l * (m - k)
  OBVIOUS
<1>. QED
  BY <1>1, <1>2, <1>3

(* A quotient is the largest number whose product fits.                    *)
LEMMA Quotient ==
    ASSUME NEW w \in Nat \ {0}, NEW a \in Nat
    PROVE  /\ a \div w \in Nat /\ w * (a \div w) <= a
           /\ \A q \in Nat : w * q <= a => q <= a \div w
<1>. DEFINE p == a \div w
<1>1. p \in Nat /\ w * p <= a /\ a < w * p + w
  OBVIOUS
<1>. HIDE DEF p
<1>2. ASSUME NEW q \in Nat, w * q <= a PROVE q <= p
  <2>1. SUFFICES ASSUME p + 1 <= q PROVE FALSE
    BY <1>1
  <2>2. w * (p + 1) <= w * q /\ w * (p + 1) = w * p + w
    BY <1>1, <2>1, Times
  <2>3. w * q \in Nat /\ w * p \in Nat
    BY <1>1, Times
  <2>. QED
    BY <1>1, <1>2, <2>2, <2>3
<1>. QED
  BY <1>1, <1>2 DEF p

(* A quotient grows with what is divided, and by one with the divisor.     *)
LEMMA QuotientGrows ==
    ASSUME NEW w \in Nat \ {0}, NEW a \in Nat, NEW b \in Nat, a <= b
    PROVE  a \div w \in Nat /\ a \div w <= b \div w /\ (a \div w) + 1 <= (a + w) \div w
<1>. DEFINE p == a \div w
<1>1. p \in Nat /\ w * p <= a
  BY Quotient
<1>. HIDE DEF p
<1>2. w * p \in Nat /\ w * (p + 1) = w * p + w
  BY <1>1, Times
<1>3. w * p <= b /\ w * (p + 1) <= a + w /\ a + w \in Nat /\ p + 1 \in Nat
  BY <1>1, <1>2
<1>4. p <= b \div w /\ p + 1 <= (a + w) \div w
  BY <1>1, <1>3, Quotient
<1>. QED
  BY <1>1, <1>4 DEF p

-----------------------------------------------------------------------------
(* Bursts.  What the windows hold whose start is as much as x late.        *)
Room(limit, x) == limit * (1 + x \div Window)

LEMMA RoomGrows ==
    ASSUME NEW limit \in Nat, NEW x \in Nat, NEW y \in Nat, x <= y
    PROVE  /\ Room(limit, x) \in Nat /\ limit <= Room(limit, x)
           /\ Room(limit, x) <= Room(limit, y)
           /\ Room(limit, x) + limit <= Room(limit, x + Window)
<1>. DEFINE p == x \div Window
            q == y \div Window
            s == (x + Window) \div Window
<1>1. p \in Nat /\ q \in Nat /\ s \in Nat /\ p <= q /\ p + 1 <= s
  <2>1. x + Window \in Nat
    BY FrontendAssumption
  <2>2. s \in Nat
    BY <2>1, FrontendAssumption, Quotient
  <2>3. y \div Window \in Nat
    BY FrontendAssumption, Quotient
  <2>. QED
    BY <2>2, <2>3, FrontendAssumption, QuotientGrows
<1>2. Room(limit, x) = limit * (1 + p) /\ Room(limit, y) = limit * (1 + q)
      /\ Room(limit, x + Window) = limit * (1 + s)
  BY DEF Room
<1>. HIDE DEF p, q, s
<1>3. limit * (1 + p) \in Nat /\ limit * (1 + p) <= limit * (1 + q)
  BY <1>1, Times
<1>4. limit * p \in Nat /\ limit * (p + 1) = limit * p + limit
  BY <1>1, Times
<1>5. limit * ((1 + p) + 1) = limit * (1 + p) + limit /\ limit * ((1 + p) + 1) <= limit * (1 + s)
  BY <1>1, Times
<1>. QED
  BY <1>1, <1>2, <1>3, <1>4, <1>5

(* Room is a number, no less than the limit.                               *)
LEMMA RoomType ==
    ASSUME NEW limit \in Nat, NEW x \in Nat
    PROVE  Room(limit, x) \in Nat /\ limit <= Room(limit, x)
<1>1. x <= x
  OBVIOUS
<1>. QED
  BY <1>1, RoomGrows

(* Room for what a stretch from T holds beside the n of an entry that      *)
(* started at s: as threads get later,                                     *)
LEMMA RoomKept ==
    ASSUME NEW l \in Nat, NEW u \in Nat, NEW n \in Nat, NEW s \in Nat, NEW T \in Nat,
           NEW d \in Nat, NEW e \in Nat, d <= e, T <= s + d, u <= n + Room(l, (s + d) - T)
    PROVE  T <= s + e /\ u <= n + Room(l, (s + e) - T)
<1>. DEFINE x == (s + d) - T
            y == (s + e) - T
<1>1. x \in Nat /\ y \in Nat /\ x <= y /\ T <= s + e /\ u <= n + Room(l, x)
  OBVIOUS
<1>. HIDE DEF x, y
<1>2. Room(l, x) \in Nat /\ Room(l, x) <= Room(l, y)
  BY <1>1, RoomGrows
<1>3. Room(l, y) \in Nat
  BY <1>1, RoomType
<1>4. u <= n + Room(l, y)
  BY <1>1, <1>2, <1>3
<1>. QED
  BY <1>1, <1>4 DEF y

(* when an entry is started anew at t, a window later,                     *)
LEMMA RoomAnew ==
    ASSUME NEW l \in Nat, NEW u \in Nat, NEW n \in Nat, NEW s \in Nat, NEW T \in Nat,
           NEW d \in Nat, NEW e \in Nat, NEW t \in Nat, d <= e, s + Window <= t, n <= l,
           T <= s + d, u <= n + Room(l, (s + d) - T)
    PROVE  u <= Room(l, (t + e) - T)
<1>. DEFINE x == (s + d) - T
            y == (t + e) - T
<1>0. Window \in Nat
  BY FrontendAssumption
<1>1. x \in Nat /\ x + Window \in Nat /\ y \in Nat /\ x + Window <= y /\ u <= n + Room(l, x)
  BY <1>0
<1>. HIDE DEF x, y
<1>2. Room(l, x) \in Nat /\ Room(l, x) + l <= Room(l, x + Window)
  BY <1>1, RoomGrows
<1>3. Room(l, x + Window) \in Nat /\ Room(l, x + Window) <= Room(l, y)
  BY <1>1, RoomGrows
<1>4. Room(l, y) \in Nat
  BY <1>1, RoomType
<1>5. u <= Room(l, y)
  BY <1>1, <1>2, <1>3, <1>4
<1>. QED
  BY <1>5 DEF y

(* and at most, while the window of T is open.                             *)
LEMMA RoomMost ==
    ASSUME NEW l \in Nat, NEW u \in Nat, NEW n \in Nat, NEW s \in Nat, NEW T \in Nat,
           NEW e \in Nat, s < T + Window, n <= l, T <= s + e, u <= n + Room(l, (s + e) - T)
    PROVE  u <= l + Room(l, e + (Window - 1))
<1>. DEFINE x == (s + e) - T
            y == e + (Window - 1)
<1>0. Window \in Nat \ {0}
  BY FrontendAssumption
<1>1. x \in Nat /\ y \in Nat /\ x <= y /\ u <= n + Room(l, x)
  BY <1>0
<1>. HIDE DEF x, y
<1>2. Room(l, x) \in Nat /\ Room(l, x) <= Room(l, y)
  BY <1>1, RoomGrows
<1>3. Room(l, y) \in Nat
  BY <1>1, RoomType
<1>4. u <= l + Room(l, y)
  BY <1>1, <1>2, <1>3
<1>. QED
  BY <1>4 DEF y

(* The bound of Burst is one limit and what the latest start adds.         *)
LEMMA MostIsRoom ==
    ASSUME TypeInv
    PROVE  /\ setup.limit \in Nat /\ late + (Window - 1) \in Nat
           /\ Most = setup.limit + Room(setup.limit, late + (Window - 1))
<1>. DEFINE p == (late + (Window - 1)) \div Window
<1>1. setup.limit \in Nat /\ late \in Nat /\ late + (Window - 1) \in Nat
  BY FrontendAssumption DEF TypeInv, TypeOK
<1>2. p \in Nat
  BY <1>1, FrontendAssumption, Quotient
<1>3. Most = setup.limit * (2 + p)
  <2>1. late + Window - 1 = late + (Window - 1)
    BY <1>1, FrontendAssumption
  <2>. QED
    BY <2>1 DEF Most
<1>4. Room(setup.limit, late + (Window - 1)) = setup.limit * (1 + p)
  BY DEF Room
<1>. HIDE DEF p
<1>5. setup.limit * ((1 + p) + 1) = setup.limit * (1 + p) + setup.limit /\ setup.limit * (1 + p) \in Nat
  BY <1>1, <1>2, Times
<1>. QED
  BY <1>1, <1>2, <1>3, <1>4, <1>5

Near(T) == T <= clock /\ clock < T + Window

\* What went through since T, where the window of T is still open: the count of the entry,
\* or that and what threads that were late had counted elsewhere.
Open(c, T) ==
    IF buckets[c] = None THEN Stretch(c, T) <= setup.limit
    ELSE \/ Stretch(c, T) <= buckets[c].count
         \/ /\ T <= buckets[c].start + late
            /\ Stretch(c, T) <=
                   buckets[c].count + Room(setup.limit, (buckets[c].start + late) - T)

BurstOf(c) ==
    /\ \A i \in DOMAIN granted[c] : granted[c][i] <= clock
    /\ buckets[c] # None => buckets[c].start <= clock
    /\ \A T \in Nat : Stretch(c, T) <= Most /\ (Near(T) => Open(c, T))

Punctual == tidied => late <= Window
BurstInv == Punctual => \A c \in Clients : BurstOf(c)

(* A stretch counts some of what was granted.                              *)
LEMMA StretchType ==
    ASSUME TypeInv, NEW c \in Clients, NEW T \in Nat
    PROVE  /\ Stretch(c, T) \in Nat
           /\ (\A i \in DOMAIN granted[c] : granted[c][i] < T) => Stretch(c, T) = 0
<1>. DEFINE S == {i \in DOMAIN granted[c] : granted[c][i] \in T..(T + Window - 1)}
<1>1. granted[c] \in Seq(0..MaxTime) /\ IsFiniteSet(DOMAIN granted[c])
      /\ \A i \in DOMAIN granted[c] : granted[c][i] \in Nat
  <2>1. granted[c] \in Seq(0..MaxTime)
    BY DEF TypeInv
  <2>2. Len(granted[c]) \in Nat /\ DOMAIN granted[c] = 1..Len(granted[c])
    BY <2>1, LenProperties
  <2>3. IsFiniteSet(1..Len(granted[c]))
    BY <2>2, FS_Interval
  <2>4. \A i \in DOMAIN granted[c] : granted[c][i] \in Nat
    BY <2>1, <2>2, FrontendAssumption
  <2>. QED
    BY <2>1, <2>2, <2>3, <2>4
<1>2. IsFiniteSet(S) /\ Stretch(c, T) = Cardinality(S)
  BY <1>1, FS_Subset DEF Stretch
<1>3. (\A i \in DOMAIN granted[c] : granted[c][i] < T) => S = {}
  BY <1>1
<1>. HIDE DEF S
<1>. QED
  BY <1>2, <1>3, FS_CardinalityType, FS_EmptySet

(* A request let through now counts in every stretch that is open.         *)
LEMMA StretchGrant ==
    ASSUME TypeInv, NEW c \in Clients, NEW T \in Nat,
           granted'[c] = Append(granted[c], clock)
    PROVE  Stretch(c, T)' = IF Near(T) THEN Stretch(c, T) + 1 ELSE Stretch(c, T)
<1>. DEFINE g == granted[c]
            h == granted'[c]
            S == {i \in DOMAIN g : g[i] \in T..(T + Window - 1)}
            U == {i \in DOMAIN h : h[i] \in T..(T + Window - 1)}
<1>1. clock \in Nat /\ g \in Seq(Nat) /\ Window \in Nat
  <2>1. g \in Seq(0..MaxTime)
    BY DEF TypeInv
  <2>2. g \in Seq(Nat)
    <3>1. \A i \in 1..Len(g) : g[i] \in Nat
      BY <2>1, FrontendAssumption, LenProperties
    <3>. QED
      BY <2>1, <3>1, LenProperties
  <2>. QED
    BY <2>2, FrontendAssumption DEF TypeInv, TypeOK
<1>2. /\ Len(g) \in Nat /\ DOMAIN g = 1..Len(g) /\ DOMAIN h = 1..(Len(g) + 1)
      /\ h[Len(g) + 1] = clock /\ \A i \in 1..Len(g) : h[i] = g[i]
  BY <1>1, LenProperties, AppendProperties
<1>3. Near(T) <=> clock \in T..(T + Window - 1)
  BY <1>1 DEF Near
<1>4. /\ Near(T) => U = S \cup {Len(g) + 1}
      /\ ~Near(T) => U = S
      /\ Len(g) + 1 \notin S
  <2>1. \A i \in 1..(Len(g) + 1) : i \in 1..Len(g) \/ i = Len(g) + 1
    BY <1>2
  <2>2. 1..Len(g) \subseteq 1..(Len(g) + 1) /\ Len(g) + 1 \in 1..(Len(g) + 1)
        /\ Len(g) + 1 \notin 1..Len(g)
    BY <1>2
  <2>. QED
    BY <1>2, <1>3, <2>1, <2>2
<1>5. IsFiniteSet(S)
  <2>1. IsFiniteSet(1..Len(g)) /\ S \subseteq 1..Len(g)
    BY <1>2, FS_Interval
  <2>. QED
    BY <2>1, FS_Subset
<1>6. Stretch(c, T) = Cardinality(S) /\ Stretch(c, T)' = Cardinality(U)
  BY DEF Stretch
<1>. HIDE DEF S, U
<1>. QED
  BY <1>4, <1>5, <1>6, FS_AddElement

(* The bound grows as threads come later.                                  *)
LEMMA MostGrows ==
    ASSUME TypeInv, UNCHANGED setup, NEW lag \in Nat, late' = lag, late <= lag
    PROVE  /\ Most \in Nat /\ Most' \in Nat /\ Most <= Most'
           /\ Most' = setup.limit + Room(setup.limit, lag + (Window - 1))
<1>. DEFINE L == setup.limit
<1>0. L \in Nat /\ late \in Nat /\ Window \in Nat \ {0}
  BY FrontendAssumption DEF TypeInv, TypeOK
<1>. DEFINE x == late + (Window - 1)
            y == lag + (Window - 1)
<1>1. x \in Nat /\ y \in Nat /\ x <= y
  BY <1>0
<1>2. Most = L + Room(L, x)
  BY MostIsRoom
<1>3. Most' = L + Room(L, y)
  <2>. DEFINE p == y \div Window
  <2>1. Most' = L * (2 + p)
    <3>1. (lag + Window) - 1 = y
      BY <1>0
    <3>. QED
      BY <3>1 DEF Most
  <2>2. Room(L, y) = L * (1 + p)
    BY DEF Room
  <2>3. p \in Nat
    BY <1>0, <1>1, Quotient
  <2>. HIDE DEF p
  <2>4. L * ((1 + p) + 1) = L * (1 + p) + L /\ L * (1 + p) \in Nat
    BY <1>0, <2>3, Times
  <2>. QED
    BY <1>0, <2>1, <2>2, <2>3, <2>4
<1>. HIDE DEF x, y, L
<1>4. Room(L, x) \in Nat /\ Room(L, x) <= Room(L, y)
  BY <1>0, <1>1, RoomGrows
<1>5. Room(L, y) \in Nat
  BY <1>0, <1>1, RoomGrows
<1>. QED
  BY <1>0, <1>2, <1>3, <1>4, <1>5 DEF L, y

(* A step that leaves what was granted and the entry, and may find threads *)
(* later than before, keeps what is so of a client.                        *)
LEMMA BurstStays ==
    ASSUME TypeInv, NEW c \in Clients, BurstOf(c), UNCHANGED <<setup, clock>>,
           NEW lag \in Nat, late' = lag, late <= lag,
           granted'[c] = granted[c], buckets'[c] = buckets[c]
    PROVE  BurstOf(c)'
<1>. DEFINE L == setup.limit
            b == buckets[c]
<1>1. /\ L \in Nat /\ late \in Nat /\ Window \in Nat \ {0} /\ clock \in Nat
      /\ b # None => b.start \in Nat /\ b.count \in Nat
  BY FrontendAssumption DEF TypeInv, TypeOK, Entry
<1>2. Most <= Most' /\ Most \in Nat /\ Most' \in Nat
  BY MostGrows
<1>3. ASSUME NEW T \in Nat PROVE Stretch(c, T)' = Stretch(c, T) /\ Stretch(c, T) \in Nat
  BY StretchType DEF Stretch
<1>4. ASSUME NEW T \in Nat, Near(T)' PROVE Open(c, T)'
  <2>1. Near(T)
    BY <1>4 DEF Near
  <2>2. Open(c, T)
    BY <2>1 DEF BurstOf
  <2>3. CASE b = None \/ Stretch(c, T) <= b.count
    BY <1>3, <2>2, <2>3 DEF Open
  <2>4. CASE /\ b # None /\ T <= b.start + late
             /\ Stretch(c, T) <= b.count + Room(L, (b.start + late) - T)
    <3>. DEFINE x == (b.start + late) - T
                y == (b.start + lag) - T
    <3>1. x \in Nat /\ y \in Nat /\ x <= y /\ T <= b.start + lag
      BY <1>1, <2>4
    <3>. HIDE DEF x, y
    <3>2. Room(L, x) <= Room(L, y) /\ Room(L, x) \in Nat /\ Room(L, y) \in Nat
      BY <1>1, <3>1, RoomGrows
    <3>3. Stretch(c, T) <= b.count + Room(L, y)
      BY <1>1, <1>3, <2>4, <3>2 DEF x
    <3>. QED
      BY <1>3, <2>4, <3>1, <3>3 DEF Open, y
  <2>. QED
    BY <2>2, <2>3, <2>4 DEF Open
<1>. QED
  BY <1>2, <1>3, <1>4 DEF BurstOf

(* A request let through: what went through before the entry was started   *)
(* anew is at most a limit and what late threads added, a window earlier.  *)
LEMMA BurstGrants ==
    ASSUME TypeInv, NEW r \in Requests, BurstOf(Client[r]), UNCHANGED <<setup, clock>>,
           NEW lag \in Nat, late' = lag, late <= lag, clock - now[r] <= lag,
           Fresh(Client[r], now[r]).count + 1 <= setup.limit,
           granted'[Client[r]] = Append(granted[Client[r]], clock),
           buckets'[Client[r]] = [Fresh(Client[r], now[r]) EXCEPT !.count = @ + 1]
    PROVE  BurstOf(Client[r])'
<1>. DEFINE c == Client[r]
            t == now[r]
            L == setup.limit
            b == Fresh(c, t)
<1>1. /\ c \in Clients /\ t \in Nat /\ clock \in Nat /\ t <= clock /\ clock <= t + lag
      /\ L \in Nat /\ late \in Nat /\ Window \in Nat \ {0}
  BY FrontendAssumption DEF TypeInv, TypeOK, Clients
<1>2. /\ b.start \in Nat /\ b.count \in Nat /\ b.count + 1 <= L /\ buckets'[c] # None
      /\ buckets'[c].start = b.start /\ buckets'[c].count = b.count + 1
  BY FreshEntry, FrontendAssumption DEF Entry
<1>3. /\ Fresh(c, t) = buckets[c] /\ buckets[c] # None
      \/ /\ b.start = t /\ b.count = 0
         /\ buckets[c] = None \/ t - buckets[c].start >= Window
  BY DEF Fresh
<1>4. buckets[c] # None => /\ buckets[c].start \in Nat /\ buckets[c].count \in Nat
                           /\ buckets[c].count <= L /\ buckets[c].start <= clock
  BY <1>1, FrontendAssumption DEF TypeInv, TypeOK, Entry, BurstOf
<1>5. b.start <= clock
  BY <1>1, <1>3, <1>4
<1>6. Most \in Nat /\ Most' \in Nat /\ Most <= Most' /\ Most' = L + Room(L, lag + (Window - 1))
  BY MostGrows
<1>7. \A i \in DOMAIN granted'[c] : granted'[c][i] <= clock
  <2>1. granted[c] \in Seq(0..MaxTime)
    BY <1>1 DEF TypeInv
  <2>2. \A i \in 1..Len(granted[c]) : granted[c][i] <= clock
    BY <2>1, LenProperties DEF BurstOf
  <2>3. DOMAIN granted'[c] = 1..(Len(granted[c]) + 1) /\ granted'[c][Len(granted[c]) + 1] = clock
        /\ \A i \in 1..Len(granted[c]) : granted'[c][i] = granted[c][i]
    <3>1. clock \in 0..MaxTime
      BY DEF TypeInv, TypeOK
    <3>. QED
      BY <2>1, <3>1, LenProperties, AppendProperties
  <2>4. \A i \in 1..(Len(granted[c]) + 1) : i \in 1..Len(granted[c]) \/ i = Len(granted[c]) + 1
    BY <2>1, LenProperties
  <2>. QED
    BY <1>1, <2>2, <2>3, <2>4
<1>8. ASSUME NEW T \in Nat
      PROVE  Stretch(c, T)' <= Most' /\ (Near(T)' => Open(c, T)')
  <2>. DEFINE u == Stretch(c, T)
              x == (b.start + lag) - T
  <2>1. u \in Nat /\ u <= Most /\ (Near(T) => Open(c, T)) /\ (Near(T)' <=> Near(T))
    BY <1>1, StretchType DEF BurstOf, Near
  <2>2. Stretch(c, T)' = IF Near(T) THEN u + 1 ELSE u
    BY <1>1, StretchGrant
  <2>3. CASE ~Near(T)
    BY <1>6, <2>1, <2>2, <2>3
  <2>4. CASE Near(T)
    <3>1. T <= clock /\ clock < T + Window
      BY <2>4 DEF Near
    <3>2. \/ u <= b.count
          \/ T <= b.start + lag /\ u <= b.count + Room(L, x)
      <4>1. CASE Fresh(c, t) = buckets[c] /\ buckets[c] # None
        <5>1. \/ u <= b.count
              \/ T <= b.start + late /\ u <= b.count + Room(L, (b.start + late) - T)
          BY <2>1, <2>4, <4>1 DEF Open
        <5>2. CASE T <= b.start + late /\ u <= b.count + Room(L, (b.start + late) - T)
          BY <1>1, <1>2, <2>1, <5>2, RoomKept
        <5>. QED
          BY <5>1, <5>2
      <4>2. CASE /\ b.start = t /\ b.count = 0
                 /\ buckets[c] = None \/ t - buckets[c].start >= Window
        <5>1. (t + lag) - T \in Nat /\ T <= b.start + lag
          BY <1>1, <3>1, <4>2
        <5>2. u <= Room(L, (t + lag) - T)
          <6>1. CASE u <= L
            <7>1. Room(L, (t + lag) - T) \in Nat /\ L <= Room(L, (t + lag) - T)
              BY <1>1, <5>1, RoomType
            <7>. QED
              BY <1>1, <2>1, <6>1, <7>1
          <6>2. CASE ~(u <= L)
            <7>1. buckets[c] # None
              BY <2>1, <2>4, <6>2 DEF Open
            <7>2. ~(u <= buckets[c].count)
              BY <1>1, <1>4, <2>1, <6>2, <7>1
            <7>3. /\ T <= buckets[c].start + late
                  /\ u <= buckets[c].count + Room(L, (buckets[c].start + late) - T)
              BY <2>1, <2>4, <7>1, <7>2 DEF Open
            <7>4. buckets[c].start + Window <= t
              BY <1>1, <1>4, <4>2, <7>1
            <7>. QED
              BY <1>1, <1>4, <2>1, <7>1, <7>3, <7>4, RoomAnew
          <6>. QED
            BY <6>1, <6>2
        <5>3. Room(L, (t + lag) - T) \in Nat
          BY <1>1, <5>1, RoomType
        <5>4. u <= b.count + Room(L, (t + lag) - T) /\ x = (t + lag) - T
          BY <2>1, <4>2, <5>2, <5>3
        <5>. QED
          BY <5>1, <5>4
      <4>. QED
        BY <1>3, <4>1, <4>2
    <3>3. Stretch(c, T)' = u + 1
      BY <2>2, <2>4
    <3>4. Open(c, T)'
      <4>1. \/ u + 1 <= buckets'[c].count
            \/ /\ T <= buckets'[c].start + lag
               /\ u + 1 <= buckets'[c].count + Room(L, (buckets'[c].start + lag) - T)
        <5>1. CASE u <= b.count
          BY <1>2, <2>1, <5>1
        <5>2. CASE T <= b.start + lag /\ u <= b.count + Room(L, x)
          <6>1. x \in Nat
            <7>1. b.start \in Nat /\ T <= b.start + lag
              BY <1>2, <5>2
            <7>. HIDE DEF b
            <7>. QED
              BY <7>1
          <6>2. Room(L, x) \in Nat
            BY <1>1, <6>1, RoomType
          <6>3. u + 1 <= (b.count + 1) + Room(L, x)
            BY <1>2, <2>1, <5>2, <6>2
          <6>. QED
            BY <1>2, <5>2, <6>3
        <5>. QED
          BY <3>2, <5>1, <5>2
      <4>. QED
        BY <1>2, <3>3, <4>1 DEF Open
    <3>5. u + 1 <= Most'
      <4>1. lag + (Window - 1) \in Nat
        BY <1>1
      <4>2. Room(L, lag + (Window - 1)) \in Nat
        BY <1>1, <4>1, RoomType
      <4>3. CASE u <= b.count
        <5>1. u + 1 <= L
          BY <1>1, <1>2, <2>1, <4>3
        <5>. QED
          BY <1>1, <1>6, <2>1, <4>2, <5>1
      <4>4. CASE T <= b.start + lag /\ u <= b.count + Room(L, x)
        <5>1. b.start < T + Window
          BY <1>1, <1>2, <1>5, <3>1
        <5>2. x \in Nat
          BY <1>2, <4>4
        <5>3. Room(L, x) \in Nat
          BY <1>1, <5>2, RoomType
        <5>4. u + 1 \in Nat /\ b.count + 1 \in Nat /\ u + 1 <= (b.count + 1) + Room(L, x)
          BY <1>2, <2>1, <4>4, <5>3
        <5>5. u + 1 <= L + Room(L, lag + (Window - 1))
          BY <1>1, <1>2, <4>4, <5>1, <5>4, RoomMost
        <5>. QED
          BY <1>6, <5>5
      <4>. QED
        BY <3>2, <4>3, <4>4
    <3>. QED
      BY <3>3, <3>4, <3>5
  <2>. QED
    BY <2>3, <2>4
<1>. QED
  BY <1>2, <1>5, <1>7, <1>8 DEF BurstOf

(* The clock opens one more stretch, in which nothing went through yet.    *)
LEMMA BurstTicks ==
    ASSUME TypeInv, NEW c \in Clients, BurstOf(c), Tick
    PROVE  BurstOf(c)'
<1>1. /\ clock' = clock + 1 /\ clock \in Nat /\ setup.limit \in Nat
      /\ UNCHANGED <<setup, buckets, granted, late, tidied>>
  BY FrontendAssumption DEF Tick, limiter, TypeInv, TypeOK
<1>2. /\ \A i \in DOMAIN granted[c] : granted[c][i] <= clock /\ granted[c][i] \in Nat
      /\ buckets[c] # None => /\ buckets[c].start <= clock /\ buckets[c].start \in Nat
                              /\ buckets[c].count \in Nat
  <2>1. granted[c] \in Seq(0..MaxTime) /\ buckets[c] \in Entry \cup {None}
    BY DEF TypeInv
  <2>2. \A i \in DOMAIN granted[c] : granted[c][i] \in 0..MaxTime
    BY <2>1, LenProperties
  <2>3. \A i \in DOMAIN granted[c] : granted[c][i] \in Nat
    BY <2>2, FrontendAssumption
  <2>. QED
    BY <2>1, <2>3 DEF BurstOf, Entry
<1>3. Most' = Most /\ \A T \in Nat : Stretch(c, T)' = Stretch(c, T)
  BY <1>1 DEF Most, Stretch
<1>4. ASSUME NEW T \in Nat, Near(T)' PROVE Open(c, T)'
  <2>1. Near(T) \/ T = clock + 1
    BY <1>1, <1>4, FrontendAssumption DEF Near
  <2>2. CASE Near(T)
    BY <1>1, <1>3, <2>2 DEF BurstOf, Open
  <2>3. CASE T = clock + 1
    <3>1. \A i \in DOMAIN granted[c] : granted[c][i] < T
      BY <1>1, <1>2, <2>3
    <3>2. Stretch(c, T) = 0
      BY <3>1, StretchType
    <3>3. buckets[c] # None => Stretch(c, T)' <= buckets'[c].count
      BY <1>1, <1>2, <1>3, <3>2
    <3>4. Stretch(c, T)' <= setup'.limit
      BY <1>1, <1>3, <3>2
    <3>. QED
      BY <1>1, <3>3, <3>4 DEF Open
  <2>. QED
    BY <2>1, <2>2, <2>3
<1>5. \A i \in DOMAIN granted'[c] : granted'[c][i] <= clock'
  BY <1>1, <1>2
<1>6. buckets'[c] # None => buckets'[c].start <= clock'
  BY <1>1, <1>2
<1>. QED
  BY <1>3, <1>4, <1>5, <1>6 DEF BurstOf

(* cleanup drops no entry of a stretch that is open, where no thread is    *)
(* more than a window late.                                                *)
LEMMA BurstTidied ==
    ASSUME TypeInv, NEW c \in Clients, BurstOf(c), Cleanup, late <= Window
    PROVE  BurstOf(c)'
<1>1. /\ UNCHANGED <<setup, clock, granted, late>>
      /\ \/ buckets'[c] = buckets[c]
         \/ buckets'[c] = None /\ buckets[c] # None /\ clock - buckets[c].start > 2 * Window
  BY DEF Cleanup
<1>2. /\ late \in Nat /\ Window \in Nat \ {0} /\ clock \in Nat /\ setup.limit \in Nat
      /\ buckets[c] # None => /\ buckets[c].start \in Nat /\ buckets[c].count \in Nat
                              /\ buckets[c].count <= setup.limit
  BY FrontendAssumption DEF TypeInv, TypeOK, Entry
<1>3. Most' = Most /\ \A T \in Nat : Stretch(c, T)' = Stretch(c, T) /\ (Near(T)' <=> Near(T))
  BY <1>1 DEF Most, Stretch, Near
<1>4. CASE buckets'[c] = buckets[c]
  BY <1>1, <1>3, <1>4 DEF BurstOf, Open
<1>5. CASE buckets'[c] = None /\ buckets[c] # None /\ clock - buckets[c].start > 2 * Window
  <2>1. ASSUME NEW T \in Nat, Near(T) PROVE Stretch(c, T) <= setup.limit
    <3>1. Open(c, T)
      BY <2>1 DEF BurstOf
    <3>2. ~(T <= buckets[c].start + late)
      BY <1>2, <1>5, <2>1 DEF Near
    <3>3. Stretch(c, T) <= buckets[c].count
      BY <1>5, <3>1, <3>2 DEF Open
    <3>. QED
      BY <1>2, <1>5, <3>3, StretchType
  <2>. QED
    BY <1>1, <1>3, <1>5, <2>1 DEF BurstOf, Open
<1>. QED
  BY <1>1, <1>4, <1>5

(* Every step keeps it, while threads are as punctual as cleanup needs.    *)
LEMMA BurstKept ==
    ASSUME TypeInv, BurstInv, [Next]_vars
    PROVE  BurstInv'
<1>. SUFFICES ASSUME Punctual', NEW c \in Clients PROVE BurstOf(c)'
  BY DEF BurstInv
<1>0. late \in Nat /\ clock \in Nat /\ Window \in Nat /\ clock \in 0..MaxTime
  BY FrontendAssumption DEF TypeInv, TypeOK
<1>1. ASSUME UNCHANGED <<setup, clock, limiter>> PROVE BurstOf(c)'
  <2>1. UNCHANGED <<setup, clock>> /\ UNCHANGED <<buckets, granted, late, tidied>>
    BY <1>1 DEF limiter
  <2>2. BurstOf(c) /\ late <= late
    BY <1>0, <2>1 DEF BurstInv, Punctual
  <2>. QED
    BY <1>0, <2>1, <2>2, BurstStays
<1>2. ASSUME NEW r \in Requests, Allow(r) PROVE BurstOf(c)'
  <2>. DEFINE d == Client[r]
              b == Fresh(d, now[r])
              lag == clock - now[r]
  <2>1. /\ late' = Max({late, lag}) /\ UNCHANGED <<setup, clock>> /\ UNCHANGED tidied
        /\ \/ /\ b.count + 1 <= setup.limit
              /\ buckets' = [buckets EXCEPT ![d] = [b EXCEPT !.count = @ + 1]]
              /\ granted' = [granted EXCEPT ![d] = Append(granted[d], clock)]
           \/ UNCHANGED <<buckets, granted>>
    BY <1>2 DEF Allow
  <2>2. d \in Clients /\ lag \in Nat
    <3>1. now[r] \in Nat /\ now[r] <= clock
      BY FrontendAssumption DEF TypeInv, TypeOK
    <3>. QED
      BY <1>0, <3>1 DEF Clients
  <2>. HIDE DEF lag
  <2>3. PICK m \in Nat : late' = m /\ late <= m /\ lag <= m
    <3>1. late \in Int /\ lag \in Int
      BY <1>0, <2>2
    <3>2. /\ Max({late, lag}) \in {late, lag} /\ Max({late, lag}) >= late
          /\ Max({late, lag}) >= lag
      BY <3>1, MaxOfTwo, Zenon
    <3>. DEFINE m == Max({late, lag})
    <3>. HIDE DEF m
    <3>3. m \in Nat /\ late <= m /\ lag <= m
      BY <1>0, <2>2, <3>2 DEF m
    <3>. QED
      BY <2>1, <3>3 DEF m
  <2>4. Punctual
    BY <1>0, <2>1, <2>3 DEF Punctual
  <2>5. BurstOf(c)
    BY <2>4 DEF BurstInv
  <2>6. CASE UNCHANGED <<buckets, granted>> \/ c # d
    <3>1. granted'[c] = granted[c] /\ buckets'[c] = buckets[c]
      BY <2>1, <2>2, <2>6 DEF TypeInv
    <3>. QED
      BY <2>1, <2>3, <2>5, <3>1, BurstStays
  <2>7. CASE /\ b.count + 1 <= setup.limit /\ c = d
             /\ buckets' = [buckets EXCEPT ![d] = [b EXCEPT !.count = @ + 1]]
             /\ granted' = [granted EXCEPT ![d] = Append(granted[d], clock)]
    <3>1. granted'[d] = Append(granted[d], clock) /\ buckets'[d] = [b EXCEPT !.count = @ + 1]
      BY <2>2, <2>7 DEF TypeInv
    <3>. QED
      BY <2>1, <2>3, <2>5, <2>7, <3>1, BurstGrants DEF lag
  <2>. QED
    BY <2>1, <2>6, <2>7
<1>3. ASSUME NEW r \in Requests, Thread(r), ~Allow(r) PROVE UNCHANGED <<setup, clock, limiter>>
  BY <1>3 DEF Thread, Arrive, Parse, CountRequest, Encode, Generate, CountFailure, EndSpan
<1>4. CASE ReadTotal \/ ReadFailed \/ ReadSeconds \/ ReadHistogram \/ UNCHANGED vars
  <2>1. UNCHANGED <<setup, clock, limiter>>
    BY <1>4 DEF ReadTotal, ReadFailed, ReadSeconds, ReadHistogram, vars
  <2>. QED
    BY <1>1, <2>1
<1>5. CASE Cleanup
  <2>1. tidied' /\ UNCHANGED late
    BY <1>5 DEF Cleanup
  <2>2. late <= Window /\ BurstOf(c)
    BY <2>1 DEF Punctual, BurstInv
  <2>. QED
    BY <1>5, <2>2, BurstTidied
<1>6. CASE Tick
  <2>1. UNCHANGED <<tidied, late>>
    BY <1>6 DEF Tick, limiter
  <2>2. BurstOf(c)
    BY <2>1 DEF Punctual, BurstInv
  <2>. QED
    BY <1>6, <2>2, BurstTicks
<1>. QED
  BY <1>1, <1>2, <1>3, <1>4, <1>5, <1>6 DEF Next

(* No client gets more through in a stretch of one window than twice the   *)
(* limit, and the limit for every window that threads are late.            *)
THEOREM FrontendBurst == Spec => []Burst
<1>. DEFINE IInv == TypeInv /\ RegistryInv /\ BurstInv
<1>1. Init => IInv
  <2>. SUFFICES ASSUME Init PROVE BurstInv
    BY InitTypes
  <2>1. TypeInv
    BY InitTypes
  <2>. SUFFICES ASSUME NEW c \in Clients PROVE BurstOf(c)
    BY DEF BurstInv
  <2>2. granted[c] = <<>> /\ buckets[c] = None
    BY DEF Init
  <2>3. DOMAIN granted[c] = {}
    <3>1. <<>> \in Seq(Nat) /\ Len(<<>>) = 0
      BY EmptySeq
    <3>2. DOMAIN <<>> = 1..0
      BY <3>1, LenProperties
    <3>. QED
      BY <2>2, <3>2
  <2>4. \A T \in Nat : Stretch(c, T) = 0
    BY <2>1, <2>3, StretchType
  <2>5. setup.limit \in Nat /\ Most \in Nat
    <3>1. setup.limit \in Nat /\ late + (Window - 1) \in Nat
          /\ Most = setup.limit + Room(setup.limit, late + (Window - 1))
      BY <2>1, MostIsRoom
    <3>2. Room(setup.limit, late + (Window - 1)) \in Nat
      BY <3>1, RoomType
    <3>. QED
      BY <3>1, <3>2
  <2>. QED
    BY <2>2, <2>3, <2>4, <2>5 DEF BurstOf, Open
<1>2. IInv /\ [Next]_vars => IInv'
  BY TypesKept, BurstKept
<1>3. IInv => Burst
  <2>. SUFFICES ASSUME IInv, Punctual, NEW c \in Clients, NEW t \in 0..clock
                PROVE  Stretch(c, t) <= Most
    BY DEF Burst, Punctual
  <2>1. t \in Nat
    BY FrontendAssumption DEF TypeInv, TypeOK
  <2>. QED
    BY <2>1 DEF BurstInv, BurstOf
<1>. QED
  BY <1>1, <1>2, <1>3, PTL DEF Spec

=============================================================================
