---------------------------- MODULE EngineProofs ----------------------------
(***************************************************************************)
(* The engine.  Generation, for every set of requests and every limit:     *)
(* type correctness, that a cancel finds exactly the requests under way,   *)
(* that blocks come back, and that token limits hold.  Backends, for every *)
(* set of requests, machine, model and window: that a request is answered  *)
(* from the tokens it fed, and that a plan cuts the layers and fills the   *)
(* accelerator.                                                            *)
(***************************************************************************)
EXTENDS Generation, Backends, FiniteSetTheorems, SequenceTheorems,
        WellFoundedInduction, TLAPS

-----------------------------------------------------------------------------
(* The inductive invariant.  Why a request's blocks are gone, and how many *)
(* tokens it has, is known at the end only through what is known of every  *)
(* place on the way: a finish reason is set by the step to yield or on the *)
(* way out, so that a thread that goes on has none.                        *)

ReasonAt(r) ==
    /\ pc[r] \in {"new", "registered", "prefill", "check"} => finish[r] = None
    /\ pc[r] = "yield" => finish[r] \notin {"raised", "abandoned"}

BlocksAt(r) == r \in sequences => r \in Live \/ finish[r] \in {"raised", "abandoned"}

(* A thread that goes on to another token has room for it.                 *)
GoesOn(r) ==
    \/ pc[r] \in {"new", "registered", "prefill", "check"}
    \/ pc[r] = "yield" /\ finish[r] = None
TokensAt(r) ==
    /\ MaxTokens[r] > 0 =>
          /\ n_tokens[r] <= MaxTokens[r]
          /\ GoesOn(r) => n_tokens[r] < MaxTokens[r]
    /\ r \notin Streaming =>
          /\ n_tokens[r] <= SafetyCap
          /\ pc[r] \in {"new", "registered", "prefill", "check"} => n_tokens[r] < SafetyCap

IInv ==
    /\ TypeOK /\ CancelFindsLive
    /\ \A r \in Requests : ReasonAt(r) /\ BlocksAt(r) /\ TokensAt(r)

(* A step of one request leaves what is known of the others alone.         *)
Others(r) == \A q \in Requests \ {r} :
    /\ pc'[q] = pc[q] /\ finish'[q] = finish[q] /\ n_tokens'[q] = n_tokens[q]
    /\ q \in sequences' => q \in sequences

LEMMA OthersKeep ==
    ASSUME IInv, NEW r \in Requests, Others(r), NEW q \in Requests \ {r}
    PROVE  ReasonAt(q)' /\ BlocksAt(q)' /\ TokensAt(q)'
  BY DEF Others, IInv, ReasonAt, BlocksAt, TokensAt, GoesOn, Live

-----------------------------------------------------------------------------
(* The initial state satisfies the invariant.                              *)
LEMMA InitIInv == Init => IInv
<1>. SUFFICES ASSUME Init PROVE IInv
  OBVIOUS
<1>1. TypeOK /\ CancelFindsLive
  BY GenerationAssumption DEF Init, TypeOK, CancelFindsLive, Places
<1>2. ASSUME NEW r \in Requests
      PROVE  ReasonAt(r) /\ BlocksAt(r) /\ TokensAt(r)
  BY GenerationAssumption, NoneAssumption
     DEF Init, ReasonAt, BlocksAt, TokensAt, GoesOn
<1>. QED
  BY <1>1, <1>2 DEF IInv

(* The count of a sampled token.                                           *)
LEMMA NextCount ==
    ASSUME TypeOK, NEW r \in Requests
    PROVE  /\ n_tokens[r] \in Nat
           /\ (IF n_tokens[r] < TokenBound THEN n_tokens[r] + 1 ELSE TokenBound) \in 0..TokenBound
  BY GenerationAssumption DEF TypeOK

(* What a sampled token may be reported with.                              *)
LEMMA OutcomesType ==
    ASSUME NEW r, NEW n
    PROVE  Outcomes(r, n) \subseteq {None, "stop", "length", "tool_call"}
  BY DEF Outcomes

-----------------------------------------------------------------------------
(* Every step keeps the types.                                             *)
LEMMA StepType ==
    ASSUME TypeOK, NEW r \in Requests,
           Register(r) \/ Cancel(r) \/ Runs(r) \/ Raises(r) \/ Abandons(r)
    PROVE  TypeOK'
<1>. USE DEF Goto, At, Ends, Release, Places, Reasons
<1>1. CASE Register(r)
  BY <1>1 DEF Register, TypeOK
<1>2. CASE Cancel(r)
  BY <1>2 DEF Cancel, TypeOK
<1>3. CASE Refused(r)
  BY <1>3 DEF Refused, TypeOK
<1>4. CASE Accepted(r)
  BY <1>4 DEF Accepted, TypeOK
<1>5. CASE Prefill(r)
  BY <1>5 DEF Prefill, TypeOK
<1>6. CASE Aborts(r)
  BY <1>6 DEF Aborts, TypeOK
<1>7. CASE Samples(r)
  <2>1. PICK n \in 0..TokenBound : /\ n_tokens' = [n_tokens EXCEPT ![r] = n]
                                   /\ \E f \in Outcomes(r, n) : finish' = [finish EXCEPT ![r] = f]
    BY <1>7, NextCount DEF Samples
  <2>. QED
    BY <1>7, <2>1, OutcomesType DEF Samples, TypeOK
<1>8. CASE Completes(r)
  BY <1>8 DEF Completes, TypeOK
<1>9. CASE Decodes(r)
  BY <1>9 DEF Decodes, TypeOK
<1>10. CASE DecodesToCap(r)
  BY <1>10 DEF DecodesToCap, TypeOK
<1>11. CASE Closes(r)
  BY <1>11 DEF Closes, TypeOK
<1>12. CASE Raises(r)
  BY <1>12 DEF Raises, TypeOK
<1>13. CASE Abandons(r)
  BY <1>13 DEF Abandons, TypeOK
<1>. QED
  BY <1>1, <1>2, <1>3, <1>4, <1>5, <1>6, <1>7, <1>8, <1>9, <1>10, <1>11, <1>12, <1>13
     DEF Runs

(* The registry changes at a registration and at the two ways to the end,  *)
(* which are the two changes of what a cancel may find.                    *)
LEMMA StepRegistry ==
    ASSUME IInv, NEW r \in Requests,
           Register(r) \/ Cancel(r) \/ Runs(r) \/ Raises(r) \/ Abandons(r)
    PROVE  CancelFindsLive'
<1>. TypeOK /\ CancelFindsLive
  BY DEF IInv
<1>. USE DEF At, Goto, TypeOK, CancelFindsLive
<1>1. CASE Register(r)
  BY <1>1 DEF Register
<1>2. CASE Cancel(r)
  BY <1>2 DEF Cancel
<1>3. CASE Closes(r) \/ Abandons(r)
  BY <1>3 DEF Closes, Abandons
<1>4. CASE (Runs(r) /\ ~Closes(r)) \/ Raises(r)
  <2>1. registry' = registry
    BY <1>4 DEF Runs, Refused, Accepted, Prefill, Aborts, Samples, Completes, Decodes,
                DecodesToCap, Raises
  <2>2. /\ pc[r] \notin {"new", "ended"} /\ pc'[r] \notin {"new", "ended"}
        /\ \A q \in Requests \ {r} : pc'[q] = pc[q]
    BY <1>4 DEF Runs, Refused, Accepted, Prefill, Aborts, Samples, Completes, Decodes,
                DecodesToCap, Raises
  <2>. QED
    BY <2>1, <2>2
<1>. QED
  BY <1>1, <1>2, <1>3, <1>4

(* A step of r leaves the other requests alone.                            *)
LEMMA StepOthers ==
    ASSUME TypeOK, NEW r \in Requests,
           Register(r) \/ Cancel(r) \/ Runs(r) \/ Raises(r) \/ Abandons(r)
    PROVE  Others(r)
  BY DEF TypeOK, Others, Register, Cancel, Runs, Raises, Abandons, Refused, Accepted, Prefill,
         Aborts, Samples, Completes, Decodes, DecodesToCap, Closes, Goto, Ends, Release

(* A step of r keeps what is known of r.                                   *)
LEMMA StepOwn ==
    ASSUME IInv, NEW r \in Requests,
           Register(r) \/ Cancel(r) \/ Runs(r) \/ Raises(r) \/ Abandons(r)
    PROVE  ReasonAt(r)' /\ BlocksAt(r)' /\ TokensAt(r)'
<1>. TypeOK /\ ReasonAt(r) /\ BlocksAt(r) /\ TokensAt(r)
  BY DEF IInv
<1>. USE GenerationAssumption, NoneAssumption
     DEF At, Goto, Ends, Release, Live, GoesOn, Reasons, TypeOK, ReasonAt, BlocksAt, TokensAt
<1>1. CASE Register(r)
  BY <1>1 DEF Register
<1>2. CASE Cancel(r)
  BY <1>2 DEF Cancel
<1>3. CASE Refused(r)
  BY <1>3 DEF Refused
<1>4. CASE Accepted(r)
  BY <1>4 DEF Accepted
<1>5. CASE Prefill(r)
  BY <1>5 DEF Prefill
<1>6. CASE Aborts(r)
  BY <1>6 DEF Aborts
<1>7. CASE Samples(r)
  BY <1>7 DEF Samples, Outcomes
<1>8. CASE Completes(r)
  BY <1>8 DEF Completes
<1>9. CASE Decodes(r)
  BY <1>9 DEF Decodes, Capped
<1>10. CASE DecodesToCap(r)
  BY <1>10 DEF DecodesToCap, Capped
<1>11. CASE Closes(r)
  BY <1>11 DEF Closes
<1>12. CASE Raises(r)
  BY <1>12 DEF Raises
<1>13. CASE Abandons(r)
  BY <1>13 DEF Abandons
<1>. QED
  BY <1>1, <1>2, <1>3, <1>4, <1>5, <1>6, <1>7, <1>8, <1>9, <1>10, <1>11, <1>12, <1>13
     DEF Runs

(* Every step keeps the invariant.                                         *)
LEMMA NextIInv == IInv /\ [Next]_vars => IInv'
<1>. SUFFICES ASSUME IInv, [Next]_vars PROVE IInv'
  OBVIOUS
<1>1. CASE Next
  <2>1. PICK r \in Requests :
            Register(r) \/ Cancel(r) \/ Runs(r) \/ Raises(r) \/ Abandons(r)
    BY <1>1 DEF Next
  <2>2. TypeOK' /\ CancelFindsLive' /\ Others(r)
    BY <2>1, StepType, StepRegistry, StepOthers DEF IInv
  <2>3. \A q \in Requests : ReasonAt(q)' /\ BlocksAt(q)' /\ TokensAt(q)'
    BY <2>1, <2>2, OthersKeep, StepOwn
  <2>. QED
    BY <2>2, <2>3 DEF IInv
<1>2. CASE UNCHANGED vars
  BY <1>2 DEF vars, IInv, TypeOK, CancelFindsLive, ReasonAt, BlocksAt, TokensAt, GoesOn, Live
<1>. QED
  BY <1>1, <1>2

(* The invariant holds throughout.                                         *)
LEMMA AlwaysIInv == Spec => []IInv
  BY InitIInv, NextIInv, PTL DEF Spec

-----------------------------------------------------------------------------
(* Whatever requests, cancels and failures interleave, the abort registry  *)
(* (runtime.py:103-133) holds the requests under way and no other.         *)
THEOREM GenerationCancelFindsLive == Spec => []CancelFindsLive
<1>1. IInv => CancelFindsLive
  BY DEF IInv
<1>. QED
  BY <1>1, AlwaysIInv, PTL

(* A request that is over keeps blocks only if the backend raised or its   *)
(* client closed the stream (generation.py:68-76, 96-99, 104-108).         *)
THEOREM GenerationBlocksReturned == Spec => []BlocksReturned
<1>1. IInv => BlocksReturned
  BY DEF IInv, TypeOK, BlocksAt, BlocksReturned
<1>. QED
  BY <1>1, AlwaysIInv, PTL

(* Token limits and the safety cap hold for every value they may have      *)
(* (generation.py:81, 104; scheduler.py:49-50), and the types are right.   *)
THEOREM GenerationTokensBounded == Spec => []TokensBounded
<1>1. IInv => TokensBounded
  BY DEF IInv, TokensAt, TokensBounded
<1>. QED
  BY <1>1, AlwaysIInv, PTL

-----------------------------------------------------------------------------
(* A set of naturals that is not empty has a smallest element.             *)
LEMMA Smallest ==
    ASSUME NEW S \in SUBSET Nat, S # {}
    PROVE  \E m \in S : \A n \in S : m <= n
<1>. DEFINE R == OpToRel(<, Nat)
<1>1. \E x \in S : \A y \in S : ~ (<<y, x>> \in R)
  BY NatLessThanWellFounded, WFMin
<1>2. \A x, y \in Nat : <<y, x>> \in R <=> y < x
  BY DEF OpToRel
<1>. HIDE DEF R
<1>3. PICK m \in S : \A n \in S : ~ (<<n, m>> \in R)
  BY <1>1
<1>4. m \in Nat /\ \A n \in S : n \in Nat /\ ~ (n < m)
  BY <1>2, <1>3, Zenon
<1>5. \A n \in S : m <= n
  BY <1>4
<1>. QED
  BY <1>5

-----------------------------------------------------------------------------
(* The backends.  What is kept for a request is what it was answered from, *)
(* in the way of each kind of backend.                                     *)

Tokens == Requests \cup {"row"}
States == Seq(Tokens) \cup {None}
HasRow(s) == \E i \in DOMAIN s : s[i] = "row"

AnsweredBy(r) ==
    /\ kind = "cpu_numpy" => cache[r] = got[r] /\ (got[r] = fed[r] \/ HasRow(got[r]))
    /\ kind = "ort" => cache[r] = got[r] /\ got[r] = fed[r]
    /\ kind = "ort_kv" => cache[r] = got[r] /\ (got[r] = fed[r] \/ r \in history.again)
    /\ kind \in Gpu => fed[r] # <<>> /\ (got[r] = fed[r] \/ Len(got[r]) < Len(fed[r]))
    /\ kind # "special_module"
    /\ kind = "ggml" /\ r \notin history.shared =>
            got[r] = stream /\ stream = fed[r] /\ cache[r] # None

SessionTyped ==
    /\ boot \in {"start", "booted", "failed", "serving", "closed"}
    /\ kind \in Kinds /\ (boot \in {"booted", "serving"} => kind # None)
    /\ window \in Nat /\ stream \in Seq(Tokens) /\ Len(stream) <= window
    /\ cache \in [Requests -> States] /\ got \in [Requests -> States]
    /\ fed \in [Requests -> Seq(Requests)]
    /\ history = [calls |-> history.calls, again |-> history.again, shared |-> history.shared]

Nobody ==
    /\ stream = <<>>
    /\ \A r \in Requests : cache[r] = None /\ got[r] = None

ContextInv ==
    /\ SessionTyped
    /\ boot # "serving" => Nobody
    /\ \A r \in Requests : cache[r] # None => kind \notin Gpu \cup {"tpu", "special_module"}
    /\ \A r \in Requests : got[r] # None => AnsweredBy(r)

-----------------------------------------------------------------------------
\* What a call of r does to the others: nothing, where nothing is shared.
LEMMA AnswerKeeps ==
    ASSUME ContextInv, boot = "serving", UNCHANGED platform, kind # "ggml",
           NEW r \in Requests, NEW x \in States, NEW c \in States, NEW f \in Seq(Requests),
           UNCHANGED stream, got' = [got EXCEPT ![r] = x], cache' = [cache EXCEPT ![r] = c],
           fed' = [fed EXCEPT ![r] = f],
           history' = [calls |-> history'.calls, again |-> history'.again,
                       shared |-> history'.shared],
           \A q \in Requests \ {r} : q \in history.again => q \in history'.again,
           c # None => kind \notin Gpu \cup {"tpu", "special_module"},
           x # None => AnsweredBy(r)'
    PROVE  ContextInv'
<1>1. SessionTyped'
  BY DEF ContextInv, SessionTyped, platform
<1>2. /\ kind' = kind /\ boot' = boot /\ stream' = stream
      /\ cache'[r] = c /\ got'[r] = x
  BY DEF platform, ContextInv, SessionTyped
<1>3. \A q \in Requests : q # r =>
        cache'[q] = cache[q] /\ got'[q] = got[q] /\ fed'[q] = fed[q]
  BY DEF ContextInv, SessionTyped
<1>4. ASSUME NEW q \in Requests, got'[q] # None
      PROVE  AnsweredBy(q)'
  <2>1. CASE q = r
    BY <1>2, <1>4, <2>1
  <2>2. CASE q # r
    <3>1. AnsweredBy(q)
      BY <1>3, <1>4, <2>2 DEF ContextInv
    <3>. QED
      BY <1>2, <1>3, <2>2, <3>1 DEF AnsweredBy, HasRow
  <2>. QED
    BY <2>1, <2>2
<1>5. \A q \in Requests : cache'[q] # None => kind' \notin Gpu \cup {"tpu", "special_module"}
  BY <1>2, <1>3 DEF ContextInv
<1>. QED
  BY <1>1, <1>2, <1>4, <1>5 DEF ContextInv

\* Prompts and their rows.
LEMMA PromptsAre ==
    ASSUME NEW r \in Requests, NEW p \in Prompts(r)
    PROVE  p \in Seq(Requests) /\ p # <<>> /\ Len(p) \in Nat \ {0}
<1>1. PICK n \in 1..MaxPrompt : p = [i \in 1..n |-> r]
  BY DEF Prompts
<1>2. n \in Nat \ {0}
  BY <1>1, BackendsAssumption
<1>. QED
  BY <1>1, <1>2

LEMMA RowsAre ==
    ASSUME NEW p \in Seq(Requests), p # <<>>, Misread(p)
    PROVE  Rows(p) \in Seq(Tokens) /\ HasRow(Rows(p))
<1>. DEFINE n == Len(p) \div Hidden
<1>1. n \in Nat \ {0}
  <2>1. Len(p) \in Nat \ {0} /\ Hidden \in Nat \ {0} /\ Len(p) % Hidden = 0
    BY BackendsAssumption DEF Misread
  <2>. QED
    BY <2>1
<1>2. Rows(p) = [i \in 1..n |-> "row"]
  BY DEF Rows
<1>. HIDE DEF n
<1>3. DOMAIN Rows(p) = 1..n /\ Rows(p)[1] = "row" /\ Rows(p) \in Seq({"row"})
  BY <1>1, <1>2
<1>. QED
  BY <1>1, <1>3 DEF HasRow, Tokens

\* One more token.
LEMMA OneMore ==
    ASSUME NEW r \in Requests, NEW s \in Seq(Tokens)
    PROVE  /\ s \o Token(r) \in Seq(Tokens) /\ Len(s \o Token(r)) = Len(s) + 1
           /\ HasRow(s) => HasRow(s \o Token(r))
           /\ Len(Token(r)) = 1 /\ Token(r) \in Seq(Tokens)
<1>1. Token(r) \in Seq(Tokens) /\ Len(Token(r)) = 1
  BY DEF Token, Tokens
<1>2. /\ s \o Token(r) \in Seq(Tokens) /\ Len(s \o Token(r)) = Len(s) + 1
      /\ \A i \in 1..Len(s) : (s \o Token(r))[i] = s[i]
  BY <1>1, ConcatProperties
<1>3. DOMAIN s = 1..Len(s) /\ DOMAIN (s \o Token(r)) = 1..(Len(s) + 1) /\ Len(s) \in Nat
  BY <1>2
<1>4. HasRow(s) => HasRow(s \o Token(r))
  BY <1>2, <1>3 DEF HasRow
<1>. QED
  BY <1>1, <1>2, <1>4

\* What a request was fed, too.
LEMMA OneMoreFed ==
    ASSUME NEW r \in Requests, NEW s \in Seq(Requests)
    PROVE  /\ s \o Token(r) \in Seq(Requests) /\ Len(s \o Token(r)) = Len(s) + 1
           /\ s \o Token(r) # <<>> /\ Len(s) \in Nat
  BY DEF Token

-----------------------------------------------------------------------------
\* The backends that share nothing, one by one.
LEMMA PrefillAlone ==
    ASSUME ContextInv, NEW r \in Requests, NEW p \in Prompts(r), CallPrefill(r, p),
           kind # "ggml"
    PROVE  ContextInv'
<1>1. /\ boot = "serving" /\ UNCHANGED platform /\ kind' = kind
      /\ fed' = [fed EXCEPT ![r] = p] /\ p \in Seq(Requests) /\ p # <<>>
      /\ history' = [calls |-> history'.calls, again |-> history'.again,
                     shared |-> history'.shared]
      /\ history.again \subseteq history'.again
      /\ cache[r] # None => r \in history'.again
  BY PromptsAre DEF CallPrefill, platform
<1>2. p \in Seq(Tokens) /\ fed'[r] = p
  BY <1>1 DEF ContextInv, SessionTyped, Tokens
<1>3. ASSUME NEW x \in States, NEW c \in States, UNCHANGED stream,
             got' = [got EXCEPT ![r] = x], cache' = [cache EXCEPT ![r] = c],
             c # None => kind \notin Gpu \cup {"tpu", "special_module"},
             got'[r] = x /\ cache'[r] = c => (x # None => AnsweredBy(r)')
      PROVE  ContextInv'
  <2>1. got'[r] = x /\ cache'[r] = c
    BY <1>3 DEF ContextInv, SessionTyped
  <2>. QED
    BY <1>1, <1>3, <2>1, AnswerKeeps
<1>4. CASE kind = "cpu_numpy"
  <2>. DEFINE x == IF Misread(p) THEN Rows(p) ELSE p
  <2>1. x \in Seq(Tokens) /\ (x = p \/ HasRow(x))
    BY <1>1, <1>2, RowsAre
  <2>2. got' = [got EXCEPT ![r] = x] /\ cache' = [cache EXCEPT ![r] = x] /\ UNCHANGED stream
    BY <1>4 DEF CallPrefill, NumpyPrefill, Returns, Gpu
  <2>. HIDE DEF x
  <2>3. got'[r] = x /\ cache'[r] = x => AnsweredBy(r)'
    BY <1>1, <1>2, <1>4, <2>1 DEF AnsweredBy, Gpu
  <2>. QED
    BY <1>3, <1>4, <2>1, <2>2, <2>3 DEF States, Gpu
<1>5. CASE kind \in {"ort", "ort_kv"}
  <2>. DEFINE x == IF kind = "ort_kv" THEN PastKV(r) \o p ELSE p
  <2>1. PastKV(r) \in Seq(Tokens) /\ (cache[r] = None => PastKV(r) = <<>>)
    BY DEF PastKV, ContextInv, SessionTyped, States
  <2>5. PastKV(r) \o p \in Seq(Tokens) /\ <<>> \o p = p
    BY <1>2, <2>1, ConcatProperties, ConcatEmptySeq
  <2>6. kind = "ort_kv" /\ cache[r] = None => x = p
    BY <2>1, <2>5
  <2>7. x = p \/ (x = PastKV(r) \o p /\ kind = "ort_kv")
    OBVIOUS
  <2>2. x \in Seq(Tokens) /\ (x = p \/ (kind = "ort_kv" /\ cache[r] # None))
    <3>. HIDE DEF x
    <3>. QED
      BY <1>2, <2>5, <2>6, <2>7
  <2>3. got' = [got EXCEPT ![r] = x] /\ cache' = [cache EXCEPT ![r] = x] /\ UNCHANGED stream
    BY <1>5 DEF CallPrefill, OrtPrefill, Returns, Gpu
  <2>. HIDE DEF x
  <2>4. got'[r] = x /\ cache'[r] = x => AnsweredBy(r)'
    BY <1>1, <1>2, <1>5, <2>2 DEF AnsweredBy, Gpu
  <2>. QED
    BY <1>3, <1>5, <2>2, <2>3, <2>4 DEF States, Gpu
<1>6. CASE kind \in Gpu
  <2>1. got' = [got EXCEPT ![r] = p] /\ cache' = [cache EXCEPT ![r] = None] /\ UNCHANGED stream
    BY <1>6 DEF CallPrefill, GpuPrefill, Returns, Gpu
  <2>2. got'[r] = p => AnsweredBy(r)'
    BY <1>1, <1>2, <1>6 DEF AnsweredBy, Gpu
  <2>. QED
    BY <1>2, <1>3, <2>1, <2>2 DEF States
<1>7. CASE kind = "tpu"
  <2>1. got' = [got EXCEPT ![r] = <<>>] /\ cache' = [cache EXCEPT ![r] = None] /\ UNCHANGED stream
    BY <1>7 DEF CallPrefill, TpuAnswers, Returns, Gpu
  <2>2. <<>> \in States /\ None \in States /\ AnsweredBy(r)'
    BY <1>1, <1>7 DEF AnsweredBy, Gpu, States
  <2>. QED
    BY <1>3, <2>1, <2>2
<1>8. CASE kind = "special_module"
  <2>1. got' = [got EXCEPT ![r] = None] /\ cache' = [cache EXCEPT ![r] = cache[r]] /\ UNCHANGED stream
    BY <1>8 DEF CallPrefill, ModuleAnswers, Throws, Gpu, ContextInv, SessionTyped
  <2>2. None \in States /\ cache[r] \in States
        /\ (cache[r] # None => kind \notin Gpu \cup {"tpu", "special_module"})
    BY DEF States, ContextInv, SessionTyped
  <2>. QED
    BY <1>3, <2>1, <2>2
<1>. QED
  BY <1>1, <1>4, <1>5, <1>6, <1>7, <1>8 DEF ContextInv, SessionTyped, Kinds, Backend

LEMMA DecodeAlone ==
    ASSUME ContextInv, NEW r \in Requests, CallDecode(r), kind # "ggml"
    PROVE  ContextInv'
<1>. DEFINE f == fed[r] \o Token(r)
<1>1. /\ boot = "serving" /\ UNCHANGED platform /\ kind' = kind
      /\ fed' = [fed EXCEPT ![r] = f] /\ history' = [history EXCEPT !.shared = history'.shared]
      /\ got[r] # None /\ AnsweredBy(r) /\ fed[r] \in Seq(Requests) /\ got[r] \in Seq(Tokens)
  BY DEF CallDecode, platform, ContextInv, SessionTyped, States
<1>2. /\ f \in Seq(Requests) /\ fed'[r] = f /\ Len(f) = Len(fed[r]) + 1 /\ Len(fed[r]) \in Nat
      /\ f # <<>>
      /\ history' = [calls |-> history'.calls, again |-> history'.again,
                     shared |-> history'.shared]
      /\ history'.again = history.again
  BY <1>1, OneMoreFed DEF ContextInv, SessionTyped
<1>. HIDE DEF f
<1>3. ASSUME NEW x \in States, NEW c \in States, UNCHANGED stream,
             got' = [got EXCEPT ![r] = x], cache' = [cache EXCEPT ![r] = c],
             c # None => kind \notin Gpu \cup {"tpu", "special_module"},
             got'[r] = x /\ cache'[r] = c => (x # None => AnsweredBy(r)')
      PROVE  ContextInv'
  <2>1. got'[r] = x /\ cache'[r] = c
    BY <1>3 DEF ContextInv, SessionTyped
  <2>. QED
    BY <1>1, <1>2, <1>3, <2>1, AnswerKeeps
<1>4. CASE kind \in {"cpu_numpy", "ort", "ort_kv"}
  <2>. DEFINE x == got[r] \o Token(r)
  <2>1. cache[r] = got[r] /\ PastKV(r) = got[r]
    BY <1>1, <1>4 DEF AnsweredBy, PastKV
  <2>2. x \in Seq(Tokens) /\ (got[r] = fed[r] => x = f) /\ (HasRow(got[r]) => HasRow(x))
    BY <1>1, OneMore DEF f
  <2>3. got' = [got EXCEPT ![r] = x] /\ cache' = [cache EXCEPT ![r] = x] /\ UNCHANGED stream
    BY <1>4, <2>1 DEF CallDecode, NumpyDecode, OrtDecode, Returns, Gpu
  <2>. HIDE DEF x
  <2>4. got'[r] = x /\ cache'[r] = x => AnsweredBy(r)'
    BY <1>1, <1>2, <1>4, <2>2 DEF AnsweredBy, Gpu
  <2>. QED
    BY <1>3, <1>4, <2>2, <2>3, <2>4 DEF States, Gpu
<1>5. CASE kind \in Gpu
  <2>1. /\ got' = [got EXCEPT ![r] = Token(r)] /\ cache' = [cache EXCEPT ![r] = None]
        /\ UNCHANGED stream /\ Token(r) \in Seq(Tokens) /\ Len(Token(r)) = 1
    BY <1>1, <1>5, OneMore DEF CallDecode, GpuDecode, Returns, Gpu
  <2>2. Len(fed[r]) # 0
    BY <1>1, <1>5 DEF AnsweredBy
  <2>3. got'[r] = Token(r) => AnsweredBy(r)'
    BY <1>1, <1>2, <1>5, <2>1, <2>2 DEF AnsweredBy, Gpu
  <2>. QED
    BY <1>3, <2>1, <2>3 DEF States
<1>6. CASE kind = "tpu"
  <2>1. got' = [got EXCEPT ![r] = <<>>] /\ cache' = [cache EXCEPT ![r] = None] /\ UNCHANGED stream
    BY <1>6 DEF CallDecode, TpuAnswers, Returns, Gpu
  <2>2. <<>> \in States /\ None \in States /\ AnsweredBy(r)'
    BY <1>1, <1>6 DEF AnsweredBy, Gpu, States
  <2>. QED
    BY <1>3, <2>1, <2>2
<1>. QED
  BY <1>1, <1>4, <1>5, <1>6 DEF ContextInv, SessionTyped, Kinds, Backend, AnsweredBy

-----------------------------------------------------------------------------
\* The one stream of llama.cpp.
LEMMA GGMLPrefillKeeps ==
    ASSUME ContextInv, NEW r \in Requests, NEW p \in Prompts(r), CallPrefill(r, p),
           kind = "ggml"
    PROVE  ContextInv'
<1>1. /\ boot = "serving" /\ UNCHANGED platform /\ kind' = kind /\ boot' = boot
      /\ window' = window
      /\ fed' = [fed EXCEPT ![r] = p] /\ p \in Seq(Requests) /\ p # <<>>
      /\ Len(p) \in Nat \ {0} /\ GGMLPrefill(r, p)
      /\ history' = [calls |-> history'.calls, again |-> history'.again,
                     shared |-> history'.shared]
      /\ history'.shared = (history.shared \ {r}) \cup InTheWay(r)
  BY PromptsAre DEF CallPrefill, platform, Gpu
<1>2. p \in Seq(Tokens) /\ p # None /\ p \in States /\ None \in States
  BY <1>1, BackendsAssumption DEF Tokens, States
<1>3. SessionTyped
  BY DEF ContextInv
<1>4. CASE Overflow(Len(p))
  <2>1. got' = [got EXCEPT ![r] = None] /\ UNCHANGED <<cache, stream>>
    BY <1>1, <1>4 DEF GGMLPrefill, Throws
  <2>2. /\ got'[r] = None /\ history'.shared = history.shared \ {r}
        /\ \A q \in Requests : q # r => got'[q] = got[q] /\ fed'[q] = fed[q]
    BY <1>1, <1>3, <2>1 DEF SessionTyped, InTheWay
  <2>3. SessionTyped'
    BY <1>1, <1>2, <1>3, <2>1 DEF SessionTyped
  <2>4. \A q \in Requests : got'[q] # None => AnsweredBy(q)'
    BY <1>1, <2>1, <2>2 DEF ContextInv, AnsweredBy, Gpu
  <2>. QED
    BY <1>1, <2>1, <2>3, <2>4 DEF ContextInv
<1>5. CASE ~Overflow(Len(p))
  <2>1. /\ got' = [got EXCEPT ![r] = p] /\ stream' = p
        /\ cache' = [[q \in Requests |-> None] EXCEPT ![r] = p]
    BY <1>1, <1>5 DEF GGMLPrefill, Forgotten
  <2>2. /\ got'[r] = p /\ fed'[r] = p /\ cache'[r] = p
        /\ \A q \in Requests : q # r => got'[q] = got[q]
    BY <1>1, <1>3, <2>1 DEF SessionTyped
  <2>3. \A q \in Requests : q # r /\ got'[q] # None => q \in history'.shared
    BY <1>1, <1>2, <2>2 DEF InTheWay
  <2>4. Len(p) <= window
    BY <1>1, <1>3, <1>5 DEF Overflow, SessionTyped
  <2>5. SessionTyped'
    BY <1>1, <1>2, <1>3, <2>1, <2>4 DEF SessionTyped
  <2>6. \A q \in Requests : got'[q] # None => AnsweredBy(q)'
    BY <1>1, <1>2, <2>1, <2>2, <2>3 DEF AnsweredBy, Gpu
  <2>. QED
    BY <1>1, <2>5, <2>6 DEF ContextInv, Gpu
<1>. QED
  BY <1>4, <1>5

LEMMA GGMLDecodeKeeps ==
    ASSUME ContextInv, NEW r \in Requests, CallDecode(r), kind = "ggml"
    PROVE  ContextInv'
<1>. DEFINE f == fed[r] \o Token(r)
            x == stream \o Token(r)
<1>1. /\ boot = "serving" /\ UNCHANGED platform /\ kind' = kind /\ boot' = boot
      /\ window' = window /\ SessionTyped /\ got[r] # None /\ AnsweredBy(r)
      /\ fed' = [fed EXCEPT ![r] = f] /\ GGMLDecode(r)
      /\ history' = [history EXCEPT !.shared = @ \cup InTheWay(r)]
  BY DEF CallDecode, platform, Gpu, ContextInv
<1>2. /\ f \in Seq(Requests) /\ x \in Seq(Tokens) /\ Len(x) = Len(stream) + 1
      /\ (stream = fed[r] => x = f) /\ x # None
  BY <1>1, OneMore, OneMoreFed, BackendsAssumption DEF SessionTyped, Tokens
<1>3. /\ history'.shared = history.shared \cup InTheWay(r)
      /\ history' = [calls |-> history'.calls, again |-> history'.again,
                     shared |-> history'.shared]
  BY <1>1 DEF SessionTyped
<1>. HIDE DEF f, x
<1>4. CASE Overflow(1)
  <2>1. got' = [got EXCEPT ![r] = None] /\ UNCHANGED <<cache, stream>>
    BY <1>1, <1>4 DEF GGMLDecode, Throws
  <2>2. /\ got'[r] = None
        /\ \A q \in Requests : q # r => got'[q] = got[q] /\ fed'[q] = fed[q]
    BY <1>1, <2>1 DEF SessionTyped
  <2>3. SessionTyped'
    BY <1>1, <1>2, <1>3, <2>1 DEF SessionTyped, States
  <2>4. \A q \in Requests : got'[q] # None => AnsweredBy(q)'
    BY <1>1, <1>3, <2>1, <2>2 DEF ContextInv, AnsweredBy, Gpu
  <2>. QED
    BY <1>1, <2>1, <2>3, <2>4 DEF ContextInv
<1>5. CASE ~Overflow(1)
  <2>1. got' = [got EXCEPT ![r] = x] /\ stream' = x /\ cache' = cache
    BY <1>1, <1>5 DEF GGMLDecode, x
  <2>2. /\ got'[r] = x /\ fed'[r] = f
        /\ \A q \in Requests : q # r => got'[q] = got[q]
    BY <1>1, <2>1 DEF SessionTyped
  <2>3. \A q \in Requests : q # r /\ got'[q] # None => q \in history'.shared
    BY <1>1, <1>2, <1>3, <2>2 DEF InTheWay
  <2>4. Len(x) <= window
    BY <1>1, <1>2, <1>5 DEF Overflow, SessionTyped
  <2>5. SessionTyped'
    BY <1>1, <1>2, <1>3, <2>1, <2>4 DEF SessionTyped, States
  <2>6. AnsweredBy(r)'
    BY <1>1, <1>2, <1>3, <2>1, <2>2 DEF AnsweredBy, Gpu
  <2>7. \A q \in Requests : got'[q] # None => AnsweredBy(q)'
    BY <1>1, <2>3, <2>6 DEF AnsweredBy, Gpu
  <2>. QED
    BY <1>1, <2>1, <2>5, <2>7 DEF ContextInv, Gpu
<1>. QED
  BY <1>4, <1>5

-----------------------------------------------------------------------------
\* The hook that forgets a request.
LEMMA FreeKeeps ==
    ASSUME ContextInv, NEW r \in Requests, CallFree(r)
    PROVE  ContextInv'
<1>1. /\ boot = "serving" /\ UNCHANGED <<platform, fed>> /\ kind' = kind /\ boot' = boot
      /\ window' = window /\ SessionTyped /\ got[r] # None /\ fed' = fed
      /\ got' = [got EXCEPT ![r] = None] /\ cache' = [cache EXCEPT ![r] = None]
      /\ history' = [history EXCEPT !.again = @ \ {r}]
  BY DEF CallFree, GGMLFree, OrtFree, platform, ContextInv
<1>2. /\ got'[r] = None /\ cache'[r] = None
      /\ \A q \in Requests : q # r => got'[q] = got[q] /\ cache'[q] = cache[q]
      /\ history' = [calls |-> history'.calls, again |-> history'.again,
                     shared |-> history'.shared]
      /\ history'.again = history.again \ {r} /\ history'.shared = history.shared
  BY <1>1 DEF SessionTyped
<1>3. /\ stream' \in {stream, <<>>}
      /\ \A q \in Requests : kind = "ggml" /\ cache'[q] # None => stream' = stream
  BY <1>1 DEF CallFree, GGMLFree, OrtFree, Forgotten
<1>6. stream' \in Seq(Tokens) /\ Len(stream') <= window'
  <2>1. CASE stream' = stream
    BY <1>1, <2>1 DEF SessionTyped
  <2>2. CASE stream' = <<>>
    BY <1>1, <2>2 DEF SessionTyped
  <2>. QED
    BY <1>3, <2>1, <2>2
<1>4. SessionTyped'
  BY <1>1, <1>2, <1>6 DEF SessionTyped, States
<1>5. ASSUME NEW q \in Requests, got'[q] # None
      PROVE  AnsweredBy(q)'
  <2>1. q # r /\ got[q] # None /\ AnsweredBy(q)
    BY <1>2, <1>5 DEF ContextInv
  <2>2. kind = "ggml" /\ q \notin history.shared => stream' = stream
    BY <1>2, <1>3, <2>1 DEF AnsweredBy
  <2>. QED
    BY <1>1, <1>2, <2>1, <2>2 DEF AnsweredBy, HasRow
<1>. QED
  BY <1>1, <1>2, <1>4, <1>5 DEF ContextInv

\* Before and after the engine serves, nothing is kept.
LEMMA CloseKeeps ==
    ASSUME ContextInv, Close
    PROVE  ContextInv'
<1>1. SessionTyped'
  BY DEF ContextInv, SessionTyped, Close, Forgotten, States
<1>2. Nobody' /\ boot' # "serving"
  BY DEF Nobody, Close, Forgotten
<1>. QED
  BY <1>1, <1>2 DEF ContextInv, Nobody

LEMMA StillNobody ==
    ASSUME ContextInv, boot # "serving", UNCHANGED session, kind' \in Kinds,
           boot' \in {"booted", "failed", "serving"}, boot' # "failed" => kind' # None,
           window' \in Nat
    PROVE  ContextInv'
<1>1. /\ UNCHANGED <<cache, stream, fed, got, history>> /\ Nobody /\ Nobody'
  BY DEF session, ContextInv, Nobody
<1>2. SessionTyped'
  BY <1>1 DEF ContextInv, SessionTyped, Nobody
<1>. QED
  BY <1>1, <1>2 DEF ContextInv, Nobody

\* The backend that is chosen is one of those there are.
LEMMA ResolveType ==
    ASSUME NEW prefer \in Prefer, NEW m
    PROVE  Resolve(prefer, m) \in Kinds
<1>. DEFINE order == <<"cuda", "rocm", "directml", "ort">>
            fit == {i \in DOMAIN order : LoadBackend(order[i], m) /\ Detects(order[i], m)}
<1>1. prefer \in Kinds
  BY BackendsAssumption
<1>2. fit \subseteq 1..4
  OBVIOUS
<1>3. ASSUME fit # {}
      PROVE  order[CHOOSE i \in fit : \A j \in fit : i <= j] \in Kinds
  <2>1. \E i \in fit : \A j \in fit : i <= j
    <3>. HIDE DEF fit
    <3>. QED
      BY <1>2, <1>3, Smallest
  <2>. DEFINE first == CHOOSE i \in fit : \A j \in fit : i <= j
  <2>2. first \in fit
    <3>. HIDE DEF fit
    <3>. QED
      BY <2>1
  <2>. HIDE DEF first, fit
  <2>3. first \in {1, 2, 3, 4}
    BY <1>2, <2>2
  <2>4. order[first] \in Kinds
    BY <2>3 DEF Kinds, Backend, Gpu
  <2>. QED
    BY <2>4 DEF first
<1>. HIDE DEF order, fit
<1>. QED
  BY <1>1, <1>3 DEF Resolve, Kinds, Backend, order, fit

LEMMA WindowType ==
    ASSUME NEW asked \in Asked, NEW trained \in Trained
    PROVE  Window(asked, trained) \in Nat
<1>1. \A a, b \in Nat : Min({a, b}) \in Nat /\ Max({a, b}) \in Nat
  <2>. SUFFICES ASSUME NEW a \in Nat, NEW b \in Nat
                PROVE  Min({a, b}) \in Nat /\ Max({a, b}) \in Nat
    OBVIOUS
  <2>1. /\ \E x \in {a, b} : \A y \in {a, b} : x <= y
        /\ \E x \in {a, b} : \A y \in {a, b} : x >= y
    BY a <= b \/ b <= a
  <2>2. Min({a, b}) \in {a, b} /\ Max({a, b}) \in {a, b}
    BY <2>1 DEF Min, Max
  <2>. QED
    BY <2>2
<1>. QED
  BY <1>1, BackendsAssumption DEF Window

LEMMA ContextStep == ContextInv /\ [BackendsNext]_backendsVars => ContextInv'
<1>. SUFFICES ASSUME ContextInv, [BackendsNext]_backendsVars PROVE ContextInv'
  OBVIOUS
<1>1. CASE UNCHANGED backendsVars
  BY <1>1 DEF backendsVars, ContextInv, SessionTyped, Nobody, AnsweredBy
<1>2. ASSUME NEW prefer \in Prefer, NEW spec \in Specs, Bootstrap(prefer, spec)
      PROVE  ContextInv'
  <2>1. /\ boot = "start" /\ UNCHANGED session /\ kind' = Resolve(prefer, machine)
        /\ boot' \in {"booted", "failed"} /\ window' = window /\ kind' \in Kinds
        /\ boot' # "failed" => kind' # None
    BY <1>2, ResolveType DEF Bootstrap
  <2>. QED
    BY <2>1, StillNobody DEF ContextInv, SessionTyped
<1>3. CASE Serve
  <2>1. /\ boot = "booted" /\ boot' = "serving" /\ UNCHANGED session /\ window' = window
        /\ kind' \in {"ort", "ort_kv", kind}
    BY <1>3 DEF Serve
  <2>. QED
    BY <2>1, StillNobody, BackendsAssumption DEF ContextInv, SessionTyped, Kinds, Backend
<1>4. CASE Close
  BY <1>4, CloseKeeps
<1>5. ASSUME NEW asked \in Asked, NEW trained \in Trained, LoadDirect(asked, trained)
      PROVE  ContextInv'
  <2>1. /\ boot = "start" /\ boot' = "serving" /\ UNCHANGED session /\ window' \in Nat
        /\ kind' = "ggml"
    BY <1>5, WindowType DEF LoadDirect
  <2>. QED
    BY <2>1, StillNobody, BackendsAssumption DEF Kinds, Backend
<1>6. ASSUME NEW r \in Requests, NEW p \in Prompts(r), CallPrefill(r, p)
      PROVE  ContextInv'
  BY <1>6, PrefillAlone, GGMLPrefillKeeps
<1>7. ASSUME NEW r \in Requests, CallDecode(r)
      PROVE  ContextInv'
  BY <1>7, DecodeAlone, GGMLDecodeKeeps
<1>. QED
  BY <1>1, <1>2, <1>3, <1>4, <1>5, <1>6, <1>7, FreeKeeps DEF BackendsNext

(* Whatever other requests do, the logits a request gets are computed from *)
(* exactly the tokens it fed (generation.py:59, :96), except where its     *)
(* backend cannot know them.                                               *)
THEOREM BackendsOwnContext == BackendsSpec => []OwnContext
<1>1. BackendsInit => ContextInv
  <2>. SUFFICES ASSUME BackendsInit PROVE ContextInv
    OBVIOUS
  <2>1. Nobody /\ boot = "start"
    BY DEF BackendsInit, Nobody
  <2>2. SessionTyped
    BY DEF BackendsInit, SessionTyped, States, Kinds, Backend
  <2>. QED
    BY <2>1, <2>2 DEF ContextInv, Nobody
<1>2. ContextInv => OwnContext
  <2>. SUFFICES ASSUME ContextInv PROVE OwnContext
    OBVIOUS
  <2>1. Typed
    BY DEF ContextInv, SessionTyped, Typed
  <2>2. ASSUME NEW r \in Requests, got[r] # None, got[r] # fed[r]
        PROVE  Excused(r)
    <3>1. AnsweredBy(r) /\ kind \in Kinds
      BY <2>2 DEF ContextInv, SessionTyped
    <3>2. CASE boot = "serving"
      BY <2>2, <3>1, <3>2 DEF AnsweredBy, Excused, Kinds, Backend, HasRow, ContextInv, SessionTyped
    <3>3. CASE boot # "serving"
      BY <2>2, <3>3 DEF ContextInv, Nobody
    <3>. QED
      BY <3>2, <3>3
  <2>. QED
    BY <2>1, <2>2 DEF OwnContext
<1>. QED
  BY <1>1, <1>2, ContextStep, PTL DEF BackendsSpec

-----------------------------------------------------------------------------
(* Placement.  A plan is one range on an accelerator and one on the host.  *)

LEMMA MaxIs ==
    ASSUME NEW S \in SUBSET Int, NEW m \in S, \A y \in S : y <= m
    PROVE  Max(S) = m
<1>1. \A x \in S : (\A y \in S : x >= y) => x = m
  OBVIOUS
<1>2. (\A y \in S : m >= y)
  OBVIOUS
<1>. QED
  BY <1>1, <1>2 DEF Max

LEMMA MinIn ==
    ASSUME NEW S \in SUBSET Nat, S # {}
    PROVE  Min(S) \in S /\ \A y \in S : Min(S) <= y
  BY Smallest DEF Min

LEMMA PairOf ==
    ASSUME NEW a \in Nat, NEW b \in Nat
    PROVE  /\ Min({a, b}) \in {a, b} /\ Min({a, b}) <= a /\ Min({a, b}) <= b
           /\ Max({a, b}) \in {a, b} /\ Max({a, b}) >= a /\ Max({a, b}) >= b
<1>1. Min({a, b}) \in {a, b} /\ \A y \in {a, b} : Min({a, b}) <= y
  <2>1. {a, b} \in SUBSET Nat /\ {a, b} # {}
    OBVIOUS
  <2>. QED
    BY <2>1, MinIn
<1>2. CASE a <= b
  BY <1>1, <1>2, MaxIs, Max({a, b}) = b
<1>3. CASE b <= a
  BY <1>1, <1>3, MaxIs, Max({a, b}) = a
<1>. QED
  BY <1>2, <1>3

\* Products.
LEMMA Grows ==
    ASSUME NEW a \in Nat, NEW b \in Nat, NEW c \in Nat
    PROVE  /\ a * c \in Nat /\ a * c = c * a
           /\ a <= b => a * c <= b * c
           /\ c # 0 /\ a * c <= b * c => a <= b
           /\ c # 0 /\ a * c < b * c => a < b
  OBVIOUS

\* How many layers of B bytes fit in V.
LEMMA Fitting ==
    ASSUME NEW L \in Nat \ {0}, NEW B \in Nat \ {0}, NEW V \in Nat
    PROVE  /\ (V * L) \div (L * B) \in Nat
           /\ \A k \in Nat : k * B <= V <=> k <= (V * L) \div (L * B)
<1>. DEFINE d == L * B
            x == V * L
            q == x \div d
<1>1. d \in Nat \ {0} /\ x \in Nat
  OBVIOUS
<1>. HIDE DEF d, x
<1>2. q \in Nat /\ q * d <= x /\ x < (q + 1) * d
  BY <1>1
<1>. HIDE DEF q
<1>3. ASSUME NEW k \in Nat
      PROVE  k * B <= V <=> k <= q
  <2>1. k * d = (k * B) * L /\ k * B \in Nat /\ k * d \in Nat
    BY DEF d
  <2>2. CASE k <= q
    <3>1. k * d <= q * d
      BY <1>1, <1>2, <2>2, Grows
    <3>2. (k * B) * L <= V * L
      BY <1>1, <1>2, <2>1, <3>1 DEF x
    <3>. QED
      BY <2>1, <2>2, <3>2, Grows
  <2>3. CASE k * B <= V
    <3>1. (k * B) * L <= V * L
      BY <2>1, <2>3, Grows
    <3>2. k * d < (q + 1) * d
      BY <1>1, <1>2, <2>1, <3>1 DEF x
    <3>3. k < q + 1
      BY <1>1, <1>2, <3>2, Grows
    <3>. QED
      BY <1>2, <2>3, <3>3
  <2>. QED
    BY <1>2, <2>2, <2>3
<1>. QED
  BY <1>2, <1>3 DEF q, d, x

On(a, l) == a[2] <= l /\ l < a[3]
Share(made, L) == {l \in 0..(L - 1) : \E a \in made.assignments : a[1] # "cpu" /\ On(a, l)}
Cuts(made, L) == \A l \in 0..(L - 1) : Cardinality({a \in made.assignments : On(a, l)}) = 1
Rooted(made) == \A a \in made.assignments : a[1] = RootDevice(made) => a[2] = 0

\* A plan cuts the layers, and its root starts at the first.
LEMMA PlanCuts ==
    ASSUME NEW L \in Nat \ {0}, NEW n \in 0..L, NEW acc, acc # "cpu" \/ n = 0, NEW dev, NEW host,
           NEW made, made = Plan(acc, n, L, dev, host)
    PROVE  /\ made.device = dev /\ made.host = host
           /\ Cuts(made, L) /\ Share(made, L) = 0..(n - 1) /\ Rooted(made)
<1>. DEFINE x == <<acc, 0, n>>
            y == <<"cpu", n, L>>
            A == {a \in {x, y} : a[2] < a[3]}
<1>1. made.assignments = A /\ made.device = dev /\ made.host = host
  BY DEF Plan
<1>2. /\ x[1] = acc /\ x[2] = 0 /\ x[3] = n /\ y[1] = "cpu" /\ y[2] = n /\ y[3] = L
      /\ n \in Nat /\ n <= L
  OBVIOUS
<1>3. /\ x \in A <=> 0 < n
      /\ y \in A <=> n < L
      /\ A \subseteq {x, y}
  BY <1>2
<1>. HIDE DEF x, y, A
<1>4. ASSUME NEW l \in 0..(L - 1)
      PROVE  Cardinality({a \in A : On(a, l)}) = 1
  <2>1. CASE l < n
    <3>1. {a \in A : On(a, l)} = {x}
      BY <1>2, <1>3, <2>1 DEF On
    <3>. QED
      BY <3>1, FS_Singleton
  <2>2. CASE ~(l < n)
    <3>1. {a \in A : On(a, l)} = {y}
      BY <1>2, <1>3, <2>2 DEF On
    <3>. QED
      BY <3>1, FS_Singleton
  <2>. QED
    BY <2>1, <2>2
<1>5. {l \in 0..(L - 1) : \E a \in A : a[1] # "cpu" /\ On(a, l)} = 0..(n - 1)
  BY <1>2, <1>3 DEF On
<1>6. \A a \in A : a[1] = (CHOOSE b \in A : b[2] = 0)[1] => a[2] = 0
  <2>. DEFINE root == CHOOSE b \in A : b[2] = 0
  <2>1. \E b \in A : b[2] = 0
    BY <1>2, <1>3
  <2>2. root \in A /\ root[2] = 0
    BY <2>1
  <2>. HIDE DEF root
  <2>3. ASSUME NEW a \in A, a[1] = root[1]
        PROVE  a[2] = 0
    BY <1>2, <1>3, <2>2, <2>3
  <2>. QED
    BY <2>3 DEF root
<1>. QED
  BY <1>1, <1>4, <1>5, <1>6 DEF RootDevice, Cuts, Share, Rooted

-----------------------------------------------------------------------------
(* The devices of a profile.                                               *)

Devices == {d \in [kind : {"cpu", "gpu", "npu", "tpu"},
                   name : {"cpu", "nvidia", "amd", "intel", "tpu", "generic"},
                   mem : Nat, score : Nat] : d.kind # "cpu" => d.name # "cpu"}

LEMMA DeviceType ==
    ASSUME NEW sort \in {"gpu", "npu", "tpu"},
           NEW name \in {"nvidia", "amd", "intel", "tpu", "generic"}, NEW mem \in Nat,
           NEW score \in Nat
    PROVE  Device(sort, name, mem, score) \in Devices
  BY DEF Device, Devices

LEMMA ProfileType ==
    ASSUME NEW m \in Machines
    PROVE  ProfileSystem(m) \in Seq(Devices)
<1>1. m.nvidia \in Nat /\ m.amd \in Nat /\ m.other \in Nat /\ Unit \in Nat
  BY BackendsAssumption, PlacementAssumption
<1>2. Unit \div 4 \in Nat
  BY <1>1
<1>3. DetectCpu(m) \in Seq(Devices)
  <2>1. Device("cpu", "cpu", Unit, 1) \in Devices
    BY <1>1 DEF Device, Devices
  <2>. QED
    BY <2>1 DEF DetectCpu
<1>4. DetectNvidia(m) \in Seq(Devices)
  BY <1>1, DeviceType DEF DetectNvidia
<1>5. DetectAmd(m) \in Seq(Devices)
  BY <1>1, DeviceType DEF DetectAmd
<1>6. DetectIntel(m) \in Seq(Devices)
  BY <1>1, <1>2, DeviceType DEF DetectIntel
<1>7. DetectTpu(m) \in Seq(Devices)
  BY <1>1, DeviceType DEF DetectTpu
<1>8. DetectDxgi(m) \in Seq(Devices)
  BY <1>1, DeviceType DEF DetectDxgi
<1>. QED
  BY <1>3, <1>4, <1>5, <1>6, <1>7, <1>8, ConcatProperties DEF ProfileSystem

\* Among any places there is one of the highest score.
HasTop(devices, S) == \E i \in S : \A j \in S : devices[j].score <= devices[i].score

LEMMA OneMorePlace ==
    ASSUME NEW devices, NEW S, NEW n, \A i \in S \cup {n} : devices[i].score \in Nat,
           HasTop(devices, S)
    PROVE  HasTop(devices, S \cup {n})
<1>1. PICK i \in S : \A j \in S : devices[j].score <= devices[i].score
  BY DEF HasTop
<1>2. CASE devices[n].score <= devices[i].score
  BY <1>1, <1>2 DEF HasTop
<1>3. CASE devices[i].score <= devices[n].score
  <2>1. \A j \in S \cup {n} : devices[j].score <= devices[n].score
    BY <1>1, <1>3
  <2>. QED
    BY <2>1 DEF HasTop
<1>. QED
  BY <1>1, <1>2, <1>3

LEMMA Highest ==
    ASSUME NEW devices \in Seq(Devices), NEW S \in SUBSET DOMAIN devices, S # {}
    PROVE  HasTop(devices, S)
<1>. DEFINE Upto(n) == {i \in S : i <= n}
            bad == {n \in 0..Len(devices) : Upto(n) # {} /\ ~HasTop(devices, Upto(n))}
<1>1. Len(devices) \in Nat /\ DOMAIN devices = 1..Len(devices)
      /\ \A i \in S : i \in Nat /\ 1 <= i /\ i <= Len(devices) /\ devices[i].score \in Nat
  BY DEF Devices
<1>2. /\ bad \in SUBSET Nat /\ bad \subseteq 0..Len(devices)
      /\ \A n \in 0..Len(devices) : n \in bad <=> Upto(n) # {} /\ ~HasTop(devices, Upto(n))
  BY <1>1
<1>3. Upto(0) = {} /\ Upto(Len(devices)) = S
  BY <1>1
<1>4. \A n \in Nat \ {0} : Upto(n) = IF n \in S THEN Upto(n - 1) \cup {n} ELSE Upto(n - 1)
  BY <1>1
<1>5. \A n \in Nat : Upto(n) \subseteq S
  OBVIOUS
<1>. HIDE DEF bad, Upto
<1>6. bad = {}
  <2>. SUFFICES ASSUME bad # {} PROVE FALSE
    OBVIOUS
  <2>1. PICK n \in bad : \A k \in bad : n <= k
    BY <1>2, Smallest
  <2>2. n \in Nat \ {0} /\ n <= Len(devices) /\ Upto(n) # {} /\ ~HasTop(devices, Upto(n))
    BY <1>1, <1>2, <1>3, <2>1
  <2>3. Upto(n - 1) = {} \/ HasTop(devices, Upto(n - 1))
    <3>1. n - 1 \in 0..Len(devices) /\ n - 1 \notin bad
      BY <1>1, <2>1, <2>2
    <3>. QED
      BY <1>2, <3>1
  <2>4. n \in S /\ Upto(n) = Upto(n - 1) \cup {n}
    BY <1>4, <2>2, <2>3
  <2>5. CASE Upto(n - 1) = {}
    <3>1. Upto(n) = {n} /\ devices[n].score \in Nat
      BY <1>1, <2>4, <2>5
    <3>. QED
      BY <2>2, <3>1 DEF HasTop
  <2>6. CASE HasTop(devices, Upto(n - 1))
    <3>1. n - 1 \in Nat /\ \A i \in Upto(n - 1) \cup {n} : devices[i].score \in Nat
      BY <1>1, <1>5, <2>2, <2>4
    <3>2. HasTop(devices, Upto(n - 1) \cup {n})
      BY <2>6, <3>1, OneMorePlace
    <3>. QED
      BY <2>2, <2>4, <3>2
  <2>. QED
    BY <2>3, <2>5, <2>6
<1>. QED
  BY <1>1, <1>2, <1>3, <1>6

LEMMA BestType ==
    ASSUME NEW devices \in Seq(Devices), OfKind(devices, "gpu") \cup OfKind(devices, "tpu") # {}
    PROVE  Best(devices).mem \in Nat /\ Best(devices).name # "cpu"
<1>. DEFINE gpus == OfKind(devices, "gpu")
            tpus == OfKind(devices, "tpu")
            top == {i \in gpus : \A j \in gpus : devices[j].score <= devices[i].score}
            S == IF gpus # {} THEN top ELSE tpus
<1>1. /\ \A i \in gpus \cup tpus : i \in Nat /\ devices[i].mem \in Nat /\ devices[i].name # "cpu"
      /\ gpus \subseteq DOMAIN devices
  BY DEF OfKind, Devices
<1>2. gpus # {} => top # {}
  BY <1>1, Highest DEF HasTop
<1>3. S # {} /\ S \in SUBSET Nat /\ S \subseteq gpus \cup tpus
  BY <1>1, <1>2
<1>4. Best(devices) = devices[Min(S)]
  BY DEF Best
<1>. HIDE DEF gpus, tpus, top, S
<1>. QED
  BY <1>1, <1>3, <1>4, MinIn

-----------------------------------------------------------------------------
(* The plan of a bootstrap.                                                *)

LEMMA SpecSizes ==
    ASSUME NEW spec \in Specs
    PROVE  /\ spec.layers \in Nat \ {0} /\ LayerBytes(spec) \in Nat \ {0}
           /\ ModelBytes(spec) = spec.layers * LayerBytes(spec)
<1>1. spec.layers \in Nat \ {0} /\ spec.bytes \in Nat \ {0}
  BY BackendsAssumption
<1>2. QuantPercent(spec.quant) \in {100, 75, 50, 40, 30}
  BY DEF QuantPercent
<1>. QED
  BY <1>1, <1>2 DEF LayerBytes, ModelBytes

\* As many layers as fit, and no more.
LEMMA ShareFits ==
    ASSUME NEW spec \in Specs, NEW d, d.mem \in Nat
    PROVE  /\ Vram(d) >= ModelBytes(spec) => Max(FittingShares(spec, d)) = spec.layers
           /\ LayersThatFit(spec, d) \in 0..spec.layers
           /\ Max(FittingShares(spec, d)) = LayersThatFit(spec, d)
<1>. DEFINE L == spec.layers
            B == LayerBytes(spec)
            V == Vram(d)
            q == (V * L) \div (L * B)
            S == FittingShares(spec, d)
            n == LayersThatFit(spec, d)
<1>1. L \in Nat \ {0} /\ B \in Nat \ {0} /\ V \in Nat /\ ModelBytes(spec) = L * B
  BY SpecSizes DEF Vram
<1>2. S = {k \in 0..L : k * B <= V} /\ n = Min({L, q})
  BY <1>1 DEF FittingShares, LayersThatFit
<1>. HIDE DEF L, B, V, S, n
<1>3. q \in Nat /\ \A k \in Nat : k * B <= V <=> k <= q
  BY <1>1, Fitting
<1>. HIDE DEF q
<1>4. n \in {L, q} /\ n <= L /\ n <= q /\ n \in Nat
  BY <1>1, <1>2, <1>3, PairOf
<1>5. S \in SUBSET Int /\ n \in S /\ \A k \in S : k <= n
  <2>1. \A k \in 0..L : k \in S <=> k <= q
    BY <1>1, <1>2, <1>3
  <2>2. S \subseteq 0..L
    BY <1>2
  <2>. QED
    BY <1>1, <1>3, <1>4, <2>1, <2>2
<1>6. Max(S) = n
  BY <1>5, MaxIs
<1>7. V >= L * B => n = L
  BY <1>1, <1>3, <1>4
<1>. QED
  BY <1>1, <1>4, <1>6, <1>7 DEF L, V, S, n

\* The blocks hold the tokens.
LEMMA BlocksHold ==
    LET need == KVBlocks(KVTokens, 16)
    IN  /\ need \in Nat /\ need * 16 >= KVTokens
        /\ Max({need, 256}) \in Nat /\ Max({need, 256}) >= need
        /\ Max({need - need \div 2, 64}) \in Nat
        /\ need \div 2 \in Nat /\ need \div 2 + Max({need - need \div 2, 64}) >= need
<1>. DEFINE need == KVBlocks(KVTokens, 16)
<1>1. need \in Nat /\ need * 16 >= KVTokens
  BY BackendsAssumption DEF KVBlocks
<1>. HIDE DEF need
<1>2. need \div 2 \in Nat /\ need - need \div 2 \in Nat
  BY <1>1
<1>. DEFINE half == need \div 2
            a == Max({need, 256})
            b == Max({need - half, 64})
<1>3. a \in Nat /\ a >= need
  BY <1>1, PairOf
<1>4. b \in Nat /\ b >= need - half
  BY <1>2, PairOf
<1>5. half \in Nat
  BY <1>2
<1>6. half + b >= need
  <2>. HIDE DEF half, b
  <2>. QED
    BY <1>1, <1>4, <1>5
<1>. QED
  BY <1>1, <1>3, <1>4, <1>5, <1>6 DEF need

\* What PlanFits says of a plan made for a machine.
Fits(spec, devices, made) ==
    /\ Cuts(made, spec.layers)
    /\ OfKind(devices, "gpu") \cup OfKind(devices, "tpu") # {} =>
            Cardinality(Share(made, spec.layers)) = Max(FittingShares(spec, Best(devices)))
    /\ (made.device + made.host) * 16 >= KVTokens
    /\ Rooted(made)

LEMMA PlanPlacementFits ==
    ASSUME NEW spec \in Specs, NEW devices \in Seq(Devices)
    PROVE  Fits(spec, devices, PlanPlacement(spec, devices, KVTokens, 16))
<1>. DEFINE L == spec.layers
            best == Best(devices)
            need == KVBlocks(KVTokens, 16)
            made == PlanPlacement(spec, devices, KVTokens, 16)
            none == OfKind(devices, "gpu") \cup OfKind(devices, "tpu") = {}
            n == LayersThatFit(spec, best)
            all == Vram(best) >= ModelBytes(spec)
<1>1. L \in Nat \ {0}
  BY SpecSizes
<1>2. /\ none => made = Plan("cpu", 0, L, 0, Max({need, 256}))
      /\ ~none /\ all => made = Plan(best.name, L, L, need, 0)
      /\ ~none /\ ~all /\ n > 0 =>
            made = Plan(best.name, n, L, need \div 2, Max({need - need \div 2, 64}))
      /\ ~none /\ ~all /\ ~(n > 0) => made = Plan("cpu", 0, L, 0, need)
  BY DEF PlanPlacement
<1>3. ~none => /\ best.name # "cpu" /\ n \in 0..L
               /\ Max(FittingShares(spec, best)) = n /\ (all => n = L)
  BY BestType, ShareFits
<1>4. /\ need \in Nat /\ need * 16 >= KVTokens
      /\ Max({need, 256}) \in Nat /\ Max({need, 256}) >= need
      /\ Max({need - need \div 2, 64}) \in Nat
      /\ need \div 2 \in Nat /\ need \div 2 + Max({need - need \div 2, 64}) >= need
  BY BlocksHold
<1>. SUFFICES Fits(spec, devices, made)
  OBVIOUS
<1>. HIDE DEF L, best, need, made, none, n, all
<1>5. ASSUME NEW k \in 0..L, NEW acc, acc # "cpu" \/ k = 0, NEW dev \in Nat, NEW host \in Nat,
             made = Plan(acc, k, L, dev, host), dev + host >= need, ~none => k = n
      PROVE  Fits(spec, devices, made)
  <2>1. Cardinality(0..(k - 1)) = k
    BY <1>1, <1>5, FS_Interval
  <2>2. /\ made.device = dev /\ made.host = host
        /\ Cuts(made, L) /\ Share(made, L) = 0..(k - 1) /\ Rooted(made)
    BY <1>1, <1>5, PlanCuts
  <2>3. (made.device + made.host) * 16 >= KVTokens
    BY <1>4, <1>5, <2>2, BackendsAssumption
  <2>4. ~none => Cardinality(0..(k - 1)) = Max(FittingShares(spec, best))
    BY <1>3, <1>5, <2>1
  <2>5. ~none => Cardinality(Share(made, L)) = Max(FittingShares(spec, best))
    BY <2>2, <2>4
  <2>6. /\ Cuts(made, spec.layers)
    BY <2>2 DEF L
  <2>7. OfKind(devices, "gpu") \cup OfKind(devices, "tpu") # {} =>
            Cardinality(Share(made, spec.layers)) = Max(FittingShares(spec, Best(devices)))
    BY <2>5 DEF L, best, none
  <2>. QED
    BY <2>2, <2>3, <2>6, <2>7 DEF Fits
<1>6. CASE none
  <2>. DEFINE host == Max({need, 256})
  <2>1. made = Plan("cpu", 0, L, 0, host)
    BY <1>2, <1>6
  <2>2. host \in Nat /\ 0 \in Nat /\ 0 + host >= need /\ 0 \in 0..L
    BY <1>1, <1>4
  <2>. HIDE DEF host
  <2>. QED
    BY <1>5, <1>6, <2>1, <2>2
<1>7. CASE ~none /\ all
  BY <1>1, <1>2, <1>3, <1>4, <1>5, <1>7
<1>8. CASE ~none /\ ~all /\ n > 0
  BY <1>1, <1>2, <1>3, <1>4, <1>5, <1>8
<1>9. CASE ~none /\ ~all /\ ~(n > 0)
  BY <1>1, <1>2, <1>3, <1>4, <1>5, <1>9
<1>. QED
  BY <1>6, <1>7, <1>8, <1>9

PlanInv ==
    /\ boot = "start" => machine \in Machines /\ plan = None
    /\ plan # None => /\ machine \in Machines
                      /\ \E spec \in Specs : plan = [spec |-> spec,
                            placed |-> PlanPlacement(spec, ProfileSystem(machine), KVTokens, 16)]

(* Whatever machine is profiled, the plan of plan_placement cuts the       *)
(* layers without gap or overlap, gives the accelerator as many as 85% of  *)
(* its memory holds and no more, and has blocks for the tokens asked for.  *)
THEOREM BackendsPlanFits == BackendsSpec => []PlanFits
<1>1. BackendsInit => PlanInv
  BY DEF BackendsInit, PlanInv
<1>2. PlanInv /\ [BackendsNext]_backendsVars => PlanInv'
  <2>. SUFFICES ASSUME PlanInv, [BackendsNext]_backendsVars PROVE PlanInv'
    OBVIOUS
  <2>1. ASSUME NEW prefer \in Prefer, NEW spec \in Specs, Bootstrap(prefer, spec)
        PROVE  PlanInv'
    <3>1. /\ machine' = machine /\ machine \in Machines /\ boot' # "start"
          /\ plan' = [spec |-> spec,
                      placed |-> PlanPlacement(spec, ProfileSystem(machine), KVTokens, 16)]
      BY <2>1 DEF Bootstrap, PlanInv
    <3>. QED
      BY <3>1 DEF PlanInv
  <2>2. CASE Serve
    BY <2>2 DEF Serve, PlanInv
  <2>3. ASSUME NEW asked \in Asked, NEW trained \in Trained, LoadDirect(asked, trained)
        PROVE  PlanInv'
    BY <2>3 DEF LoadDirect, PlanInv
  <2>4. ASSUME UNCHANGED <<machine, plan>>, boot' = boot \/ boot' # "start"
        PROVE  PlanInv'
    BY <2>4 DEF PlanInv
  <2>5. CASE Close
    BY <2>4, <2>5 DEF Close
  <2>6. ASSUME NEW r \in Requests,
               CallDecode(r) \/ CallFree(r) \/ \E p \in Prompts(r) : CallPrefill(r, p)
        PROVE  PlanInv'
    <3>1. UNCHANGED platform
      BY <2>6 DEF CallDecode, CallFree, CallPrefill
    <3>. QED
      BY <2>4, <3>1 DEF platform
  <2>7. CASE UNCHANGED backendsVars
    BY <2>4, <2>7 DEF backendsVars
  <2>. QED
    BY <2>1, <2>2, <2>3, <2>5, <2>6, <2>7 DEF BackendsNext
<1>3. PlanInv => PlanFits
  <2>. SUFFICES ASSUME PlanInv, plan # None PROVE PlanFits
    BY DEF PlanFits
  <2>1. PICK spec \in Specs : plan = [spec |-> spec,
              placed |-> PlanPlacement(spec, ProfileSystem(machine), KVTokens, 16)]
    BY DEF PlanInv
  <2>2. Fits(plan.spec, ProfileSystem(machine), plan.placed)
    BY <2>1, ProfileType, PlanPlacementFits DEF PlanInv
  <2>. QED
    BY <2>2 DEF Fits, Cuts, Share, Rooted, On, PlanFits
<1>. QED
  BY <1>1, <1>2, <1>3, PTL DEF BackendsSpec

=============================================================================
