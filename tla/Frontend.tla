------------------------------- MODULE Frontend -------------------------------
(***************************************************************************)
(* The HTTP front end: a thread for each connection runs _Handler          *)
(* (cli/http_server.py) through the key, the rate limiter and the input    *)
(* policy (services/security.py) to the engine, and counts what it does in *)
(* METRICS (services/metrics.py), which other threads render.              *)
(*                                                                         *)
(* A thread is split where it takes a lock or reads what others write.     *)
(* The counters of tokens and the gauges are left out: no other state      *)
(* depends on them.                                                        *)
(***************************************************************************)
EXTENDS Integers, FiniteSets, SequencesExt, FiniteSetsExt

CONSTANTS
    Requests,   \* connections that POST a completion
    Setups,     \* what run() may be given: limit (0 for none), locked, ready, tokenizer
    Load,       \* bound: [limit of the limiter -> connections]
    Client,     \* [Requests -> address of the client]
    Window,     \* window_seconds
    MaxTime,    \* bound: the clock
    Cap,        \* max_tokens_cap
    Bodies,     \* bodies that clients send
    Bounds,     \* HISTOGRAM_BUCKETS, without +Inf
    Latencies,  \* durations of a span
    MaxPages,   \* bound: [limit of the limiter -> pages of metrics rendered]
    Odd,        \* a value whose conversion raises what nothing catches
    None

\* What InputPolicy and the conversions beside it may say of a body's fields.
Judged == [json : {"ok", "bad"}, messages : {"ok", "bad", Odd}, tools : {"ok", "bad"},
           prompt : {"ok", "bad"}, max_tokens : Int \cup {None, Odd},
           sampling : {"ok", "bad", Odd}, stop : {"ok", "bad"}]

ASSUME FrontendAssumption ==
    /\ IsFiniteSet(Requests) /\ Bodies \subseteq Judged
    /\ Setups \subseteq [limit : Nat, locked : BOOLEAN, ready : BOOLEAN, tokenizer : BOOLEAN]
    /\ None \notin [start : 0..MaxTime, count : Nat]
    /\ Window \in Nat \ {0} /\ MaxTime \in Nat /\ Cap \in Nat \ {0}
    /\ Bounds \in Seq(Nat) /\ Latencies \subseteq Nat

VARIABLES
    setup,      \* what run() was given, and whether the engine is bootstrapped
    clock,      \* time.time()
    pc,         \* [Requests -> where the thread stands, or what it answered]
    now,        \* [Requests -> the time it read for the limiter]
    buckets,    \* [clients -> RateLimiter._buckets], None for no entry
    asked,      \* [Requests -> max_tokens handed to the engine, or None]
    registry,   \* keys of Engine._abort_registry
    total, failed, spans,   \* METRICS: two counters, the durations recorded
    bucket_counts, latency_sum,
    page,       \* prometheus_text in progress: where it stands, what it read
    granted,    \* history: when allow let a request pass, by client
    late,       \* history: the longest time from a clock read to its use
    tidied,     \* history: cleanup has dropped an entry
    leaked      \* history: requests whose prompt the tokenizer did not take

counters == <<total, failed, spans, bucket_counts, latency_sum>>
limiter == <<buckets, granted, late, tidied>>
vars == <<setup, clock, pc, now, limiter, asked, registry, counters, page, leaked>>

Clients == {Client[r] : r \in Requests}
Slots == 1..(Len(Bounds) + 1)
Blank == [at |-> "idle", done |-> 0, total |-> 0, failed |-> 0, seconds |-> 0,
          counts |-> [i \in Slots |-> 0], sum |-> 0]

Init ==
    /\ setup \in Setups
    /\ clock = 0
    /\ pc = [r \in Requests |-> "new"] /\ now = [r \in Requests |-> 0]
    /\ buckets = [c \in Clients |-> None]
    /\ asked = [r \in Requests |-> None]
    /\ registry = {}
    /\ total = 0 /\ failed = 0 /\ spans = <<>>
    /\ bucket_counts = [i \in Slots |-> 0] /\ latency_sum = 0
    /\ page = Blank
    /\ granted = [c \in Clients |-> <<>>] /\ late = 0 /\ tidied = FALSE /\ leaked = {}

At(r, place) == pc[r] = place
Goto(r, place) == pc' = [pc EXCEPT ![r] = place]

-----------------------------------------------------------------------------
(* ApiKeyAuth.check; compare_digest raises on a key that is not ASCII.     *)
Headers == {"none", "basic", "wrong", "right", "odd"}
Check(header) ==
    IF ~setup.locked \/ header = "right" THEN "passed"
    ELSE IF header = "odd" THEN "dropped" ELSE "denied"

(* do_POST up to the limiter, which reads the clock before it takes its    *)
(* lock.                                                                   *)
Arrive(r, header) ==
    /\ At(r, "new") /\ Cardinality({q \in Requests : pc[q] # "new"}) < Load[setup.limit]
    /\ Goto(r, IF Check(header) = "denied" THEN "401"
               ELSE IF Check(header) = "dropped" THEN "dropped"
               ELSE IF setup.limit = 0 THEN "body" ELSE "limiter")
    /\ now' = [now EXCEPT ![r] = clock]
    /\ UNCHANGED <<setup, clock, limiter, asked, registry, counters, page, leaked>>

\* Fault: the window of an entry that is over is not started anew.
FreshKept(c, t) ==
    IF buckets[c] = None THEN [start |-> t, count |-> 0]
    ELSE IF t - buckets[c].start >= Window THEN [start |-> buckets[c].start, count |-> 0]
    ELSE buckets[c]

Fresh(c, t) ==
    IF buckets[c] = None \/ t - buckets[c].start >= Window
    THEN [start |-> t, count |-> 0] ELSE buckets[c]

(* RateLimiter.allow, under its lock.                                      *)
Allow(r) ==
    LET c == Client[r]
        b == Fresh(c, now[r])
    IN  /\ At(r, "limiter")
        /\ late' = Max({late, clock - now[r]})
        /\ IF b.count + 1 <= setup.limit
           THEN /\ Goto(r, "body")
                /\ buckets' = [buckets EXCEPT ![c] = [b EXCEPT !.count = @ + 1]]
                /\ granted' = [granted EXCEPT ![c] = Append(@, clock)]
           ELSE Goto(r, "429") /\ UNCHANGED <<buckets, granted>>
        /\ UNCHANGED <<setup, clock, now, asked, registry, counters, page, tidied, leaked>>

(* RateLimiter.cleanup, of entries older than two windows.                 *)
Cleanup ==
    LET stale == {c \in Clients : buckets[c] # None /\ clock - buckets[c].start > 2 * Window} IN
    /\ stale # {}
    /\ buckets' = [c \in Clients |-> IF c \in stale THEN None ELSE buckets[c]]
    /\ tidied' = TRUE
    /\ UNCHANGED <<setup, clock, pc, now, asked, registry, counters, page, granted, late, leaked>>

-----------------------------------------------------------------------------
(* max_tokens is a number, None when it is absent, or Odd.                 *)
DefaultTokens == 128
\* 0 and null count as absent.
Given(body) == IF body.max_tokens \in {None, 0} THEN DefaultTokens ELSE body.max_tokens

(* The checks of do_POST, in their order: the first that fails decides.    *)
Verdict(body) ==
    IF body.json = "bad" \/ body.messages = "bad" \/ body.tools = "bad" THEN "400"
    ELSE IF body.messages = Odd THEN "dropped"
    ELSE IF body.prompt = "bad" THEN "400"
    ELSE IF body.max_tokens = Odd THEN "dropped"
    ELSE IF Given(body) \notin 1..Cap \/ body.sampling = "bad" THEN "400"
    ELSE IF body.sampling = Odd THEN "dropped"
    ELSE IF body.stop = "bad" THEN "400" ELSE "accepted"

(* From 503 to Engine.register.                                            *)
Parse(r) ==
    /\ At(r, "body")
    /\ \/ /\ ~setup.ready /\ Goto(r, "503") /\ UNCHANGED <<asked, registry>>
       \/ /\ setup.ready
          /\ \E body \in Bodies :
                IF Verdict(body) = "accepted"
                THEN /\ Goto(r, "count")
                     /\ asked' = [asked EXCEPT ![r] = Given(body)]
                     /\ registry' = registry \cup {r}
                ELSE Goto(r, Verdict(body)) /\ UNCHANGED <<asked, registry>>
    /\ UNCHANGED <<setup, clock, now, limiter, counters, page, leaked>>

(* do_DELETE: the answer is 200 for a request the registry knows; the flag *)
(* it sets is Generation's.                                                *)
Cancels(r) == r \in registry

-----------------------------------------------------------------------------
\* MetricsCollector.record_request
RecordRequest(fails) ==
    /\ total' = total + 1
    /\ failed' = IF fails THEN failed + 1 ELSE failed
    /\ UNCHANGED <<spans, bucket_counts, latency_sum>>

\* The first bucket that holds the value, and all after it.
Holding(seconds) ==
    LET in == {i \in DOMAIN Bounds : seconds <= Bounds[i]}
    IN  {i \in Slots : in = {} => i = Len(Bounds) + 1} \ {i \in Slots : in # {} /\ i < Min(in)}

\* MetricsCollector.record_latency, of the one subsystem that is measured.
RecordLatency(seconds) ==
    /\ spans' = Append(spans, seconds)
    /\ bucket_counts' = [i \in Slots |-> IF i \in Holding(seconds)
                                         THEN bucket_counts[i] + 1 ELSE bucket_counts[i]]
    /\ latency_sum' = latency_sum + seconds
    /\ UNCHANGED <<total, failed>>

CountRequest(r) ==
    /\ At(r, "count") /\ Goto(r, "encode")
    /\ RecordRequest(FALSE)
    /\ UNCHANGED <<setup, clock, now, limiter, asked, registry, page, leaked>>

\* len(tok.encode(prompt)), outside the try.
Encode(r) ==
    /\ At(r, "encode")
    /\ \/ Goto(r, "generate") /\ UNCHANGED leaked
       \/ setup.tokenizer /\ Goto(r, "dropped") /\ leaked' = leaked \cup {r}
    /\ UNCHANGED <<setup, clock, now, limiter, asked, registry, counters, page>>

\* Fault: a call that raises leaves its entry.
GenerateLeaves(r) ==
    /\ At(r, "generate")
    /\ \/ Goto(r, "answered") /\ registry' = registry \ {r}
       \/ Goto(r, "failing") /\ UNCHANGED registry
    /\ UNCHANGED <<setup, clock, now, limiter, asked, counters, page, leaked>>

(* Engine.generate, which empties the registry however it ends.            *)
Generate(r) ==
    /\ At(r, "generate")
    /\ \/ Goto(r, "answered") \/ Goto(r, "failing")
    /\ registry' = registry \ {r}
    /\ UNCHANGED <<setup, clock, now, limiter, asked, counters, page, leaked>>

CountFailure(r) ==
    /\ At(r, "failing") /\ Goto(r, "failed")
    /\ RecordRequest(TRUE)
    /\ UNCHANGED <<setup, clock, now, limiter, asked, registry, page, leaked>>

\* Fault: the answer 500 leaves without its span.
EndSpanUnlessFailed(r, seconds) ==
    /\ pc[r] \in {"answered", "failed"}
    /\ Goto(r, IF At(r, "failed") THEN "500" ELSE "200")
    /\ IF At(r, "failed") THEN UNCHANGED counters ELSE RecordLatency(seconds)
    /\ UNCHANGED <<setup, clock, now, limiter, asked, registry, page, leaked>>

(* SpanTimer.__exit__, also behind the answer 500.                         *)
EndSpan(r, seconds) ==
    /\ pc[r] \in {"answered", "failed"}
    /\ Goto(r, IF At(r, "failed") THEN "500" ELSE "200")
    /\ RecordLatency(seconds)
    /\ UNCHANGED <<setup, clock, now, limiter, asked, registry, page, leaked>>

-----------------------------------------------------------------------------
(* prometheus_text: two counters and the seconds read as they are, then    *)
(* the histogram under the lock.                                           *)
Page(from, to) == page.at = from /\ page' = to
ReadTotal ==
    /\ page.done < MaxPages[setup.limit]
    /\ Page("idle", [page EXCEPT !.at = "failed", !.total = total])
    /\ UNCHANGED <<setup, clock, pc, now, limiter, asked, registry, counters, leaked>>

ReadFailed ==
    /\ Page("failed", [page EXCEPT !.at = "seconds", !.failed = failed])
    /\ UNCHANGED <<setup, clock, pc, now, limiter, asked, registry, counters, leaked>>

\* inference_seconds_total is the same sum as _latency_sum.
ReadSeconds ==
    /\ Page("seconds", [page EXCEPT !.at = "histogram", !.seconds = latency_sum])
    /\ UNCHANGED <<setup, clock, pc, now, limiter, asked, registry, counters, leaked>>

\* Fault: the sum is the one read without the lock.
ReadHistogramTorn ==
    /\ Page("histogram", [page EXCEPT !.at = "idle", !.counts = bucket_counts,
                                      !.sum = page.seconds, !.done = @ + 1])
    /\ UNCHANGED <<setup, clock, pc, now, limiter, asked, registry, counters, leaked>>

ReadHistogram ==
    /\ Page("histogram", [page EXCEPT !.at = "idle", !.counts = bucket_counts,
                                      !.sum = latency_sum, !.done = @ + 1])
    /\ UNCHANGED <<setup, clock, pc, now, limiter, asked, registry, counters, leaked>>

Tick ==
    /\ clock < MaxTime /\ setup.limit > 0 /\ clock' = clock + 1
    /\ UNCHANGED <<setup, pc, now, limiter, asked, registry, counters, page, leaked>>

Thread(r) ==
    \/ \E header \in Headers : Arrive(r, header)
    \/ Allow(r) \/ Parse(r) \/ CountRequest(r) \/ Encode(r) \/ Generate(r) \/ CountFailure(r)
    \/ \E seconds \in Latencies : EndSpan(r, seconds)

Next ==
    \/ \E r \in Requests : Thread(r)
    \/ ReadTotal \/ ReadFailed \/ ReadSeconds \/ ReadHistogram
    \/ Cleanup \/ Tick

Spec == Init /\ [][Next]_vars

-----------------------------------------------------------------------------
Places == {"new", "limiter", "body", "count", "encode", "generate", "answered", "failing",
           "failed", "dropped", "200", "400", "401", "429", "500", "503"}

(* Type correctness of the threads' and the shared state.                  *)
TypeOK ==
    /\ setup \in Setups /\ clock \in 0..MaxTime
    /\ pc \in [Requests -> Places] /\ now \in [Requests -> 0..MaxTime]
    /\ \A c \in Clients : buckets[c] # None => buckets[c].count \in 1..setup.limit
    /\ asked \in [Requests -> Int \cup {None}]
    /\ registry \subseteq Requests /\ leaked \subseteq Requests

(* "Requests per minute" (security.py:81) is a fixed window: a client gets *)
(* at most twice the limit through in any stretch as long as the window,   *)
(* and the limit once more for every window by which threads use the time  *)
(* they read too late (security.py:100-101).  Where they are more than a   *)
(* window late and cleanup has dropped entries, there is no such bound: it *)
(* forgets the window that late threads go on to start again (125-131).    *)
Stretch(c, t) == Cardinality({i \in DOMAIN granted[c] : granted[c][i] \in t..(t + Window - 1)})
Most == setup.limit * (2 + (late + Window - 1) \div Window)
Burst ==
    (tidied => late <= Window) => \A c \in Clients, t \in 0..clock : Stretch(c, t) <= Most

(* A DELETE finds a request (http_server.py:107) only while its thread is  *)
(* between its registration and the end of generate; only a tokenizer that *)
(* raises in between leaves an entry for good (http_server.py:254-276).    *)
(* What is registered is inside the cap of max_tokens, also when the       *)
(* client sent none (235-239, security.py:194-201).                        *)
RegistryDrained ==
    /\ TypeOK
    /\ \A r \in registry : asked[r] \in 1..Cap
    /\ {r \in Requests : Cancels(r)} =
            leaked \cup {r \in Requests : pc[r] \in {"count", "encode", "generate"}}

Tally(n) == [i \in Slots |-> Cardinality({k \in 1..n : i \in Holding(spans[k])})]
Total(s) == LET sum[k \in 0..Len(s)] == IF k = 0 THEN 0 ELSE sum[k - 1] + s[k] IN sum[Len(s)]
Seconds(n) == Total(SubSeq(spans, 1, n))

Stands(places) == Cardinality({r \in Requests : pc[r] \in places})
Begun == Stands({"encode", "generate", "answered", "failing", "failed", "200", "500"})
            + Cardinality(leaked)

(* Whatever threads count at once, requests_failed is the number of failed *)
(* requests; requests_total has every request that passed the checks and   *)
(* no other; and every request handed to the engine leaves one span, also  *)
(* when it failed (http_server.py:273, 282-288).  That a request counts    *)
(* once is not stated: a failed one is counted again (286).                *)
CountsAgree ==
    /\ failed = Stands({"failed", "500"})
    /\ total \in Begun..(Begun + failed)
    /\ Len(spans) = Stands({"200", "500"})

(* The histogram of a page is that of the spans recorded up to one moment, *)
(* with their sum, and the seconds above it are those of an earlier moment *)
(* (metrics.py:124-134, 154-159).                                          *)
PageAgrees ==
    page.at = "idle" /\ page.done > 0 =>
        \E n \in 0..Len(spans) :
            /\ page.counts = Tally(n) /\ page.sum = Seconds(n)
            /\ \E m \in 0..n : page.seconds = Seconds(m)

=============================================================================
