# TLA+ specifications of NexusInfer

Specifications, model-checking runs and machine-checked proofs for the parts of
NexusInfer (`src/nexinfer/`) whose correctness depends on the order in which
threads, asyncio handlers and processes take their steps.

Contents: [the system](#the-system) · [modules](#modules-and-the-code) ·
[runs](#runs) · [bounds](#bounds) · [fairness](#fairness) ·
[proofs](#proofs) · [disagreements](#where-code-and-documentation-disagree) ·
[not modelled](#what-is-not-modelled) · [plan](#plan)

## The system

NexusInfer serves language models. One process profiles the hardware, places
the model, and answers HTTP, MCP and command-line requests; several processes
can share one model as a cluster; a memory fabric and gateways connect agents.

| part (under `nexinfer/`) | state it keeps | operations | interacts through |
|---|---|---|---|
| `engine/scheduler.py` Scheduler | deque of waiting requests, dict of running ones, block ledger | add, schedule, finish, preempt | called by request threads and the engine loop, **no lock** |
| `engine/kvcache.py` PagedKVCache | two free lists, two storages, a block table per sequence | ensure_sequence, write, read, free, spill | shared by request threads; a lock around the free lists, not around tables and storages |
| `engine/generation.py` GenerationEngine | none of its own: the locals of one generator per request | generate, generate_stream | backend, scheduler, KV cache |
| `engine/runtime.py` Engine | abort registry, the backend and plan of bootstrap | bootstrap; register, cancel, generate(_stream) | HTTP threads cancel what other threads run |
| `engine/profiler.py`, `orchestrator.py` | none | probe the machine, place the layers | called once at bootstrap |
| `engine/` sampling, tokenizer, chat template | none | pure functions of their inputs | called per request and per token |
| `backends/` | weights, per-request KV state in some, one stream in llama.cpp's | detect, load, prefill, decode, free, close | called by bootstrap, generation and workers |
| `distributed/coordinator.py` Coordinator | nodes, `_last_heartbeat`, plan | hello, heartbeat, leave, replanning, pushing plans | one JSON message per TCP connection; one asyncio loop, handlers suspended at each rpc |
| `distributed/health.py` HealthMonitor | last-seen times, dead set | record, forget, the tick | calls the coordinator back and awaits it |
| `distributed/planner.py` | none | plan_pipeline, plan_tensor, automatic | called by the coordinator |
| `distributed/worker.py` Worker | its plan, its layer range; the data plane | register, heartbeat, leave, plan; decode loop, generate | control channel and transports |
| `distributed/engine.py` DistributedEngine | a worker handle | generate from any thread, **no lock**: callers may overlap | futures on the worker's loop |
| `transports/` | connections, a queue and a writer per channel key | connect, send, recv, close | the workers' data plane |
| `memory/store.py` MemoryStore | a git repository: commits, branches, the branch checked out, the working tree | set/get/delete, branch/checkout/merge/revert, export/import | gateways, tools and the command line, **no lock** |
| `memory/fabric.py` MemoryFabric | the stores; access policies in a JSON file | create, grant/revoke, push/pull | owns the stores; every process has its own copy of the policies |
| `gateway/`, `services/internet_gateway.py` | tool table, quota counters, a pool of threads, an MCP session | tool calls, fetches | threads of the pool, an event loop |
| `cli/http_server.py`, `services/security.py`, `metrics.py` | rate windows, counters and histograms, sockets | requests of clients | a thread per connection |
| `cli/main.py` | none | one command per process | the memory fabric on disk |

What makes it hard: the HTTP server is threaded but the scheduler takes no
lock; the cache holds its lock over one pop when it allocates and over a whole
loop when it frees; the coordinator's handlers give up the loop at every rpc of
a push, while other handlers change the plan they are pushing; timeouts leave
messages and work to arrive later, in the control plane, in the ring of ranks
and in the tool gateway; frames of the data plane name no request, and both
ends of an edge dial it under one key; workers crash, come back and register
again; generators end in eight ways, one of them being never resumed; a memory
store's methods are scripts of git commands that take the checked-out branch
for granted and stop at the first one that fails; several processes rewrite one
policy file and may die in between.

What each part has to guarantee is stated by the properties below: limits kept
under races and each request held in exactly one place (scheduler); no block
lost, given twice or changed by another sequence (cache); every way out of a
request releases what it took, and a cancel finds exactly the requests under way
(generation); logits come from the request's own tokens, and a placement fits
(backends); the plan names live members only, reaches its workers intact, loses
silent ones and cuts the model without gap or overlap (cluster); an answer
belongs to the step that waits for it, an error has a cause, and every run ends
unless a send never does (data plane); bursts are bounded and counters agree
with what happened (front end); history is only added to, branches stay apart
and merges follow their policy (memory); rights are never invented and reported
posts stay (fabric); quotas are served, nothing takes effect twice and accepted
work is carried out (tools).

`PROJECT.json` lists the components, the hazards at their source lines, and for
every definition the lines it models.

## Modules and the code

| module | models | extends |
|---|---|---|
| `Scheduler` | `engine/scheduler.py` | |
| `KVCache` | `engine/kvcache.py` | |
| `Engine` | the constants that `Generation` and `Backends` share | |
| `Generation` | `engine/generation.py`, the registry of `engine/runtime.py` | `Engine` |
| `Placement` | `engine/profiler.py`, `engine/orchestrator.py` (operators) | |
| `Backends` | `Engine.bootstrap` and `backends/` | `Engine`, `Placement` |
| `Planner` | `distributed/planner.py` (operators) | |
| `Cluster` | `distributed/coordinator.py`, `health.py`, the control plane of `worker.py` | `Planner` |
| `Channels` | `transports/tcp_transport.py` | |
| `Pipeline` | the data plane of `distributed/worker.py`, `distributed/engine.py` | `Channels` |
| `Frontend` | `do_POST` of `cli/http_server.py`, `services/security.py`, `services/metrics.py` | |
| `Spaces` | what a memory store promises: an abstract specification | |
| `Memory` | `memory/store.py`; implements `Spaces` | `Spaces` (INSTANCE) |
| `Fabric` | `memory/fabric.py`, the whiteboard of `gateway/mcp_server.py`, the memory commands of `cli/main.py` | |
| `Tools` | `services/internet_gateway.py`, `ToolCaller` of `gateway/tool_registry.py`, `gateway/mcp_client.py` | |
| `MCScheduler`, `MCKVCache`, `MCGeneration`, `MCBackends`, `MCCluster`, `MCPipeline`, `MCFrontend`, `MCMemory`, `MCFabric`, `MCTools` | values of the constants, symmetry, bounded inputs, two history variables | the module named |
| `SchedulerProofs`, `KVCacheProofs`, `EngineProofs` (`Generation` and `Backends`), `ClusterProofs` (with the planner's), `PipelineProofs` (with the channels'), `FrontendProofs`, `MemoryProofs` (`Memory` and `Fabric`), `ToolsProofs` | theorems | the modules named, or the `MC` module where a theorem is about a history, and `TLAPS` |

Every module has one action per handler, call or step between two points where
another thread or handler may run; a definition marked *Fault* is not part of
the system: it is a plausible bug, written next to the definition it would
replace, that shows that a property notices it.

**Scheduler.** Requests come from threads; one engine loop schedules and
preempts. A call is split only where it reads shared state and writes it later:
`add` (limit test | append), `schedule` (budget | each loop iteration),
`finish` (pop and new ledger value | its store), `preempt` (choice | pop |
store and requeue). The two lengths `add` reads are one step, and so are the
operations of one loop iteration; races between single bytecodes are below this
grain. `Callers` is how many threads may be inside at once. The deque, the
running dict and the ledger are variables of their own; texts, prompts and
tool calls are left out, because the class never looks at them, and
`waiting_since` is the order of creation. `Token` is the backend's append.
`MCScheduler` adds the history `alone`: no two calls have overlapped so far.

**KVCache.** Indices are popped from the pools one per locked step, installed
in table and storage without the lock, and freed or spilled one per step while
the lock is held; installs and writes of other threads fall between those
steps. An array's contents are the page that wrote it last, or None when zeroed.
A table has no `-1` entries: they are only ever seen by the thread that
replaces them. `ensure_sequence` is called for up to `MaxBlocks` blocks per
layer, also to extend a sequence. `MCKVCache` adds the history `unspilled`: no
spill has begun so far.

**Generation.** A request's thread stands at one of the places between two
steps of the generator: registered, prefill, check (top of the loop), yield,
closing (finished, registry entry not yet removed), ended. The backend may
raise, the client of a stream may stop pulling it, other threads cancel. A
sampled token may end the request by length, by a stop sequence (any token), or
by a tool call (after the second). The scheduler is its `add` and its `finish`
as generation uses them: nothing on this path calls `schedule`, so `finish`
finds nobody. `n_tokens` of a stream without limit stops counting at
`TokenBound`.

**Placement** and **Backends.** A machine is what the probes answer (system,
memory of the GPUs, files and wheels that are there) and what the model path
holds. `Bootstrap` profiles it, places the layers, resolves a backend and loads
it, with the fallback to numpy where the code has one; `LoadDirect` is the
llama.cpp backend, which no bootstrap can get to serve. The backend that serves
is shared by requests: the logits of a call are the *sequence of tokens they
were computed from*, which is what a KV cache can get wrong; every request
feeds tokens of its own, so a token is the name of its request, and `"row"`
stands for hidden states misread from token ids. Arithmetic, tensor layouts and
byte counts below a layer's size are left out. A call is one step: the backends
take no lock, and calls that overlap are outside the model.

**Planner** and **Cluster.** The coordinator runs on one asyncio loop, so a
handler is one action up to its first await. The only await between a change
of membership and the handler's answer is the rpc to a worker: a *task* is a
handler (or the monitor's callback) suspended in its pushes, and several may be
in progress. A task walks the plan it started with and reads `self.plan` again
for every payload, as the code does (`coordinator.py:267-275`). `_replan`
raising (an unknown member, heads the ranks do not divide) leaves the old plan
and ends the handler without an answer. Time is the action `Age`: a node becomes
silent. The monitor walks a snapshot and awaits its callback. Workers register,
send heartbeats and leave over a connection per message, crash, restart and
register again; a plan whose rpc has timed out may arrive later. A plan is its
mode and its sequence of nodes; ranks, ranges and slices are functions of it
(`Planner`), as they are in the code.

**Channels** and **Pipeline.** A link is one socket with the frames neither end
has taken; every rank has a table of receive queues and one of writers, both
under the channel keys HELLO announces, and readers that pop their key when
their socket closes, whichever link stands there by then. `Pipeline` runs
`Worker.generate` at rank 0 and the decode loops at the others as coroutines
split at every await (a connect, a send, a recv's look at the table, its wait).
Nothing in `DistributedEngine` keeps two callers apart, so a request may be made
while others are under way, or while runs whose callers gave up go on. Frames
carry no request id in the code; in the model they are named `<<request, step>>`
by what they were computed from, and nothing branches on that name. Links break,
prefills raise, also rank 0's own, ranks close (`MaxFaults`); both time limits may
fire at any point of a wait. A send writes its frame and awaits `drain`, which
returns, blocks for as long as the peer does not read (place `blocked`), or raises
on a broken link, which ends a rank's loop and a run at rank 0. The history
`early` records a wait that ended while its answer was still due, `wrong` a
request that took another step's answer, and `met` the requests whose runs were
under way together with another's.

**Frontend.** A thread per connection is split where it takes a lock or reads
what other threads write: key, limiter, body and checks up to `Engine.register`,
the counters, the tokenizer, the engine's call (which is `Generation`), the
span. A body is what each check may say of it; `Odd` is a value whose
conversion raises what nothing catches, which drops the connection. The clock
advances between any two steps. `prometheus_text` reads two counters without
and the histogram under the lock. Counters of tokens and gauges are left out:
no other state depends on them.

**Memory.** A method of `MemoryStore` is one action, built from operators that
take and return the repository as the git commands do; the field `ok` turns
false with the first command that fails, and the rest of the method does nothing,
so that what a failing method leaves behind is part of the model. A file
`data/<branch>/<key>.json` is a pair, a tree a function from files to values,
and a commit a tree with its parents. git itself is external: checkout of a
clean tree, commit, and merge with its three-way rule, fast-forward and conflict
states, file by file; rename detection is left out (it needs a file deleted and
another with the same contents added since the merge base). `last_write` compares
file times: a command rewrites the files it changes, and so makes them newer than
those it leaves (`NewerAfter`); the order of two files that one command rewrites,
or that a conflict touches, is a free choice, and so is that of two files older
than the call. Commands are taken to be far enough apart for their file times to
differ. A value that `json.dump` refuses after `open` has truncated the file
(`store.py:115-116`) is left out: callers in the package pass strings and parsed
JSON.

`strays` counts the calls that do not keep to four rules: a write names the
branch that is checked out, a new branch is made from `main`, a merge is into
`main` or of `main`, and nothing is reverted or imported. While there were none,
`Memory` implements `Spaces`: a map from branches to maps, in which a merge
takes what its policy says and a call raises exactly when there is no such
branch or nothing to commit, and then changes nothing. Of `last_write`, `Spaces`
says what the store does, which is not what the documentation says (see below):
it takes the keys the target has not, those the source changed since the target
was last given its space (`seen`), and any others.

**Fabric.** Several processes open one root directory, each with the copy of
the policies it read when it started. A call is split where the file system is
in between: `policies.json` is truncated by `open` and filled at `close`; the
entry of a whiteboard post is counted, written and committed. The whiteboard has
branches of its own: `memory_branch` and `import_snapshot` make one and leave it
checked out, git carries uncommitted files along or refuses, and a post is
committed on whatever is checked out, while its key is made from `main`'s entries.
The field `main` of a post says whether `main` was checked out all along. Merges,
imports of keys and `memory_write` on the whiteboard are `Memory`'s, not this
module's. A process may die at any of these points (`Crash`), and another may
start there. `rights` and `disturbed` compare processes that take turns with what
they reported. `merge_policy` is not part of the model, because nothing reads it.

**Tools.** A fetch goes through the pool: submitted, started by one of
`Workers` threads, quota counter read, stored, compared, fetched, logged. A call
of an `mcp:` tool runs in a loop of its own or, called from a loop, is handed to
that loop by a caller that keeps its thread. It starts, has its effect at the
server or has none (the session belongs to the loop of `connect`, which may be
another), and is answered, or never is. Waits give up; the work does not.

## Runs

| run | asks | expected |
|---|---|---|
| `SchedulerThreads` | Two threads inside the scheduler, equal requests: `TypeOK`, `QueueBound`, `RunningBound`, `ScanInsideQueue`, `HeldExactlyOnce`; until calls overlap: `LedgerCoversAlone`, `NoOvertakingAlone` | holds |
| `KVCachePools` | Two threads ensure, write, spill and free over pools too small for them: `DevicePool`, `PagesKept`; until the first spill, `BackedUntilSpill` | holds |
| `KVCacheShared` | Does a block index belong to one page (`PagesPrivate`)? | violated |
| `GenerationRuns` | Requests with and without limits, streamed or not, cancelled, refused, failing, abandoned: `CancelFindsLive`, `BlocksReturned`, `TokensBounded`, `SyncReturns`, `CancelEnds` | holds |
| `Backends` | Machines of all kinds bootstrap a model, two requests share the backend: `PlanFits`, `OwnContext` | holds |
| `ClusterOverlap` | Two handlers overlap: `PlanAdmissible`, `SilentLeavesPlan` | holds |
| `ClusterOrderly` | One handler at a time, a crash, a late plan: `WorkersFollowPlan`, `PeersMatchRange`; and the planner's `PlanCuts` | holds |
| `PipelineRing` | Requests, overlapping or not, over rings of two and three ranks, with faults: `AnswersInStep`, `ErrorsExplained`, `RunEnds` | holds |
| `Frontend` | Connections race through key, limiter, checks, engine and metrics: `Burst`, `RegistryDrained`, `CountsAgree`, `PageAgrees` | holds |
| `MemoryCalls` | All calls in any order: `HistoryGrows`, `OthersUntouched`, `CleanBetweenCalls`; while calls keep to the rules, `ImplementsSpaces` | holds |
| `Fabric` | Processes share the policy file and a whiteboard with branches and may die: `PolicyHasStore`, `NeverWidened`, `TurnsKeepRights`, `PostsKept` | holds |
| `Tools` | Fetches and remote calls whose callers may give up and servers that may not answer: `QuotaServed`, `EffectsOnce`, `CarriedOut` | holds |

The type invariants of `Cluster`, `KVCache`, `Generation`, `Memory`, `Pipeline`,
`Backends` and `Frontend` are conjuncts of `PlanAdmissible`, `BackedUntilSpill`,
`TokensBounded`, `CleanBetweenCalls`, `ErrorsExplained`, `OwnContext` and
`RegistryDrained`.

What the passing runs rest on:

- `HeldExactlyOnce` holds because requests of one size keep the deque's left end
  and the loop's request the same; for other requests it fails, because
  `schedule` pops the left end instead of the request it admits
  (`scheduler.py:101`). `LedgerCoversAlone` holds because finish and preempt
  return less than admission took, which is itself a leak (see below); once a
  finish overlaps a schedule an update of the ledger is lost, and so the
  property asks only of calls that have not overlapped. The same holds of
  `NoOvertakingAlone`.
- `BackedUntilSpill` holds in spite of the two pools numbering their blocks
  alike, because `free` returns whichever array it finds and every table entry
  finds one; a spill ends that. `PagesKept` is about pages whose index no other
  table names; a shared one is not safe (`KVCacheShared`).
- `OwnContext` excuses, by name, the backends that cannot know a request's
  tokens: the GPU ones feed one token without a past, the TPU's has no model,
  numpy takes a prompt of a multiple of the hidden size for hidden states, ONNX
  with KV inputs continues an id that nothing freed, and llama.cpp's context is
  one stream. Everything else, every other prompt and order, must agree.
- `PlanAdmissible` needs that a worker waits for each answer before its next
  message (`OrderedControl`), which `_register` and `wait_for_heartbeat` do;
  `send_leave` does not (see below).
- `WorkersFollowPlan` needs that handlers do not overlap and that no plan
  arrives after its rpc; with a late plan `PeersMatchRange` is what is left,
  and with overlap not even that.
- `AnswersInStep` is about requests whose run overlapped no other: two that
  overlap wait for one queue, and each may take the other's answer (`met`). It
  is void once a wait was given up while its answer was due (`early`): after
  that a frame without a request id is taken by whoever asks next. What it says
  is that nothing else does harm: not the overlapping, failed or blocked runs
  before, not frames that are lost, not sockets that open twice.
  `ErrorsExplained` speaks of two ranks, and excuses an edge with two sockets,
  whose reader takes the other's queue along: in a ring of three,
  `Worker.generate` waits on an edge that only the root itself feeds, and every
  request fails by its time limit (`worker.py:381`). `RunEnds` holds of both: a
  caller gets an answer or an error, and a run ends unless a send blocks for
  ever.
- `CancelFindsLive` holds of requests that raised or were abandoned as well, but
  `BlocksReturned` excuses them: they keep their blocks. `RegistryDrained`
  exempts, by name, a request whose tokenizer raised.
- `Burst` is the bound of a fixed window, twice the limit, and not the "per
  minute" a reader may expect; a thread that uses the time it read late adds to
  it. Threads that are late by more than a window *and* a cleanup are too much:
  the cleanup drops the window that such a thread then starts again, and there
  is no bound left (the history `tidied`; `security.py:125-131`). `CountsAgree`
  says that the total misses no request and has at most one more for each that
  failed; that a request counts once it does not say, because a failed one is
  counted again. `PageAgrees` is about a page's histogram, which is read under
  the lock; its total and its failures may be of two moments.
- `TurnsKeepRights` is void once two processes were alive together or one died;
  `NeverWidened` and `PolicyHasStore` are not. But losing every policy violates
  neither of those, and a revoked right that another process's old copy brings
  back is one that was once given. `PostsKept` leaves out an agent that posts
  twice at once, because both posts get one key, and a post made while another
  branch than `main` was checked out, at its count, its commit or in between: it
  is committed there, `main`'s count stays, and the agent's next post gets its
  key.
- `QuotaServed` is exact for an agent whose fetches are tested one at a time;
  threads in the test together lose increments, and then there is a lower bound
  only. Of a remote call `CarriedOut` says that it is started: its server may
  never answer, and without a loop its caller then waits for ever.
- `ImplementsSpaces` needs the rules of `strays`: a write to another branch than
  the checked-out one is not read back; a revert brings older files of *all*
  branches into one, where a later merge takes them for changes of that branch; an
  import leaves another branch checked out; and a merge of two branches other than
  `main` can bring along a copy of a third one's space, which a later merge finds
  changed on both sides. `CleanBetweenCalls` exempts an unfinished merge, where
  the next write commits what git has left. `HistoryGrows` and `OthersUntouched`
  need no rules (the latter, no unfinished merge).

Deadlock is checked in the runs of `Scheduler`, `KVCache`, `Memory` and
`Fabric`, which never rest: somebody can always make another call. In the other
runs the system may stop once the requests, connections, calls or registrations
of the instance are used up; what must not stop before that is stated as
liveness (`SyncReturns`, `CancelEnds`, `SilentLeavesPlan`, `RunEnds`,
`CarriedOut`).

## Bounds

- Scheduler: 4 requests, 2 running, 2 waiting, 3 blocks of 2 tokens, 2
  overlapping calls. Two callers give every pair of racing calls, four requests
  exceed both limits by the one more the races allow, 3 blocks let the ledger
  fill. `SafetyCap` stands for the end of a request without a token limit.
- KV cache: 2 sequences of up to 2 blocks on pools of 2 device and 1 host
  block, 1 grown (`MaxGrow`), so that the second sequence meets empty pools; one
  block per spill (`MaxSpill`); one sequence's writes followed (`Writers`; the
  sequences are alike).
- Generation: a synchronous request and a stream without limit, and a limited
  request with tools; 2 queue places for 3 requests; a cap of 4 for 4096.
- Backends: two systems, GPUs of two makes too small or large enough, an
  integrated one, a TPU, three outcomes of the probes, six sets of wheels, five
  kinds of model path; models of 1 or 5 layers of two sizes; 100 cache tokens,
  which is no multiple of the block size. Two requests, prompts up to 3 and 4
  tokens in all, 3 prefills, a hidden size of 2 (so that prompts of 2 are
  misread and prompts of 3 are not); windows of 2 to 5 tokens.
- Cluster: 2 workers, 2 or 3 registrations in all (`MaxHellos`), 2 tasks or 1,
  at most one crash or one late plan (`MaxFaults`). Two workers are the least
  for a plan to change while it is being pushed. Worker symmetry is used where
  no liveness is checked.
- Planner: up to 13 layers, 8 heads and 6 nodes, so that nodes outnumber
  layers and every remainder occurs; the theorems cover all sizes.
- Pipeline: two requests of one token, overlapping or not, in a ring of 2 ranks
  with one fault, or one request in a ring of 3 without; 3 sockets (`MaxLinks`),
  which is one edge, its double and the result channel. A second request is what
  an answer needs to be mistaken for another's. The fault strikes before the
  second request is made (`FaultLoad`): what it leaves behind is what the second
  one meets. Faults while two requests overlap are left to the theorems.
- Front end: without a limit two connections to a ready engine and two pages of
  metrics; with a limit of 1, four connections to an engine that is not ready,
  over 5 ticks of the clock and windows of 2. The two halves meet only at the
  limiter's answer. Bodies have at most two fields that are not as they should
  be, which shows the order of the checks; `Cap` is below the default of 128.
  One bucket takes one of three latencies, the next two, the last all.
- Memory: two branches, one key, two values (interchangeable, hence symmetric)
  and 6 commits, the first of which opens the repository; one stray call
  (`MaxStrays`). That is room for writes on both sides of a fork, a three-way
  merge, its overlay and one more call; the conflict that cannot be resolved
  takes 5. Keys meet only in the test for "nothing to commit", and two branches
  are what one merge sees; the theorems are about any number. The view leaves
  out the name of the last call.
- Fabric: two interchangeable processes, two stores (one the whiteboard, with
  one branch beside `main`), two agents, 4 calls that change something
  (`MaxCalls`); policies that list their owner twice, and nobody.
- Tools: three fetches of an agent with a quota of 2, one of an agent without,
  one that the policy refuses; 2 threads; 2 remote calls, one made on a loop; 3
  calls in all.

## Fairness

- `Generation`: weak fairness of each request's thread. The steps that may fail
  (`Raises`), a client that closes a stream, and requests and cancels
  themselves are not forced. For a synchronous request this is
  `generate = list(generate_stream)`, which pulls until the end; the HTTP
  server, the MCP server and the command line all call it that way. For a
  stream it assumes that a consumer who does not close it goes on pulling.
- `Cluster`: weak fairness of the monitor's task and of each task's next push:
  the event loop runs what is ready, and an rpc ends by its 10 s limit
  (`coordinator.py:277-287`). Messages, workers and time are not fair: nobody
  has to speak, and a silent node may be heard again, in which case
  `SilentLeavesPlan` asks nothing.
- `Pipeline`: for each request, weak fairness of "something is done for it": a
  step of its run at rank 0, the end of that run's recv, the engine's taking its
  result, or the engine's own time limit (`Proceeds`). The event loop runs what
  is ready, its timers fire, and the caller's thread runs. Nothing is assumed of
  a `drain` that blocks, which has no time limit, nor of the other ranks, their
  links or the network, so that `RunEnds` holds of a ring that has gone silent:
  a caller is freed by the engine's limit even if its run stays in a send for
  ever.
- `Tools`: weak fairness of the pool's threads, of the start of remote calls and
  of the 30 s wait of a caller on a loop: a started thread runs on, every
  `urlopen` ends by its own time limit, and a loop whose thread is free runs
  what it was handed. Nothing is assumed of MCP servers: `session.call_tool` has
  no limit (`mcp_client.py:108`), and nor has `asyncio.run`
  (`tool_registry.py:188`). Nobody has to make a call or collect its answer.

## Proofs

Checked by TLAPS for every value of the constants that satisfies the named
assumptions of the modules, and the hypotheses in the second column.

| theorem | of | states |
|---|---|---|
| `SchedulerTypes`, `SchedulerQueueBound`, `SchedulerRunningBound`, `SchedulerPopSafe` | every caller, size and mode | `TypeOK`; at most `MaxWaiting - 1 + Callers` requests are held; at most `MaxRunning` run; `popleft` never meets an empty deque |
| `SchedulerHeldExactlyOnce` | `Uniform` | `HeldExactlyOnce`: no interleaving loses or duplicates a request |
| `SchedulerLedgerCovers` | `Limited` | `LedgerCoversAlone`: the ledger never under-reports to callers that take turns |
| `SchedulerNoOvertaking` | `Uniform` | `NoOvertakingAlone`, an action property |
| `KVCacheDevicePool`, `KVCachePagesKept` | | `DevicePool` and the action property `PagesKept`, with spilling |
| `KVCacheBackedUntilSpill` | | `BackedUntilSpill`: types, host pool, one array per table entry |
| `GenerationCancelFindsLive`, `GenerationBlocksReturned`, `GenerationTokensBounded` | | `CancelFindsLive`, `BlocksReturned`, `TokensBounded` |
| `BackendsPlanFits` | every machine and model, positive sizes | `PlanFits` |
| `BackendsOwnContext` | any number of requests and calls | `OwnContext`, with its types |
| `PipelineCovers`, `TensorCovers`, `PipelineEven`, `LoopIsStart` | every model and number of nodes | the slices of a plan cut the model; two ranks differ by at most a layer; the loop's accumulator is the closed form |
| `ClusterPlanCuts` | | `PlanCuts` |
| `ClusterTypeOK` | | the types, and that every push under way is one somebody waits for |
| `ClusterPlanAdmissible` | `Orderly` | `PlanAdmissible`, for handlers that overlap in any way |
| `ClusterPeersMatchRange` | `OneTask` | `PeersMatchRange`, with late plans |
| `ClusterWorkersFollowPlan` | `OneTask`, `OrderedControl` | `WorkersFollowPlan`, with crashes |
| `PipelineTypeOK` | rings of any size | `TypeOK` of `Pipeline`: what the tables name |
| `PipelineAnswersInStep` | any requests, steps, faults, sockets and ring | `AnswersInStep` |
| `PipelineErrorsExplained` | any requests, overlapping or not | `ErrorsExplained` |
| `FrontendRegistryDrained`, `FrontendCountsAgree`, `FrontendPageAgrees`, `FrontendBurst` | | `RegistryDrained`, `CountsAgree`, `PageAgrees`, `Burst` |
| `MemoryCleanBetweenCalls`, `MemoryHistoryGrows`, `MemoryOthersUntouched` | any branches, keys and snapshots | `CleanBetweenCalls`, and the action properties `HistoryGrows`, `OthersUntouched` |
| `MemoryImplementsSpaces` | any branches, keys, values and commits | `ImplementsSpaces`: every call of `Memory` is a call of `Spaces`, or `strays` is not 0 |
| `FabricPolicyHasStore`, `FabricNeverWidened`, `FabricTurnsKeepRights`, `FabricPostsKept` | any number of processes | `PolicyHasStore`, `NeverWidened`, `TurnsKeepRights`, `PostsKept` |
| `ToolsEffectsOnce`, `ToolsQuotaServed` | any number of threads and calls | `EffectsOnce`, `QuotaServed` |

The hypotheses are what the properties need, not what the proofs do:

- `Uniform`: preemption recomputes, and all requests take as many blocks. For
  requests of different sizes `HeldExactlyOnce` is false (see *Runs*).
- `Limited`: every request has a token limit. Admission promises a request
  without one no blocks at all, and the ledger says nothing about it.
- `OrderedControl`: a worker waits for each answer. `Orderly` adds that tensor
  parallelism is not *preferred*; where it is, planning may raise after a node
  was dropped, and the old plan stays (`coordinator.py:252`).
- `OneTask`: handlers do not overlap, as in the run `ClusterOrderly`.

Of the assumptions on constants, two are more than types. `BackendsAssumption`
wants models with at least a layer and layers of at least a byte:
`plan_placement` divides by the model's size (`orchestrator.py:113`).
`PipelineAssumption` wants room for more than two sockets in all, since
`MaxLinks` bounds the model and not the code: a ring of two ranks has two keys,
and one socket for each must not meet the bound.

**Arguments.** What makes each invariant inductive:

*Scheduler.* `QueueBound` alone is not inductive: a thread that has passed the
limit test appends later. What is inductive counts those threads as well
(`QueueBoundInv`). `ScanInsideQueue` and `RunningBound` follow because only the
engine loop removes from the deque, one per iteration of its snapshot, and only
it adds to the running set, right after testing its size. `HeldExactlyOnce`
rests on `ScanInv`: as long as requests are of one size, either none of them
fits, and the loop skips to its end, or what is left of the snapshot is the left
part of the deque, entry by entry; so the popped request is the admitted one.
`LedgerCovers` counts the promised blocks as a set of pairs and needs that no
request has produced more than its limit (`TokensInv`), and that the values a
finish or a preempt is about to store cover the promises as well (`Covers`).
`NoOvertaking` needs the whole deque in order, and that the request between
`add`'s check and its append is the youngest (`Ordered`).

*KV cache.* `DevicePool` needs that each thread's popped block is of the pool's
indices (`PoolTypes`), and that a spill in progress visits only blocks that are
still on the device and none twice (`SpillInside`): while the spill holds the
lock nothing leaves the device storage but by the spill itself.
`BackedUntilSpill` needs both pools: an install finds no array under its index
because the index was in hand. The entries are counted as a set of pages and a
list, and `FlatCount`, an induction over the layers, says that the list `free`
walks names a block as often as the table did. The tables themselves need
`TablesInv`: a block is in hand only while its table is short. `PagesKept`
rests on `AlonePage`: a page that shares its index with nothing is neither the
page of another write or install, nor on the list of a free.

*Generation.* A request's place in the generator determines which ends it may
still have (`ReasonAt`), whether it holds blocks (`BlocksAt`) and how many tokens
it may have (`TokensAt`); a step of one request leaves the others' alone.

*Backends.* Of each kind of backend the invariant (`ContextInv`) says how what
it keeps for a request relates to what it answered last (`AnsweredBy`): numpy
and ONNX keep just the tokens they answered from, the GPU and TPU backends keep
nothing. llama.cpp's stream is not a request's: what is inductive is that a
request *whose stream nobody else used* was answered from what is in the stream
now, and is still remembered, so that the reset in `free` does not come under
it (`ggml_backend.py:307-319`). Nothing is kept before the engine serves
(`Nobody`), which is what lets `Serve` turn a backend into one with KV inputs.

*Placement.* `PlanFits` is about operators: `BackendsSpec` contributes only that
a plan is one of `PlanPlacement` for the machine at hand. That the integer
quotient is the largest share that fits is `Fitting`, a pair of non-linear
inequalities; that a device of the highest score exists among any number of
them is `Highest`, by the least position with no maximum up to it. Shares are
intervals, so their size is their end.

*Planner.* Quotient and remainder for the cuts. `LoopIsStart` is an induction
over a recursive function: its approximations exist, two that satisfy the
recursion agree, because there is no least argument where they differ, and the
closed form satisfies it.

*Cluster.* `AdmissibleInv`: a worker has one message or one handler under way
(`OneInv`, what `OrderedControl` gives), everybody the monitor or a message
speaks of is registered and who is dead is silent (`KnownInv`), so a replan names
no dead node. For the pushes, `PushedInv`: every plan message carries one plan's
range and nodes. For `WorkersFollowPlan`, as long as no plan was late, a planned
worker serves its range, or its turn in the running push is still to come, or its
message is under way, or it does not know that it is a member (`Served`,
`Missed`).

*Pipeline.* Three invariants, each resting on the one before. `Sound` holds in
rings of any size, with all faults: a socket joins two neighbours of the ring
under the key of their edge, or the last rank and the first under the result
key; a table names only sockets of its key that end at its owner; nothing but
results is ever sent to rank 0; coroutines wait at an inbox of their own. That is
where both dialing ends of an edge matter: a reader that ends pops another
socket's entry, but always one of its own key.

`Answers`, for two ranks, holds until a wait is given up. A frame *flies* where
anybody may still take it (an inbox whose queue stands in a table, is waited on
or is still to be installed by its HELLO) or in the loop's hands. No frame flies
twice (`Once`), and none that its run is still to send (`Fresh`). There are
never more flying frames than runs an answer is to come to: some map gives every
flying frame a run of its own (`Cover`). Runs that overlap may take each other's
frames, and the map is changed with every take; but when the last of them has
ended, no frame is left, and so a run that starts alone finds the ring empty,
and as long as it stays alone only its own frame flies (`Alone`). An inbox that
nobody can reach any more stays so, whatever is popped or installed later, so
lost frames do not come back; and a time limit that expires when nothing is
under way (`Stuck`) leaves none behind (`StuckEmpty`). In a ring of three and
more rank 0 waits on an edge that only itself feeds (`worker.py:381`), and takes
nothing at all.

For `ErrorsExplained`, as long as nothing failed, no wait ended early and no key
has two sockets (`Clean`): two keys give at most two sockets, so no connect is
refused; every socket is up and in the tables of both ends once installed
(`Whole`); so no flying frame is ever lost, and the converse of `Cover` holds too:
every run that waits for an answer has a flying frame of its own (`NoLoss`), not
necessarily the one it sent. So its time limit cannot expire for want of one.
`Clean` can only be lost, never regained, so the invariant may assume it of the
state before.

*Frontend.* `RegistryInv` and `CountsAgree` are sums over the threads' places,
and each step moves one thread. `PageInv` keeps for each number of a page the
moment it is of. `BurstInv` bounds a stretch by what the window that is open can
still grant (`Open`), with a window more for every window of lateness
(`Room`); sums and quotients need inductions like the planner's.

*Memory.* `CleanBetweenCalls` is inductive as `MInv`, but a call is a composition
of commands, so the work is in the lemmas `...Moves`: each command and method
takes a repository that is `Formed` and `Clean` to one that is, extends its
history and moves no branch but the one it is meant to; `MovesTwice` composes
them. What git's merge base is does not matter to any of this, only that each
file of a merge comes from a side or has markers. Ancestry is a recursive
function over the commits (`AncestorsAre`, `Descent`), and new commits change
none of it (`SameAncestors`). An import is two nested folds; `FoldExists` and
`FoldKeeps` are inductions over the indices of the folded sequence. A write into
a branch that is not checked out moves the branch that is: `OthersUntouched`
holds there because the working tree it commits was that branch's own.

`MemoryImplementsSpaces` needs what the merge base *is*. Every branch has a copy
of all spaces, and under the rules of `strays` the branches stand around `main`
like a star (`Star`): each went apart from `main` at one commit, their only best
common ancestor (`Forked`), because a merge leaves its source an ancestor of its
target, and since then `main` has not changed its copy of that branch's space,
nor the branch its copy of any other; and what two branches have in common they
have from `main`. So a three-way merge never meets a conflict, the target keeps
its own space and receives the source's (`ThreeWayDoes`, `GitMergeDoes`), also
when the source brings along what `main` got from other branches, and what the
target then reads is decided by the overlay and the policy alone (`OverlayDoes`,
`MergedDoes`), as `Spaces` says: what the source changed since the target was
last given its space is what the merge rewrites, and so is newer
(`NewerHasChanged`). A new branch reads as empty because nobody has a copy of a
space before its branch exists, and a call that raises after it committed a
merge has changed no space (`FailedStill`).

*Fabric.* `RightsInv` holds of the file, of every process's copy and of the
half-written file at once, because a crash makes any of them the next truth.
`TurnInv` says that while processes take turns, one is alive and the file is its
policies or the empty file it is writing. `PostInv` orders the keys: a post that
is reported while `main` was checked out had a key behind all that `main` had
when it was counted, and posts of one agent made one at a time have growing
keys. A checkout can be refused but changes no file of an acknowledged post,
because such a file is as the branch checked out has it (`Clean`), whichever
that is.

*Tools.* `EffectInv` ties the place of a pool thread or of a remote call to what
it has done and logged. `QuotaInv` counts: the counter is behind the tests by
less than the threads that are in the test, and exact for an agent whose tests
never overlap.

Every safety property of the passing runs, the refinement included, is thereby a
theorem. Model-checked only: the liveness properties (`SyncReturns`,
`CancelEnds`, `SilentLeavesPlan`, `RunEnds`, `CarriedOut`), which are beyond the
prover.

## Where code and documentation disagree

Shown by the run that expects a violation:

- *Two sequences share a block* (`KVCacheShared`, `kvcache.py:56`): device and
  host blocks are both numbered from 0 and looked up by number, where
  `docs/architecture.md:43-44` promises pages allocated per sequence.

Behaviour that differs from what the documentation says, part of the models but
without a run of its own:

- *One stray heartbeat stops all replanning* (`coordinator.py:241`): a
  heartbeat handled after its node's leave makes it a member that `self.nodes`
  does not know, and every later replan raises, where
  `docs/cluster-guide.md:89-92` has silent nodes removed and the plan
  recomputed. `Cluster` has it with `OrderedControl = FALSE`.
- *A rank of one plan travels with the addresses of another*
  (`coordinator.py:273`, `worker.py:188-189`), when handlers overlap.
- *An import loses main* (`store.py:286`): the keys of `main` are committed on
  the branch that was imported before it, where `docs/memory-protocol.md:85-86`
  says that remote values win.
- *A load that raises has no fallback* (`runtime.py:73-78`): only a missing file
  falls back to numpy, where `docs/architecture.md:98-99` has the engine fall
  back to the next best backend; and every linux with `/sys/bus/pci` is found
  to have a TPU (`profiler.py:171`).
- *Nobody asks `can_write`*: `docs/architecture.md:167` and
  `docs/memory-protocol.md:24` speak of enforced policies; no path that writes
  looks at them. `merge_policy` is stored and never read (`fabric.py:93`, `:148`).
- *A failed request counts twice* (`http_server.py:273`, `:286`) in what
  `metrics.py:137` calls the "Total number of generation requests processed" and
  `tests/test_phase5.py:111-113` reads as one request for each record. In
  `Frontend`, `total` exceeds the requests begun by the failed ones.
- *Callers that overlap swap answers* (`worker.py:398`): two runs of
  `Worker.generate` poll for one result queue, and each may take the other's
  logits, where `worker.py:319-320` says "return the sequence of sampled token
  logits, in token order" and `engine.py:55-57` that the engine "can be used
  from synchronous callers (HTTP handlers, REPL scripts)"; the HTTP server has a
  thread for each.
- *`last_write` is not the newest commit* (`store.py:244`): `store.py:195` and
  `docs/memory-protocol.md:47` say "newest commit wins", but the file times that
  are compared are those of git's checkout and merge. What the source changed
  since the target last got its space is rewritten by the merge and wins, also
  over a later write of the target; a checkout of another branch makes files
  newer whose values nobody has written.
- *A reported post is not in main* (`store.py:117-118`): after `memory_branch` on
  the whiteboard (`tool_registry.py:53-56`), or an import that made a branch
  (`store.py:286`), `set(..., branch="main")` commits on the branch checked out,
  where `docs/memory-protocol.md:49` has "agents post, latest post visible". The
  next post of that agent gets the same key, since main's count has not changed.
- *A value written for a branch is not found there* (`store.py:117-118`): the
  docstring at `:110` says "committing it on `branch`", but the commit is made on
  the one checked out, and `get` looks in the one named.
- *An `mcp:` tool called on a loop cannot succeed* (`tool_registry.py:187`): the
  caller keeps the thread that the coroutine needs, and fails after 30 s;
  without a loop the call runs in a new one (`:188`), although the session
  belongs to the loop of `connect`, and without a limit of time.
  `docs/architecture.md:147-148` says that `ToolCaller` "routes synchronous
  built-ins and async MCP calls uniformly" and `tool_registry.py:143` that
  "proper async calling happens in ToolCaller".

Other behaviour the models have:

- Scheduler: an admitted request stays in the deque when an earlier one was
  skipped (`scheduler.py:101`); `schedule` compares every request of a pass with
  the free blocks of its start (`:95`); the ledger gets back the blocks of
  generated tokens, not of reserved ones (`:111`); several preempted requests
  come back in reverse order (`:127`). Requests enter the deque and none ever
  leaves it, until an idle engine refuses (`generation.py:97`).
- Cache and engine: a spilled block's index is reused while a table names it
  (`kvcache.py:187`; nothing in the package calls `spill_cold_blocks`); a cancel
  that comes after the last token reports success and the request ends with
  another reason (`runtime.py:118`).
- Backends: decode without a past (`cuda_backend.py:117`); prompts misread by
  their length (`cpu_numpy.py:139`); an id continued that nobody freed
  (`ort_backend.py:353`); the window tested against the tokens of others before
  the reset (`ggml_backend.py:221`); a load of the llama.cpp backend through
  bootstrap raises, since its devices are strings there (`ggml_backend.py:138`);
  decode of the reference plug without modules raises StopIteration
  (`special_module.py:154`); a numpy backend keeps a finished request's cache
  for good.
- Cluster: the root is declared dead after the timeout, since nothing refreshes
  it (`coordinator.py:69`); a node that recovers is planned for only at the next
  change of membership (`:187-191`); with tensor parallelism preferred, a leave
  can make planning raise and keep the departed node (`:252`).
- Data plane: a reader that ends pops queue and writer by key, also a newer
  connection's, and both ends of an edge dial the same key
  (`tcp_transport.py:69`); a connect that raises ends a rank's loop for good
  (`worker.py:258`, `:284`), and so does a send on a broken link (`:245`,
  `:293`), while one to a peer that stopped reading has no limit
  (`tcp_transport.py:142`); three ranks never get past the edge only the root
  feeds (`worker.py:381`); a late result is taken by the next request
  (`worker.py:398`); the engine's time limit does not cancel the run
  (`engine.py:83`), and without a loop `done` is read before it is assigned
  (`engine.py:96`).
- Front end: a tokenizer that raises leaves the request registered
  (`http_server.py:276`); conversions outside the checks drop the connection
  (`:236`; `security.py:209` for an infinite number); the default of 128 tokens
  is refused by a smaller cap (`:235`); handlers keep their configuration in
  class attributes, which two servers of one process share (`:378`).
- Memory: writes, imports and merges on the whiteboard may overwrite posts,
  whose keys they share; merging twice with `theirs` raises, for want of
  something to commit (`store.py:248`); a conflict with a deleted file leaves
  the merge unfinished (`:203`); writing an unchanged value raises (`:118`); a
  revert removes no key (`:256`).
- Fabric: a crash in the middle of a rewrite loses every policy
  (`fabric.py:62`); a process overwrites the policies of others with its copy
  (`:84`); an owner that is listed twice stays after a revoke (`:117`); the
  command line reports success when nothing changed (`main.py:338-341`).
- Tools: an `mcp:` tool called on its own loop blocks that loop for 30 s, is
  reported failed, and then takes effect (`tool_registry.py:187`); a fetch whose
  text cannot be extracted is logged as ok and fails
  (`internet_gateway.py:122-133`).

## What is not modelled

- Numerics: sampling, tokenizers, templates, the tensors of the backends and
  the rounding of the profiler's floating-point sizes.
- Backend calls that overlap: the backends take no lock, and what a race inside
  numpy, ONNX Runtime or llama.cpp does is not theirs to say. A second bootstrap
  of one engine.
- mDNS discovery and manual peers: how a worker learns the coordinator's
  address; the models start at its first message.
- The delays of `reconnect_loop`: a failed registration may be repeated at any
  time, which includes every schedule of delays.
- A coordinator restart: its state is in memory and nothing in the package
  starts the workers' reconnect loop.
- The grpc, rdma and webrtc transports and the signaling table: thin layers over
  optional libraries, or over tcp; the framing of bytes.
- The MCP client's connecting and the wire formats of MCP and HTTP; the pages
  and read-only calls of the HTTP server beside the metrics.
- Logging, skills, the parsing of the command line's arguments.
- Cache: a first choice of the host (`prefer_tier`, which no caller makes), and
  threads between `write`'s look at the tier and its store into the array.
- Memory: values that `json.dump` refuses, and git commands that follow each other
  faster than the file system's clock ticks.
- Merges, reverts and imports by several processes in one memory store, and a
  process that dies inside one: `Memory` takes calls one at a time, `Fabric`
  splits and crashes only a post and the making of a branch.

## Plan

1. **Request life cycle**: an abstract specification of one request (accepted,
   served, over, exactly once) and refinements from `Scheduler` for equal
   requests and from `Generation`.
2. **Overlapping runs**: an abstract ring in which answers carry their request,
   and what `Pipeline` still implements of it when callers overlap.
3. **Concurrent stores**: two processes inside `Memory`'s scripts of git
   commands, split at the commands.
