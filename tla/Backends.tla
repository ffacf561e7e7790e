------------------------------ MODULE Backends ------------------------------
(***************************************************************************)
(* Engine.bootstrap (engine/runtime.py) and the backend it leaves serving  *)
(* (backends/): profile, placement, choice of a backend, its load, then    *)
(* prefill and decode for requests that share it.  The logits of a call    *)
(* are the sequence of tokens they were computed from; every request       *)
(* feeds tokens of its own, so that a token is the name of its request.    *)
(* A call is one step.  The built-in backends import without their         *)
(* optional dependencies, so an import never fails.                        *)
(***************************************************************************)
EXTENDS Engine, Placement, FiniteSets

CONSTANTS
    Machines,   \* machines: what probes find, wheels installed, the model path
    Prefer,     \* values of --backend
    Specs,      \* models: layers, bytes of a layer, quantisation
    KVTokens,   \* kv_tokens of bootstrap
    Hidden,     \* hidden_size: a 1-D prompt of a multiple of it is misread
    Asked, Trained,     \* n_ctx asked for; lengths found in models, 0 when unreadable
    Least, Default, Cap,    \* n_ctx: at least, without any length, at most
    MaxPrompt, MaxFed,  \* bounds: tokens of a prompt, and of a request in all
    MaxCalls    \* bound: prefills in all

Gpu == {"cuda", "rocm", "directml"}
Backend == Gpu \cup {"cpu_numpy", "ort", "ort_kv", "tpu", "special_module", "ggml"}
Kinds == Backend \cup {None}

ASSUME BackendsAssumption ==
    /\ \A m \in Machines : m.nvidia \in Nat /\ m.amd \in Nat /\ m.other \in Nat
    /\ \A spec \in Specs : spec.layers \in Nat \ {0} /\ spec.bytes \in Nat \ {0}
    /\ Prefer \subseteq Kinds /\ KVTokens \in Nat
    /\ Hidden \in Nat \ {0} /\ Cap \in Nat \ {0} /\ Least \in Nat /\ Default \in Nat
    /\ Asked \subseteq Nat \cup {None} /\ Trained \subseteq Nat
    /\ MaxPrompt \in Nat
    /\ None \notin Backend /\ None \notin Requests /\ None \notin Seq(Requests \cup {"row"})

VARIABLES
    machine, plan,  \* None once the engine serves: nothing reads them again
    boot,       \* "start", "booted" or "failed", "serving", "closed"
    kind,       \* the backend that serves
    window,     \* GGMLBackend.n_ctx
    cache,      \* per request id: the tokens whose state the backend keeps
    stream,     \* the tokens in the llama.cpp context
    fed,        \* per request id: what its caller fed since its prefill
    got,        \* the logits last returned to it; None after an exception
    history     \* history: prefills, ids prefilled again, ids whose stream others used

backendsVars == <<machine, plan, boot, kind, window, cache, stream, fed, got, history>>
platform == <<machine, plan, boot, kind, window>>
session == <<cache, stream, fed, got, history>>

BackendsInit ==
    /\ machine \in Machines
    /\ plan = None /\ boot = "start" /\ kind = None /\ window = 0
    /\ cache = [r \in Requests |-> None]
    /\ stream = <<>>
    /\ fed = [r \in Requests |-> <<>>]
    /\ got = [r \in Requests |-> None]
    /\ history = [calls |-> 0, again |-> {}, shared |-> {}]

-----------------------------------------------------------------------------
\* load_backend gives None only for another platform.
LoadBackend(name, m) ==
    (name = "rocm" => m.system = "linux") /\ (name = "directml" => m.system = "windows")

\* detect_devices of the backends that may be chosen for a GPU.
Detects(name, m) ==
    CASE name = "cuda" -> "cuda" \in m.probes
      [] name = "rocm" -> m.system = "linux" /\ "rocm" \in m.probes
      [] name = "directml" -> m.system = "windows" /\ "dml" \in m.wheels
      [] name = "ort" -> m.wheels \ {"jax"} # {}

(* _resolve_backends: the preferred one, or else the first of the GPU      *)
(* backends that loads and detects a device, a TPU's, numpy.               *)
Resolve(prefer, m) ==
    LET order == <<"cuda", "rocm", "directml", "ort">>
        fit == {i \in DOMAIN order : LoadBackend(order[i], m) /\ Detects(order[i], m)}
        has(k) == OfKind(ProfileSystem(m), k) # {}
    IN  IF prefer # None THEN IF LoadBackend(prefer, m) THEN prefer ELSE None
        ELSE IF has("gpu") /\ fit # {}
        THEN order[CHOOSE i \in fit : \A j \in fit : i <= j]
        ELSE IF has("tpu") THEN "tpu" ELSE "cpu_numpy"

(* What load does with a model path: "ok", "absent" (FileNotFoundError) or *)
(* "raises".  A path is an .onnx file without or with KV inputs, an .npz    *)
(* file, a directory without weights, or no file at all.  Wheels other than jax bring onnxruntime.   *)
Onnx == {"onnx", "kv"}
LoadNumpy(path) ==
    CASE path = "dir" -> "absent" [] path \in Onnx -> "raises" [] OTHER -> "ok"
LoadOrt(m, path) ==
    IF m.wheels \ {"jax"} = {} THEN "raises" ELSE IF path \in Onnx THEN "ok" ELSE "absent"
LoadGpu(m, wheel, path) == IF wheel \in m.wheels /\ path \in Onnx THEN "ok" ELSE "raises"
LoadDirectML(m, path) ==
    IF "dml" \notin m.wheels THEN "raises"
    ELSE IF path \in {"dir", "none"} THEN "absent"
    ELSE IF path \in Onnx THEN "ok" ELSE "raises"
LoadTpu(m) == IF "jax" \in m.wheels THEN "ok" ELSE "raises"
\* bootstrap passes device names, load reads their device_id.
LoadGGML(m) == "raises"
LoadModules(m) == "ok"

Load(name, m, path) ==
    CASE name = "cpu_numpy" -> LoadNumpy(path)
      [] name = "ort" -> LoadOrt(m, path)
      [] name \in {"cuda", "rocm"} -> LoadGpu(m, name, path)
      [] name = "directml" -> LoadDirectML(m, path)
      [] name = "tpu" -> LoadTpu(m)
      [] name = "ggml" -> LoadGGML(m)
      [] name = "special_module" -> LoadModules(m)

\* A model that is not found is replaced by demo weights, which no path names.
Loaded(name, m) ==
    Load(name, m, IF Load(name, m, m.path) = "absent" THEN "none" ELSE m.path) = "ok"

Bootstrap(prefer, spec) ==
    LET name == Resolve(prefer, machine) IN
    /\ boot = "start"
    /\ plan' = [spec |-> spec,
                placed |-> PlanPlacement(spec, ProfileSystem(machine), KVTokens, 16)]
    /\ kind' = name
    /\ boot' = IF name # None /\ Loaded(name, machine) THEN "booted" ELSE "failed"
    /\ UNCHANGED <<machine, window, session>>

\* The engine is up; an ONNX model has the inputs of a KV cache or not.
Serve ==
    /\ boot = "booted" /\ boot' = "serving"
    /\ machine' = None /\ plan' = None
    /\ kind' \in IF kind = "ort" THEN {"ort", "ort_kv"} ELSE {kind}
    /\ UNCHANGED <<window, session>>

\* n_ctx as asked for, at least 32, or the model's own; never above the cap.
Window(asked, trained) ==
    IF asked # None THEN Max({Least, Min({asked, Cap})})
    ELSE IF trained > 0 THEN Min({trained, Cap})
    ELSE Default

\* A caller of its own loads a GGMLBackend, with devices that have device_id.
LoadDirect(asked, trained) ==
    /\ boot = "start" /\ boot' = "serving"
    /\ kind' = "ggml" /\ window' = Window(asked, trained)
    /\ machine' = None /\ UNCHANGED <<plan, session>>

-----------------------------------------------------------------------------
Token(r) == <<r>>
\* The call of r returns logits over ctx; c is what is kept under its id.
Returns(r, ctx, c) == got' = [got EXCEPT ![r] = ctx] /\ cache' = [cache EXCEPT ![r] = c]
Throws(r) == got' = [got EXCEPT ![r] = None] /\ UNCHANGED <<cache, stream>>

\* Rows of hidden states, made of token ids.
Misread(p) == Len(p) % Hidden = 0
Rows(p) == [i \in 1..(Len(p) \div Hidden) |-> "row"]

NumpyPrefill(r, p) ==
    LET x == IF Misread(p) THEN Rows(p) ELSE p IN
    Returns(r, x, x) /\ UNCHANGED stream

\* Fault: the new keys and values are not stored.
NumpyDecodeUnstored(r) ==
    Returns(r, cache[r] \o Token(r), cache[r]) /\ UNCHANGED stream

NumpyDecode(r) ==
    LET x == cache[r] \o Token(r) IN
    Returns(r, x, x) /\ UNCHANGED stream

\* Past keys and values of the id, or none.
PastKV(r) == IF cache[r] = None THEN <<>> ELSE cache[r]

OrtPrefill(r, p) ==
    LET x == IF kind = "ort_kv" THEN PastKV(r) \o p ELSE p IN
    Returns(r, x, x) /\ UNCHANGED stream

\* With a KV cache the present is captured, without one the history grows.
OrtDecode(r) ==
    LET x == PastKV(r) \o Token(r) IN
    Returns(r, x, x) /\ UNCHANGED stream

GpuPrefill(r, p) == Returns(r, p, None) /\ UNCHANGED stream
\* The session runs on the new token and on nothing else.
GpuDecode(r) == Returns(r, Token(r), None) /\ UNCHANGED stream

\* Zeros, from no token.
TpuAnswers(r) == Returns(r, <<>>, None) /\ UNCHANGED stream

\* load of bootstrap meets no detect_devices, which would fill the modules.
ModuleAnswers(r) == Throws(r)

-----------------------------------------------------------------------------
\* The stream holds more than the window, or would with these tokens.
Overflow(n) == Len(stream) + n > window

\* _reset forgets the histories of all requests.
Forgotten == [r \in Requests |-> None]

(* The window is tested against what the stream holds, then the stream is  *)
(* reset, for every request, and takes the prompt.                         *)
GGMLPrefill(r, p) ==
    IF Overflow(Len(p)) THEN Throws(r)
    ELSE /\ stream' = p
         /\ got' = [got EXCEPT ![r] = p]
         /\ cache' = [Forgotten EXCEPT ![r] = p]

GGMLDecode(r) ==
    IF Overflow(1) THEN Throws(r)
    ELSE /\ stream' = stream \o Token(r)
         /\ got' = [got EXCEPT ![r] = stream']
         /\ UNCHANGED cache

\* The stream is reset when no history is left.
GGMLFree(r) ==
    /\ cache' = [cache EXCEPT ![r] = None]
    /\ stream' = IF cache[r] # None /\ cache' = Forgotten THEN <<>> ELSE stream

OrtFree(r) == cache' = [cache EXCEPT ![r] = None] /\ UNCHANGED stream

-----------------------------------------------------------------------------
\* On one stream, a call that is not refused is in the way of every other.
InTheWay(r) == IF kind = "ggml" /\ got'[r] # None THEN {q \in Requests \ {r} : got[q] # None} ELSE {}

(* prefill, for a new request or, as Worker.generate does, again under the *)
(* same id.                                                                *)
CallPrefill(r, p) ==
    /\ boot = "serving" /\ history.calls < MaxCalls
    /\ CASE kind = "cpu_numpy" -> NumpyPrefill(r, p)
         [] kind \in {"ort", "ort_kv"} -> OrtPrefill(r, p)
         [] kind \in Gpu -> GpuPrefill(r, p)
         [] kind = "tpu" -> TpuAnswers(r)
         [] kind = "special_module" -> ModuleAnswers(r)
         [] kind = "ggml" -> GGMLPrefill(r, p)
    /\ fed' = [fed EXCEPT ![r] = p]
    /\ history' =
        [calls |-> history.calls + 1,
         again |-> IF cache[r] = None THEN history.again ELSE history.again \cup {r},
         shared |-> (history.shared \ {r}) \cup InTheWay(r)]
    /\ UNCHANGED platform

CallDecode(r) ==
    /\ boot = "serving" /\ got[r] # None /\ Len(fed[r]) < MaxFed
    /\ CASE kind = "cpu_numpy" -> NumpyDecode(r)
         [] kind \in {"ort", "ort_kv"} -> OrtDecode(r)
         [] kind \in Gpu -> GpuDecode(r)
         [] kind = "tpu" -> TpuAnswers(r)
         [] kind = "ggml" -> GGMLDecode(r)
    /\ fed' = [fed EXCEPT ![r] = @ \o Token(r)]
    /\ history' = [history EXCEPT !.shared = @ \cup InTheWay(r)]
    /\ UNCHANGED platform

\* The hook of the backends that have one; nothing under engine/ calls it.
CallFree(r) ==
    /\ boot = "serving" /\ got[r] # None
    /\ \/ kind = "ggml" /\ GGMLFree(r)
       \/ kind \in {"ort", "ort_kv"} /\ OrtFree(r)
    /\ got' = [got EXCEPT ![r] = None]
    /\ history' = [history EXCEPT !.again = @ \ {r}]
    /\ UNCHANGED <<platform, fed>>

\* close() drops what is kept; later calls raise.
Close ==
    /\ boot = "serving" /\ boot' = "closed"
    /\ cache' = Forgotten /\ stream' = <<>>
    /\ got' = [r \in Requests |-> None]
    /\ UNCHANGED <<machine, plan, kind, window, fed, history>>

Prompts(r) == {[i \in 1..n |-> r] : n \in 1..MaxPrompt}

BackendsNext ==
    \/ \E prefer \in Prefer, spec \in Specs : Bootstrap(prefer, spec)
    \/ Serve \/ Close
    \/ \E asked \in Asked, trained \in Trained : LoadDirect(asked, trained)
    \/ \E r \in Requests : CallDecode(r) \/ CallFree(r) \/ \E p \in Prompts(r) : CallPrefill(r, p)

BackendsSpec == BackendsInit /\ [][BackendsNext]_backendsVars

-----------------------------------------------------------------------------
(* What is kept is tokens, the stream stays inside the window, and a       *)
(* backend serves that bootstrap can have chosen.                          *)
Typed ==
    /\ boot \in {"start", "booted", "failed", "serving", "closed"}
    /\ kind \in Kinds
    /\ Len(stream) <= window
    /\ \A r \in Requests : cache[r] # None => kind \notin Gpu \cup {"tpu", "special_module"}

(* The plan of plan_placement (orchestrator.py:71-133) cuts the layers     *)
(* without gap or overlap, puts no more on an accelerator than 85% of its  *)
(* memory holds and no layer less than would fit, and its blocks hold the  *)
(* tokens asked for, though they are split.                                *)
FittingShares(spec, d) == {n \in 0..spec.layers : n * LayerBytes(spec) <= Vram(d)}
PlanFits ==
    plan # None =>
        LET devices == ProfileSystem(machine)
            on(a, l) == a[2] <= l /\ l < a[3]
            share == {l \in 0..(plan.spec.layers - 1) :
                        \E a \in plan.placed.assignments : a[1] # "cpu" /\ on(a, l)}
            accelerated == OfKind(devices, "gpu") \cup OfKind(devices, "tpu") # {}
        IN  /\ \A l \in 0..(plan.spec.layers - 1) :
                    Cardinality({a \in plan.placed.assignments : on(a, l)}) = 1
            /\ accelerated =>
                Cardinality(share) = Max(FittingShares(plan.spec, Best(devices)))
            /\ (plan.placed.device + plan.placed.host) * 16 >= KVTokens
            /\ \A a \in plan.placed.assignments : a[1] = RootDevice(plan.placed) => a[2] = 0

(* The logits a request gets are computed from exactly the tokens it fed   *)
(* since its prefill (generation.py:59, :96), whatever other requests do,  *)
(* except where a backend cannot know them: the GPU backends keep no past  *)
(* and the TPU's has no model, numpy takes a prompt of a multiple of the   *)
(* hidden size for hidden states, ONNX with a KV cache continues an id     *)
(* that was not freed, and llama.cpp's one stream is everybody's.  The      *)
(* state is well-typed in any case.                                        *)
Excused(r) ==
    \/ kind \in Gpu /\ Len(got[r]) < Len(fed[r])
    \/ kind = "tpu"
    \/ kind = "cpu_numpy" /\ "row" \in {got[r][i] : i \in DOMAIN got[r]}
    \/ kind = "ort_kv" /\ r \in history.again
    \/ kind = "ggml" /\ r \in history.shared
OwnContext == Typed /\ \A r \in Requests : got[r] # None => got[r] = fed[r] \/ Excused(r)

=============================================================================
