----------------------------- MODULE Placement -----------------------------
(***************************************************************************)
(* Where the layers of a model and the blocks of its cache go              *)
(* (engine/orchestrator.py), from the devices that the profiler lists      *)
(* (engine/profiler.py).  A device is a record of its kind, its name, its  *)
(* memory and its score.  Sizes are in hundredths of a unit of memory, so  *)
(* that the code's decimal factors are integers; the rounding of its       *)
(* floating-point numbers is left out.                                     *)
(***************************************************************************)
EXTENDS Integers, Sequences, FiniteSetsExt

CONSTANT
    Unit        \* bound: the memory of one chip, in units of memory

ASSUME PlacementAssumption == Unit \in Nat

-----------------------------------------------------------------------------
(* The probes.  What a machine answers to them is a record of facts: its   *)
(* system, the adapters its tools report, and hints of the environment.    *)
Device(kind, name, mem, score) == [kind |-> kind, name |-> name, mem |-> mem, score |-> score]

DetectCpu(m) == <<Device("cpu", "cpu", Unit, 1)>>
\* nvidia-smi and rocm-smi report the memory, which is the score too.
DetectNvidia(m) == IF m.nvidia = 0 THEN <<>> ELSE <<Device("gpu", "nvidia", m.nvidia, m.nvidia)>>
DetectAmd(m) == IF m.amd = 0 THEN <<>> ELSE <<Device("gpu", "amd", m.amd, m.amd)>>
DetectIntel(m) ==
    IF m.intel /\ m.system = "linux"
    THEN <<Device("gpu", "intel", Unit \div 4, 1), Device("npu", "intel", 0, 1)>>
    ELSE <<>>
\* Without a hint, the PCI bus in /sys counts as one.
DetectTpu(m) ==
    IF m.tpu \/ m.system = "linux" THEN <<Device("tpu", "tpu", Unit, 8)>> ELSE <<>>
DetectDxgi(m) ==
    IF m.system = "windows" /\ m.other > 0 THEN <<Device("gpu", "generic", m.other, 1)>> ELSE <<>>

ProfileSystem(m) ==
    DetectCpu(m) \o DetectNvidia(m) \o DetectAmd(m) \o DetectIntel(m) \o DetectTpu(m)
        \o DetectDxgi(m)

\* The places of the devices of a kind.
OfKind(devices, kind) == {i \in DOMAIN devices : devices[i].kind = kind}

-----------------------------------------------------------------------------
QuantPercent(quant) ==
    CASE quant = "q4" -> 50 [] quant = "q3" -> 40 [] quant = "q8" -> 75 [] quant = "q2" -> 30
      [] OTHER -> 100

LayerBytes(spec) == spec.bytes * QuantPercent(spec.quant)
ModelBytes(spec) == spec.layers * LayerBytes(spec)

\* HEADROOM: 85% of a device's memory.
Vram(d) == 85 * d.mem

\* The first GPU of the highest score; a TPU only where there is no GPU.
Best(devices) ==
    LET gpus == OfKind(devices, "gpu")
        top == {i \in gpus : \A j \in gpus : devices[j].score <= devices[i].score}
    IN  devices[Min(IF gpus # {} THEN top ELSE OfKind(devices, "tpu"))]

\* Fault: the share is rounded up.
LayersRoundedUp(spec, d) ==
    Min({spec.layers, (Vram(d) * spec.layers + ModelBytes(spec) - 1) \div ModelBytes(spec)})

LayersThatFit(spec, d) ==
    Min({spec.layers, (Vram(d) * spec.layers) \div ModelBytes(spec)})

KVBlocks(tokens, size) == (tokens + size - 1) \div size

\* Layer ranges are pairs (first, end); a plan assigns at most one a device.
Plan(accelerator, n, layers, onDevice, onHost) ==
    [assignments |-> {a \in {<<accelerator, 0, n>>, <<"cpu", n, layers>>} : a[2] < a[3]},
     device |-> onDevice, host |-> onHost]

(* plan_placement: all layers on the best accelerator, or as many as fit   *)
(* there, or none.                                                         *)
PlanPlacement(spec, devices, tokens, size) ==
    LET need == KVBlocks(tokens, size)
        none == OfKind(devices, "gpu") \cup OfKind(devices, "tpu") = {}
        best == Best(devices)
        n == LayersThatFit(spec, best)
        L == spec.layers
    IN  IF none THEN Plan("cpu", 0, L, 0, Max({need, 256}))
        ELSE IF Vram(best) >= ModelBytes(spec) THEN Plan(best.name, L, L, need, 0)
        ELSE IF n > 0 THEN Plan(best.name, n, L, need \div 2, Max({need - need \div 2, 64}))
        ELSE Plan("cpu", 0, L, 0, need)

RootDevice(plan) == (CHOOSE a \in plan.assignments : a[2] = 0)[1]

=============================================================================
