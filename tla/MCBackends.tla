----------------------------- MODULE MCBackends -----------------------------
(* Machines and models for Backends. *)
EXTENDS Backends, TLC

SomeMachines ==
    [system : {"linux", "windows"}, nvidia : {0, 8}, amd : {0, 3, 8}, intel : BOOLEAN,
     tpu : BOOLEAN, other : {0}, probes : {{}, {"cuda"}, {"rocm"}},
     wheels : {{}, {"ort"}, {"cuda"}, {"rocm"}, {"dml"}, {"jax"}},
     path : {"onnx", "kv", "npz", "dir", "none"}]

AnyBackend == Gpu \cup {None, "cpu_numpy", "ort", "tpu", "special_module", "ggml"}
AnyRequest == Permutations(Requests)
SomeSpecs == [layers : {1, 5}, bytes : {1, 2}, quant : {"q4", "none"}]

=============================================================================
