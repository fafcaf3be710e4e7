------------------------------ MODULE Embedder -------------------------------
(***************************************************************************)
(* The Embedder of ctx_semantic/embedder.py: one object shared by the      *)
(* worker threads of a process, loaded on first use on the GPU or on the   *)
(* CPU, and rebuilt on the CPU when the GPU fails while embedding.  The    *)
(* model and the reported device are two attributes, written one after the *)
(* other and read without a lock.                                          *)
(*                                                                         *)
(* A model is known by the device it computes on.  Whether a load or a     *)
(* batch fails is the environment's choice, on either device.              *)
(***************************************************************************)
EXTENDS Naturals

CONSTANTS
    Threads,        \* threads that call embed_batch or embed_query
    Profiles,       \* whether the CUDA libraries preload: a subset of BOOLEAN
    None,           \* no model, no device, no outcome
    MaxBatches      \* bound: batches of EMBED_BATCH_SIZE texts in one call

ASSUME EmbedderAssumption ==
    /\ Profiles \subseteq BOOLEAN
    /\ None \notin {"cuda", "cpu", "ok", "raised"}
    /\ MaxBatches \in Nat \ {0}

VARIABLES
    cudaLibs,   \* the outcome of _preload_cuda_libs in this process
    model,      \* the device of self._model, None before the first load
    device,     \* self._device
    pc,         \* per thread: the next step of its call
    call,       \* per thread: the local state of its call
    races       \* history: which races there were, of "calls" or of "loads"

vars == <<cudaLibs, model, device, pc, call, races>>

\* loaded: the device of the local model; total, left: batches of the call and
\* those still to embed; pass: the first or the second _embed_all; cpuFailed:
\* did something fail on the CPU; outcome: how the last call ended.
Idle == [loaded |-> None, total |-> 0, left |-> 0, pass |-> 0,
         cpuFailed |-> FALSE, outcome |-> None]

Goto(t, from, to) == pc[t] = from /\ pc' = [pc EXCEPT ![t] = to]

End(t, outcome) ==
    /\ pc' = [pc EXCEPT ![t] = "idle"]
    /\ call' = [call EXCEPT ![t] = [Idle EXCEPT !.outcome = outcome,
                                                !.cpuFailed = call[t].cpuFailed]]

\* The CPU failed under this call, which raises.
CpuRaises(t) ==
    /\ pc' = [pc EXCEPT ![t] = "idle"]
    /\ call' = [call EXCEPT ![t] = [Idle EXCEPT !.outcome = "raised",
                                                !.cpuFailed = TRUE]]

Init ==
    /\ cudaLibs \in Profiles
    /\ model = None
    /\ device = None
    /\ pc = [t \in Threads |-> "idle"]
    /\ call = [t \in Threads |-> Idle]
    /\ races = {}

Loading == {"preload", "loadCuda", "loadCpu", "assign"}

\* Two calls under way at once are a race of calls; two that both found no
\* model are a race of loads.
NewRaces(t) ==
    LET others == {u \in Threads \ {t} : pc[u] # "idle"}
    IN  {"calls" : u \in others}
        \cup {"loads" : u \in {v \in others : model = None /\ pc[v] \in Loading}}

-----------------------------------------------------------------------------
(* embed_batch and _ensure_loaded *)

\* Bug: one batch too many.
CallRoundsUp(t) ==
    /\ Goto(t, "idle", IF model = None THEN "preload" ELSE "embed")
    /\ \E n \in 1 .. MaxBatches :
           call' = [call EXCEPT ![t] = [Idle EXCEPT !.total = n, !.left = n + 1, !.pass = 1]]
    /\ races' = races \cup NewRaces(t)
    /\ UNCHANGED <<cudaLibs, model, device>>

\* A call with at least one text; the check of _ensure_loaded.
Call(t) ==
    /\ Goto(t, "idle", IF model = None THEN "preload" ELSE "embed")
    /\ \E n \in 1 .. MaxBatches :
           call' = [call EXCEPT ![t] = [Idle EXCEPT !.total = n, !.left = n, !.pass = 1]]
    /\ races' = races \cup NewRaces(t)
    /\ UNCHANGED <<cudaLibs, model, device>>

Preload(t) ==
    /\ Goto(t, "preload", IF cudaLibs THEN "loadCuda" ELSE "loadCpu")
    /\ UNCHANGED <<cudaLibs, model, device, call, races>>

\* The CUDA model loads, embeds the probe and shows VRAM: the device is set.
LoadCuda(t) ==
    /\ Goto(t, "loadCuda", "assign")
    /\ device' = "cuda"
    /\ call' = [call EXCEPT ![t].loaded = "cuda"]
    /\ UNCHANGED <<cudaLibs, model, races>>

\* Any failure of the CUDA attempt, a silent fallback included.
LoadCudaFails(t) ==
    /\ Goto(t, "loadCuda", "loadCpu")
    /\ UNCHANGED <<cudaLibs, model, device, call, races>>

LoadCpu(t) ==
    /\ Goto(t, "loadCpu", "assign")
    /\ device' = "cpu"
    /\ call' = [call EXCEPT ![t].loaded = "cpu"]
    /\ UNCHANGED <<cudaLibs, model, races>>

LoadCpuFails(t) ==
    /\ pc[t] = "loadCpu"
    /\ CpuRaises(t)
    /\ UNCHANGED <<cudaLibs, model, device, races>>

Assign(t) ==
    /\ Goto(t, "assign", "embed")
    /\ model' = call[t].loaded
    /\ call' = [call EXCEPT ![t].loaded = None]
    /\ UNCHANGED <<cudaLibs, device, races>>

-----------------------------------------------------------------------------
(* _embed_all, and the retry on the CPU *)

\* One batch, on whatever model the attribute holds at that moment.
EmbedBatch(t) ==
    /\ pc[t] = "embed"
    /\ IF call[t].left = 1
         THEN End(t, "ok")
         ELSE call' = [call EXCEPT ![t].left = @ - 1] /\ pc' = pc
    /\ UNCHANGED <<cudaLibs, model, device, races>>

\* A batch fails in the first pass: the handler looks at the device next.
EmbedFails(t) ==
    /\ call[t].pass = 1
    /\ Goto(t, "embed", "failed")
    /\ call' = [call EXCEPT ![t].cpuFailed = model = "cpu"]
    /\ UNCHANGED <<cudaLibs, model, device, races>>

\* Bug: the retry on the CPU is repeated until it succeeds.
RetryForEver(t) ==
    /\ call[t].pass = 2
    /\ Goto(t, "embed", "rebuild")
    /\ UNCHANGED <<cudaLibs, model, device, call, races>>

\* A batch fails in the second pass: nothing catches it.
RetryFails(t) ==
    /\ pc[t] = "embed"
    /\ call[t].pass = 2
    /\ IF model = "cpu" THEN CpuRaises(t) ELSE End(t, "raised")
    /\ UNCHANGED <<cudaLibs, model, device, races>>

\* Bug: the handler raises on every device.
RaiseAlways(t) ==
    /\ pc[t] = "failed"
    /\ End(t, "raised")
    /\ UNCHANGED <<cudaLibs, model, device, races>>

Raise(t) ==
    /\ pc[t] = "failed"
    /\ device # "cuda"
    /\ End(t, "raised")
    /\ UNCHANGED <<cudaLibs, model, device, races>>

Fallback(t) ==
    /\ device = "cuda"
    /\ Goto(t, "failed", "rebuild")
    /\ UNCHANGED <<cudaLibs, model, device, call, races>>

Rebuild(t) ==
    /\ Goto(t, "rebuild", "flip")
    /\ model' = "cpu"
    /\ UNCHANGED <<cudaLibs, device, call, races>>

RebuildFails(t) ==
    /\ pc[t] = "rebuild"
    /\ CpuRaises(t)
    /\ UNCHANGED <<cudaLibs, model, device, races>>

\* Bug: the rebuild does not flip the device.
FlipForgotten(t) ==
    /\ Goto(t, "flip", "embed")
    /\ call' = [call EXCEPT ![t].left = call[t].total, ![t].pass = 2]
    /\ UNCHANGED <<cudaLibs, model, device, races>>

\* The retry embeds the whole call again, from its first batch.
Flip(t) ==
    /\ Goto(t, "flip", "embed")
    /\ device' = "cpu"
    /\ call' = [call EXCEPT ![t].left = call[t].total, ![t].pass = 2]
    /\ UNCHANGED <<cudaLibs, model, races>>

Step(t) ==
    \/ Preload(t) \/ LoadCuda(t) \/ LoadCudaFails(t) \/ LoadCpu(t) \/ LoadCpuFails(t)
    \/ Assign(t) \/ EmbedBatch(t) \/ EmbedFails(t) \/ RetryFails(t) \/ Raise(t)
    \/ Fallback(t) \/ Rebuild(t) \/ RebuildFails(t) \/ Flip(t)

Next == \E t \in Threads : Call(t) \/ Step(t)

Spec == Init /\ [][Next]_vars

\* A thread inside a call runs on: nothing in it waits.
FairSpec == Spec /\ \A t \in Threads : WF_vars(Step(t))

-----------------------------------------------------------------------------
(* Properties *)

Devices == {"cuda", "cpu"}

TypeOK ==
    /\ cudaLibs \in Profiles
    /\ model \in Devices \cup {None}
    /\ device \in Devices \cup {None}
    /\ pc \in [Threads -> {"idle", "preload", "loadCuda", "loadCpu", "assign", "embed",
                           "failed", "rebuild", "flip"}]
    /\ call \in [Threads -> [loaded : Devices \cup {None}, total : 0 .. MaxBatches,
                             left : 0 .. MaxBatches, pass : 0 .. 2,
                             cpuFailed : BOOLEAN, outcome : {"ok", "raised", None}]]
    /\ races \subseteq {"calls", "loads"}

\* With no call under way the reported device is the one the model computes
\* on: the property's docstring says "Device actually in use"
\* (embedder.py:163-166).
DeviceIsInUse ==
    (\A t \in Threads : pc[t] = "idle") /\ model # None => device = model

\* It is so without CUDA libraries, and with them as long as no two first
\* calls loaded at once, however calls overlap later (embedder.py:182-229).
DeviceIsInUseUnlessLoadsRace ==
    (cudaLibs => "loads" \notin races) => DeviceIsInUse

\* A call raises only after the CPU failed too: a CUDA-time failure rebuilds
\* on the CPU and retries (embedder.py:242-244).
CudaFailureFallsBack ==
    \A t \in Threads : call[t].outcome = "raised" => call[t].cpuFailed

\* It is so without CUDA libraries, and with them as long as calls come one
\* after the other (embedder.py:249-258).
FallsBackUnlessCallsRace ==
    (cudaLibs => "calls" \notin races) => CudaFailureFallsBack

\* Every call ends, however its batches and its retry fail (embedder.py:238-259).
CallsEnd == \A t \in Threads : pc[t] # "idle" ~> pc[t] = "idle"
=============================================================================
