---------------------------- MODULE EmbedderProofs ----------------------------
(***************************************************************************)
(* The safety properties of Embedder, for any number of threads and        *)
(* batches.  The invariant says what the absence of a race leaves of the   *)
(* ways two attributes, written one after the other, can disagree.         *)
(***************************************************************************)
EXTENDS Embedder, TLAPS

\* Without a model every call is still loading one.
ModelInv ==
    /\ model = None => \A t \in Threads : pc[t] \in {"idle"} \cup Loading
    /\ model # None => device # None
    /\ \A t \in Threads : pc[t] = "assign" => call[t].loaded # None /\ device # None

\* Without the CUDA libraries nothing is ever on the GPU.
CpuInv ==
    ~ cudaLibs =>
        /\ model # "cuda" /\ device # "cuda"
        /\ \A t \in Threads : /\ pc[t] \notin {"loadCuda", "rebuild", "flip"}
                              /\ call[t].loaded # "cuda"
                              /\ call[t].pass # 2

\* What the history of races says of the threads.
RaceInv ==
    /\ "loads" \in races => "calls" \in races
    /\ "calls" \notin races =>
          \A t, u \in Threads : pc[t] # "idle" /\ pc[u] # "idle" => t = u
    /\ "loads" \notin races =>
          \A t, u \in Threads : pc[t] \in Loading =>
              model = None /\ (pc[u] \in Loading => t = u)

\* If loads did not race, the two attributes differ only between the two
\* assignments of _rebuild_on_cpu.
DeviceInv ==
    "loads" \notin races =>
        /\ model # None /\ device # model =>
              model = "cpu" /\ \E t \in Threads : pc[t] = "flip"
        /\ \A t \in Threads : /\ pc[t] = "assign" => call[t].loaded = device
                              /\ pc[t] = "flip" => model = "cpu"

\* If calls did not race, a failure of the CPU is behind every raise that is
\* still to come.
FallInv ==
    (cudaLibs => "calls" \notin races) =>
        \A t \in Threads :
            /\ call[t].outcome = "raised" => call[t].cpuFailed
            /\ pc[t] = "failed" /\ model = "cpu" => call[t].cpuFailed
            /\ pc[t] = "embed" /\ call[t].pass = 2 => model = "cpu"

\* A call under way has a batch to embed and no outcome yet; one that loads is
\* in its first pass.
BatchInv ==
    \A t \in Threads :
        /\ pc[t] # "idle" => call[t].left \in 1 .. call[t].total /\ call[t].outcome = None
        /\ pc[t] \in Loading => call[t].pass = 1

Inv ==
    /\ TypeOK
    /\ BatchInv
    /\ ModelInv
    /\ CpuInv
    /\ RaceInv
    /\ DeviceInv
    /\ FallInv

\* The constants are used, and these two sets are opened, in every step below.
USE EmbedderAssumption DEF Devices, Loading

\* The type of a call.
Calls == [loaded : Devices \cup {None}, total : 0 .. MaxBatches, left : 0 .. MaxBatches,
          pass : 0 .. 2, cpuFailed : BOOLEAN, outcome : {"ok", "raised", None}]

LEMMA IdleCall == Idle \in Calls
BY DEF Idle, Calls

\* A record of a call with one field set to a value of its type.
LEMMA CallUpdate ==
    ASSUME NEW c \in Calls
    PROVE  /\ \A o \in {"ok", "raised", None} : [c EXCEPT !.outcome = o] \in Calls
           /\ \A b \in BOOLEAN : [c EXCEPT !.cpuFailed = b] \in Calls
           /\ \A n \in 0 .. MaxBatches : [c EXCEPT !.total = n] \in Calls
           /\ \A n \in 0 .. MaxBatches : [c EXCEPT !.left = n] \in Calls
           /\ \A n \in 0 .. 2 : [c EXCEPT !.pass = n] \in Calls
<1>1. \A o \in {"ok", "raised", None} : [c EXCEPT !.outcome = o] \in Calls
  BY DEF Calls
<1>2. \A b \in BOOLEAN : [c EXCEPT !.cpuFailed = b] \in Calls
  BY DEF Calls
<1>3. \A n \in 0 .. MaxBatches : [c EXCEPT !.total = n] \in Calls
  BY DEF Calls
<1>4. \A n \in 0 .. MaxBatches : [c EXCEPT !.left = n] \in Calls
  BY DEF Calls
<1>5. \A n \in 0 .. 2 : [c EXCEPT !.pass = n] \in Calls
  BY DEF Calls
<1>6. QED
  BY <1>1, <1>2, <1>3, <1>4, <1>5

\* The record a call leaves behind when it ends: it is a call.
LEMMA EndedCall ==
    ASSUME NEW o \in {"ok", "raised", None}, NEW b \in BOOLEAN
    PROVE  [Idle EXCEPT !.outcome = o, !.cpuFailed = b] \in Calls
<1>1. [Idle EXCEPT !.outcome = o] \in Calls
  BY IdleCall, CallUpdate
<1>2. QED
  BY <1>1, CallUpdate

\* A call under way.
LEMMA CallType ==
    ASSUME TypeOK, NEW t \in Threads
    PROVE  /\ call \in [Threads -> Calls]
           /\ call[t] \in Calls
BY DEF TypeOK, Calls

LEMMA InitInv == Init => Inv
BY DEF Init, Inv, TypeOK, BatchInv, ModelInv, CpuInv, RaceInv, DeviceInv, FallInv, Idle

LEMMA CallStep ==
    ASSUME NEW t \in Threads, Inv, Call(t)
    PROVE  Inv'
<1>1. TypeOK'
  <2>1. call' \in [Threads -> Calls]
    <3>1. PICK n \in 1 .. MaxBatches :
              call' = [call EXCEPT ![t] = [Idle EXCEPT !.total = n, !.left = n, !.pass = 1]]
      BY DEF Call
    <3>2. n \in 0 .. MaxBatches /\ 1 \in 0 .. 2
      OBVIOUS
    <3>3. [Idle EXCEPT !.total = n] \in Calls
      BY <3>2, IdleCall, CallUpdate
    <3>4. [Idle EXCEPT !.total = n, !.left = n] \in Calls
      BY <3>2, <3>3, CallUpdate
    <3>5. [Idle EXCEPT !.total = n, !.left = n, !.pass = 1] \in Calls
      BY <3>2, <3>4, CallUpdate
    <3>6. QED
      BY <3>1, <3>5, CallType DEF Inv
  <2>2. QED
    BY <2>1 DEF Inv, TypeOK, Calls, Call, Goto, NewRaces
<1>2. BatchInv'
  BY DEF Inv, TypeOK, BatchInv, Call, Goto, Idle
<1>3. ModelInv'
  BY DEF Inv, ModelInv, Call, Goto
<1>4. CpuInv'
  BY DEF Inv, CpuInv, Call, Goto, Idle
<1>5. RaceInv'
  BY DEF Inv, RaceInv, Call, Goto, NewRaces
<1>6. DeviceInv'
  BY DEF Inv, DeviceInv, Call, Goto
<1>7. FallInv'
  BY DEF Inv, TypeOK, BatchInv, FallInv, Call, Goto, Idle
<1>8. QED
  BY <1>1, <1>2, <1>3, <1>4, <1>5, <1>6, <1>7 DEF Inv

LEMMA PreloadStep ==
    ASSUME NEW t \in Threads, Inv, Preload(t)
    PROVE  Inv'
<1>1. TypeOK'
  BY DEF Inv, TypeOK, Preload, Goto
<1>2. BatchInv'
  BY DEF Inv, BatchInv, Preload, Goto
<1>3. ModelInv'
  BY DEF Inv, ModelInv, Preload, Goto
<1>4. CpuInv'
  BY DEF Inv, CpuInv, Preload, Goto
<1>5. RaceInv'
  BY DEF Inv, RaceInv, Preload, Goto
<1>6. DeviceInv'
  BY DEF Inv, DeviceInv, Preload, Goto
<1>7. FallInv'
  BY DEF Inv, FallInv, Preload, Goto
<1>8. QED
  BY <1>1, <1>2, <1>3, <1>4, <1>5, <1>6, <1>7 DEF Inv

LEMMA LoadCudaStep ==
    ASSUME NEW t \in Threads, Inv, LoadCuda(t)
    PROVE  Inv'
<1>1. TypeOK'
  BY DEF Inv, TypeOK, LoadCuda, Goto
<1>2. BatchInv'
  BY DEF Inv, BatchInv, LoadCuda, Goto
<1>3. ModelInv'
  BY DEF Inv, TypeOK, ModelInv, LoadCuda, Goto
<1>4. CpuInv'
  BY DEF Inv, CpuInv, LoadCuda, Goto
<1>5. RaceInv'
  BY DEF Inv, RaceInv, LoadCuda, Goto
<1>6. DeviceInv'
  BY DEF Inv, TypeOK, RaceInv, DeviceInv, LoadCuda, Goto
<1>7. FallInv'
  BY DEF Inv, FallInv, LoadCuda, Goto
<1>8. QED
  BY <1>1, <1>2, <1>3, <1>4, <1>5, <1>6, <1>7 DEF Inv

LEMMA LoadCudaFailsStep ==
    ASSUME NEW t \in Threads, Inv, LoadCudaFails(t)
    PROVE  Inv'
<1>1. TypeOK'
  BY DEF Inv, TypeOK, LoadCudaFails, Goto
<1>2. BatchInv'
  BY DEF Inv, BatchInv, LoadCudaFails, Goto
<1>3. ModelInv'
  BY DEF Inv, ModelInv, LoadCudaFails, Goto
<1>4. CpuInv'
  BY DEF Inv, CpuInv, LoadCudaFails, Goto
<1>5. RaceInv'
  BY DEF Inv, RaceInv, LoadCudaFails, Goto
<1>6. DeviceInv'
  BY DEF Inv, DeviceInv, LoadCudaFails, Goto
<1>7. FallInv'
  BY DEF Inv, FallInv, LoadCudaFails, Goto
<1>8. QED
  BY <1>1, <1>2, <1>3, <1>4, <1>5, <1>6, <1>7 DEF Inv

LEMMA LoadCpuStep ==
    ASSUME NEW t \in Threads, Inv, LoadCpu(t)
    PROVE  Inv'
<1>1. TypeOK'
  BY DEF Inv, TypeOK, LoadCpu, Goto
<1>2. BatchInv'
  BY DEF Inv, BatchInv, LoadCpu, Goto
<1>3. ModelInv'
  BY DEF Inv, TypeOK, ModelInv, LoadCpu, Goto
<1>4. CpuInv'
  BY DEF Inv, CpuInv, LoadCpu, Goto
<1>5. RaceInv'
  BY DEF Inv, RaceInv, LoadCpu, Goto
<1>6. DeviceInv'
  BY DEF Inv, TypeOK, RaceInv, DeviceInv, LoadCpu, Goto
<1>7. FallInv'
  BY DEF Inv, FallInv, LoadCpu, Goto
<1>8. QED
  BY <1>1, <1>2, <1>3, <1>4, <1>5, <1>6, <1>7 DEF Inv

LEMMA LoadCpuFailsStep ==
    ASSUME NEW t \in Threads, Inv, LoadCpuFails(t)
    PROVE  Inv'
<1>1. TypeOK'
  <2>1. call' \in [Threads -> Calls]
    BY CallType, EndedCall DEF Inv, LoadCpuFails, CpuRaises
  <2>2. QED
    BY <2>1 DEF Inv, TypeOK, Calls, LoadCpuFails, CpuRaises
<1>2. BatchInv'
  BY DEF Inv, TypeOK, BatchInv, LoadCpuFails, CpuRaises
<1>3. ModelInv'
  BY DEF Inv, ModelInv, LoadCpuFails, CpuRaises
<1>4. CpuInv'
  BY DEF Inv, CpuInv, LoadCpuFails, CpuRaises, Idle
<1>5. RaceInv'
  BY DEF Inv, RaceInv, LoadCpuFails, CpuRaises
<1>6. DeviceInv'
  BY DEF Inv, DeviceInv, LoadCpuFails, CpuRaises
<1>7. FallInv'
  BY DEF Inv, TypeOK, FallInv, LoadCpuFails, CpuRaises, Idle
<1>8. QED
  BY <1>1, <1>2, <1>3, <1>4, <1>5, <1>6, <1>7 DEF Inv

LEMMA AssignStep ==
    ASSUME NEW t \in Threads, Inv, Assign(t)
    PROVE  Inv'
<1>1. TypeOK'
  BY DEF Inv, TypeOK, Assign, Goto
<1>2. BatchInv'
  BY DEF Inv, BatchInv, Assign, Goto
<1>3. ModelInv'
  BY DEF Inv, TypeOK, ModelInv, Assign, Goto
<1>4. CpuInv'
  BY DEF Inv, CpuInv, Assign, Goto
<1>5. RaceInv'
  BY DEF Inv, TypeOK, RaceInv, Assign, Goto
<1>6. DeviceInv'
  BY DEF Inv, TypeOK, RaceInv, DeviceInv, Assign, Goto
<1>7. FallInv'
  <2> SUFFICES ASSUME cudaLibs => "calls" \notin races, NEW u \in Threads
               PROVE  /\ call'[u].outcome = "raised" => call'[u].cpuFailed
                      /\ pc'[u] = "failed" /\ model' = "cpu" => call'[u].cpuFailed
                      /\ pc'[u] = "embed" /\ call'[u].pass = 2 => model' = "cpu"
    BY DEF FallInv, Assign
  <2>1. call'[u].outcome = "raised" => call'[u].cpuFailed
    BY DEF Inv, FallInv, Assign
  <2>2. pc'[u] = "failed" /\ model' = "cpu" => call'[u].cpuFailed
    BY DEF Inv, TypeOK, ModelInv, CpuInv, RaceInv, FallInv, Assign, Goto
  <2>3. pc'[u] = "embed" /\ call'[u].pass = 2 => model' = "cpu"
    BY DEF Inv, BatchInv, CpuInv, RaceInv, Assign, Goto
  <2>4. QED
    BY <2>1, <2>2, <2>3
<1>8. QED
  BY <1>1, <1>2, <1>3, <1>4, <1>5, <1>6, <1>7 DEF Inv

LEMMA EmbedBatchStep ==
    ASSUME NEW t \in Threads, Inv, EmbedBatch(t)
    PROVE  Inv'
<1>1. TypeOK'
  <2>1. call[t].cpuFailed \in BOOLEAN
    BY CallType DEF Inv, Calls
  <2>2. CASE call[t].left = 1
    <3>1. call' \in [Threads -> Calls]
      BY <2>1, <2>2, CallType, EndedCall DEF Inv, EmbedBatch, End
    <3>2. QED
      BY <2>2, <3>1 DEF Inv, TypeOK, Calls, EmbedBatch, End
  <2>3. CASE call[t].left # 1
    BY <2>3 DEF Inv, TypeOK, BatchInv, EmbedBatch
  <2>4. QED
    BY <2>2, <2>3
<1>2. BatchInv'
  BY DEF Inv, TypeOK, BatchInv, EmbedBatch, End
<1>3. ModelInv'
  BY DEF Inv, TypeOK, ModelInv, EmbedBatch, End
<1>4. CpuInv'
  <2>1. CASE call[t].left = 1
    <3>1. call[t].cpuFailed \in BOOLEAN
      BY CallType DEF Inv, Calls
    <3>2. call'[t] = [Idle EXCEPT !.outcome = "ok", !.cpuFailed = call[t].cpuFailed]
      BY <2>1 DEF Inv, TypeOK, EmbedBatch, End
    <3>3. call'[t].loaded = None /\ call'[t].pass = 0
      BY <3>2 DEF Idle
    <3>4. \A u \in Threads \ {t} : call'[u] = call[u] /\ pc'[u] = pc[u]
      BY <2>1 DEF Inv, TypeOK, EmbedBatch, End
    <3>5. pc'[t] = "idle" /\ cudaLibs' = cudaLibs /\ model' = model /\ device' = device
      BY <2>1 DEF Inv, TypeOK, EmbedBatch, End
    <3>6. QED
      BY <3>3, <3>4, <3>5 DEF Inv, CpuInv
  <2>2. CASE call[t].left # 1
    BY <2>2 DEF Inv, TypeOK, CpuInv, EmbedBatch
  <2>3. QED
    BY <2>1, <2>2
<1>5. RaceInv'
  BY DEF Inv, TypeOK, RaceInv, EmbedBatch, End
<1>6. DeviceInv'
  BY DEF Inv, TypeOK, DeviceInv, EmbedBatch, End
<1>7. FallInv'
  <2> SUFFICES ASSUME cudaLibs => "calls" \notin races, NEW u \in Threads
               PROVE  /\ call'[u].outcome = "raised" => call'[u].cpuFailed
                      /\ pc'[u] = "failed" /\ model' = "cpu" => call'[u].cpuFailed
                      /\ pc'[u] = "embed" /\ call'[u].pass = 2 => model' = "cpu"
    BY DEF FallInv, EmbedBatch
  <2>1. call'[u].outcome = "raised" => call'[u].cpuFailed
    <3>1. CASE u = t
      <4>1. call[t].cpuFailed \in BOOLEAN
        BY CallType DEF Inv, Calls
      <4>2. CASE call[t].left = 1
        <5>1. call'[u] = [Idle EXCEPT !.outcome = "ok", !.cpuFailed = call[t].cpuFailed]
          BY <3>1, <4>2 DEF Inv, TypeOK, EmbedBatch, End
        <5>2. call'[u].outcome = "ok"
          BY <5>1 DEF Idle
        <5>3. QED
          BY <5>2
      <4>3. CASE call[t].left # 1
        BY <3>1, <4>3 DEF Inv, TypeOK, BatchInv, EmbedBatch
      <4>4. QED
        BY <4>2, <4>3
    <3>2. CASE u # t
      BY <3>2 DEF Inv, TypeOK, FallInv, EmbedBatch, End
    <3>3. QED
      BY <3>1, <3>2
  <2>2. pc'[u] = "failed" /\ model' = "cpu" => call'[u].cpuFailed
    BY DEF Inv, TypeOK, RaceInv, FallInv, EmbedBatch, End
  <2>3. pc'[u] = "embed" /\ call'[u].pass = 2 => model' = "cpu"
    BY DEF Inv, TypeOK, BatchInv, FallInv, EmbedBatch, End
  <2>4. QED
    BY <2>1, <2>2, <2>3
<1>8. QED
  BY <1>1, <1>2, <1>3, <1>4, <1>5, <1>6, <1>7 DEF Inv

LEMMA EmbedFailsStep ==
    ASSUME NEW t \in Threads, Inv, EmbedFails(t)
    PROVE  Inv'
<1>1. TypeOK'
  <2>1. (model = "cpu") \in BOOLEAN
    OBVIOUS
  <2>2. \A b \in BOOLEAN : [call[t] EXCEPT !.cpuFailed = b] \in Calls
    BY CallType DEF Inv, Calls
  <2>3. call' \in [Threads -> Calls]
    BY <2>1, <2>2, CallType DEF Inv, EmbedFails
  <2>4. QED
    BY <2>3 DEF Inv, TypeOK, Calls, EmbedFails, Goto
<1>2. BatchInv'
  BY DEF Inv, BatchInv, EmbedFails, Goto
<1>3. ModelInv'
  BY DEF Inv, ModelInv, EmbedFails, Goto
<1>4. CpuInv'
  BY DEF Inv, CpuInv, EmbedFails, Goto
<1>5. RaceInv'
  BY DEF Inv, RaceInv, EmbedFails, Goto
<1>6. DeviceInv'
  BY DEF Inv, DeviceInv, EmbedFails, Goto
<1>7. FallInv'
  <2> SUFFICES ASSUME cudaLibs => "calls" \notin races, NEW u \in Threads
               PROVE  /\ call'[u].outcome = "raised" => call'[u].cpuFailed
                      /\ pc'[u] = "failed" /\ model' = "cpu" => call'[u].cpuFailed
                      /\ pc'[u] = "embed" /\ call'[u].pass = 2 => model' = "cpu"
    BY DEF FallInv, EmbedFails
  <2>1. call'[u].outcome = "raised" => call'[u].cpuFailed
    BY DEF Inv, BatchInv, FallInv, EmbedFails, Goto
  <2>2. pc'[u] = "failed" /\ model' = "cpu" => call'[u].cpuFailed
    <3>1. CASE u = t
      BY <3>1 DEF Inv, TypeOK, EmbedFails
    <3>2. CASE u # t
      BY <3>2 DEF Inv, FallInv, EmbedFails, Goto
    <3>3. QED
      BY <3>1, <3>2
  <2>3. pc'[u] = "embed" /\ call'[u].pass = 2 => model' = "cpu"
    BY DEF Inv, FallInv, EmbedFails, Goto
  <2>4. QED
    BY <2>1, <2>2, <2>3
<1>8. QED
  BY <1>1, <1>2, <1>3, <1>4, <1>5, <1>6, <1>7 DEF Inv

LEMMA RetryFailsStep ==
    ASSUME NEW t \in Threads, Inv, RetryFails(t)
    PROVE  Inv'
<1>1. TypeOK'
  <2>1. call[t].cpuFailed \in BOOLEAN
    BY CallType DEF Inv, Calls
  <2>2. call' \in [Threads -> Calls]
    BY <2>1, CallType, EndedCall DEF Inv, RetryFails, End, CpuRaises
  <2>3. QED
    BY <2>2 DEF Inv, TypeOK, Calls, RetryFails, CpuRaises, End
<1>2. BatchInv'
  BY DEF Inv, TypeOK, BatchInv, RetryFails, CpuRaises, End
<1>3. ModelInv'
  BY DEF Inv, TypeOK, ModelInv, RetryFails, CpuRaises, End
<1>4. CpuInv'
  BY DEF Inv, CpuInv, RetryFails
<1>5. RaceInv'
  BY DEF Inv, TypeOK, RaceInv, RetryFails, CpuRaises, End
<1>6. DeviceInv'
  BY DEF Inv, TypeOK, DeviceInv, RetryFails, CpuRaises, End
<1>7. FallInv'
  <2> SUFFICES ASSUME cudaLibs => "calls" \notin races, NEW u \in Threads
               PROVE  /\ call'[u].outcome = "raised" => call'[u].cpuFailed
                      /\ pc'[u] = "failed" /\ model' = "cpu" => call'[u].cpuFailed
                      /\ pc'[u] = "embed" /\ call'[u].pass = 2 => model' = "cpu"
    BY DEF FallInv, RetryFails
  <2>1. call'[u].outcome = "raised" => call'[u].cpuFailed
    <3>1. CASE u = t
      <4>1. call[t].cpuFailed \in BOOLEAN
        BY CallType DEF Inv, Calls
      <4>2. CASE model = "cpu"
        <5>1. call'[u] = [Idle EXCEPT !.outcome = "raised", !.cpuFailed = TRUE]
          BY <3>1, <4>2 DEF Inv, TypeOK, RetryFails, CpuRaises
        <5>2. QED
          BY <5>1 DEF Idle
      <4>3. CASE model # "cpu"
        BY <4>3 DEF Inv, FallInv, RetryFails
      <4>4. QED
        BY <4>2, <4>3
    <3>2. CASE u # t
      BY <3>2 DEF Inv, TypeOK, FallInv, RetryFails, CpuRaises
    <3>3. QED
      BY <3>1, <3>2
  <2>2. pc'[u] = "failed" /\ model' = "cpu" => call'[u].cpuFailed
    BY DEF Inv, TypeOK, RaceInv, FallInv, RetryFails, CpuRaises
  <2>3. pc'[u] = "embed" /\ call'[u].pass = 2 => model' = "cpu"
    BY DEF Inv, FallInv, RetryFails
  <2>4. QED
    BY <2>1, <2>2, <2>3
<1>8. QED
  BY <1>1, <1>2, <1>3, <1>4, <1>5, <1>6, <1>7 DEF Inv

LEMMA RaiseStep ==
    ASSUME NEW t \in Threads, Inv, Raise(t)
    PROVE  Inv'
<1>1. TypeOK'
  <2>1. call[t].cpuFailed \in BOOLEAN
    BY CallType DEF Inv, Calls
  <2>2. call' \in [Threads -> Calls]
    BY <2>1, CallType, EndedCall DEF Inv, Raise, End
  <2>3. QED
    BY <2>2 DEF Inv, TypeOK, Calls, Raise, End
<1>2. BatchInv'
  BY DEF Inv, TypeOK, BatchInv, Raise, End
<1>3. ModelInv'
  BY DEF Inv, ModelInv, Raise, End
<1>4. CpuInv'
  BY DEF Inv, CpuInv, Raise, End, Idle
<1>5. RaceInv'
  BY DEF Inv, RaceInv, Raise, End
<1>6. DeviceInv'
  BY DEF Inv, DeviceInv, Raise, End
<1>7. FallInv'
  BY DEF Inv, TypeOK, ModelInv, CpuInv, RaceInv, DeviceInv, FallInv, Raise, End
<1>8. QED
  BY <1>1, <1>2, <1>3, <1>4, <1>5, <1>6, <1>7 DEF Inv

LEMMA FallbackStep ==
    ASSUME NEW t \in Threads, Inv, Fallback(t)
    PROVE  Inv'
<1>1. TypeOK'
  BY DEF Inv, TypeOK, Fallback, Goto
<1>2. BatchInv'
  BY DEF Inv, BatchInv, Fallback, Goto
<1>3. ModelInv'
  BY DEF Inv, ModelInv, Fallback, Goto
<1>4. CpuInv'
  BY DEF Inv, CpuInv, Fallback
<1>5. RaceInv'
  BY DEF Inv, RaceInv, Fallback, Goto
<1>6. DeviceInv'
  BY DEF Inv, DeviceInv, Fallback, Goto
<1>7. FallInv'
  BY DEF Inv, FallInv, Fallback, Goto
<1>8. QED
  BY <1>1, <1>2, <1>3, <1>4, <1>5, <1>6, <1>7 DEF Inv

LEMMA RebuildStep ==
    ASSUME NEW t \in Threads, Inv, Rebuild(t)
    PROVE  Inv'
<1>1. TypeOK'
  BY DEF Inv, TypeOK, Rebuild, Goto
<1>2. BatchInv'
  BY DEF Inv, BatchInv, Rebuild, Goto
<1>3. ModelInv'
  BY DEF Inv, ModelInv, Rebuild, Goto
<1>4. CpuInv'
  BY DEF Inv, CpuInv, Rebuild, Goto
<1>5. RaceInv'
  BY DEF Inv, ModelInv, RaceInv, Rebuild, Goto
<1>6. DeviceInv'
  BY DEF Inv, TypeOK, DeviceInv, Rebuild, Goto
<1>7. FallInv'
  BY DEF Inv, CpuInv, RaceInv, FallInv, Rebuild, Goto
<1>8. QED
  BY <1>1, <1>2, <1>3, <1>4, <1>5, <1>6, <1>7 DEF Inv

LEMMA RebuildFailsStep ==
    ASSUME NEW t \in Threads, Inv, RebuildFails(t)
    PROVE  Inv'
<1>1. TypeOK'
  <2>1. call' \in [Threads -> Calls]
    BY CallType, EndedCall DEF Inv, RebuildFails, CpuRaises
  <2>2. QED
    BY <2>1 DEF Inv, TypeOK, Calls, RebuildFails, CpuRaises
<1>2. BatchInv'
  BY DEF Inv, TypeOK, BatchInv, RebuildFails, CpuRaises
<1>3. ModelInv'
  BY DEF Inv, ModelInv, RebuildFails, CpuRaises
<1>4. CpuInv'
  BY DEF Inv, CpuInv, RebuildFails
<1>5. RaceInv'
  BY DEF Inv, RaceInv, RebuildFails, CpuRaises
<1>6. DeviceInv'
  BY DEF Inv, DeviceInv, RebuildFails, CpuRaises
<1>7. FallInv'
  BY DEF Inv, TypeOK, FallInv, RebuildFails, CpuRaises, Idle
<1>8. QED
  BY <1>1, <1>2, <1>3, <1>4, <1>5, <1>6, <1>7 DEF Inv

LEMMA FlipStep ==
    ASSUME NEW t \in Threads, Inv, Flip(t)
    PROVE  Inv'
<1>1. TypeOK'
  <2>1. [call[t] EXCEPT !.left = call[t].total, !.pass = 2] \in Calls
    <3>1. call[t].total \in 0 .. MaxBatches
      BY CallType DEF Inv, Calls
    <3>2. [call[t] EXCEPT !.left = call[t].total] \in Calls
      BY <3>1, CallType, CallUpdate DEF Inv
    <3>3. 2 \in 0 .. 2
      OBVIOUS
    <3>4. QED
      BY <3>2, <3>3, CallUpdate
  <2>2. call' \in [Threads -> Calls]
    BY <2>1, CallType DEF Inv, Flip
  <2>3. QED
    BY <2>2 DEF Inv, TypeOK, Calls, Flip, Goto
<1>2. BatchInv'
  BY DEF Inv, TypeOK, BatchInv, Flip, Goto
<1>3. ModelInv'
  BY DEF Inv, TypeOK, ModelInv, Flip, Goto
<1>4. CpuInv'
  BY DEF Inv, CpuInv, Flip, Goto
<1>5. RaceInv'
  BY DEF Inv, RaceInv, Flip, Goto
<1>6. DeviceInv'
  BY DEF Inv, RaceInv, DeviceInv, Flip, Goto
<1>7. FallInv'
  BY DEF Inv, TypeOK, BatchInv, CpuInv, RaceInv, DeviceInv, FallInv, Flip, Goto
<1>8. QED
  BY <1>1, <1>2, <1>3, <1>4, <1>5, <1>6, <1>7 DEF Inv

LEMMA NextStep == ASSUME Inv, [Next]_vars PROVE Inv'
<1>1. ASSUME NEW t \in Threads, Call(t) \/ Step(t) PROVE Inv'
  BY <1>1, CallStep, PreloadStep, LoadCudaStep, LoadCudaFailsStep, LoadCpuStep,
     LoadCpuFailsStep, AssignStep, EmbedBatchStep, EmbedFailsStep, RetryFailsStep,
     RaiseStep, FallbackStep, RebuildStep, RebuildFailsStep, FlipStep
     DEF Step
<1>2. CASE UNCHANGED vars
  BY <1>2 DEF vars, Inv, TypeOK, BatchInv, ModelInv, CpuInv, RaceInv, DeviceInv, FallInv
<1>3. QED
  BY <1>1, <1>2 DEF Next

-----------------------------------------------------------------------------
\* At every step the model and the reported device differ no more than the
\* races there were account for (embedder.py:182-259).
THEOREM Invariance == Spec => []Inv
<1>1. Init => Inv
  BY InitInv
<1>2. Inv /\ [Next]_vars => Inv'
  BY NextStep
<1>3. QED
  BY <1>1, <1>2, PTL DEF Spec

(* What the program promises *)

\* Every step keeps every variable in its type: a call never embeds more
\* batches than it has, nor in a third pass (embedder.py:238-259).
THEOREM TypeCorrectness == Spec => []TypeOK
BY Invariance, PTL DEF Inv

\* The reported device is the one in use, unless two first calls loaded at
\* once on a machine with CUDA (embedder.py:163-166, 182-229).
THEOREM DeviceIsTruthful == Spec => []DeviceIsInUseUnlessLoadsRace
<1>1. Inv => DeviceIsInUseUnlessLoadsRace
  BY DEF Inv, TypeOK, CpuInv, ModelInv, DeviceInv, DeviceIsInUseUnlessLoadsRace,
         DeviceIsInUse
<1>2. QED
  BY <1>1, Invariance, PTL

\* A call raises only after the CPU failed too, unless calls overlapped on a
\* machine with CUDA (embedder.py:242-258).
THEOREM FallbackWorks == Spec => []FallsBackUnlessCallsRace
<1>1. Inv => FallsBackUnlessCallsRace
  BY DEF Inv, FallInv, FallsBackUnlessCallsRace, CudaFailureFallsBack
<1>2. QED
  BY <1>1, Invariance, PTL
===============================================================================
