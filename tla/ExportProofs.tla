---------------------------- MODULE ExportProofs ----------------------------
(***************************************************************************)
(* Proofs about the export path: for every size of the channels, of the    *)
(* batches and of the limit, and for any number of input threads and sinks,*)
(* every message of a batch is serialized exactly once and no payload is   *)
(* empty or above the limit, while the sinks shrink it.                    *)
(***************************************************************************)
EXTENDS Export, FiniteSetTheorems, TLAPS

-----------------------------------------------------------------------------
(* Slicing *)

\* s cuts the messages from a to k into slices of 1 to m, one after the other.
Tiling(s, a, k, m) ==
  /\ s \in Seq(Nat \X Nat)
  /\ \A i \in 1 .. Len(s) : s[i][2] - s[i][1] \in 1 .. m
  /\ IF s = <<>> THEN a = k
     ELSE /\ s[1][1] = a
          /\ \A i \in 1 .. Len(s) - 1 : s[i][2] = s[i + 1][1]
          /\ s[Len(s)][2] = k

\* The number of slices: the last one is the first to reach the end.
LEMMA SliceCount ==
  ASSUME NEW b \in Nat \ {0}, NEW k \in Nat, NEW c, c = (k + b - 1) \div b
  PROVE  /\ c \in Nat /\ b * c \in Nat /\ k <= b * c
         /\ \A j \in Nat : j < c => j * b < k /\ j * b \in Nat
<1>1. k + b - 1 \in Nat
  OBVIOUS
<1>2. c \in Nat /\ b * c <= k + b - 1 /\ k + b - 1 < b * c + b
  BY <1>1
<1>3. b * c \in Nat /\ k <= b * c
  BY <1>2
<1>4. ASSUME NEW j \in Nat, j < c PROVE j * b < k /\ j * b \in Nat
  <2>1. j + 1 <= c
    BY <1>2, <1>4
  <2>2. b * (j + 1) <= b * c
    BY <1>2, <2>1
  <2>3. b * (j + 1) = j * b + b /\ j * b \in Nat
    OBVIOUS
  <2> QED
    BY <1>2, <1>3, <2>2, <2>3
<1> QED
  BY <1>2, <1>3, <1>4

LEMMA SlicesTile ==
  ASSUME NEW n \in Int, NEW k \in Nat
  PROVE  Tiling(SliceBounds(n, k), 0, k, EffectiveMaxFlows(n))
<1> DEFINE b == EffectiveMaxFlows(n)
           c == (k + b - 1) \div b
           s == SliceBounds(n, k)
<1>1. b \in Nat \ {0}
  BY DEF EffectiveMaxFlows
<1>2. s = [i \in 1 .. c |-> <<(i - 1) * b, IF i * b > k THEN k ELSE i * b>>]
  BY DEF SliceBounds
<1> HIDE DEF b, s
<1>3. /\ c \in Nat /\ b * c \in Nat /\ k <= b * c
      /\ \A j \in Nat : j < c => j * b < k /\ j * b \in Nat
  BY <1>1, SliceCount
<1> HIDE DEF c
<1>4. ASSUME NEW i \in 1 .. c
      PROVE  /\ (i - 1) * b \in Nat /\ i * b \in Nat /\ i * b = (i - 1) * b + b
             /\ (i - 1) * b < k
  <2>1. i - 1 \in Nat /\ i - 1 < c
    BY <1>3
  <2>2. (i - 1) * b < k /\ (i - 1) * b \in Nat
    BY <1>3, <2>1
  <2>3. i * b = (i - 1) * b + b
    BY <1>1, <1>3
  <2> QED
    BY <1>1, <2>2, <2>3
<1>5. s \in Seq(Nat \X Nat) /\ Len(s) = c
  <2>1. s \in [1 .. c -> Nat \X Nat]
    BY <1>2, <1>4
  <2> QED
    BY <1>3, <2>1
<1>6. \A i \in 1 .. c : s[i][1] = (i - 1) * b /\ s[i][2] = IF i * b > k THEN k ELSE i * b
  BY <1>2
<1>7. ASSUME NEW i \in 1 .. c PROVE s[i][2] - s[i][1] \in 1 .. b
  <2> DEFINE u == (i - 1) * b
             v == i * b
  <2>1. u \in Nat /\ v \in Nat /\ v = u + b /\ u < k
    BY <1>4
  <2>2. s[i][1] = u /\ s[i][2] = IF v > k THEN k ELSE v
    BY <1>6
  <2> HIDE DEF u, v
  <2> QED
    BY <1>1, <2>1, <2>2
<1>8. CASE c = 0
  <2>1. k = 0
    BY <1>1, <1>3, <1>8
  <2>2. s = <<>>
    BY <1>5, <1>8
  <2> QED
    BY <1>5, <1>7, <2>1, <2>2 DEF Tiling, b, s
<1>9. CASE c # 0
  <2>1. s # <<>>
    BY <1>3, <1>5, <1>9
  <2>2. s[1][1] = 0
    BY <1>1, <1>3, <1>6, <1>9
  <2>3. ASSUME NEW i \in 1 .. c - 1 PROVE s[i][2] = s[i + 1][1]
    <3>1. i \in 1 .. c /\ i + 1 \in 1 .. c /\ i < c /\ i \in Nat
      BY <1>3
    <3>2. i * b < k
      BY <1>3, <3>1
    <3>3. s[i][2] = i * b
      BY <1>4, <1>6, <3>1, <3>2
    <3>4. s[i + 1][1] = (i + 1 - 1) * b /\ i + 1 - 1 = i
      BY <1>6, <3>1
    <3> QED
      BY <3>3, <3>4
  <2>4. s[c][2] = k
    <3>1. c \in 1 .. c /\ c * b = b * c
      BY <1>1, <1>3, <1>9
    <3> QED
      BY <1>3, <1>6, <3>1
  <2> QED
    BY <1>5, <1>7, <2>1, <2>2, <2>3, <2>4 DEF Tiling, b, s
<1> QED
  BY <1>8, <1>9

LEMMA EmptySlices == ASSUME NEW S, NEW s \in Seq(S) PROVE s = <<>> <=> Len(s) = 0
OBVIOUS

\* Once the first slice is done the rest still cut the rest.
LEMMA TilingTail ==
  ASSUME NEW s, NEW a, NEW k \in Nat, NEW m \in Nat, Tiling(s, a, k, m), s # <<>>
  PROVE  /\ s[1] = Head(s) /\ Head(s)[2] - Head(s)[1] \in 1 .. m
         /\ a = Head(s)[1] /\ a \in Nat /\ Head(s)[2] \in Nat
         /\ Tiling(Tail(s), Head(s)[2], k, m) /\ (Tail(s) = <<>> <=> Len(s) = 1)
<1>1. s \in Seq(Nat \X Nat) /\ Len(s) \in Nat \ {0} /\ s[1] = Head(s) /\ s[1] \in Nat \X Nat
  BY DEF Tiling
<1>2. /\ Tail(s) \in Seq(Nat \X Nat) /\ Len(Tail(s)) = Len(s) - 1
      /\ \A i \in 1 .. Len(s) - 1 : Tail(s)[i] = s[i + 1]
  BY <1>1
<1> DEFINE t == Tail(s)
<1> HIDE DEF t
<1>3. /\ t \in Seq(Nat \X Nat) /\ Len(t) = Len(s) - 1 /\ Len(t) \in Nat
      /\ \A i \in 1 .. Len(t) : t[i] = s[i + 1] /\ i + 1 \in 1 .. Len(s)
  BY <1>1, <1>2 DEF t
<1>4. \A i \in 1 .. Len(t) : t[i][2] - t[i][1] \in 1 .. m
  BY <1>3 DEF Tiling
<1>5. t = <<>> <=> Len(s) = 1
  <2>1. t = <<>> <=> Len(t) = 0
    BY <1>3, EmptySlices, Zenon
  <2> QED
    BY <1>1, <1>3, <2>1, SMTT(30)
<1>6. /\ s[1][1] = a /\ s[Len(s)][2] = k /\ s[1][2] - s[1][1] \in 1 .. m
      /\ \A i \in 1 .. Len(s) - 1 : s[i][2] = s[i + 1][1]
  <2>1. /\ s[1][1] = a /\ s[Len(s)][2] = k
        /\ \A i \in 1 .. Len(s) - 1 : s[i][2] = s[i + 1][1]
        /\ \A i \in 1 .. Len(s) : s[i][2] - s[i][1] \in 1 .. m
    BY Zenon DEF Tiling
  <2>2. 1 \in 1 .. Len(s)
    BY <1>1
  <2> QED
    BY <2>1, <2>2, Zenon
<1>7. Tiling(t, s[1][2], k, m)
  <2>1. CASE Len(s) = 1
    BY <1>3, <1>4, <1>5, <1>6, <2>1 DEF Tiling
  <2>2. CASE Len(s) # 1
    <3>1. t[1][1] = s[1][2]
      <4>1. 1 \in 1 .. Len(t) /\ 1 \in 1 .. Len(s) - 1 /\ 1 + 1 = 2
        BY <1>1, <1>3, <2>2
      <4> QED
        BY <1>3, <1>6, <4>1, Zenon
    <3>2. ASSUME NEW i \in 1 .. Len(t) - 1 PROVE t[i][2] = t[i + 1][1]
      <4>1. /\ i \in 1 .. Len(t) /\ i + 1 \in 1 .. Len(t) /\ i + 1 \in 1 .. Len(s) - 1
        BY <1>3
      <4>2. s[i + 1][2] = s[(i + 1) + 1][1]
        BY <1>6, <4>1
      <4> QED
        BY <1>3, <4>1, <4>2
    <3>3. t[Len(t)][2] = k
      <4>1. Len(t) \in 1 .. Len(t) /\ Len(t) + 1 = Len(s)
        BY <1>1, <1>3, <2>2
      <4> QED
        BY <1>3, <1>6, <4>1, Zenon
    <3> QED
      BY <1>3, <1>4, <1>5, <2>2, <3>1, <3>2, <3>3 DEF Tiling
  <2> QED
    BY <2>1, <2>2
<1>8. a \in Nat /\ s[1][2] \in Nat
  BY <1>1, <1>6
<1> QED
  BY <1>1, <1>5, <1>6, <1>7, <1>8 DEF t

LEMMA TilingMono ==
  ASSUME NEW s, NEW a, NEW k, NEW m \in Nat, NEW n \in Nat, m <= n, Tiling(s, a, k, m)
  PROVE  Tiling(s, a, k, n)
<1>1. 1 .. m \subseteq 1 .. n
  OBVIOUS
<1> QED
  BY <1>1, Zenon DEF Tiling

\* What sampling and the filters leave of a batch is a number of messages.
LEMMA LeftType == ASSUME NEW n \in Nat PROVE Left(n) \subseteq Nat
<1>1. SampleRate \in Nat /\ SampleMin \in Nat /\ Filters \in BOOLEAN
  BY ExportAssumption
<1>2. ASSUME NEW k \in Nat PROVE Sampled(k) \in Nat
  <2>1. CASE SampleRate > 1
    <3>1. k \div SampleRate \in Nat
      BY <1>1, <2>1
    <3> QED
      BY <3>1 DEF Sampled
  <2>2. CASE ~(SampleRate > 1)
    BY <2>2 DEF Sampled
  <2> QED
    BY <2>1, <2>2
<1> QED
  BY <1>1, <1>2 DEF Left

-----------------------------------------------------------------------------
(* The inductive invariant *)

Limit == EffectiveMaxFlows(InitMaxFlows)

\* inputChan.
Inputs == inq \in Seq(0 .. MaxBatch) /\ Len(inq) <= InCap

\* The limit never grows.
Limits == /\ maxFlows \in Int /\ EffectiveMaxFlows(maxFlows) <= Limit
          /\ InitMaxFlows >= 1 => maxFlows \in 1 .. InitMaxFlows

\* The sends that are at work and the reports.
Sends == tooBig \in 0 .. TooBigCap /\ flight \in [BOOLEAN -> Nat]

\* The exporters: their slices tile what is left of their batches, they have
\* some just while they export, and the threads that have not been started
\* have none.
Slicing ==
  /\ threads \in InputThreads .. (IF MaxThreads > InputThreads THEN MaxThreads
                                  ELSE InputThreads)
  /\ pc \in [Procs -> {"off", "idle", "select", "export", "record", "returned",
                       "failed", "done"}]
  /\ spans \in [Procs -> Seq(Nat \X Nat)]
  /\ kept \in [Procs -> Nat] /\ handed \in [Procs -> Nat]
  /\ \A p \in Procs : /\ Tiling(spans[p], handed[p], kept[p], Limit)
                      /\ pc[p] = "export" <=> spans[p] # <<>>
  /\ \A w \in Workers : w >= threads => pc[w] = "off"

\* msgsc.
Queue == msgsc \in Seq(Payload) /\ Len(msgsc) <= MsgscCap /\ PayloadsWithinLimit

IInv == Inputs /\ Limits /\ Sends /\ Slicing /\ Queue

LEMMA Constants ==
  /\ {InCap, MsgscCap, TooBigCap, NumSinks, InputThreads} \subseteq Nat \ {0}
  /\ {MaxThreads, MaxBatch, MetricsBatch, RecordLines} \subseteq Nat
  /\ Limit \in Nat \ {0} /\ InitMaxFlows \in Int
  /\ Metrics \in Procs /\ Lambda \in Procs /\ Metrics \notin Workers /\ Lambda \notin Workers
  /\ Metrics # Lambda /\ Workers \subseteq Nat /\ Procs = Workers \cup {Metrics, Lambda}
BY ExportAssumption DEF Limit, EffectiveMaxFlows, Metrics, Lambda, Procs, Workers

LEMMA InitIInv == Init => IInv
<1> SUFFICES ASSUME Init PROVE IInv
  OBVIOUS
<1> USE Constants
<1>1. Inputs /\ Sends
  BY DEF Init, Inputs, Sends
<1>2. Limits
  BY DEF Init, Limits, Limit, EffectiveMaxFlows
<1>3. Queue
  BY DEF Init, Queue, PayloadsWithinLimit
<1>4. Slicing
  <2>1. Tiling(<<>>, 0, 0, Limit)
    BY DEF Tiling
  <2>2. \A p \in Procs : pc[p] # "export" /\ spans[p] = <<>> /\ kept[p] = 0 /\ handed[p] = 0
    BY DEF Init
  <2>3. /\ spans \in [Procs -> Seq(Nat \X Nat)] /\ kept \in [Procs -> Nat]
        /\ handed \in [Procs -> Nat]
    BY DEF Init
  <2>4. /\ threads = InputThreads /\ \A w \in Workers : w >= threads => pc[w] = "off"
    BY DEF Init
  <2>5. pc \in [Procs -> {"off", "idle", "select", "export", "record", "returned",
                          "failed", "done"}]
    BY DEF Init
  <2> QED
    BY <2>1, <2>2, <2>3, <2>4, <2>5, SMTT(30) DEF Slicing
<1> QED
  BY <1>1, <1>2, <1>3, <1>4 DEF IInv

-----------------------------------------------------------------------------
(* One part of it after the other *)

LEMMA InputsStep == ASSUME IInv, [Next]_vars PROVE Inputs'
<1> USE DEF IInv, inVars
<1>1. CASE UNCHANGED inq
  BY <1>1 DEF Inputs
<1>2. CASE Arrive
  BY <1>2, Constants DEF Arrive, Inputs
<1>3. ASSUME NEW w \in Workers, MonitorInput(w) PROVE Inputs'
  BY <1>3, Constants DEF MonitorInput, Inputs
<1>4. ASSUME NEW p \in Procs, MonitorMetrics \/ ExportSlice(p) \/ ExporterDone(p) PROVE Inputs'
  BY <1>1, <1>4 DEF MonitorMetrics, ExportSlice, ExporterDone
<1>5. CASE UNCHANGED vars \/ WatchInput \/ Cancel \/ DoSend
  BY <1>1, <1>5 DEF WatchInput, Cancel, DoSend, vars
<1>6. CASE SinkNext
  BY <1>1, <1>6 DEF SinkNext, SendOk, SendTooBig, SendError
<1>7. CASE LoopNext
  BY <1>1, <1>7 DEF LoopNext, RollupTick, RollupExport, TooBigReport, LoopDone, SenderDone
<1>8. CASE LambdaNext
  BY <1>1, <1>8 DEF LambdaNext, LambdaStart, LambdaRecord, LambdaWait
<1> QED
  BY <1>2, <1>3, <1>4, <1>5, <1>6, <1>7, <1>8 DEF Next, ExporterNext

LEMMA LimitsStep == ASSUME IInv, [Next]_vars PROVE Limits'
<1> USE DEF IInv, loopVars
<1>1. CASE UNCHANGED maxFlows
  BY <1>1 DEF Limits
<1>2. CASE TooBigReport
  <2>1. maxFlows' = Shrunk(maxFlows) /\ maxFlows \in Int
    BY <1>2 DEF TooBigReport, Limits
  <2>2. (3 * maxFlows) \div 4 \in Int /\ ((3 * maxFlows) \div 4 > 1 => (3 * maxFlows) \div 4 <= maxFlows)
    BY <2>1
  <2> QED
    BY <2>1, <2>2, Constants DEF Shrunk, Limits, Limit, EffectiveMaxFlows
<1>3. ASSUME NEW p \in Procs, ExporterNext(p) PROVE Limits'
  BY <1>1, <1>3 DEF ExporterNext, MonitorInput, MonitorMetrics, ExportSlice, ExporterDone
<1>4. CASE UNCHANGED vars \/ Arrive \/ WatchInput \/ Cancel \/ DoSend
  BY <1>1, <1>4 DEF Arrive, WatchInput, Cancel, DoSend, vars
<1>5. CASE SinkNext
  BY <1>1, <1>5 DEF SinkNext, SendOk, SendTooBig, SendError
<1>6. CASE RollupTick \/ RollupExport \/ LoopDone \/ SenderDone
  BY <1>1, <1>6 DEF RollupTick, RollupExport, LoopDone, SenderDone
<1>7. CASE LambdaNext
  BY <1>1, <1>7 DEF LambdaNext, LambdaStart, LambdaRecord, LambdaWait
<1> QED
  BY <1>2, <1>3, <1>4, <1>5, <1>6, <1>7 DEF Next, LoopNext

LEMMA SendsStep == ASSUME IInv, [Next]_vars PROVE Sends'
<1> USE DEF IInv, cbVars
<1>1. CASE UNCHANGED <<tooBig, flight>>
  BY <1>1 DEF Sends
<1>2. CASE TooBigReport
  BY <1>2, Constants DEF TooBigReport, Sends
<1>3. CASE DoSend
  <2>1. PICK k \in {0, NumSinks} : flight' = [flight EXCEPT ![Head(msgsc).cb] = @ + k]
    BY <1>3 DEF DoSend
  <2>2. k \in Nat /\ tooBig' = tooBig /\ flight \in [BOOLEAN -> Nat]
    BY <1>3, <2>1, Constants DEF DoSend, Sends
  <2>3. Head(msgsc).cb \in BOOLEAN
    <3>1. Head(msgsc) \in Payload
      BY <1>3 DEF DoSend, Queue
    <3> QED
      BY <3>1, Zenon DEF Payload
  <2>4. flight[Head(msgsc).cb] + k \in Nat
    BY <2>2, <2>3
  <2>5. flight' \in [BOOLEAN -> Nat]
    BY <2>1, <2>2, <2>4, Zenon
  <2> QED
    BY <2>2, <2>5 DEF Sends
<1>4. ASSUME NEW b \in BOOLEAN, SendOk(b) \/ SendTooBig(b) \/ SendError(b) PROVE Sends'
  <2>1. flight[b] > 0 /\ flight' = [flight EXCEPT ![b] = @ - 1] /\ flight \in [BOOLEAN -> Nat]
    BY <1>4 DEF SendOk, SendTooBig, SendError, EndSend, Sends
  <2>2. flight' \in [BOOLEAN -> Nat]
    <3>1. flight[b] - 1 \in Nat
      BY <2>1
    <3> QED
      BY <2>1, <3>1, Zenon
  <2>3. tooBig' \in 0 .. TooBigCap
    BY <1>4, Constants DEF SendOk, SendTooBig, SendError, Sends
  <2> QED
    BY <2>2, <2>3 DEF Sends
<1>5. ASSUME NEW p \in Procs, ExporterNext(p) PROVE Sends'
  BY <1>1, <1>5 DEF ExporterNext, MonitorInput, MonitorMetrics, ExportSlice, ExporterDone
<1>6. CASE UNCHANGED vars \/ Arrive \/ WatchInput \/ Cancel
  BY <1>1, <1>6 DEF Arrive, WatchInput, Cancel, vars
<1>7. CASE RollupTick \/ RollupExport \/ LoopDone \/ SenderDone
  BY <1>1, <1>7 DEF RollupTick, RollupExport, LoopDone, SenderDone
<1>8. CASE LambdaNext
  BY <1>1, <1>8 DEF LambdaNext, LambdaStart, LambdaRecord, LambdaWait
<1> QED
  BY <1>2, <1>3, <1>4, <1>5, <1>6, <1>7, <1>8 DEF Next, LoopNext, SinkNext

\* An exporter that is not at a batch takes the next one.
LEMMA BeginSlicing ==
  ASSUME IInv, NEW p \in Procs, NEW k \in Nat, pc[p] # "export", pc[p] # "off",
         BeginExport(p, k), threads' = threads
  PROVE  Slicing'
<1> DEFINE s == SliceBounds(maxFlows, k)
<1>1. Tiling(s, 0, k, Limit)
  <2>1. maxFlows \in Int /\ EffectiveMaxFlows(maxFlows) <= Limit
        /\ EffectiveMaxFlows(maxFlows) \in Nat
    BY DEF IInv, Limits, EffectiveMaxFlows
  <2>2. Tiling(s, 0, k, EffectiveMaxFlows(maxFlows))
    BY <2>1, SlicesTile
  <2> QED
    BY <2>1, <2>2, TilingMono, Constants
<1>2. s \in Seq(Nat \X Nat)
  BY <1>1 DEF Tiling
<1>3. /\ spans' = [spans EXCEPT ![p] = s] /\ kept' = [kept EXCEPT ![p] = k]
      /\ handed' = [handed EXCEPT ![p] = 0]
      /\ pc' = [pc EXCEPT ![p] = IF s = <<>> THEN Home(p) ELSE "export"]
  BY DEF BeginExport, Goto
<1> HIDE DEF s
<1>4. Home(p) \in {"record", "select"}
  BY DEF Home
<1>5. /\ spans' \in [Procs -> Seq(Nat \X Nat)] /\ kept' \in [Procs -> Nat]
      /\ handed' \in [Procs -> Nat]
  BY <1>2, <1>3 DEF IInv, Slicing
<1>6. /\ pc' \in [Procs -> {"off", "idle", "select", "export", "record", "returned",
                            "failed", "done"}]
      /\ \A w \in Workers : w >= threads' => pc'[w] = "off"
  BY <1>3, <1>4, Constants DEF IInv, Slicing
<1>7. ASSUME NEW q \in Procs
      PROVE  /\ Tiling(spans'[q], handed'[q], kept'[q], Limit)
             /\ pc'[q] = "export" <=> spans'[q] # <<>>
  <2>1. CASE q = p
    BY <1>1, <1>3, <1>4, <2>1 DEF IInv, Slicing
  <2>2. CASE q # p
    BY <1>3, <2>2 DEF IInv, Slicing
  <2> QED
    BY <2>1, <2>2
<1> QED
  BY <1>5, <1>6, <1>7 DEF IInv, Slicing, Limit

\* An exporter that has no slices goes from one place to another.
LEMMA MoveSlicing ==
  ASSUME IInv, NEW p \in Procs, pc[p] # "export", UNCHANGED <<spans, kept, handed>>,
         NEW l \in {"select", "record", "returned", "failed", "done"},
         pc' = [pc EXCEPT ![p] = l],
         \/ threads' = threads /\ pc[p] # "off"
         \/ threads' = threads + 1 /\ p = threads /\ threads < MaxThreads
  PROVE  Slicing'
<1> DEFINE top == IF MaxThreads > InputThreads THEN MaxThreads ELSE InputThreads
<1>1. /\ threads \in InputThreads .. top /\ InputThreads \in Nat /\ MaxThreads \in Nat
      /\ top \in Nat /\ MaxThreads <= top /\ Workers \subseteq Nat
      /\ \A w \in Workers : w >= threads => pc[w] = "off"
      /\ DOMAIN pc = Procs /\ Workers \subseteq Procs
  <2>1. InputThreads \in Nat /\ MaxThreads \in Nat
    BY Constants
  <2>2. top \in Nat /\ MaxThreads <= top
    BY <2>1
  <2>3. Workers \subseteq Nat /\ Workers \subseteq Procs
    BY Constants, Zenon
  <2>4. /\ threads \in InputThreads .. top /\ DOMAIN pc = Procs
        /\ \A w \in Workers : w >= threads => pc[w] = "off"
    BY Zenon DEF IInv, Slicing
  <2> QED
    BY <2>1, <2>2, <2>3, <2>4
<1> HIDE DEF top
<1>2. threads' \in InputThreads .. top
  <2>1. CASE threads' = threads
    BY <1>1, <2>1
  <2>2. CASE threads' = threads + 1 /\ threads < MaxThreads
    BY <1>1, <2>2
  <2> QED
    BY <2>1, <2>2
<1>5. ASSUME NEW w \in Workers, w >= threads' PROVE pc'[w] = "off"
  <2>1. w >= threads /\ w # p
    BY <1>1, <1>5
  <2> QED
    BY <1>1, <2>1
<1>3. \A q \in Procs : pc'[q] = "export" <=> spans'[q] # <<>>
  BY DEF IInv, Slicing
<1>4. pc' \in [Procs -> {"off", "idle", "select", "export", "record", "returned",
                         "failed", "done"}]
  BY DEF IInv, Slicing
<1> QED
  BY <1>2, <1>3, <1>4, <1>5 DEF IInv, Slicing, Limit, top

\* The first slice of an exporter, and what is left when it is done.
LEMMA FirstSlice ==
  ASSUME IInv, NEW p \in Procs, pc[p] = "export"
  PROVE  /\ Head(spans[p])[2] - Head(spans[p])[1] \in 1 .. Limit
         /\ handed[p] + Head(spans[p])[2] - Head(spans[p])[1] = Head(spans[p])[2]
         /\ Head(spans[p])[2] \in Nat /\ Head(spans[p])[1] \in Nat
         /\ Tiling(Tail(spans[p]), Head(spans[p])[2], kept[p], Limit)
         /\ (Tail(spans[p]) = <<>> <=> Len(spans[p]) = 1)
<1>1. /\ spans[p] # <<>> /\ Tiling(spans[p], handed[p], kept[p], Limit)
      /\ kept[p] \in Nat /\ handed[p] \in Nat /\ Limit \in Nat
  BY Constants DEF IInv, Slicing
<1>2. /\ Head(spans[p])[2] - Head(spans[p])[1] \in 1 .. Limit
      /\ handed[p] = Head(spans[p])[1] /\ Head(spans[p])[2] \in Nat
      /\ Tiling(Tail(spans[p]), Head(spans[p])[2], kept[p], Limit)
      /\ (Tail(spans[p]) = <<>> <=> Len(spans[p]) = 1)
  BY <1>1, TilingTail, Zenon
<1> QED
  BY <1>1, <1>2

LEMMA ExportSlicing ==
  ASSUME IInv, NEW p \in Procs, ExportSlice(p) PROVE Slicing'
<1> DEFINE h == Head(spans[p])
           t == Tail(spans[p])
<1>1. /\ pc[p] = "export" /\ UNCHANGED <<threads, kept>>
      /\ handed' = [handed EXCEPT ![p] = handed[p] + h[2] - h[1]]
      /\ spans' = [spans EXCEPT ![p] = t]
      /\ pc' = [pc EXCEPT ![p] = IF Len(spans[p]) = 1 THEN Home(p) ELSE "export"]
  BY DEF ExportSlice, Goto, IInv, Slicing, inVars
<1>2. /\ handed[p] + h[2] - h[1] = h[2] /\ h[2] \in Nat
      /\ Tiling(t, h[2], kept[p], Limit) /\ (t = <<>> <=> Len(spans[p]) = 1)
  BY <1>1, FirstSlice
<1>3. t \in Seq(Nat \X Nat)
  BY <1>2 DEF Tiling
<1> HIDE DEF h, t
<1>4. Home(p) \in {"record", "select"}
  BY DEF Home
<1>5. /\ spans' \in [Procs -> Seq(Nat \X Nat)] /\ kept' \in [Procs -> Nat]
      /\ handed' \in [Procs -> Nat]
  BY <1>1, <1>2, <1>3 DEF IInv, Slicing
<1>6. /\ pc' \in [Procs -> {"off", "idle", "select", "export", "record", "returned",
                            "failed", "done"}]
      /\ \A w \in Workers : w >= threads' => pc'[w] = "off"
  BY <1>1, <1>4, Constants DEF IInv, Slicing
<1>7. ASSUME NEW q \in Procs
      PROVE  /\ Tiling(spans'[q], handed'[q], kept'[q], Limit)
             /\ pc'[q] = "export" <=> spans'[q] # <<>>
  <2>1. CASE q = p
    BY <1>1, <1>2, <1>4, <2>1 DEF IInv, Slicing
  <2>2. CASE q # p
    BY <1>1, <2>2 DEF IInv, Slicing
  <2> QED
    BY <2>1, <2>2
<1> QED
  BY <1>1, <1>5, <1>6, <1>7 DEF IInv, Slicing, Limit

LEMMA SlicingStep == ASSUME IInv, [Next]_vars PROVE Slicing'
<1> USE DEF inVars, expVars
<1>1. CASE UNCHANGED <<threads, expVars>>
  BY <1>1 DEF IInv, Slicing, Limit
<1>2. ASSUME NEW w \in Workers, MonitorInput(w) PROVE Slicing'
  <2>1. CASE Exporting
    <3>1. Head(inq) \in Nat
      BY <1>2, Constants, SMTT(30) DEF MonitorInput, IInv, Inputs
    <3>2. PICK k \in Left(Head(inq)) : BeginExport(w, k)
      BY <1>2, <2>1 DEF MonitorInput
    <3>3. k \in Nat
      BY <3>1, <3>2, LeftType
    <3>4. pc[w] = "select" /\ threads' = threads /\ w \in Procs
      BY <1>2, Constants DEF MonitorInput
    <3> QED
      BY <3>2, <3>3, <3>4, BeginSlicing
  <2>2. CASE ~Exporting
    BY <1>1, <1>2, <2>2 DEF MonitorInput
  <2> QED
    BY <2>1, <2>2
<1>3. CASE MonitorMetrics
  <2>1. PICK n \in 0 .. MetricsBatch : BeginExport(Metrics, n)
    BY <1>3 DEF MonitorMetrics
  <2>2. n \in Nat /\ Metrics \in Procs /\ pc[Metrics] = "select" /\ threads' = threads
    BY <1>3, <2>1, Constants DEF MonitorMetrics
  <2> QED
    BY <2>1, <2>2, BeginSlicing
<1>4. ASSUME NEW p \in Procs, ExportSlice(p) PROVE Slicing'
  BY <1>4, ExportSlicing
<1>5. ASSUME NEW p \in Procs, ExporterDone(p) PROVE Slicing'
  BY <1>5, MoveSlicing DEF ExporterDone, Goto
<1>6. CASE WatchInput
  <2>1. threads \in Workers /\ pc[threads] = "off" /\ threads \in Procs
    BY <1>6, Constants, SMTT(30) DEF WatchInput, IInv, Slicing, Workers
  <2> QED
    BY <1>6, <2>1, MoveSlicing DEF WatchInput, Goto
<1>7. CASE UNCHANGED vars \/ Arrive \/ Cancel \/ DoSend
  BY <1>1, <1>7 DEF Arrive, Cancel, DoSend, vars
<1>8. CASE SinkNext
  BY <1>1, <1>8 DEF SinkNext, SendOk, SendTooBig, SendError
<1>9. CASE LoopNext
  BY <1>1, <1>9 DEF LoopNext, RollupTick, RollupExport, TooBigReport, LoopDone, SenderDone
<1>10. CASE LambdaStart \/ LambdaWait
  BY <1>10, MoveSlicing, Constants DEF LambdaStart, LambdaWait, Goto
<1>11. CASE LambdaRecord
  <2>1. Lambda \in Procs /\ pc[Lambda] = "record" /\ threads' = threads
    BY <1>11, Constants DEF LambdaRecord
  <2>2. CASE UNCHANGED expVars
    BY <1>1, <2>1, <2>2
  <2>3. CASE Goto(Lambda, "failed") /\ UNCHANGED <<spans, kept, handed>>
    BY <2>1, <2>3, MoveSlicing DEF Goto
  <2>4. ASSUME NEW n \in 0 .. RecordLines, NEW k \in Left(n), BeginExport(Lambda, k)
        PROVE  Slicing'
    <3>1. k \in Nat
      BY LeftType, Constants
    <3> QED
      BY <2>1, <2>4, <3>1, BeginSlicing
  <2> QED
    BY <1>11, <2>2, <2>3, <2>4 DEF LambdaRecord
<1> QED
  BY <1>2, <1>3, <1>4, <1>5, <1>6, <1>7, <1>8, <1>9, <1>10, <1>11
     DEF Next, ExporterNext, LambdaNext

\* A payload goes on msgsc, or the first one is taken off.
LEMMA QueueAppend ==
  ASSUME Queue, NEW x \in Payload, x.kind # "rollup" => x.n \in 1 .. Limit,
         Len(msgsc) < MsgscCap, msgsc' = Append(msgsc, x)
  PROVE  Queue'
<1>1. /\ msgsc \in Seq(Payload) /\ MsgscCap \in Nat /\ Len(msgsc) \in Nat
      /\ \A k \in DOMAIN msgsc : msgsc[k].kind # "rollup" => msgsc[k].n \in 1 .. Limit
  BY Constants DEF Queue, PayloadsWithinLimit, Limit
<1>2. /\ msgsc' \in Seq(Payload) /\ Len(msgsc') = Len(msgsc) + 1
      /\ DOMAIN msgsc' = 1 .. Len(msgsc) + 1 /\ DOMAIN msgsc = 1 .. Len(msgsc)
      /\ msgsc'[Len(msgsc) + 1] = x /\ \A k \in 1 .. Len(msgsc) : msgsc'[k] = msgsc[k]
  BY <1>1
<1>3. ASSUME NEW k \in DOMAIN msgsc', msgsc'[k].kind # "rollup"
      PROVE  msgsc'[k].n \in 1 .. Limit
  <2>1. CASE k = Len(msgsc) + 1
    BY <1>2, <1>3, <2>1
  <2>2. CASE k \in 1 .. Len(msgsc)
    BY <1>1, <1>2, <1>3, <2>2, Zenon
  <2> QED
    BY <1>1, <1>2, <2>1, <2>2
<1>4. Len(msgsc') <= MsgscCap
  BY <1>1, <1>2
<1> QED
  BY <1>2, <1>3, <1>4, Zenon DEF Queue, PayloadsWithinLimit, Limit

LEMMA QueueTail == ASSUME Queue, msgsc # <<>>, msgsc' = Tail(msgsc) PROVE Queue'
<1>1. /\ msgsc \in Seq(Payload) /\ MsgscCap \in Nat /\ Len(msgsc) \in Nat /\ Len(msgsc) <= MsgscCap
      /\ \A k \in DOMAIN msgsc : msgsc[k].kind # "rollup" => msgsc[k].n \in 1 .. Limit
  BY Constants DEF Queue, PayloadsWithinLimit, Limit
<1>2. /\ msgsc' \in Seq(Payload) /\ Len(msgsc') = Len(msgsc) - 1
      /\ \A k \in DOMAIN msgsc' : k + 1 \in DOMAIN msgsc /\ msgsc'[k] = msgsc[k + 1]
  BY <1>1
<1>3. \A k \in DOMAIN msgsc' : msgsc'[k].kind # "rollup" => msgsc'[k].n \in 1 .. Limit
  BY <1>1, <1>2, Zenon
<1>4. Len(msgsc') <= MsgscCap
  BY <1>1, <1>2
<1> QED
  BY <1>2, <1>3, <1>4, Zenon DEF Queue, PayloadsWithinLimit, Limit

LEMMA QueueStep == ASSUME IInv, [Next]_vars PROVE Queue'
<1>1. CASE UNCHANGED msgsc
  BY <1>1 DEF IInv, Queue, PayloadsWithinLimit
<1>2. ASSUME NEW p \in Procs, ExportSlice(p) PROVE Queue'
  <2> DEFINE n == Head(spans[p])[2] - Head(spans[p])[1]
             x == [kind |-> IF p = Metrics THEN "metric" ELSE "flow", n |-> n, cb |-> p = Lambda]
  <2>1. n \in 1 .. Limit /\ n \in Nat
    BY <1>2, FirstSlice, Constants, SMTT(30) DEF ExportSlice
  <2>2. x \in Payload /\ x.n \in 1 .. Limit
    BY <2>1 DEF Payload
  <2>3. msgsc' = msgsc \/ (Len(msgsc) < MsgscCap /\ msgsc' = Append(msgsc, x))
    BY <1>2 DEF ExportSlice
  <2> HIDE DEF x
  <2> QED
    BY <1>1, <2>2, <2>3, QueueAppend DEF IInv
<1>3. CASE RollupExport
  <2> DEFINE x == [kind |-> "rollup", n |-> 1, cb |-> FALSE]
  <2>1. x \in Payload /\ x.kind = "rollup"
    BY DEF Payload
  <2>2. msgsc' = msgsc \/ (Len(msgsc) < MsgscCap /\ msgsc' = Append(msgsc, x))
    BY <1>3 DEF RollupExport
  <2> HIDE DEF x
  <2> QED
    BY <1>1, <2>1, <2>2, QueueAppend DEF IInv
<1>4. CASE DoSend
  BY <1>4, QueueTail DEF DoSend, IInv
<1>5. ASSUME NEW p \in Procs, MonitorInput(p) \/ MonitorMetrics \/ ExporterDone(p) PROVE Queue'
  BY <1>1, <1>5 DEF MonitorInput, MonitorMetrics, ExporterDone
<1>6. CASE UNCHANGED vars \/ Arrive \/ WatchInput \/ Cancel
  BY <1>1, <1>6 DEF Arrive, WatchInput, Cancel, vars
<1>7. CASE SinkNext
  BY <1>1, <1>7 DEF SinkNext, SendOk, SendTooBig, SendError
<1>8. CASE RollupTick \/ TooBigReport \/ LoopDone \/ SenderDone
  BY <1>1, <1>8 DEF RollupTick, TooBigReport, LoopDone, SenderDone
<1>9. CASE LambdaNext
  BY <1>1, <1>9 DEF LambdaNext, LambdaStart, LambdaRecord, LambdaWait
<1> QED
  BY <1>2, <1>3, <1>4, <1>5, <1>6, <1>7, <1>8, <1>9 DEF Next, ExporterNext, LoopNext

-----------------------------------------------------------------------------

LEMMA IInvStep == IInv /\ [Next]_vars => IInv'
BY InputsStep, LimitsStep, SendsStep, SlicingStep, QueueStep DEF IInv

LEMMA IInvImplies == IInv => ExportInv
<1> SUFFICES ASSUME IInv PROVE ExportInv
  OBVIOUS
<1>1. TypeOK
  <2>1. \A b \in BOOLEAN : flight[b] \in Nat
    BY DEF IInv, Sends
  <2> QED
    BY <2>1, Zenon DEF IInv, Inputs, Limits, Sends, Slicing, Queue, TypeOK
<1>2. EveryMessageOnce
  <2> SUFFICES ASSUME NEW p \in Procs
               PROVE  IF spans[p] = <<>> THEN pc[p] # "export" /\ handed[p] = kept[p]
                      ELSE /\ spans[p][1][1] = handed[p]
                           /\ \A k \in 1 .. Len(spans[p]) - 1 : spans[p][k][2] = spans[p][k + 1][1]
                           /\ spans[p][Len(spans[p])][2] = kept[p]
    BY Zenon DEF EveryMessageOnce
  <2> QED
    BY Zenon DEF IInv, Slicing, Tiling
<1> QED
  BY <1>1, <1>2, Zenon DEF ExportInv, IInv, Queue

\* For any channels, batches, limits, threads and sinks: the slices of every
\* batch tile it, whatever happens to the limit meanwhile, every message is
\* serialized once, and no payload is empty or above the first limit.
THEOREM ExportIsSound == Spec => []ExportInv
<1>1. Init => IInv
  BY InitIInv
<1>2. IInv /\ [Next]_vars => IInv'
  BY IInvStep
<1>3. IInv => ExportInv
  BY IInvImplies
<1> QED
  BY <1>1, <1>2, <1>3, PTL DEF Spec

-----------------------------------------------------------------------------
(* The wait of the lambda handler.                                         *)

\* Payloads with a callback, and all that the handler has to wait for.
Cbs(s) == {k \in DOMAIN s : s[k].cb}
Owed == flight[TRUE] + Cardinality(Cbs(msgsc)) + Len(spans[Lambda])

\* The wait group counts what is owed, nothing is before the first line, and
\* nothing after the return.
Waits ==
  /\ wg \in Nat /\ lines \in Nat /\ Owed <= wg
  /\ lines = 0 => Owed = 0
  /\ pc[Lambda] = "returned" => Owed = 0

LEMMA CbsFinite ==
  ASSUME NEW s \in Seq(Payload) PROVE IsFiniteSet(Cbs(s)) /\ Cardinality(Cbs(s)) \in Nat
<1>1. IsFiniteSet(1 .. Len(s))
  BY FS_Interval
<1>2. Cbs(s) \in SUBSET (1 .. Len(s))
  BY DEF Cbs
<1> QED
  BY <1>1, <1>2, FS_Subset, FS_CardinalityType

LEMMA CbsAppend ==
  ASSUME NEW s \in Seq(Payload), NEW x \in Payload
  PROVE  Cardinality(Cbs(Append(s, x))) = IF x.cb THEN Cardinality(Cbs(s)) + 1 ELSE Cardinality(Cbs(s))
<1>1. IsFiniteSet(Cbs(s)) /\ Cardinality(Cbs(s)) \in Nat
  BY CbsFinite
<1>2. Len(s) + 1 \notin Cbs(s)
  BY DEF Cbs
<1>3. CASE x.cb
  <2>1. Cbs(Append(s, x)) = Cbs(s) \cup {Len(s) + 1}
    BY <1>3 DEF Cbs
  <2> QED
    BY <1>1, <1>2, <1>3, <2>1, FS_AddElement
<1>4. CASE ~x.cb
  <2>1. Cbs(Append(s, x)) = Cbs(s)
    BY <1>4 DEF Cbs
  <2> QED
    BY <1>4, <2>1
<1> QED
  BY <1>3, <1>4

LEMMA CbsTail ==
  ASSUME NEW s \in Seq(Payload), s # <<>>
  PROVE  Cardinality(Cbs(s)) = IF Head(s).cb THEN Cardinality(Cbs(Tail(s))) + 1 ELSE Cardinality(Cbs(Tail(s)))
<1> DEFINE A == Cbs(s)
           B == Cbs(Tail(s))
           C == A \ {1}
           f == [i \in B |-> i + 1]
<1>1. Len(s) \in Nat \ {0} /\ DOMAIN s = 1 .. Len(s) /\ Head(s) = s[1]
  OBVIOUS
<1>2. Tail(s) \in Seq(Payload) /\ DOMAIN Tail(s) = 1 .. (Len(s) - 1)
      /\ \A i \in 1 .. (Len(s) - 1) : Tail(s)[i] = s[i + 1]
  OBVIOUS
<1>3. IsFiniteSet(A) /\ IsFiniteSet(B) /\ Cardinality(A) \in Nat /\ Cardinality(B) \in Nat
  BY <1>2, CbsFinite
<1>4. \A i : i \in B <=> i \in 1 .. (Len(s) - 1) /\ s[i + 1].cb
  BY <1>2 DEF Cbs
<1>5. \A i : i \in C <=> i \in 2 .. Len(s) /\ s[i].cb
  BY <1>1 DEF Cbs
<1>6. f \in Bijection(B, C)
  <2> HIDE DEF B, C
  <2>1. f \in [B -> C]
    BY <1>1, <1>4, <1>5
  <2>2. \A i, j \in B : f[i] = f[j] => i = j
    BY <1>4
  <2>3. \A j \in C : \E i \in B : f[i] = j
    <3> TAKE j \in C
    <3>1. j - 1 \in B /\ f[j - 1] = j
      BY <1>1, <1>4, <1>5
    <3> QED
      BY <3>1
  <2> QED
    BY <2>1, <2>2, <2>3 DEF Bijection, Injection, Surjection, IsInjective
<1>7. Cardinality(C) = Cardinality(B)
  BY <1>3, <1>6, FS_Bijection DEF ExistsBijection
<1>8. Cardinality(C) = IF 1 \in A THEN Cardinality(A) - 1 ELSE Cardinality(A)
  BY <1>3, FS_RemoveElement
<1>9. 1 \in A <=> Head(s).cb
  BY <1>1 DEF Cbs
<1> QED
  BY <1>3, <1>7, <1>8, <1>9

\* The parts of what is owed are numbers.
LEMMA OwedType ==
  ASSUME IInv
  PROVE  /\ flight[TRUE] \in Nat /\ Cardinality(Cbs(msgsc)) \in Nat /\ Len(spans[Lambda]) \in Nat
         /\ Owed \in Nat
<1>1. flight[TRUE] \in Nat /\ msgsc \in Seq(Payload)
  BY DEF IInv, Sends, Queue
<1>2. Len(spans[Lambda]) \in Nat
  BY Constants DEF IInv, Slicing
<1>3. Cardinality(Cbs(msgsc)) \in Nat
  BY <1>1, CbsFinite
<1>4. PICK f \in Nat, c \in Nat, l \in Nat :
        f = flight[TRUE] /\ c = Cardinality(Cbs(msgsc)) /\ l = Len(spans[Lambda])
  BY <1>1, <1>2, <1>3
<1>5. Owed = f + c + l
  BY <1>4 DEF Owed
<1>6. Owed \in Nat
  BY ONLY <1>5, f \in Nat, c \in Nat, l \in Nat
<1> QED
  BY <1>1, <1>2, <1>3, <1>6

\* A mismatch is never forgotten.
LEMMA MatchedStep == ASSUME [Next]_vars, Matched' PROVE Matched /\ ~uncounted'
<1> USE DEF Matched, lamVars
<1>1. NumSinks = 1 /\ ~uncounted'
  OBVIOUS
<1>2. CASE UNCHANGED uncounted
  BY <1>1, <1>2
<1>3. ASSUME NEW p \in Procs, ExporterNext(p) PROVE Matched
  BY <1>2, <1>3 DEF ExporterNext, MonitorInput, MonitorMetrics, ExportSlice, ExporterDone
<1>4. CASE UNCHANGED vars \/ Arrive \/ WatchInput \/ Cancel \/ DoSend
  BY <1>2, <1>4 DEF Arrive, WatchInput, Cancel, DoSend, vars
<1>5. CASE LoopNext
  BY <1>2, <1>5 DEF LoopNext, RollupTick, RollupExport, TooBigReport, LoopDone, SenderDone
<1>6. CASE SinkNext
  BY <1>2, <1>6 DEF SinkNext, SendOk, SendTooBig, SendError
<1>7. CASE LambdaNext
  <2>1. CASE LambdaStart \/ LambdaWait
    BY <1>2, <2>1 DEF LambdaStart, LambdaWait
  <2>2. CASE LambdaRecord
    <3>1. UNCHANGED uncounted \/ \E e : uncounted' = (uncounted \/ e)
      BY <2>2, Zenon DEF LambdaRecord
    <3>2. ASSUME NEW e, uncounted' = (uncounted \/ e) PROVE Matched
      BY <1>1, <3>2, Zenon
    <3> QED
      BY <1>2, <3>1, <3>2
  <2> QED
    BY <1>7, <2>1, <2>2 DEF LambdaNext
<1> QED
  BY <1>1, <1>3, <1>4, <1>5, <1>6, <1>7 DEF Next

LEMMA OwedPrimed ==
  ASSUME IInv'
  PROVE  /\ flight'[TRUE] \in Nat /\ Cardinality(Cbs(msgsc')) \in Nat /\ Len(spans'[Lambda]) \in Nat
         /\ Owed' = flight'[TRUE] + Cardinality(Cbs(msgsc')) + Len(spans'[Lambda]) /\ Owed' \in Nat
<1>1. flight'[TRUE] \in Nat /\ msgsc' \in Seq(Payload)
  BY DEF IInv, Sends, Queue
<1>2. Len(spans'[Lambda]) \in Nat
  <2>1. spans' \in [Procs -> Seq(Nat \X Nat)]
    BY DEF IInv, Slicing
  <2> QED
    BY <2>1, Constants
<1>3. Cardinality(Cbs(msgsc')) \in Nat
  BY <1>1, CbsFinite
<1>4. PICK f \in Nat, c \in Nat, l \in Nat :
        f = flight'[TRUE] /\ c = Cardinality(Cbs(msgsc')) /\ l = Len(spans'[Lambda])
  BY <1>1, <1>2, <1>3
<1>5. Owed' = flight'[TRUE] + Cardinality(Cbs(msgsc')) + Len(spans'[Lambda])
  BY DEF Owed, Cbs
<1>6. Owed' = f + c + l
  BY <1>4, <1>5
<1>7. Owed' \in Nat
  BY ONLY <1>6, f \in Nat, c \in Nat, l \in Nat
<1> QED
  BY <1>1, <1>2, <1>3, <1>5, <1>7

\* Less may be owed as long as the handler stays where it is.
LEMMA OweLess ==
  ASSUME IInv, IInv', Waits, Owed' <= Owed, UNCHANGED <<wg, lines>>,
         pc'[Lambda] = "returned" => pc[Lambda] = "returned"
  PROVE  Waits'
<1>1. Owed \in Nat /\ wg \in Nat /\ lines \in Nat /\ Owed <= wg
      /\ (lines = 0 => Owed = 0) /\ (pc[Lambda] = "returned" => Owed = 0)
  BY OwedType DEF Waits
<1>2. Owed' \in Nat
  BY OwedPrimed
<1>3. Owed' <= wg' /\ (lines' = 0 => Owed' = 0) /\ (pc'[Lambda] = "returned" => Owed' = 0)
  BY <1>1, <1>2
<1> QED
  BY <1>1, <1>3 DEF Waits

\* Nothing that is owed changes.
LEMMA OweSame ==
  ASSUME IInv, IInv', Waits, UNCHANGED <<flight, msgsc, wg, lines>>, spans'[Lambda] = spans[Lambda],
         pc'[Lambda] = "returned" => pc[Lambda] = "returned"
  PROVE  Waits'
<1>1. Owed' = Owed /\ Owed \in Nat
  BY OwedType DEF Owed, Cbs
<1>2. Owed' <= Owed
  BY <1>1
<1> QED
  BY <1>2, OweLess

\* A slice of the handler becomes a payload with a callback, another one a
\* payload without.
LEMMA SliceWaits ==
  ASSUME IInv, IInv', Waits, NEW p \in Procs, ExportSlice(p)
  PROVE  Waits'
<1> DEFINE x == [kind |-> IF p = Metrics THEN "metric" ELSE "flow",
                 n |-> Head(spans[p])[2] - Head(spans[p])[1], cb |-> p = Lambda]
<1>1. /\ pc[p] = "export" /\ UNCHANGED <<flight, wg, lines>>
      /\ spans' = [spans EXCEPT ![p] = Tail(@)]
      /\ pc' = [pc EXCEPT ![p] = IF Len(spans[p]) = 1 THEN Home(p) ELSE "export"]
      /\ msgsc' = msgsc \/ msgsc' = Append(msgsc, x)
  BY DEF ExportSlice, Goto, lamVars, cbVars
<1>2. x \in Payload /\ (x.cb <=> p = Lambda)
  <2>1. Head(spans[p])[2] - Head(spans[p])[1] \in Nat
    BY <1>1, FirstSlice, Constants, SMTT(30)
  <2> QED
    BY <2>1 DEF Payload
<1> HIDE DEF x
<1>3. /\ msgsc \in Seq(Payload) /\ spans \in [Procs -> Seq(Nat \X Nat)] /\ DOMAIN pc = Procs
      /\ spans[p] # <<>>
  BY <1>1 DEF IInv, Queue, Slicing
<1>4. pc'[Lambda] = "returned" => pc[Lambda] = "returned"
  BY <1>1, <1>3, Constants DEF Home
<1>5. PICK f \in Nat, c \in Nat, d \in Nat, l \in Nat, m \in Nat :
        /\ f = flight[TRUE] /\ c = Cardinality(Cbs(msgsc)) /\ l = Len(spans[Lambda])
        /\ d = Cardinality(Cbs(msgsc')) /\ m = Len(spans'[Lambda])
  BY OwedType, OwedPrimed
<1>6. Owed = f + c + l /\ Owed' = f + d + m
  BY <1>1, <1>5, OwedPrimed DEF Owed
<1>7. d = c \/ d = IF p = Lambda THEN c + 1 ELSE c
  BY <1>1, <1>2, <1>3, <1>5, CbsAppend
<1>8. m = IF p = Lambda THEN l - 1 ELSE l
  <2>1. CASE p = Lambda
    <3>1. spans'[Lambda] = Tail(spans[Lambda]) /\ spans[Lambda] \in Seq(Nat \X Nat) /\ spans[Lambda] # <<>>
      BY <1>1, <1>3, <2>1, Constants
    <3> QED
      BY <1>5, <2>1, <3>1
  <2>2. CASE p # Lambda
    BY <1>1, <1>3, <1>5, <2>2, Constants
  <2> QED
    BY <2>1, <2>2
<1>9. Owed' <= Owed
  BY ONLY <1>6, <1>7, <1>8, f \in Nat, c \in Nat, d \in Nat, l \in Nat, m \in Nat
<1> QED
  BY <1>1, <1>4, <1>9, OweLess

\* The payloads of the rollups have no callback.
LEMMA RollupWaits == ASSUME IInv, IInv', Waits, RollupExport PROVE Waits'
<1> DEFINE x == [kind |-> "rollup", n |-> 1, cb |-> FALSE]
<1>1. UNCHANGED <<flight, wg, lines, spans, pc>> /\ (msgsc' = msgsc \/ msgsc' = Append(msgsc, x))
  BY DEF RollupExport, lamVars, cbVars, expVars
<1>2. x \in Payload /\ ~x.cb
  BY DEF Payload
<1>3. msgsc \in Seq(Payload)
  BY DEF IInv, Queue
<1> HIDE DEF x
<1>4. Cardinality(Cbs(msgsc')) = Cardinality(Cbs(msgsc))
  BY <1>1, <1>2, <1>3, CbsAppend
<1>5. Owed' = Owed /\ Owed \in Nat
  BY <1>1, <1>4, OwedType, OwedPrimed DEF Owed
<1>6. Owed' <= Owed
  BY <1>5
<1> QED
  BY <1>1, <1>6, OweLess

\* With one sink a payload becomes one send.
LEMMA SendWaits == ASSUME NumSinks = 1, IInv, IInv', Waits, DoSend PROVE Waits'
<1>1. msgsc # <<>> /\ msgsc' = Tail(msgsc) /\ UNCHANGED <<wg, lines, spans, pc>>
  BY DEF DoSend, lamVars, expVars
<1>2. PICK k \in {0, 1} : flight' = [flight EXCEPT ![Head(msgsc).cb] = @ + k]
  BY DEF DoSend
<1>3. msgsc \in Seq(Payload) /\ flight \in [BOOLEAN -> Nat]
  BY DEF IInv, Queue, Sends
<1>4. Head(msgsc).cb \in BOOLEAN
  <2>1. Head(msgsc) \in Payload
    BY <1>1, <1>3
  <2> QED
    BY <2>1, Zenon DEF Payload
<1>5. PICK f \in Nat, g \in Nat, c \in Nat, d \in Nat, l \in Nat :
        /\ f = flight[TRUE] /\ c = Cardinality(Cbs(msgsc)) /\ l = Len(spans[Lambda])
        /\ g = flight'[TRUE] /\ d = Cardinality(Cbs(msgsc'))
  BY OwedType, OwedPrimed
<1>6. Owed = f + c + l /\ Owed' = g + d + l
  BY <1>1, <1>5, OwedPrimed DEF Owed
<1>7. c = IF Head(msgsc).cb THEN d + 1 ELSE d
  BY <1>1, <1>3, <1>5, CbsTail
<1>8. g = IF Head(msgsc).cb THEN f + k ELSE f
  <2>1. CASE Head(msgsc).cb = TRUE
    <3>1. flight' = [flight EXCEPT ![TRUE] = @ + k]
      BY <1>2, <2>1
    <3>2. flight'[TRUE] = flight[TRUE] + k
      BY <1>3, <3>1, Zenon
    <3> QED
      BY <1>5, <2>1, <3>2
  <2>2. CASE Head(msgsc).cb = FALSE
    <3>1. flight' = [flight EXCEPT ![FALSE] = @ + k]
      BY <1>2, <2>2
    <3>2. flight'[TRUE] = flight[TRUE]
      BY <1>3, <3>1, Zenon
    <3> QED
      BY <1>5, <2>2, <3>2
  <2> QED
    BY <1>4, <2>1, <2>2
<1>9. Owed' <= Owed
  <2>1. CASE Head(msgsc).cb
    <3>1. c = d + 1 /\ g = f + k /\ k \in 0 .. 1
      BY <1>2, <1>7, <1>8, <2>1
    <3> QED
      BY ONLY <1>6, <3>1, f \in Nat, g \in Nat, c \in Nat, d \in Nat, l \in Nat
  <2>2. CASE ~Head(msgsc).cb
    <3>1. c = d /\ g = f
      BY <1>7, <1>8, <2>2
    <3> QED
      BY ONLY <1>6, <3>1, f \in Nat, g \in Nat, c \in Nat, d \in Nat, l \in Nat
  <2> QED
    BY <2>1, <2>2
<1> QED
  BY <1>1, <1>9, OweLess

\* A callback takes its count back.
LEMMA EndWaits ==
  ASSUME IInv, IInv', Waits, NEW b \in BOOLEAN, SendOk(b) \/ SendTooBig(b) \/ SendError(b)
  PROVE  Waits'
<1>1. /\ flight[b] > 0 /\ flight' = [flight EXCEPT ![b] = @ - 1]
      /\ wg' = IF b THEN wg - 1 ELSE wg
      /\ UNCHANGED <<msgsc, lines, spans, pc>> /\ flight \in [BOOLEAN -> Nat]
  BY DEF SendOk, SendTooBig, SendError, EndSend, lamVars, expVars, IInv, Sends
<1>2. Cbs(msgsc') = Cbs(msgsc)
  BY <1>1 DEF Cbs
<1>3. CASE b = TRUE
  <2>1. flight' = [flight EXCEPT ![TRUE] = @ - 1] /\ wg' = wg - 1
    BY <1>1, <1>3
  <2>2. flight'[TRUE] = flight[TRUE] - 1
    BY <1>1, <2>1, Zenon
  <2>3. PICK f \in Nat, g \in Nat, c \in Nat, l \in Nat :
          /\ f = flight[TRUE] /\ c = Cardinality(Cbs(msgsc)) /\ l = Len(spans[Lambda])
          /\ g = flight'[TRUE]
    BY OwedType, OwedPrimed
  <2>4. Owed = f + c + l /\ Owed' = g + c + l /\ f > 0 /\ g = f - 1
    BY <1>1, <1>2, <1>3, <2>2, <2>3, OwedPrimed DEF Owed
  <2>5. wg \in Nat /\ lines \in Nat /\ Owed <= wg /\ (lines = 0 => Owed = 0)
        /\ (pc[Lambda] = "returned" => Owed = 0)
    BY DEF Waits
  <2>6. wg' \in Nat /\ Owed' <= wg' /\ Owed # 0
    BY ONLY <2>1, <2>4, <2>5, f \in Nat, g \in Nat, c \in Nat, l \in Nat
  <2> QED
    BY <1>1, <2>5, <2>6 DEF Waits
<1>4. CASE b = FALSE
  <2>1. flight' = [flight EXCEPT ![FALSE] = @ - 1] /\ wg' = wg
    BY <1>1, <1>4
  <2>2. flight'[TRUE] = flight[TRUE]
    BY <1>1, <2>1, Zenon
  <2>3. Owed' = Owed /\ Owed \in Nat
    BY <1>1, <1>2, <2>2, OwedType, OwedPrimed DEF Owed
  <2>4. Owed' <= Owed
    BY <2>3
  <2> QED
    BY <1>1, <2>1, <2>4, OweLess
<1> QED
  BY <1>3, <1>4

\* The handler adds one for a record before it exports it.
LEMMA RecordWaits == ASSUME ~uncounted', IInv, IInv', Waits, LambdaRecord PROVE Waits'
<1>1. pc[Lambda] = "record" /\ UNCHANGED <<flight, msgsc>> /\ DOMAIN pc = Procs /\ Lambda \in Procs
  BY Constants DEF LambdaRecord, IInv, Slicing
<1>2. CASE UNCHANGED <<expVars, lines, wg>>
  BY <1>1, <1>2, OweSame DEF expVars
<1>3. CASE Goto(Lambda, "failed") /\ UNCHANGED <<spans, kept, handed, lines, wg>>
  <2>1. pc'[Lambda] = "failed"
    BY <1>1, <1>3 DEF Goto
  <2> QED
    BY <1>1, <1>3, <2>1, OweSame
<1>4. ASSUME NEW n \in 0 .. RecordLines, lines' = lines + n, wg' = wg + 1,
             ~Exporting, UNCHANGED expVars
      PROVE  Waits'
  <2>1. Owed' = Owed /\ Owed \in Nat /\ pc' = pc
    BY <1>1, <1>4, OwedType DEF Owed, Cbs, expVars
  <2>4. n \in Nat
    BY Constants
  <2>2. wg \in Nat /\ lines \in Nat /\ Owed <= wg /\ (lines = 0 => Owed = 0)
    BY DEF Waits
  <2>3. /\ wg' \in Nat /\ lines' \in Nat /\ Owed' <= wg' /\ (lines' = 0 => Owed' = 0)
        /\ pc'[Lambda] # "returned"
    BY <1>1, <1>4, <2>1, <2>2, <2>4
  <2> QED
    BY <2>3 DEF Waits
<1>5. ASSUME NEW n \in 0 .. RecordLines, lines' = lines + n, wg' = wg + 1,
             NEW k \in Left(n), BeginExport(Lambda, k),
             ~(Len(spans'[Lambda]) > IF n = 0 THEN 0 ELSE 1)
      PROVE  Waits'
  <2>1. PICK s : s = SliceBounds(maxFlows, k)
    OBVIOUS
  <2>2. spans' = [spans EXCEPT ![Lambda] = s] /\ pc' = [pc EXCEPT ![Lambda] = IF s = <<>> THEN Home(Lambda) ELSE "export"]
    BY <1>5, <2>1 DEF BeginExport, Goto
  <2>3. Len(s) \in 0 .. 1 /\ (n = 0 => Len(s) = 0)
    <3>1. Len(spans'[Lambda]) \in Nat
      BY OwedPrimed
    <3>2. spans'[Lambda] = s
      BY <1>1, <2>2 DEF IInv, Slicing
    <3>3. PICK l : l = Len(s)
      OBVIOUS
    <3>4. l \in Nat /\ ~(l > IF n = 0 THEN 0 ELSE 1)
      BY <1>5, <3>1, <3>2, <3>3, Zenon
    <3>5. l \in 0 .. 1 /\ (n = 0 => l = 0)
      BY ONLY <3>4
    <3> QED
      BY <3>3, <3>5
  <2>4. spans'[Lambda] = s /\ spans[Lambda] = <<>> /\ pc'[Lambda] # "returned"
    BY <1>1, <2>2 DEF IInv, Slicing, Home
  <2>5. PICK f \in Nat, c \in Nat, m \in Nat : f = flight[TRUE] /\ c = Cardinality(Cbs(msgsc)) /\ m = Len(s)
    <3>1. Len(s) \in Nat
      BY ONLY <2>3
    <3> QED
      BY <3>1, OwedType
  <2>6. Owed = f + c + 0
    <3>1. Len(spans[Lambda]) = 0
      BY <2>4
    <3> QED
      BY <2>5, <3>1, Zenon DEF Owed
  <2>7. Owed' = f + c + m
    BY <1>1, <2>4, <2>5, OwedPrimed
  <2>8. wg \in Nat /\ lines \in Nat /\ Owed <= wg /\ (lines = 0 => Owed = 0) /\ n \in Nat
    BY Constants DEF Waits
  <2>9. wg' \in Nat /\ lines' \in Nat /\ Owed' <= wg' /\ (lines' = 0 => Owed' = 0)
    <3>1. m \in 0 .. 1 /\ (n = 0 => m = 0)
      BY <2>3, <2>5
    <3>2. wg' = wg + 1 /\ lines' = lines + n
      BY <1>5
    <3> QED
      BY ONLY <2>6, <2>7, <2>8, <3>1, <3>2, f \in Nat, c \in Nat, m \in Nat
  <2> QED
    BY <2>4, <2>9 DEF Waits
<1> QED
  BY <1>2, <1>3, <1>4, <1>5 DEF LambdaRecord

LEMMA WaitsStep ==
  ASSUME NumSinks = 1, ~uncounted', IInv, IInv', Waits, [Next]_vars PROVE Waits'
<1> USE DEF lamVars, cbVars, expVars
<1>0. DOMAIN pc = Procs /\ spans \in [Procs -> Seq(Nat \X Nat)] /\ Lambda \in Procs
  BY Constants DEF IInv, Slicing
<1>1. CASE UNCHANGED <<pc, spans, msgsc, flight, wg, lines>>
  BY <1>1, OweSame
<1>2. ASSUME NEW p \in Procs, p # Lambda,
             MonitorInput(p) \/ (p = Metrics /\ MonitorMetrics) \/ ExporterDone(p)
      PROVE  Waits'
  <2>1. UNCHANGED <<msgsc, flight, wg, lines>>
    BY <1>2 DEF MonitorInput, MonitorMetrics, ExporterDone
  <2>2. spans'[Lambda] = spans[Lambda] /\ pc'[Lambda] = pc[Lambda]
    BY <1>0, <1>2 DEF MonitorInput, MonitorMetrics, ExporterDone, BeginExport, Goto
  <2> QED
    BY <2>1, <2>2, OweSame
<1>3. ASSUME NEW p \in Procs, ExporterNext(p) PROVE Waits'
  BY <1>2, <1>3, SliceWaits, Constants DEF ExporterNext, ExporterDone
<1>4. CASE UNCHANGED vars \/ Arrive \/ Cancel
  BY <1>1, <1>4 DEF Arrive, Cancel, vars
<1>5. CASE WatchInput
  <2>1. threads # Lambda
    BY <1>5, Constants, SMTT(30) DEF WatchInput, IInv, Slicing, Lambda
  <2>2. pc'[Lambda] = pc[Lambda] /\ UNCHANGED <<spans, msgsc, flight, wg, lines>>
    BY <1>0, <1>5, <2>1 DEF WatchInput, Goto
  <2> QED
    BY <2>2, OweSame
<1>6. CASE SinkNext
  BY <1>6, EndWaits DEF SinkNext
<1>7. CASE RollupTick \/ TooBigReport \/ LoopDone \/ SenderDone
  BY <1>1, <1>7 DEF RollupTick, TooBigReport, LoopDone, SenderDone
<1>8. CASE LambdaStart
  <2>1. pc'[Lambda] = "record" /\ UNCHANGED <<spans, msgsc, flight, wg, lines>>
    BY <1>0, <1>8 DEF LambdaStart, Goto
  <2> QED
    BY <2>1, OweSame
<1>9. CASE LambdaWait
  <2>1. (lines > 0 => wg = 0) /\ UNCHANGED <<spans, msgsc, flight, wg, lines>>
    BY <1>9 DEF LambdaWait
  <2>2. Owed' = Owed /\ Owed \in Nat
    BY <2>1, OwedType DEF Owed, Cbs
  <2>3. wg \in Nat /\ lines \in Nat /\ Owed <= wg /\ (lines = 0 => Owed = 0)
    BY DEF Waits
  <2>4. wg' \in Nat /\ lines' \in Nat /\ Owed' <= wg' /\ Owed' = 0
    BY <2>1, <2>2, <2>3
  <2> QED
    BY <2>4 DEF Waits
<1> QED
  BY <1>3, <1>4, <1>5, <1>6, <1>7, <1>8, <1>9, RollupWaits, SendWaits, RecordWaits
     DEF Next, LoopNext, LambdaNext

LEMMA InitWaits == Init => Waits
<1> SUFFICES ASSUME Init PROVE Waits
  OBVIOUS
<1>2. flight[TRUE] = 0 /\ Len(spans[Lambda]) = 0 /\ msgsc = <<>> /\ wg = 0 /\ lines = 0
  BY Constants DEF Init
<1>3. Cardinality(Cbs(msgsc)) = 0
  <2>1. Cbs(msgsc) = {}
    BY <1>2 DEF Cbs
  <2> QED
    BY <2>1, FS_EmptySet
<1>4. Owed = 0
  BY <1>2, <1>3 DEF Owed
<1> QED
  BY <1>2, <1>4 DEF Waits

LEMMA WaitsImplies == ASSUME IInv, Waits PROVE HandlerWaitsForAll /\ WaitGroupNeverNegative
<1>1. WaitGroupNeverNegative
  BY DEF Waits, WaitGroupNeverNegative
<1>2. ASSUME pc[Lambda] = "returned"
      PROVE  flight[TRUE] = 0 /\ \A k \in DOMAIN msgsc : ~msgsc[k].cb
  <2>1. PICK f \in Nat, c \in Nat, l \in Nat : f = flight[TRUE] /\ c = Cardinality(Cbs(msgsc)) /\ l = Len(spans[Lambda])
    BY OwedType
  <2>2. f + c + l = 0
    BY <1>2, <2>1 DEF Waits, Owed
  <2>3. f = 0 /\ c = 0
    BY ONLY <2>2, f \in Nat, c \in Nat, l \in Nat
  <2>4. Cbs(msgsc) = {}
    <3>1. IsFiniteSet(Cbs(msgsc))
      BY CbsFinite DEF IInv, Queue
    <3> QED
      BY <2>1, <2>3, <3>1, FS_EmptySet
  <2>5. \A k \in DOMAIN msgsc : ~msgsc[k].cb
    BY <2>4, Zenon DEF Cbs
  <2> QED
    BY <2>1, <2>3, <2>5
<1> QED
  BY <1>1, <1>2 DEF HandlerWaitsForAll

\* As long as callbacks match the counts, that is with one sink and until a
\* record makes several payloads (or an enricher gives one without lines its
\* first message), the wait group of the lambda handler does not go below zero
\* and the handler returns only when every payload of its records is past New
\* Relic (run lambda_panics shows what follows the first such record).
THEOREM HandlerReturnsLast ==
  Spec => [](HandlerWaitsForAll /\ (Matched => WaitGroupNeverNegative))
<1> DEFINE J == IInv /\ (Matched => Waits)
<1>1. Init => J
  BY InitIInv, InitWaits
<1>2. J /\ [Next]_vars => J'
  <2> SUFFICES ASSUME J, [Next]_vars PROVE J'
    OBVIOUS
  <2>1. IInv'
    BY IInvStep
  <2>2. ASSUME Matched' PROVE Waits'
    <3>1. Matched /\ ~uncounted'
      BY <2>2, MatchedStep
    <3>2. NumSinks = 1
      BY <3>1 DEF Matched
    <3> QED
      BY <2>1, <3>1, <3>2, WaitsStep
  <2> QED
    BY <2>1, <2>2
<1>3. J => HandlerWaitsForAll /\ (Matched => WaitGroupNeverNegative)
  <2> SUFFICES ASSUME J PROVE HandlerWaitsForAll /\ (Matched => WaitGroupNeverNegative)
    OBVIOUS
  <2>1. CASE Matched
    BY <2>1, WaitsImplies
  <2>2. CASE ~Matched
    BY <2>2 DEF HandlerWaitsForAll
  <2> QED
    BY <2>1, <2>2
<1> QED
  BY <1>1, <1>2, <1>3, PTL DEF Spec

=============================================================================
