------------------------------- MODULE Export -------------------------------
(***************************************************************************)
(* The export path of pkg/cat/kkc.go: input threads and the metrics thread *)
(* cut batches into slices of at most MaxFlowsPerMessage messages and put  *)
(* them on msgsc; doSend hands each payload to every sink; the New Relic   *)
(* sink (pkg/sinks/nr/nr.go) posts it from a goroutine of its own, reports *)
(* payloads that are too big, and calls the payload's callback; the loop   *)
(* of sendToSinks shrinks MaxFlowsPerMessage and exports the rollups; the  *)
(* AWS lambda handler (pkg/inputs/vpc/aws/lamdba.go) waits for callbacks.  *)
(*                                                                         *)
(* A batch is represented by its length.                                   *)
(***************************************************************************)
EXTENDS Integers, Sequences

CONSTANTS
  InCap,          \* capacity of inputChan
  Margin,         \* watchInput adds a thread when fewer than Margin slots are free
  InputThreads,   \* config.InputThreads at start
  MaxThreads,     \* config.MaxThreads
  MsgscCap,       \* capacity of msgsc
  TooBigCap,      \* capacity of the tooBig channel
  InitMaxFlows,   \* config.MaxFlowsPerMessage at start
  SampleRate, SampleMin,
  Exporting,      \* ~doRollups \/ config.RollupAndAlpha
  Filters,        \* filters or an enricher are configured: messages may go
  Replies,        \* what New Relic may answer: "ok", "tooBig", "error"
  NumSinks,       \* New Relic sinks
  NumRollups,     \* rollups that have something to export on a tick
  MaxBatch,       \* bound: messages in a batch
  MaxBatches,     \* bound: batches that arrive on inputChan
  MaxMetrics,     \* bound: batches of internal metrics that arrive
  MetricsBatch,   \* bound: messages in such a batch
  MaxRecords,     \* bound: records of the lambda event
  RecordLines,    \* bound: lines of such a record
  MaxTicks        \* bound: rollup ticks

ASSUME ExportAssumption ==
  /\ {InCap, MsgscCap, TooBigCap, NumSinks, InputThreads} \subseteq Nat \ {0}
  /\ {Margin, MaxThreads, SampleRate, SampleMin, NumRollups, MaxBatch,
      MaxBatches, MaxMetrics, MetricsBatch, MaxRecords, RecordLines, MaxTicks} \subseteq Nat
  /\ InitMaxFlows \in Int
  /\ Exporting \in BOOLEAN /\ Filters \in BOOLEAN
  /\ Replies \subseteq {"ok", "tooBig", "error"}

\* The goroutines that export: input threads, the metrics thread, the lambda.
Metrics == -1
Lambda  == -2
Workers == 0 .. (IF MaxThreads > InputThreads THEN MaxThreads ELSE InputThreads) - 1
Procs   == Workers \cup {Metrics, Lambda}

VARIABLES
  inq,       \* inputChan: lengths of the batches on it
  arrived,   \* batches that have arrived on inputChan and on metricsChan
  threads,   \* config.InputThreads, which watchInput raises
  pc,        \* where each exporter is
  spans,     \* slices the exporter has yet to serialize
  kept,      \* messages of its batch that sampling and the filters left
  handed,    \* of those, the ones already serialized
  msgsc,     \* payloads on their way to doSend
  maxFlows,  \* config.MaxFlowsPerMessage
  tooBig,    \* reports waiting on the tooBig channel
  loop,      \* sendToSinks: "select", "rollup" or "done"
  sender,    \* doSend: "run" or "done"
  pending,   \* rollups it has yet to export on this tick
  ticks,     \* rollup ticks so far
  flight,    \* flight[b]: sink goroutines with a payload whose CB is set iff b
  records,   \* records the lambda handler has yet to process
  lines,     \* the lines it has seen
  uncounted, \* history: a record made several payloads, or one that has no lines
  wg,        \* its wait group
  ctx        \* "live" or "done"

inVars   == <<inq, arrived, threads>>
expVars  == <<pc, spans, kept, handed>>
loopVars == <<maxFlows, loop, sender, pending, ticks>>
lamVars  == <<records, lines, uncounted>>
cbVars   == <<flight, wg, tooBig>>
vars == <<inVars, expVars, msgsc, loopVars, lamVars, cbVars, ctx>>

Payload == [kind : {"flow", "metric", "rollup"}, n : Nat, cb : BOOLEAN]

Init ==
  /\ inq = <<>> /\ arrived = [input |-> 0, metrics |-> 0]
  /\ threads = InputThreads
  /\ pc = [p \in Procs |->
             IF p \in Workers /\ p >= InputThreads THEN "off"
             ELSE IF p = Lambda THEN "idle" ELSE "select"]
  /\ spans = [p \in Procs |-> <<>>]
  /\ kept = [p \in Procs |-> 0] /\ handed = [p \in Procs |-> 0]
  /\ msgsc = <<>>
  /\ maxFlows = InitMaxFlows
  /\ loop = "select" /\ sender = "run" /\ pending = 0 /\ ticks = 0
  /\ tooBig = 0
  /\ flight = [b \in BOOLEAN |-> 0]
  /\ records = 0 /\ lines = 0 /\ uncounted = FALSE /\ wg = 0
  /\ ctx = "live"

-----------------------------------------------------------------------------
(* Slicing and sampling.                                                   *)

EffectiveMaxFlows(n) == IF n <= 0 THEN 1 ELSE n

\* The loop of jchfExportSliceBounds: next runs over the multiples of b.
SliceLoop(size, keep) ==
  LET b == EffectiveMaxFlows(size)
      Loop[next \in Nat] ==
        LET batch == IF next > keep THEN keep ELSE next IN
        IF next >= keep + b THEN <<>>
        ELSE <<<<next - b, batch>>>>
               \o (IF batch = keep THEN <<>> ELSE Loop[next + b])
  IN  Loop[b]

\* What it builds: one slice for each of those multiples, the last one cut.
SliceBounds(size, keep) ==
  LET b == EffectiveMaxFlows(size) IN
  [i \in 1 .. (keep + b - 1) \div b |-> <<(i - 1) * b, IF i * b > keep THEN keep ELSE i * b>>]

\* The two agree, which TLC evaluates for limits and batches up to 9 (no proof
\* cites it).
ASSUME SlicesAssumption ==
  \A size \in -1 .. 9, keep \in 0 .. 9 : SliceBounds(size, keep) = SliceLoop(size, keep)

\* int(max(n / rate, 1)), for a batch that asks for sampling.
Sampled(n) ==
  IF n > 1 /\ SampleRate > 1 /\ n > SampleMin
    THEN IF n \div SampleRate > 1 THEN n \div SampleRate ELSE 1
    ELSE n

\* What handleInput may leave of a batch of length n: the filters and the
\* enricher remove messages, the enricher may add some (one, here), and the
\* first message says whether to sample.
Left(n) == LET K == IF Filters THEN 0 .. n + 1 ELSE {n}
           IN  K \cup {Sampled(k) : k \in K}

-----------------------------------------------------------------------------
(* Exporters.                                                              *)

Goto(p, l) == pc' = [pc EXCEPT ![p] = l]

\* Where an exporter goes when its batch is done.
Home(p) == IF p = Lambda THEN "record" ELSE "select"

\* exportJchfBatches reads the limit once and cuts the k messages of p.
BeginExport(p, k) ==
  LET s == SliceBounds(maxFlows, k) IN
  /\ spans' = [spans EXCEPT ![p] = s]
  /\ kept' = [kept EXCEPT ![p] = k]
  /\ handed' = [handed EXCEPT ![p] = 0]
  /\ Goto(p, IF s = <<>> THEN Home(p) ELSE "export")

\* A source puts a batch on inputChan, waiting for room.
Arrive ==
  /\ arrived.input < MaxBatches /\ Len(inq) < InCap
  /\ \E n \in 0 .. MaxBatch : inq' = Append(inq, n)
  /\ arrived' = [arrived EXCEPT !.input = @ + 1]
  /\ UNCHANGED <<threads, expVars, msgsc, loopVars, lamVars, cbVars, ctx>>

MonitorInput(w) ==
  /\ pc[w] = "select" /\ inq # <<>>
  /\ inq' = Tail(inq)
  /\ IF Exporting
       THEN \E k \in Left(Head(inq)) : BeginExport(w, k)
       ELSE UNCHANGED expVars
  /\ UNCHANGED <<arrived, threads, msgsc, loopVars, lamVars, cbVars, ctx>>

\* Internal metrics bypass the filters, the rollups and the sampling.
MonitorMetrics ==
  /\ pc[Metrics] = "select" /\ arrived.metrics < MaxMetrics
  /\ arrived' = [arrived EXCEPT !.metrics = @ + 1]
  /\ \E n \in 0 .. MetricsBatch : BeginExport(Metrics, n)
  /\ UNCHANGED <<inq, threads, msgsc, loopVars, lamVars, cbVars, ctx>>

\* Mutant of ExportSlice: an error leaves the rest of the batch behind.
ExportSliceOrQuit(p) ==
  LET span == Head(spans[p]) IN
  /\ pc[p] = "export"
  /\ \/ /\ Len(msgsc) < MsgscCap
        /\ msgsc' = Append(msgsc, [kind |-> IF p = Metrics THEN "metric" ELSE "flow",
                                   n |-> span[2] - span[1], cb |-> p = Lambda])
        /\ spans' = [spans EXCEPT ![p] = Tail(@)]
        /\ Goto(p, IF Len(spans[p]) = 1 THEN Home(p) ELSE "export")
     \/ UNCHANGED msgsc /\ spans' = [spans EXCEPT ![p] = <<>>] /\ Goto(p, Home(p))
  /\ handed' = [handed EXCEPT ![p] = @ + span[2] - span[1]]
  /\ UNCHANGED <<inVars, kept, loopVars, lamVars, cbVars, ctx>>

\* One slice is serialized and put on msgsc, or fails to serialize (or
\* serializes to nothing) and is passed over.
ExportSlice(p) ==
  LET span == Head(spans[p]) IN
  /\ pc[p] = "export"
  /\ \/ /\ Len(msgsc) < MsgscCap
        /\ msgsc' = Append(msgsc, [kind |-> IF p = Metrics THEN "metric" ELSE "flow",
                                   n |-> span[2] - span[1], cb |-> p = Lambda])
     \/ UNCHANGED msgsc
  /\ handed' = [handed EXCEPT ![p] = @ + span[2] - span[1]]
  /\ spans' = [spans EXCEPT ![p] = Tail(@)]
  /\ Goto(p, IF Len(spans[p]) = 1 THEN Home(p) ELSE "export")
  /\ UNCHANGED <<inVars, kept, loopVars, lamVars, cbVars, ctx>>

ExporterDone(p) ==
  /\ p # Lambda /\ pc[p] = "select" /\ ctx = "done"
  /\ Goto(p, "done")
  /\ UNCHANGED <<inVars, spans, kept, handed, msgsc, loopVars, lamVars, cbVars,
                 ctx>>

\* watchInput starts another input thread when inputChan is nearly full; its
\* ticker may still win the select after the context has ended.
WatchInput ==
  /\ threads < MaxThreads /\ Len(inq) > InCap - Margin
  /\ Goto(threads, "select")
  /\ threads' = threads + 1
  /\ UNCHANGED <<inq, arrived, spans, kept, handed, msgsc, loopVars, lamVars,
                 cbVars, ctx>>

-----------------------------------------------------------------------------
(* The sender and the sinks.                                               *)

\* doSend offers the payload to every sink; no sink takes one whose body is
\* empty or, with checkJson, is not JSON.
DoSend ==
  /\ msgsc # <<>> /\ sender = "run"
  /\ \E k \in {0, NumSinks} : flight' = [flight EXCEPT ![Head(msgsc).cb] = @ + k]
  /\ msgsc' = Tail(msgsc)
  /\ UNCHANGED <<inVars, expVars, loopVars, lamVars, wg, tooBig, ctx>>

\* A sink goroutine ends; the deferred callback decrements the wait group.
EndSend(b) ==
  /\ flight' = [flight EXCEPT ![b] = @ - 1]
  /\ wg' = IF b THEN wg - 1 ELSE wg

SendOk(b) ==
  /\ flight[b] > 0 /\ "ok" \in Replies
  /\ EndSend(b)
  /\ UNCHANGED <<inVars, expVars, msgsc, loopVars, lamVars, tooBig, ctx>>

\* 413: the size is reported and the callback gets no error.
SendTooBig(b) ==
  /\ flight[b] > 0 /\ "tooBig" \in Replies /\ tooBig < TooBigCap
  /\ tooBig' = tooBig + 1
  /\ EndSend(b)
  /\ UNCHANGED <<inVars, expVars, msgsc, loopVars, lamVars, ctx>>

SendError(b) ==
  /\ flight[b] > 0 /\ "error" \in Replies
  /\ EndSend(b)
  /\ UNCHANGED <<inVars, expVars, msgsc, loopVars, lamVars, tooBig, ctx>>

-----------------------------------------------------------------------------
(* The loop of sendToSinks.                                                *)

RollupTick ==
  /\ loop = "select" /\ ticks < MaxTicks /\ NumRollups > 0
  /\ \E n \in 1 .. NumRollups : pending' = n
  /\ loop' = "rollup" /\ ticks' = ticks + 1
  /\ UNCHANGED <<inVars, expVars, msgsc, maxFlows, sender, lamVars, cbVars, ctx>>

RollupExport ==
  /\ loop = "rollup"
  /\ \/ /\ Len(msgsc) < MsgscCap
        /\ msgsc' = Append(msgsc, [kind |-> "rollup", n |-> 1, cb |-> FALSE])
     \/ UNCHANGED msgsc       \* formatRollup fails
  /\ pending' = pending - 1
  /\ loop' = IF pending = 1 THEN "select" ELSE "rollup"
  /\ UNCHANGED <<inVars, expVars, maxFlows, sender, ticks, lamVars, cbVars, ctx>>

Shrunk(n) == IF (3 * n) \div 4 > 1 THEN (3 * n) \div 4 ELSE 1


TooBigReport ==
  /\ loop = "select" /\ tooBig > 0
  /\ tooBig' = tooBig - 1
  /\ maxFlows' = Shrunk(maxFlows)
  /\ UNCHANGED <<inVars, expVars, msgsc, loop, sender, pending, ticks, lamVars, flight, wg,
                 ctx>>

\* The context ends: doSend returns, and the loop once it is back in its select.
SenderDone ==
  /\ sender = "run" /\ ctx = "done"
  /\ sender' = "done"
  /\ UNCHANGED <<inVars, expVars, msgsc, maxFlows, loop, pending, ticks, lamVars,
                 cbVars, ctx>>

LoopDone ==
  /\ loop = "select" /\ ctx = "done"
  /\ loop' = "done"
  /\ UNCHANGED <<inVars, expVars, msgsc, maxFlows, sender, pending, ticks, lamVars,
                 cbVars, ctx>>

Cancel ==
  /\ ctx = "live" /\ ctx' = "done"
  /\ UNCHANGED <<inVars, expVars, msgsc, loopVars, lamVars, cbVars>>

-----------------------------------------------------------------------------
(* The lambda handler.                                                     *)

LambdaStart ==
  /\ pc[Lambda] = "idle" /\ MaxRecords > 0
  /\ \E n \in 1 .. MaxRecords : records' = n
  /\ Goto(Lambda, "record")
  /\ UNCHANGED <<inVars, spans, kept, handed, msgsc, loopVars, lines, uncounted,
                 cbVars, ctx>>

\* The next record: not a put, and passed over; not readable, and the handler
\* returns; or n lines, which go through handleInput with the callback.
LambdaRecord ==
  /\ pc[Lambda] = "record" /\ records > 0
  /\ records' = records - 1
  /\ \/ UNCHANGED <<expVars, lines, uncounted, wg>>
     \/ Goto(Lambda, "failed") /\ UNCHANGED <<spans, kept, handed, lines, uncounted, wg>>
     \/ \E n \in 0 .. RecordLines :
          /\ lines' = lines + n
          /\ wg' = wg + 1
          /\ IF Exporting
               THEN \E k \in Left(n) : BeginExport(Lambda, k)
               ELSE UNCHANGED expVars
          /\ uncounted' = (uncounted \/ Len(spans'[Lambda]) > IF n = 0 THEN 0 ELSE 1)
  /\ UNCHANGED <<inVars, msgsc, loopVars, flight, tooBig, ctx>>

\* Mutant of LambdaWait: it waits only for what the last record left to do.
LambdaWaitShort ==
  /\ pc[Lambda] = "record" /\ records = 0
  /\ lines > 0 => wg <= 1
  /\ Goto(Lambda, "returned")
  /\ UNCHANGED <<inVars, spans, kept, handed, msgsc, loopVars, lamVars, cbVars,
                 ctx>>

\* All records are in; with lines to send the handler waits for the callbacks.
LambdaWait ==
  /\ pc[Lambda] = "record" /\ records = 0
  /\ lines > 0 => wg = 0
  /\ Goto(Lambda, "returned")
  /\ UNCHANGED <<inVars, spans, kept, handed, msgsc, loopVars, lamVars, cbVars,
                 ctx>>

-----------------------------------------------------------------------------
ExporterNext(p) ==
  \/ p \in Workers /\ MonitorInput(p)
  \/ p = Metrics /\ MonitorMetrics
  \/ ExportSlice(p) \/ ExporterDone(p)

LoopNext == RollupTick \/ RollupExport \/ TooBigReport \/ LoopDone \/ SenderDone
SinkNext == \E b \in BOOLEAN : SendOk(b) \/ SendTooBig(b) \/ SendError(b)
LambdaNext == LambdaStart \/ LambdaRecord \/ LambdaWait

Next ==
  \/ Arrive \/ WatchInput \/ Cancel
  \/ \E p \in Procs : ExporterNext(p)
  \/ DoSend \/ SinkNext \/ LoopNext \/ LambdaNext

Spec == Init /\ [][Next]_vars

\* Every goroutine that can take a step does; nothing makes batches arrive,
\* the ticker fire, the context end or New Relic answer (the HTTP client has
\* no timeout for a request as a whole).
Fairness ==
  /\ \A w \in Workers : WF_vars(MonitorInput(w))
  /\ \A p \in Procs : WF_vars(ExportSlice(p))
  /\ WF_vars(DoSend)
  /\ WF_vars(RollupExport) /\ WF_vars(TooBigReport)

FairSpec == Spec /\ Fairness

-----------------------------------------------------------------------------
(* Properties.                                                             *)

\* Type invariant of the export path.
TypeOK ==
  /\ inq \in Seq(0 .. MaxBatch) /\ Len(inq) <= InCap
  /\ threads \in InputThreads .. (IF MaxThreads > InputThreads THEN MaxThreads
                                  ELSE InputThreads)
  /\ pc \in [Procs -> {"off", "idle", "select", "export", "record", "returned",
                       "failed", "done"}]
  /\ msgsc \in Seq(Payload) /\ Len(msgsc) <= MsgscCap
  /\ tooBig \in 0 .. TooBigCap /\ maxFlows \in Int
  /\ InitMaxFlows >= 1 => maxFlows \in 1 .. InitMaxFlows
  /\ \A b \in BOOLEAN : flight[b] \in Nat

\* exportJchfBatches serializes every message of a batch exactly once: the
\* slices left to do and those already done always add up to the batch, slice
\* after slice without gap or overlap.
EveryMessageOnce ==
  \A p \in Procs :
    LET s == spans[p] IN
    IF s = <<>> THEN pc[p] # "export" /\ handed[p] = kept[p]
    ELSE /\ s[1][1] = handed[p]
         /\ \A k \in 1 .. Len(s) - 1 : s[k][2] = s[k + 1][1]
         /\ s[Len(s)][2] = kept[p]

\* No payload is empty or longer than the largest limit there has been
\* (doSend would drop an empty one; a longer one would be refused again).
PayloadsWithinLimit ==
  \A k \in DOMAIN msgsc :
    msgsc[k].kind # "rollup" =>
      msgsc[k].n \in 1 .. EffectiveMaxFlows(InitMaxFlows)

\* Slicing a batch under a limit that others shrink meanwhile: the types are
\* kept, the slices tile the batch and every payload is within the limit.
ExportInv == TypeOK /\ EveryMessageOnce /\ PayloadsWithinLimit


\* "Decrement in the callback" (lamdba.go): one count per record, taken back
\* by one callback per record, so the wait group is never below zero (where
\* sync.WaitGroup panics).
WaitGroupNeverNegative == wg >= 0

\* The lambda handler returns without an error only when no payload of its
\* records is still on its way to New Relic (a lambda is frozen on return), as
\* long as callbacks match the counts: one sink, and no record so far that was
\* cut into several payloads or to which an enricher gave its first message.
Matched == NumSinks = 1 /\ ~uncounted
HandlerWaitsForAll ==
  (Matched /\ pc[Lambda] = "returned") =>
    /\ flight[TRUE] = 0
    /\ \A k \in DOMAIN msgsc : ~msgsc[k].cb
=============================================================================
