------------------------------- MODULE Edges -------------------------------
(***************************************************************************)
(* The two ends of the agent that keep queues and tables of their own: the *)
(* NetFlow driver with its DNS cache and the AWS VPC input where messages  *)
(* come in, the OpenTelemetry format, the Prometheus format and the S3 sink*)
(* where they go out. Between them is the export path (Export), which they *)
(* see as a channel; they share nothing else, and `part' says which of them*)
(* is looked at.                                                           *)
(***************************************************************************)
EXTENDS FlowDriver, CloudQueue, OtelExport, PromVecs, S3Sink

VARIABLE part

vars == <<part, flowVars, cloudVars, otelVars, promVars, s3Vars>>

Init == /\ part \in {"flow", "vpc", "otel", "prom", "s3"}
        /\ FlowInit /\ CloudInit /\ OtelInit /\ PromInit /\ S3Init
        /\ part # "flow" => devices = {}
        /\ part # "otel" => ~noBlock

OfFlow(A) == part = "flow" /\ A /\ UNCHANGED <<part, cloudVars, otelVars, promVars, s3Vars>>
OfVpc(A) == part = "vpc" /\ A /\ UNCHANGED <<part, flowVars, otelVars, promVars, s3Vars>>
OfOtel(A) == part = "otel" /\ A /\ UNCHANGED <<part, flowVars, cloudVars, promVars, s3Vars>>
OfProm(A) == part = "prom" /\ A /\ UNCHANGED <<part, flowVars, cloudVars, otelVars, s3Vars>>
OfS3(A) == part = "s3" /\ A /\ UNCHANGED <<part, flowVars, cloudVars, otelVars, promVars>>

Next == \/ OfFlow(FlowNext) \/ OfVpc(CloudNext) \/ OfOtel(OtelNext) \/ OfProm(PromNext)
        \/ OfS3(S3Next)

\* What the agent owes once it has begun: the steps of goroutines that can
\* run, the end of a DNS query (RESOLVE_TIME_MAX), the collection by the
\* OpenTelemetry SDK and the dump ticker of the S3 sink. New work is not.
Running ==
  \/ OfFlow(RunStep \/ \E w \in Workers : WorkerStep(w))
  \/ OfOtel((\E t \in Threads : OtelStep(t)) \/ \E n \in Names : Collect(n))
  \/ OfS3(Dump)

\* The scheduler runs something as long as something can run; with finitely
\* many flows and batches nothing stronger is needed.
FairSpec == Init /\ [][Next]_vars /\ WF_vars(Running)

\* The inputs: the DNS cache stays within its limit, a flow is counted and
\* shipped once under its name, and a queue message handled once for each
\* delete.
InputsInv == CacheBounded /\ FlowInv /\ CloudInv

\* The outputs: samples are neither lost nor doubled unaccounted, a gauge
\* vector is always given the labels it was made with, and a payload of the
\* S3 sink is in one object, in order.
OutputsInv == OtelInv /\ PromInv /\ S3Inv

\* Whatever waits at the edges gets through: calls of Format and To return,
\* and the S3 buffer is dumped.
EdgesRun == FormatReturns /\ BatchesFinish /\ BufferIsDumped
=============================================================================
