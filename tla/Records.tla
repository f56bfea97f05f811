------------------------------ MODULE Records ------------------------------
(***************************************************************************)
(* What happens to a record between an input and a sink: stitching         *)
(* (Stitch), the JCHF object that carries a flow (FlowRecord) and the      *)
(* formats that make metrics of records (MetricFormats). The ring buffer   *)
(* of the stitcher is also looked at alone, as one goroutine uses it, with *)
(* and without GetAndDelete (RingBuffer). The parts share no state, and    *)
(* `part' says which one is looked at.                                     *)
(***************************************************************************)
EXTENDS Stitch, FlowRecord, MetricFormats

VARIABLE part

flowStitchVars == <<ringVars, stitchVars>>
recordsVars == <<part, flowStitchVars, recordVars, formatVars>>

RecordsInit ==
  /\ part \in {"put", "ring", "stitch", "record", "metrics"}
  /\ StitchInit /\ RecordInit /\ FormatsInit
  /\ part # "record" => recOpts = [enrich |-> FALSE, rollups |-> FALSE, sample |-> FALSE]
  /\ part # "metrics" => fmtKind = "nrm"

OfRing(p, A) == part = p /\ A /\ UNCHANGED <<part, stitchVars, recordVars, formatVars>>
OfStitch(A) == part = "stitch" /\ A /\ UNCHANGED <<part, recordVars, formatVars>>
OfRecord(A) == part = "record" /\ A /\ UNCHANGED <<part, flowStitchVars, formatVars>>
OfMetrics(A) == part = "metrics" /\ A /\ UNCHANGED <<part, flowStitchVars, recordVars>>

RecordsNext ==
  \/ OfRing("put", PutNext) \/ OfRing("ring", RingNext) \/ OfStitch(StitchNext)
  \/ OfRecord(RecordNext) \/ OfMetrics(FormatsNext)

\* The goroutine that has a record goes on with it; nobody owes a new one.
RecordsStep == OfRecord(RecordStep) \/ OfMetrics(FormatStep)

RecordsSpec == RecordsInit /\ [][RecordsNext]_recordsVars /\ WF_recordsVars(RecordsStep)

\* As one goroutine uses it the ring buffer keeps its shape, and its map leads
\* only to the value its key was last Put with (RingShape, IndexSound).
MapSound == part \in {"put", "ring"} => RingShape /\ IndexSound

\* A buffer that is only Put into implements the store EvictingMap describes:
\* Entries is its content, oldest first, and a full one gives up its oldest key.
Store == INSTANCE EvictingMap WITH entries <- IF part = "put" THEN Entries ELSE <<>>
ImplementsEvictingMap == Store!Spec

\* What the parts promise of a record.
RecordsInv == (part = "record" => RecordInv) /\ (part = "metrics" => MetricFormatsInv)

\* Whoever has a record is done with it in the end.
RecordsRun == []<>(CASE part = "record" -> RecordOver [] part = "metrics" -> FormatsOver [] OTHER -> TRUE)
=============================================================================
