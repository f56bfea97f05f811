--------------------------- MODULE MetricFormats ---------------------------
(***************************************************************************)
(* The formats that turn records into metrics (nrm, influx, prom, remote,  *)
(* otel; carbon and elasticsearch for the synthetics), with the helpers    *)
(* they share in pkg/formats/util. Several input threads call To of the    *)
(* one format. What they share is the metadata last seen of a device, of   *)
(* which there is one here, under a read-write lock; some formats keep the *)
(* read lock for all metrics of a record and others only while they        *)
(* collect the attributes.                                                 *)
(*                                                                         *)
(* An attribute is a name and a value; a filter of the metadata is a set   *)
(* of alternative names, in order, and the values its expression matches.  *)
(***************************************************************************)
EXTENDS Integers, Sequences, FiniteSets, Maps

CONSTANTS
  FormatThreads,
  MetadataSet,   \* [dev, ifs, tables, xtra, match]
  Inputs,        \* records, see the actions
  NoMetadata,
  Numeric,       \* values that are numbers and not strings
  SysKeys,       \* names that begin with Sys
  StripTo,       \* names with the string prefix, and without it
  TableKeys,     \* for a table the names that begin with it
  InterfaceKeys, \* names that begin with if_, input_if_ or output_if_
  KeepAcross, RemoveForSnmp, AllowSys, DroppedNames,
  KeyRank,       \* where a name is in their lexical order
  MaxAttrs,      \* MAX_ATTR_FOR_SNMP
  PortNames, HighPorts, BlankPts, \* names of ports; values of ports above 32768; 0, - and the like
  NrmNames, OtelNames, \* rollupMap of either format
  WordBits,      \* width of an integer
  EventRoomNr,   \* capacity of EventChan
  MaxInputs      \* bound: records that are formatted

AdminStatus == "if_AdminStatus"
DeviceTagTable == "KT_Device_Tag"
NoAttrs == [k \in {} |-> ""]
IdKeys == {"objectIdentifier", "mib-name", "instrumentation.name"}

ASSUME FormatsAssumption ==
  MaxAttrs \in Nat /\ MaxAttrs >= 4 /\ WordBits \in Nat \ {0} /\ EventRoomNr \in Nat /\ MaxInputs \in Nat

\* Records and metadata are what the pollers make; a filter has at least one name, no
\* dimension of a rollup is called vpc_identification.
ASSUME InputsAssumption ==
  /\ \A in \in Inputs : in.kind = "metadata" => in.md \in MetadataSet
  /\ \A in \in Inputs : in.kind = "rollup" =>
       in.dims \in Seq(STRING) /\ \A i \in DOMAIN in.dims : in.dims[i] # "vpc_identification"
  /\ \A d \in DOMAIN NrmNames : NrmNames[d] # "vpc_identification"
  /\ \A lm \in MetadataSet : IsFiniteSet(lm.match)
  /\ \A lm \in MetadataSet : \A f \in lm.match :
       f.keys \in Seq(STRING) /\ Len(f.keys) >= 1 /\ f.negate \in BOOLEAN /\ f.force \in BOOLEAN

VARIABLES
  fmtKind,     \* which format it is
  lastMetadata,
  fmtPc,       \* per thread: idle, metrics or setmd
  fmtIn,       \* the record it has
  fmtAttr,     \* the attributes collected for it
  fmtSeen,     \* history: the metadata they come from
  fmtTodo,     \* metrics still to emit
  fmtOut,      \* history: what was emitted last, or NoOut
  fmtEvents,   \* EventChan, as a number
  fmtNum

formatVars == <<fmtKind, lastMetadata, fmtPc, fmtIn, fmtAttr, fmtSeen, fmtTodo, fmtOut, fmtEvents, fmtNum>>

NoOut == [kind |-> "none"]
FormatKinds == {"nrm", "influx", "prom", "remote", "otel", "carbon", "elastic"}

FormatsInit ==
  /\ fmtKind \in FormatKinds /\ lastMetadata = NoMetadata /\ fmtEvents = 0 /\ fmtNum = 0
  /\ fmtPc = [t \in FormatThreads |-> "idle"] /\ fmtIn = [t \in FormatThreads |-> NoOut]
  /\ fmtAttr = [t \in FormatThreads |-> NoAttrs] /\ fmtSeen = [t \in FormatThreads |-> NoMetadata]
  /\ fmtTodo = [t \in FormatThreads |-> {}] /\ fmtOut = NoOut

------------------------------------------------------------------------------
\* Attributes.

\* SetAttr: the attributes of the record that are neither dropped nor metrics nor
\* blank; over them those of the device, of the row of its table and of the row
\* above, and those of the interfaces, with one prefix if in and out are the same.
SetAttr(in, lm, strip) ==
  LET metrics == {m.name : m \in in.metrics}
      isMetric(k) == k \in metrics \/ (strip /\ k \in DOMAIN StripTo /\ StripTo[k] \in metrics)
      own == [k \in {k \in DOMAIN in.own : k \notin DroppedNames /\ ~isMetric(k) /\ in.own[k] # ""} |-> in.own[k]]
      row(i) == IF i \in DOMAIN lm.tables THEN lm.tables[i] ELSE NoAttrs
      port(p, prefix) ==
        IF p \notin DOMAIN lm.ifs THEN NoAttrs
        ELSE LET ks == {k \in DOMAIN lm.ifs[p] : lm.ifs[p][k] # ""}
             IN  [q \in {prefix \o k : k \in ks} |-> lm.ifs[p][CHOOSE k \in ks : prefix \o k = q]]
      ports == IF in.inp # in.out THEN port(in.inp, "input_if_") ++ port(in.out, "output_if_") ELSE port(in.out, "if_")
  IN  IF lm = NoMetadata THEN own
      ELSE ports ++ (IF in.idx = "" THEN NoAttrs ELSE row(in.parent) ++ row(in.idx)) ++ lm.dev ++ own

\* Is the attribute k, as it is called in the output, one for metric m? If the
\* metric has a table it has to be one of it, as far as the metadata knows, or of the
\* device; if not, the attribute must not have one either.
OfTable(k, m, lm) ==
  LET known  == lm # NoMetadata /\ k \in DOMAIN lm.xtra
      tagged == known /\ lm.xtra[k].table = DeviceTagTable
  IN  IF m.table # ""
      THEN \/ m.name = k \/ k \in KeepAcross \/ tagged
           \/ IF known /\ lm.xtra[k].tables # {} THEN m.table \in lm.xtra[k].tables ELSE k \in TableKeys[m.table]
      ELSE known => tagged \/ lm.xtra[k].table = ""

\* Too many names: what comes first lexically stays, and what identifies the metric.
Before(keys, k) == {j \in keys : KeyRank[j] < KeyRank[k]}
Prune(keys, most) ==
  IF Cardinality(keys) <= MaxAttrs THEN keys ELSE {k \in keys : Cardinality(Before(keys, k)) < most} \cup IdKeys

\* Mutant of KeysForSnmp: no room is left for what identifies the metric.
KeysFull(new, m, attr, gentle) ==
  (IF gentle THEN Prune((new \cup IdKeys) \ RemoveForSnmp, MaxAttrs) ELSE new \cup IdKeys)

\* The names the attributes of metric m have in the output. (mib-table is set on the
\* way to an attribute that may be left out.)
KeysForSnmp(new, m, attr, gentle) ==
  LET foreign == {k \in DOMAIN attr : k # m.name /\ k \notin KeepAcross}
      all == new \cup IdKeys \cup (IF m.table # "" /\ foreign # {} THEN {"mib-table"} ELSE {})
  IN  (IF gentle THEN Prune(all \ RemoveForSnmp, MaxAttrs - 3) ELSE all) \ (IF m.mib THEN {} ELSE {"mib-name"})

Renamed(k) == IF k \in DOMAIN StripTo THEN StripTo[k] ELSE k

\* Of two names one comes first, of all that attributes may have; what identifies a
\* metric is none of those that are removed.
ASSUME NamesAssumption ==
  /\ IsFiniteSet(DOMAIN KeyRank) /\ KeyRank \in [DOMAIN KeyRank -> Nat]
  /\ \A j, k \in DOMAIN KeyRank : KeyRank[j] = KeyRank[k] => j = k
  /\ IdKeys \cup {"mib-table"} \subseteq DOMAIN KeyRank /\ IdKeys \cap RemoveForSnmp = {}
  /\ \A in \in Inputs, lm \in MetadataSet \cup {NoMetadata}, strip \in BOOLEAN :
       in.kind \in {"dev", "int"} => {Renamed(k) : k \in DOMAIN SetAttr(in, lm, strip)} \subseteq DOMAIN KeyRank

CopyAttrForSnmp(attr, m, lm, gentle, dropSrcAddr) ==
  LET allowed(k) == m.name \in AllowSys \/ ~(k \in SysKeys \/ (dropSrcAddr /\ k = "src_addr"))
      src(n) == {k \in DOMAIN attr : Renamed(k) = n /\ allowed(k)}
      new == {n \in {Renamed(k) : k \in DOMAIN attr} : src(n) # {} /\ OfTable(n, m, lm)}
  IN  [n \in KeysForSnmp(new, m, attr, gentle) |-> IF n \in new THEN attr[CHOOSE k \in src(n) : TRUE] ELSE "id"]

------------------------------------------------------------------------------
\* Filters.

NoVerdict == [admin |-> FALSE, keep |-> FALSE, seen |-> 0, negate |-> FALSE, br |-> FALSE]

\* checkFilter. Only the br of the last alternative counts.
CheckFilter(attr, f, seenAny, isIf, st, k) ==
  LET match == attr[k] \in f.re
      force == f.force /\ ~seenAny
  IN  CASE ~isIf /\ k \in InterfaceKeys -> [st EXCEPT !.br = FALSE]
        [] ~(~isIf /\ k \in InterfaceKeys) /\ k \in DOMAIN attr ->
             IF attr[k] \in Numeric THEN [st EXCEPT !.br = FALSE]
             ELSE IF k = AdminStatus THEN [st EXCEPT !.admin = ~match, !.br = ~match]
             ELSE IF st.keep THEN [st EXCEPT !.seen = @ + 1, !.br = FALSE]
             ELSE [st EXCEPT !.seen = @ + 1, !.keep = match, !.br = ~match /\ force]
        [] OTHER ->
             IF force THEN [st EXCEPT !.seen = @ + 1, !.keep = FALSE, !.br = TRUE] ELSE [st EXCEPT !.br = FALSE]

\* One filter of the map; a loop that was left stays left.
Filtered(attr, isIf, st, f) ==
  LET seenAny == f.force /\ \E i \in DOMAIN f.keys : f.keys[i] \in DOMAIN attr
      after[i \in 0 .. Len(f.keys)] ==
        IF i = 0 THEN st ELSE CheckFilter(attr, f, seenAny, isIf, after[i - 1], f.keys[i])
  IN  IF st.br THEN st ELSE IF f.negate THEN [st EXCEPT !.negate = TRUE] ELSE after[Len(f.keys)]

\* Mutant of Verdicts: a match found before a forced name turned out to be missing
\* keeps the metric.
VerdictsMatch(attr, lm, isIf) ==
  LET st[fs \in SUBSET lm.match] ==
        IF fs = {} THEN {NoVerdict}
        ELSE UNION {{IF s.keep THEN s ELSE Filtered(attr, isIf, s, f) : s \in st[fs \ {f}]} : f \in fs}
  IN  st[lm.match]

\* Where the loop over some of the filters may have led, in whatever order Go
\* ranges over them.
Verdicts(attr, lm, isIf) ==
  LET st[fs \in SUBSET lm.match] ==
        IF fs = {} THEN {NoVerdict} ELSE UNION {{Filtered(attr, isIf, s, f) : s \in st[fs \ {f}]} : f \in fs}
  IN  st[lm.match]

\* DropOnFilter: the verdicts there may be.
DropOnFilter(attr, lm, isIf) ==
  IF lm = NoMetadata THEN {FALSE}
  ELSE {st.admin \/ (IF st.seen > 0 THEN st.keep = st.negate ELSE st.negate) : st \in Verdicts(attr, lm, isIf)}

------------------------------------------------------------------------------
\* Metadata.

\* fromSnmpMetadata: SetMetadata, then the lock. (Without the name of a device
\* nothing is done.)
ToMetadata(t, in) ==
  /\ fmtPc[t] = "idle" /\ in.kind = "metadata" /\ fmtNum < MaxInputs /\ fmtNum' = fmtNum + 1
  /\ fmtKind \notin {"carbon", "elastic"}
  /\ fmtPc' = [fmtPc EXCEPT ![t] = "setmd"] /\ fmtIn' = [fmtIn EXCEPT ![t] = in]
  /\ fmtOut' = NoOut
  /\ UNCHANGED <<fmtKind, lastMetadata, fmtAttr, fmtSeen, fmtTodo, fmtEvents>>

\* Size counts the attributes of the device and its interfaces. nrm, remote and otel
\* refuse metadata that is smaller, influx and prom take whatever comes.
Size(lm) ==
  Cardinality(DOMAIN lm.dev) + Cardinality(DOMAIN lm.ifs)
Grows(new) == lastMetadata = NoMetadata \/ Size(new) >= Size(lastMetadata)
NrmKeeps(new) == Grows(new)
RemoteKeeps(new) == Grows(new)
OtelKeeps(new) == Grows(new)
InfluxKeeps(new) == TRUE
PromKeeps(new) == TRUE
Keeps(new) ==
  CASE fmtKind = "nrm" -> NrmKeeps(new) [] fmtKind = "remote" -> RemoteKeeps(new) [] fmtKind = "otel" -> OtelKeeps(new)
    [] fmtKind = "influx" -> InfluxKeeps(new) [] fmtKind = "prom" -> PromKeeps(new)

\* Who holds the read lock between two metrics?
Holds(t) == fmtPc[t] = "metrics" /\ (fmtIn[t].kind = "int" \/ fmtKind \in {"nrm", "remote"})
\* Mutant of NoReader: the lock is not taken to store metadata.
AnyReader == TRUE

NoReader == \A t \in FormatThreads : ~Holds(t)

StoreMetadata(t) ==
  /\ fmtPc[t] = "setmd" /\ NoReader
  /\ lastMetadata' = IF Keeps(fmtIn[t].md) THEN fmtIn[t].md ELSE lastMetadata
  /\ fmtPc' = [fmtPc EXCEPT ![t] = "idle"] /\ fmtIn' = [fmtIn EXCEPT ![t] = NoOut]
  /\ UNCHANGED <<fmtKind, fmtAttr, fmtSeen, fmtTodo, fmtOut, fmtEvents, fmtNum>>

------------------------------------------------------------------------------
\* SNMP metrics of a device (kind dev) and of an interface (int).

\* Which metrics each format exports: nrm and otel leave the raw counters of an
\* interface out, prom takes what has no name as well.
Valued(in) == {m \in in.metrics : m.val}
Named(in) == {m \in Valued(in) : m.name # ""}
NoCounters(in) == {m \in Named(in) : ~m.counter}
NrmDevice(in) == Named(in)
NrmInterface(in) == NoCounters(in)
OtelDevice(in) == Named(in)
OtelInterface(in) == NoCounters(in)
InfluxDevice(in) == Named(in)
InfluxInterface(in) == Named(in)
RemoteDevice(in) == Named(in)
RemoteInterface(in) == Named(in)
PromDevice(in) == Valued(in)
PromInterface(in) == Valued(in)
Metrics(in) ==
  CASE fmtKind = "nrm" -> IF in.kind = "dev" THEN NrmDevice(in) ELSE NrmInterface(in)
    [] fmtKind = "otel" -> IF in.kind = "dev" THEN OtelDevice(in) ELSE OtelInterface(in)
    [] fmtKind = "influx" -> IF in.kind = "dev" THEN InfluxDevice(in) ELSE InfluxInterface(in)
    [] fmtKind = "remote" -> IF in.kind = "dev" THEN RemoteDevice(in) ELSE RemoteInterface(in)
    [] fmtKind = "prom" -> IF in.kind = "dev" THEN PromDevice(in) ELSE PromInterface(in)

StripsStrings(kind) == fmtKind = "influx" \/ (fmtKind = "remote" /\ kind = "int")
Gentle(kind) == fmtKind \in {"nrm", "otel"} \/ (fmtKind = "remote" /\ kind = "dev")

\* prom exports the attributes as they are.
ToSnmp(t, in) ==
  /\ fmtPc[t] = "idle" /\ in.kind \in {"dev", "int"} /\ fmtNum < MaxInputs /\ fmtNum' = fmtNum + 1
  /\ fmtKind \notin {"carbon", "elastic"}
  /\ fmtPc' = [fmtPc EXCEPT ![t] = "metrics"] /\ fmtIn' = [fmtIn EXCEPT ![t] = in]
  /\ fmtAttr' = [fmtAttr EXCEPT ![t] = SetAttr(in, lastMetadata, StripsStrings(in.kind))]
  /\ fmtSeen' = [fmtSeen EXCEPT ![t] = lastMetadata]
  /\ fmtTodo' = [fmtTodo EXCEPT ![t] = Metrics(in)]
  /\ fmtOut' = NoOut
  /\ UNCHANGED <<fmtKind, lastMetadata, fmtEvents>>

\* A metric with what the metadata, as it is now, says of it.
Emit(t, m) ==
  LET in == fmtIn[t]
  IN  \E attr \in {IF fmtKind = "prom" THEN fmtAttr[t]
                    ELSE CopyAttrForSnmp(fmtAttr[t], m, lastMetadata, Gentle(in.kind), StripsStrings(in.kind))} :
        \E drop \in IF fmtKind = "prom" THEN {FALSE} ELSE DropOnFilter(attr, lastMetadata, in.kind = "int") :
          fmtOut' = [kind |-> in.kind, attr |-> attr, drop |-> drop, lm |-> lastMetadata]

EmitMetric(t) ==
  /\ fmtPc[t] = "metrics"
  /\ \E m \in fmtTodo[t] : Emit(t, m) /\ fmtTodo' = [fmtTodo EXCEPT ![t] = @ \ {m}]
  /\ UNCHANGED <<fmtKind, lastMetadata, fmtPc, fmtIn, fmtAttr, fmtSeen, fmtEvents, fmtNum>>

\* The utilization of an interface whose speed is known, if time has passed. nrm
\* and otel ask for a count of bytes, influx for one that is not zero, prom for none.
SpeedKnown(in) ==
  /\ lastMetadata # NoMetadata /\ in.uptime > 0
  /\ \E p \in {in.inp, in.out} : p \in DOMAIN lastMetadata.ifs /\ "Speed" \in DOMAIN lastMetadata.ifs[p]
NrmRate(in) == SpeedKnown(in) /\ in.octets >= 0
OtelRate(in) == SpeedKnown(in) /\ in.octets >= 0
SetRates(in) == SpeedKnown(in) /\ in.octets > 0
PromRate(in) == SpeedKnown(in)
HasRate(in) ==
  in.kind = "int" /\ CASE fmtKind = "nrm" -> NrmRate(in) [] fmtKind = "otel" -> OtelRate(in)
                       [] fmtKind = "influx" -> SetRates(in) [] fmtKind = "prom" -> PromRate(in) [] OTHER -> FALSE

RateMetric == [name |-> "IfInUtilization", table |-> "if", mib |-> TRUE, val |-> TRUE, counter |-> FALSE]

EmitRates(t) ==
  /\ fmtPc[t] = "metrics" /\ fmtTodo[t] = {}
  /\ IF HasRate(fmtIn[t]) THEN Emit(t, RateMetric) ELSE UNCHANGED fmtOut
  /\ fmtPc' = [fmtPc EXCEPT ![t] = "idle"] /\ fmtAttr' = [fmtAttr EXCEPT ![t] = NoAttrs]
  /\ fmtIn' = [fmtIn EXCEPT ![t] = NoOut] /\ fmtSeen' = [fmtSeen EXCEPT ![t] = NoMetadata]
  /\ UNCHANGED <<fmtKind, lastMetadata, fmtTodo, fmtEvents, fmtNum>>

------------------------------------------------------------------------------
\* Everything else is one step.

\* synMetrics: what the columns of a synthetic result are called.
SynMetrics(rt) ==
  LET ping == {"sent", "lost", "min_rtt", "max_rtt", "avg_rtt", "std_rtt", "jit_rtt"}
  IN  CASE rt = 0 -> {"error"} \cup ping [] rt = 1 -> {"timeout"} \cup ping [] rt \in {2, 5} -> ping
        [] rt \in {3, 8} -> {"status", "ttlb", "size"} [] rt = 4 -> {"time"} [] rt = 6 -> {"time", "code"}
        [] rt = 7 -> {"time", "port"} [] rt = 9 -> {"status", "trx_time"} [] rt = 10 -> {"time", "validation"}
        [] OTHER -> {}

GetSynthOutcome(rt) == CASE rt = 0 -> 2 [] rt = 1 -> 1 [] OTHER -> 0

SynthGauges == {"avg_rtt", "jit_rtt", "time", "code", "port", "status", "ttlb", "size", "trx_time", "validation"}

\* fromKSynth of each format: the metrics that are exported.
NrmSynth(rt, sent) == (SynMetrics(rt) \cap SynthGauges) \cup (IF sent THEN {"lost"} ELSE {})
PromSynth(rt) == SynMetrics(rt) \cap (SynthGauges \cup {"lost", "sent"})
RemoteSynth(rt) == SynMetrics(rt) \cap (SynthGauges \cup {"lost", "sent"})
OtelSynth(rt) == SynMetrics(rt) \cap (SynthGauges \cup {"lost", "sent"})
InfluxSynth(rt) == IF rt > 1 THEN SynMetrics(rt) ELSE SynMetrics(rt) \cap {"error", "timeout"}
CarbonSynth == {"avg_rtt", "jit_rtt", "max_rtt", "std_rtt"}
HandleSynth(rt) == SynMetrics(rt)

\* All but carbon say how the test went; elasticsearch does so after it has stripped
\* zeros.
SynthOut(in) ==
  [names |-> CASE fmtKind = "nrm" -> NrmSynth(in.rt, in.sent) [] fmtKind = "prom" -> PromSynth(in.rt)
               [] fmtKind = "remote" -> RemoteSynth(in.rt) [] fmtKind = "otel" -> OtelSynth(in.rt)
               [] fmtKind = "influx" -> InfluxSynth(in.rt) [] fmtKind = "elastic" -> HandleSynth(in.rt)
               [] fmtKind = "carbon" -> CarbonSynth,
   outcome |-> IF fmtKind = "carbon" THEN {} ELSE {GetSynthOutcome(in.rt)}]

Positive(v) == {w \in {v} : w > 0}

\* int64(bytes * uint64(rate)).
ToInt(n) == LET u == n % 2 ^ WordBits IN IF u >= 2 ^ (WordBits - 1) THEN u - 2 ^ WordBits ELSE u
Volume(in) == ToInt(in.bytes * in.rate)

\* fromKflow of each format. otel makes a log of the flow, and elasticsearch takes
\* the record as it is.
NrmFlow(in) == Positive(Volume(in))
RemoteFlow(in) == Positive(Volume(in))
PromFlow(in) == {Volume(in)} \ {0}
InfluxFlow(in) == {Volume(in)}
CarbonFlow(in) == {Volume(in)}
OtelFlow(in) == {}
FlowOut(in) ==
  CASE fmtKind = "nrm" -> NrmFlow(in) [] fmtKind = "remote" -> RemoteFlow(in) [] fmtKind = "prom" -> PromFlow(in)
    [] fmtKind = "influx" -> InfluxFlow(in) [] fmtKind = "carbon" -> CarbonFlow(in) [] fmtKind = "otel" -> OtelFlow(in)
    [] fmtKind = "elastic" -> {in.bytes}

\* fromKtranslate, about the agent itself: the field that its type asks for, if it is
\* positive or forced.
KtransField(type) ==
  CASE type = "counter" -> "count" [] type = "gauge" -> "value" [] type = "meter" -> "one-minute"
    [] type \in {"histogram", "timer"} -> "95-percentile"
NrmKtrans(in) == {v \in {in.fields[KtransField(in.type)]} : in.force \/ v > 0}
InfluxKtrans(in) == {v \in {in.fields[KtransField(in.type)]} : in.force \/ v > 0}
OtelKtrans(in) == {v \in {in.fields[KtransField(in.type)]} : in.force \/ v > 0}
KtransOut(in) ==
  CASE fmtKind = "nrm" -> NrmKtrans(in) [] fmtKind = "influx" -> InfluxKtrans(in) [] fmtKind = "otel" -> OtelKtrans(in)
    [] fmtKind = "elastic" -> {in.fields[KtransField(in.type)]} \ {0}

\* fromKSyngest.
NrmSyngest(in) == Positive(in.value)
PromSyngest(in) == Positive(in.value)
RemoteSyngest(in) == Positive(in.value)
OtelSyngest(in) == Positive(in.value)
SyngestOut(in) ==
  CASE fmtKind = "nrm" -> NrmSyngest(in) [] fmtKind = "prom" -> PromSyngest(in) [] fmtKind = "remote" -> RemoteSyngest(in)
    [] fmtKind = "otel" -> OtelSyngest(in) [] fmtKind = "elastic" -> {in.value} \ {0}

\* The kinds of records each format knows; it warns once of another one.
NrmKinds == {"synth", "syngest", "flow", "ktrans", "trap"}
OtelKinds == {"synth", "syngest", "flow", "ktrans", "trap"}
InfluxKinds == {"synth", "flow", "ktrans"}
PromKinds == {"synth", "syngest", "flow"}
RemoteKinds == {"synth", "syngest", "flow"}
CarbonKinds == {"synth", "flow"}
ElasticKinds == {"synth", "syngest", "flow", "ktrans", "trap", "other"}
Known(in) ==
  in.kind \in CASE fmtKind = "nrm" -> NrmKinds [] fmtKind = "otel" -> OtelKinds [] fmtKind = "influx" -> InfluxKinds
                [] fmtKind = "prom" -> PromKinds [] fmtKind = "remote" -> RemoteKinds
                [] fmtKind = "carbon" -> CarbonKinds [] fmtKind = "elastic" -> ElasticKinds

\* A trap is an event, sent to the sink directly if there is room.
SendsEvent(in) == in.kind = "trap" /\ fmtKind \in {"nrm", "otel"} /\ fmtEvents < EventRoomNr

ToOther(t, in) ==
  /\ fmtPc[t] = "idle" /\ in.kind \in ElasticKinds
  /\ fmtNum < MaxInputs /\ fmtNum' = fmtNum + 1
  /\ fmtEvents' = IF SendsEvent(in) THEN fmtEvents + 1 ELSE fmtEvents
  /\ fmtOut' = IF ~Known(in) THEN NoOut
               ELSE [kind |-> in.kind, in |-> in,
                     out |-> CASE in.kind = "synth" -> SynthOut(in) [] in.kind = "flow" -> FlowOut(in)
                               [] in.kind = "ktrans" -> KtransOut(in) [] in.kind = "syngest" -> SyngestOut(in)
                               [] OTHER -> {}]
  /\ UNCHANGED <<fmtKind, lastMetadata, fmtPc, fmtIn, fmtAttr, fmtSeen, fmtTodo>>

------------------------------------------------------------------------------
\* Rollups. A row has the names of its dimensions, their values and a number.

Folded(name, pt) == IF name \in PortNames /\ pt \in HighPorts THEN "32768" ELSE pt
Set(attr, name, pt) == Only(name, pt) ++ attr

\* The attributes after the dimensions of the row were set, one after the other: a
\* blank value deletes what has the name, and high ports are one, if the format says so.
RollupAttrs(in, names, blank, fold) ==
  LET to(d) == IF d \in DOMAIN names THEN names[d] ELSE d
      put(a, name, pt) ==
        IF pt \in blank THEN Without(a, {name}) ELSE Set(a, name, IF fold THEN Folded(name, pt) ELSE pt)
      at[i \in 0 .. Len(in.dims)] == IF i = 0 THEN NoAttrs ELSE put(at[i - 1], to(in.dims[i]), in.pts[i])
  IN  at[Len(in.dims)]

\* toNRMetricRollup. Source and destination have the same name there.
NrmRollup(in) ==
  LET attr == RollupAttrs(in, NrmNames, BlankPts, TRUE)
      ids  == {"vpc_account", "vpc_name"} \subseteq DOMAIN attr
  IN  IF in.metric = 0 THEN {} ELSE {IF ids THEN Set(attr, "vpc_identification", "both") ELSE attr}

\* toOtelDataRollup: a row with a blank is left out, one with a zero is not.
OtelRollup(in) ==
  IF \E i \in DOMAIN in.pts : in.pts[i] \in BlankPts THEN {} ELSE {RollupAttrs(in, OtelNames, {}, TRUE)}

\* The others take names and values as they are; influx wants the name of a metric
\* in the event type, prom a label for each value.
PlainAttrs(in) == RollupAttrs(in, NoAttrs, {}, FALSE)
InfluxRollup(in) == IF in.metric = 0 \/ ~in.typed THEN {} ELSE {PlainAttrs(in)}
PromRollup(in) == IF in.metric = 0 THEN {} ELSE {PlainAttrs(in)}
ElasticRollup(in) == {PlainAttrs(in)}

ToRollup(t, in) ==
  /\ fmtPc[t] = "idle" /\ in.kind = "rollup" /\ fmtNum < MaxInputs /\ fmtNum' = fmtNum + 1
  /\ fmtOut' = [kind |-> "rollup", in |-> in,
                out |-> CASE fmtKind = "nrm" -> NrmRollup(in) [] fmtKind = "otel" -> OtelRollup(in)
                          [] fmtKind = "influx" -> InfluxRollup(in) [] fmtKind = "prom" -> PromRollup(in)
                          [] fmtKind = "elastic" -> ElasticRollup(in) [] OTHER -> {}]
  /\ UNCHANGED <<fmtKind, lastMetadata, fmtPc, fmtIn, fmtAttr, fmtSeen, fmtTodo, fmtEvents>>

\* The sink takes an event.
TakeEvent ==
  /\ fmtEvents > 0 /\ fmtEvents' = fmtEvents - 1
  /\ UNCHANGED <<fmtKind, lastMetadata, fmtPc, fmtIn, fmtAttr, fmtSeen, fmtTodo, fmtOut, fmtNum>>

FormatStep == \/ \E t \in FormatThreads : StoreMetadata(t) \/ EmitMetric(t) \/ EmitRates(t)
              \/ TakeEvent

FormatsNext ==
  \/ FormatStep
  \/ \E t \in FormatThreads, in \in Inputs : ToMetadata(t, in) \/ ToSnmp(t, in) \/ ToOther(t, in) \/ ToRollup(t, in)

------------------------------------------------------------------------------
\* Types.
FormatsTypeOK ==
  /\ fmtKind \in FormatKinds /\ lastMetadata \in MetadataSet \cup {NoMetadata}
  /\ fmtEvents \in 0 .. EventRoomNr /\ fmtNum \in 0 .. MaxInputs
  /\ fmtPc \in [FormatThreads -> {"idle", "metrics", "setmd"}]
  /\ \A t \in FormatThreads : fmtTodo[t] # {} => fmtPc[t] = "metrics"

\* The metadata a record is enriched from is still there when its last metric is
\* filtered, in the formats that keep the lock.
OneMetadata == \A t \in FormatThreads : Holds(t) => fmtSeen[t] = lastMetadata

\* What the filters say of a metric, in whatever order they are met, if no name has
\* alternatives and negation is not mixed with forced names: it is dropped if the
\* admin status does not match, if a forced name is missing, or if there is a name
\* to look at and none matches. Negated, it is kept only if there is one and none
\* matches.
Expected(out) ==
  LET plain == {f \in out.lm.match : ~f.negate /\ (out.kind = "int" \/ f.keys[1] \notin InterfaceKeys)}
      has(f)   == f.keys[1] \in DOMAIN out.attr /\ out.attr[f.keys[1]] \notin Numeric
      meets(f) == has(f) /\ out.attr[f.keys[1]] \in f.re
      others == {f \in plain : f.keys[1] # AdminStatus /\ has(f)}
  IN  \/ \E f \in plain : f.keys[1] = AdminStatus /\ has(f) /\ ~meets(f)
      \/ IF \E f \in out.lm.match : f.negate
         THEN others = {} \/ \E f \in others : meets(f)
         ELSE \/ \E f \in plain : f.force /\ f.keys[1] \notin DOMAIN out.attr
              \/ others # {} /\ \A f \in others : ~meets(f)
OneVerdict ==
  LET out == fmtOut
  IN  out.kind \in {"dev", "int"} /\ fmtKind # "prom" /\ out.lm # NoMetadata =>
        \/ \E f \in out.lm.match : Len(f.keys) > 1
        \/ \E f, g \in out.lm.match : f.negate /\ g.force
        \/ out.drop = Expected(out)

\* However many attributes there are, a metric is sent with no more than New Relic
\* takes, and with those that say what it is.
AttrsBounded ==
  fmtOut.kind \in {"dev", "int"} /\ fmtKind # "prom" /\ Gentle(fmtOut.kind) =>
    /\ Cardinality(DOMAIN fmtOut.attr) <= MaxAttrs
    /\ {"objectIdentifier", "instrumentation.name"} \subseteq DOMAIN fmtOut.attr
    /\ DOMAIN fmtOut.attr \cap RemoveForSnmp = {}

\* Failures of synthetic tests are still exported: every format but carbon gives a
\* result an outcome, and it is 0 exactly for those that are neither an error nor a
\* timeout.
OutcomeKept ==
  fmtOut.kind = "synth" /\ fmtKind # "carbon" =>
    /\ fmtOut.out.outcome # {}
    /\ fmtOut.out.outcome = {0} <=> fmtOut.in.rt \notin {0, 1}

\* A row of a rollup keeps its dimensions: if no two of them have one name in the
\* format, each value that is not blank is there. If two have, the later one counts,
\* and a blank one takes the value of the other away.
DimsKept ==
  fmtOut.kind = "rollup" =>
    LET in == fmtOut.in
        names == IF fmtKind = "nrm" THEN NrmNames ELSE IF fmtKind = "otel" THEN OtelNames ELSE NoAttrs
        to(i) == IF in.dims[i] \in DOMAIN names THEN names[in.dims[i]] ELSE in.dims[i]
    IN  \A attr \in fmtOut.out, i \in DOMAIN in.dims :
          (\A j \in DOMAIN in.dims : to(j) = to(i) => j = i) /\ in.pts[i] \notin BlankPts =>
            to(i) \in DOMAIN attr /\ attr[to(i)] \in {in.pts[i], "32768"}

MetricFormatsInv == FormatsTypeOK /\ OneMetadata /\ OneVerdict /\ AttrsBounded /\ OutcomeKept /\ DimsKept

\* Nobody is in the middle of a record.
FormatsOver == \A t \in FormatThreads : fmtPc[t] = "idle"
=============================================================================
