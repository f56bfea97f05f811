---------------------------- MODULE FlowRecord ----------------------------
(***************************************************************************)
(* What becomes of one JCHF object as the Kentik flow path fills it from a *)
(* flow, enriches it, adds it to the rollups, turns it into a flat map for *)
(* an event format, resets it and fills it again. The map (avroSet) is     *)
(* cached in the object and outlives the flow: ToMap overwrites the fixed  *)
(* fields, Flatten moves the custom fields into it, strip deletes what is  *)
(* blank, and Reset only says that the fixed fields have to be written     *)
(* again.                                                                  *)
(*                                                                         *)
(* A value is the number of the flow it comes from, 0 is the blank one and *)
(* Private that of an internal address. Fixed fields are stood for by      *)
(* four: addr, which every flow sets, geo, which a flow sets if it has     *)
(* one, desc, set if the interface is known, and tags, set if it cannot be *)
(* read. The sample rate is kept apart, since sampling changes it after    *)
(* the rollups.                                                            *)
(***************************************************************************)
EXTENDS Integers, FiniteSets, Maps

CONSTANTS
  FlowSet,       \* flows: [geo, device, iface, cols, sub, app, result, internal]
  ColName,       \* global names of custom columns (CustomMapper), by id
  DeviceCols,    \* names the device has for its custom columns, by id
  Subtypes,      \* for a device subtype the names of its columns
  Udrs,          \* the same for an application protocol
  RemapTo,       \* remapCustomStrings
  Foreign,       \* for a subtype the keys that are kicked out
  DroppedAttrs,  \* keys that strip deletes whatever their value
  Resolves,      \* is there a resolver?
  MaxRecords     \* flows that are explored

Private == -1
FixedKeys == {"addr", "geo", "desc", "tags"}
NoCustoms == [k \in {} |-> 0]

\* Custom keys that are written after the loop over CustomStr.
LateKeys == {"src_endpoint", "src_as_name", "src_host", "dst_host"}

\* The keys that are kicked out begin with kt_aws or kt_az, which no common name and
\* no late key does; strip deletes no fixed field of those above.
ASSUME RecordAssumption ==
  /\ MaxRecords \in Nat /\ Resolves \in BOOLEAN /\ FlowSet # {}
  /\ FixedKeys \cap DroppedAttrs = {}
  /\ \A k \in DOMAIN RemapTo : RemapTo[k] # "src_as_name"
  /\ \A s \in DOMAIN Foreign : Foreign[s] \cap (LateKeys \cup {RemapTo[k] : k \in DOMAIN RemapTo}) = {}
  /\ DOMAIN ColName \cap DOMAIN DeviceCols = {}
  /\ \A k \in DOMAIN RemapTo : RemapTo[k] \in DOMAIN RemapTo => RemapTo[RemapTo[k]] = RemapTo[k]

VARIABLES
  recOpts,    \* configuration: [enrich, rollups, sample]
  recPc,      \* where the thread is with the object
  recFlow,    \* the flow in the object
  recNum,     \* its number
  recObj,     \* the object: [fixed, rate, custom, cached, boxed, map, mapRate]
  recTodo,    \* keys the loop over CustomStr has still to visit
  recOut      \* the flat map that was serialized last, or NoCustoms

recordVars == <<recOpts, recPc, recFlow, recNum, recObj, recTodo, recOut>>

RecordInit ==
  /\ recOpts \in [enrich : BOOLEAN, rollups : BOOLEAN, sample : BOOLEAN]
  /\ recPc = "free" /\ recFlow = (CHOOSE f \in FlowSet : TRUE) /\ recNum = 0 /\ recTodo = {} /\ recOut = NoCustoms
  /\ recObj = [fixed |-> [k \in FixedKeys |-> 0], rate |-> <<0, 1>>, custom |-> NoCustoms, type |-> "flow",
               cached |-> FALSE, boxed |-> FALSE, map |-> NoCustoms, mapRate |-> <<0, 1>>]

------------------------------------------------------------------------------
\* flowToJCHF, part by part.

\* Flow tags, BGP paths and communities are copied if reading them fails, which it
\* does not for a flow that could be decoded: they stay as they are, blank.
TagFields(old) == old["tags"]

\* The fields of the flow itself. One that the flow has not keeps the value of
\* the flow the object carried before.
FlowFields(old, f, n) ==
  [k \in FixedKeys |->
     CASE k = "addr" -> n [] k = "tags" -> TagFields(old) [] k = "geo" -> (IF f.geo THEN n ELSE old[k])
       [] k = "desc" -> (IF f.device /\ f.iface THEN n ELSE old[k])]

\* What is known of the device and of its interfaces.
DeviceFields(f, n) ==
  IF ~f.device THEN NoCustoms
  ELSE [k \in {"device_site"} \cup (IF f.iface THEN {"input_provider"} ELSE {}) |-> n]

\* The addresses, and their names if there is a resolver.
HostFields(n) == IF Resolves THEN [k \in {"src_host", "dst_host"} |-> n] ELSE NoCustoms

\* The custom columns that go to CustomStr: texts, addresses and numbers that a tag
\* stands for. They get the global name, else the device's. A column without either
\* stands for a 32-bit number without a tag, which is left out, since nothing more is
\* known about it. The numbers that go to CustomInt, CustomBigInt and CustomFloat are
\* not represented: the loop below does not visit them.
CustomFields(f, n) ==
  LET name == IF f.device THEN ColName ++ DeviceCols ELSE ColName
  IN  [k \in {name[c] : c \in f.cols \cap DOMAIN name} |-> n]

\* The columns of a subtype or an application protocol get their real name. Of
\* an agent that is known more is filled in.
UdrNames(f) ==
  CASE f.device /\ f.sub \in DOMAIN Subtypes -> Subtypes[f.sub]
    [] f.app \in DOMAIN Udrs -> Udrs[f.app]
    [] OTHER -> NoCustoms
UdrFields(f, custom) ==
  LET names == UdrNames(f)
      to(k) == IF k \in DOMAIN names THEN names[k] ELSE k
  IN  [t \in {to(k) : k \in DOMAIN custom} |-> custom[CHOOSE k \in DOMAIN custom : to(k) = t]]

GetEventType(f) ==
  CASE f.app = 12 -> "snmp" [] f.app = 10 -> (IF f.result = 4 THEN "trace" ELSE "synth")
    [] f.app = 18 -> "gest" [] OTHER -> "flow"

FlowToJCHF(f) ==
  LET n == recNum + 1
      custom == UdrFields(f, CustomFields(f, n)) ++ DeviceFields(f, n) ++ HostFields(n)
  IN  /\ recPc = "free" /\ n <= MaxRecords
      /\ recPc' = "remap" /\ recFlow' = f /\ recNum' = n /\ recTodo' = DOMAIN custom
      /\ recObj' = [recObj EXCEPT !.fixed = FlowFields(@, f, n), !.rate = <<n, 1>>, !.custom = custom]
      /\ UNCHANGED <<recOpts, recOut>>

\* Mutant of RemapKey: a key of another cloud is kicked out after it was mapped.
RemapFirst(k) ==
  LET custom == recObj.custom
      to     == IF k \in DOMAIN RemapTo THEN RemapTo[k] ELSE k
  IN  /\ recPc = "remap" /\ k \in recTodo /\ recTodo' = recTodo \ {k}
      /\ recObj' = [recObj EXCEPT !.custom = IF to = k THEN @ ELSE Without(@, {k})]
      /\ UNCHANGED <<recOpts, recPc, recFlow, recNum, recOut>>

\* Mutant of RemapKey: what was mapped is there to be visited again, even if its
\* name is the one it had.
RemapAgain(k) ==
  LET to == IF k \in DOMAIN RemapTo THEN RemapTo[k] ELSE k
  IN  /\ recPc = "remap" /\ k \in recTodo
      /\ recTodo' = (recTodo \ {k}) \cup (IF k \in DOMAIN RemapTo THEN {to} ELSE {})
      /\ recObj' = [recObj EXCEPT !.custom = Only(to, recObj.custom[k]) ++ Without(@, {k})]
      /\ UNCHANGED <<recOpts, recPc, recFlow, recNum, recOut>>

\* One key of the loop that maps CustomStr to common names. It inserts into
\* the map it ranges over: Go may or may not visit the new entry.
RemapKey(k) ==
  LET custom == recObj.custom
      kicked == k \in (IF recFlow.device /\ recFlow.sub \in DOMAIN Foreign THEN Foreign[recFlow.sub] ELSE {})
      to     == IF k \in DOMAIN RemapTo THEN RemapTo[k] ELSE k
      moved  == Without(Only(to, custom[k]) ++ custom, {k})
  IN  /\ recPc = "remap" /\ k \in recTodo
      /\ \/ /\ kicked
            /\ recObj' = [recObj EXCEPT !.custom = Without(@, {k})] /\ recTodo' = recTodo \ {k}
         \/ /\ ~kicked /\ k \in DOMAIN RemapTo
            /\ recObj' = [recObj EXCEPT !.custom = moved]
            /\ \E new \in SUBSET ({to} \ DOMAIN custom) : recTodo' = (recTodo \ {k}) \cup new
         \/ /\ ~kicked /\ k \notin DOMAIN RemapTo
            /\ recTodo' = recTodo \ {k} /\ UNCHANGED recObj
      /\ UNCHANGED <<recOpts, recPc, recFlow, recNum, recOut>>

\* The rest of flowToJCHF: the type, the two end points, the event type.
Filled ==
  /\ recPc = "remap" /\ recTodo = {}
  /\ recPc' = IF recOpts.enrich THEN "enrich" ELSE "roll"
  /\ recObj' = [recObj EXCEPT !.type = GetEventType(recFlow), !.custom = Only("src_endpoint", recNum) ++ @]
  /\ UNCHANGED <<recOpts, recFlow, recNum, recTodo, recOut>>

------------------------------------------------------------------------------
\* doEnrichments: an internal address is private; for the others the geo data
\* base may have an answer, and if not what the flow says stays.
DoEnrichments ==
  /\ recPc = "enrich" /\ recPc' = "roll"
  /\ \E found \in BOOLEAN :
       recObj' = [recObj EXCEPT
         !.fixed.geo = IF recFlow.internal THEN Private ELSE IF found THEN recNum ELSE @,
         !.custom = (IF recFlow.internal \/ found THEN Only("src_as_name", IF recFlow.internal THEN Private ELSE recNum)
                     ELSE NoCustoms) ++ HostFields(recNum) ++ @]
  /\ UNCHANGED <<recOpts, recFlow, recNum, recTodo, recOut>>

\* ToMap returns the cached map or writes the fixed fields over it. The custom
\* fields stay in the map as one entry, by reference.
ToMap(o) ==
  IF o.cached THEN o
  ELSE [o EXCEPT !.map = o.fixed ++ @, !.mapRate = o.rate, !.boxed = TRUE, !.cached = TRUE]

\* Flatten moves the custom fields out of their entry into the map itself.
Flatten(o) ==
  LET m == ToMap(o)
  IN  IF m.boxed THEN [m EXCEPT !.map = m.custom ++ @, !.boxed = FALSE] ELSE m

\* strip works on the same map.
Strip(o) ==
  [o EXCEPT !.map = Without(@, {k \in DOMAIN o.map : o.map[k] = 0 \/ k \in DroppedAttrs})]

\* The rollups take the map of every message of the batch.
AddToRollups ==
  /\ recPc = "roll" /\ recPc' = "sample"
  /\ recObj' = IF recOpts.rollups THEN ToMap(recObj) ELSE recObj
  /\ UNCHANGED <<recOpts, recFlow, recNum, recTodo, recOut>>

\* Sampling multiplies the rate of what is kept.
Sample ==
  /\ recPc = "sample" /\ recPc' = "format"
  /\ recObj' = IF recOpts.sample THEN [recObj EXCEPT !.rate[2] = 2] ELSE recObj
  /\ UNCHANGED <<recOpts, recFlow, recNum, recTodo, recOut>>

\* To of the flat JSON format, which leaves SNMP out.
JsonTo ==
  /\ recPc = "format" /\ recPc' = "give"
  /\ IF recObj.type = "snmp" THEN UNCHANGED <<recObj, recOut>>
     ELSE LET o == Strip(Flatten(recObj)) IN recObj' = o /\ recOut' = o.map
  /\ UNCHANGED <<recOpts, recFlow, recNum, recTodo>>

\* Mutant of ResetRecord: nothing is done about the cached map.
ResetForgets(o) == o

\* Reset, and the object goes back to the free list.
ResetRecord(o) == [o EXCEPT !.cached = FALSE]
GiveRecord ==
  /\ recPc = "give" /\ recPc' = "free" /\ recObj' = ResetRecord(recObj) /\ recOut' = NoCustoms
  /\ UNCHANGED <<recOpts, recFlow, recNum, recTodo>>

RecordStep ==
  \/ \E k \in recTodo : RemapKey(k)
  \/ Filled \/ DoEnrichments \/ AddToRollups \/ Sample \/ JsonTo \/ GiveRecord

RecordNext == RecordStep \/ \E f \in FlowSet : FlowToJCHF(f)

------------------------------------------------------------------------------
\* Types.
RecordTypeOK ==
  /\ recPc \in {"free", "remap", "enrich", "roll", "sample", "format", "give"}
  /\ recFlow \in FlowSet /\ recNum \in 0..MaxRecords
  /\ recTodo \subseteq DOMAIN recObj.custom /\ recObj.type \in {"flow", "snmp", "synth", "trace", "gest"}

\* What the flow in the object has is exported, and exported as its own, however
\* often the object was used before: Reset has to undo the caching of ToMap. (What
\* the flow has not may well be there from the flow before.)
OwnValuesExported ==
  recPc = "give" /\ recObj.type # "snmp" =>
    /\ recOut["addr"] = recNum
    /\ recFlow.geo => recOut["geo"] \in {recNum, Private}
    /\ recFlow.device /\ recFlow.iface => recOut["desc"] = recNum
    /\ \A k \in DOMAIN recObj.custom \ DroppedAttrs : recOut[k] = recObj.custom[k]

\* The sample rate of the flow is the exported one; if the rollups have asked for
\* the map before, it is the rate without the sampling.
RateExported ==
  recPc = "give" /\ recObj.type # "snmp" =>
    recObj.mapRate = IF recOpts.rollups THEN <<recNum, 1>> ELSE recObj.rate

\* The loop over CustomStr ends, in whatever order it goes and whether or not it
\* meets the entries it makes, with each common name that had a source having a
\* value, one of this flow. The name that is mapped to itself is the exception: it
\* may be lost.
RemapKeeps ==
  recPc \in {"enrich", "roll", "sample", "format", "give"} =>
    LET had   == DOMAIN UdrFields(recFlow, CustomFields(recFlow, recNum))
        kept  == had \ (IF recFlow.device /\ recFlow.sub \in DOMAIN Foreign THEN Foreign[recFlow.sub] ELSE {})
        final == {t \in {RemapTo[k] : k \in kept \cap DOMAIN RemapTo} : t \notin DOMAIN RemapTo}
    IN  /\ \A t \in final : t \in DOMAIN recObj.custom /\ recObj.custom[t] = recNum
        /\ \A k \in kept \ DOMAIN RemapTo : k \in DOMAIN recObj.custom
        /\ DOMAIN recObj.custom \cap (had \ kept) = {}

RecordInv == RecordTypeOK /\ OwnValuesExported /\ RateExported /\ RemapKeeps

\* The loop over CustomStr ends.
RecordOver == recPc = "free"
=============================================================================
