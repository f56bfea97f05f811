---------------------------- MODULE SnmpMetrics ----------------------------
(***************************************************************************)
(* One poll of a device's metrics, from the walks to the records:          *)
(* util.WalkOID with its tries, DeviceMetrics.pollFromConfig and           *)
(* InterfaceMetrics.Poll, in the order of Poller.Poll. The object ids of a *)
(* profile are walked in the random order of a map; what the device answers*)
(* is nondeterministic. (CounterPoll has the schedule of the polls and the *)
(* time differences span.)                                                 *)
(*                                                                         *)
(* An answer is a sequence of variables [oid, idx, type, val]. A record is *)
(* its integer and its text attributes; it is of a row of the device, of a *)
(* walk that failed, or the one-off for the uptime.                        *)
(***************************************************************************)
EXTENDS SnmpValue, FiniteSets, Maps

CONSTANTS
  DevMibs,      \* object id -> its metric: name, conv, enum, enumRev, cond, script, table, slow
  DevAnswers,   \* object id -> what a walk of it may answer
  IfMibs,       \* object id -> its interface metric: name, counter (the name of the raw value), gauge, slow
  IfAnswers,
  UptimeAnswers,
  TickDuration, \* the poll interval, in hundredths of a second
  MaxMetricPolls

\* Names that convertToCHF writes whatever the profile says.
ReservedNames == {"Uptime", "ifInErrorPercent", "ifOutErrorPercent"}

\* Answers are lists of variables, and a walk brings a variable once. The metrics
\* of the interfaces have different names (prune), none of them reserved.
ASSUME MetricsAssumption ==
  /\ DOMAIN DevAnswers = DOMAIN DevMibs /\ DOMAIN IfAnswers = DOMAIN IfMibs
  /\ TickDuration \in Nat \ {0} /\ MaxMetricPolls \in Nat
  /\ \A o \in DOMAIN DevMibs : \A ans \in DevAnswers[o] :
       ans \in Seq({ans[i] : i \in DOMAIN ans})
  /\ \A ans \in UptimeAnswers :
       /\ ans \in Seq({ans[i] : i \in DOMAIN ans})
       /\ \A i \in DOMAIN ans : ans[i].type \in {"int", "counter"} => ans[i].val \in Nat
  /\ \A o \in DOMAIN IfMibs : \A ans \in IfAnswers[o] :
       /\ ans \in Seq({ans[i] : i \in DOMAIN ans})
       /\ \A i, j \in DOMAIN ans : ans[i].idx = ans[j].idx => i = j
       /\ \A i \in DOMAIN ans : ans[i].val \in Nat
  /\ \A o, p \in DOMAIN IfMibs :
       /\ IfMibs[o].name = IfMibs[p].name \/ IfMibs[o].counter = IfMibs[p].counter => o = p
       /\ IfMibs[o].name # IfMibs[p].counter
  /\ \A o \in DOMAIN IfMibs : {IfMibs[o].name, IfMibs[o].counter} \cap ReservedNames = {}

VARIABLES
  mMode,      \* how walks are done: "bulk" (or canned answers first), "nobulk" (no_use_bulkwalkall), "test"
  mPhase,     \* "idle", "device", "uptime", "interfaces"
  mTodo,      \* object ids yet to walk in this phase
  mWalk,      \* the walk at work: its object id and the tries left
  mDone,      \* the context of the poll is done
  mResults,   \* results: the variables of the device metrics, in the order they came
  mErrs,      \* metrics whose walk failed
  mUptime,    \* what the device says, 0 if nothing, or UptimeError
  mFlows,     \* the device's records
  mFound,     \* metricsFound, the map all of them share
  mSeen,      \* history: what each script saw of its row
  mBase,      \* intValues: interface -> counter -> last value
  mDeltas,    \* deltas: interface -> metric -> value
  mIfFlows,   \* the interface records
  mHealth,    \* the Fail gauge
  mPolls

metricVars == <<mMode, mPhase, mTodo, mWalk, mDone, mResults, mErrs, mUptime, mFlows, mFound, mSeen,
                mBase, mDeltas, mIfFlows, mHealth, mPolls>>

NoWalk == [oid |-> "", left |-> 0]
UptimeOid == "sysUpTime"
UptimeError == -1
NoRow == [ints |-> <<>>, strs |-> <<>>, error |-> FALSE]

MetricsInit ==
  /\ mMode \in {"bulk", "nobulk", "test"}
  /\ mPhase = "idle" /\ mTodo = {} /\ mWalk = NoWalk /\ mDone = FALSE
  /\ mResults = <<>> /\ mErrs = {} /\ mUptime = 0 /\ mFlows = <<>> /\ mFound = {} /\ mSeen = {}
  /\ mBase = <<>> /\ mDeltas = <<>> /\ mIfFlows = <<>> /\ mHealth = "good" /\ mPolls = 0

------------------------------------------------------------------------------
\* WalkOID.

\* The tries: a bulk walk, a walk, and a walk after a while; fewer for a test
\* walker and for a device that takes no bulk walks.
TryCount == CASE mMode = "test" -> 1 [] mMode = "nobulk" -> 2 [] OTHER -> 3

AnswersTo(o) ==
  CASE mPhase = "device" -> DevAnswers[o]
    [] mPhase = "uptime" -> UptimeAnswers
    [] OTHER -> IfAnswers[o]

StartWalk(o) ==
  /\ mPhase # "idle" /\ mWalk = NoWalk /\ o \in mTodo
  /\ mWalk' = [oid |-> o, left |-> IF mDone THEN 0 ELSE TryCount]
  /\ UNCHANGED <<mMode, mPhase, mTodo, mDone, mResults, mErrs, mUptime, mFlows, mFound, mSeen, mBase,
                 mDeltas, mIfFlows, mHealth, mPolls>>

\* A try fails and another is left.
TryFails ==
  /\ mWalk.left > 1 /\ mWalk' = [mWalk EXCEPT !.left = @ - 1]
  /\ UNCHANGED <<mMode, mPhase, mTodo, mDone, mResults, mErrs, mUptime, mFlows, mFound, mSeen, mBase,
                 mDeltas, mIfFlows, mHealth, mPolls>>

\* The walk ends: with an error after its last try, at once when the context
\* is done (select takes that or the next try), or with what a try answers.
WalkFailed == mWalk # NoWalk /\ (mWalk.left <= 1 \/ mDone)
WalkAnswered(ans) == mWalk.left > 0 /\ ans \in AnswersTo(mWalk.oid)
WalkOver == mWalk # NoWalk /\ mWalk' = NoWalk /\ mTodo' = mTodo \ {mWalk.oid}

\* The deadline of the poll, or the next generation.
PollContextEnds ==
  /\ mPhase # "idle" /\ ~mDone /\ mDone' = TRUE
  /\ UNCHANGED <<mMode, mPhase, mTodo, mWalk, mResults, mErrs, mUptime, mFlows, mFound, mSeen, mBase,
                 mDeltas, mIfFlows, mHealth, mPolls>>

------------------------------------------------------------------------------
\* DeviceMetrics.

\* IsPollReady: a metric with an interval of its own may not be due.
ReadyOf(mibs) == {r \in SUBSET DOMAIN mibs : \A o \in DOMAIN mibs : mibs[o].slow \/ o \in r}

MetricsPoll(ready) ==
  /\ mPhase = "idle" /\ mPolls < MaxMetricPolls /\ mPolls' = mPolls + 1
  /\ ready \in ReadyOf(DevMibs)
  /\ mPhase' = "device" /\ mTodo' = ready /\ mDone' = FALSE /\ mResults' = <<>> /\ mErrs' = {}
  /\ mUptime' = 0 /\ mFlows' = <<>> /\ mFound' = {} /\ mSeen' = {} /\ mDeltas' = <<>> /\ mIfFlows' = <<>>
  /\ UNCHANGED <<mMode, mWalk, mBase, mHealth>>

\* A variable goes to the results with its metric. A walk of a whole table
\* answers other columns too; they are tossed out.
Asked(o, results, v) ==
  IF DevMibs[o].table /\ v.oid # o THEN results ELSE Append(results, [v EXCEPT !.oid = o])

Gotten(o, results, ans) ==
  LET at[i \in 0..Len(ans)] == IF i = 0 THEN results ELSE Asked(o, at[i - 1], ans[i])
  IN  at[Len(ans)]

DeviceWalked ==
  /\ mPhase = "device" /\ WalkOver
  /\ \/ WalkFailed /\ mErrs' = mErrs \cup {DevMibs[mWalk.oid].name} /\ UNCHANGED mResults
     \/ \E ans \in AnswersTo(mWalk.oid) :
          WalkAnswered(ans) /\ mResults' = Gotten(mWalk.oid, mResults, ans) /\ UNCHANGED mErrs
  /\ UNCHANGED <<mMode, mPhase, mDone, mUptime, mFlows, mFound, mSeen, mBase, mDeltas, mIfFlows, mHealth, mPolls>>

AllWalked ==
  /\ mPhase = "device" /\ mTodo = {} /\ mWalk = NoWalk
  /\ mPhase' = "uptime" /\ mTodo' = {UptimeOid}
  /\ UNCHANGED <<mMode, mWalk, mDone, mResults, mErrs, mUptime, mFlows, mFound, mSeen, mBase, mDeltas,
                 mIfFlows, mHealth, mPolls>>

\* MibCondition.Check: bytes never match.
Check(cond, v) == v.type \in {"int", "counter", "oid"} /\ v.val = cond.value

\* checkCondition: the first variable of the same index with the target's name
\* decides; without one the result is kept.
CheckCondition(w, results) ==
  LET cond == DevMibs[w.oid].cond
      at == {i \in 1..Len(results) : results[i].idx = w.idx /\ DevMibs[results[i].oid].name = cond.target}
  IN  cond.target # "" /\ at # {} => Check(cond, results[CHOOSE i \in at : \A j \in at : i <= j])

Kept(w, results) == w.type # "nil" /\ CheckCondition(w, results)

Lower(t) == [t EXCEPT !.parts = [i \in DOMAIN @ |-> IF t.form = "raw" /\ @[i] \in 65..90 THEN @[i] + 32 ELSE @[i]]]
ToInt64(v) == IF v.type \in {"int", "counter"} THEN v.val ELSE 0

\* The attributes of one variable. Bytes: what the conversion says, then the
\* enumeration, then a number if it reads as one, else a text and 0.
FromText(mib, t) ==
  LET n == ParseInt(t)
  IN  IF mib.enum # <<>>
      THEN [ints |-> Only(mib.name, IF Lower(t) \in DOMAIN mib.enum THEN mib.enum[Lower(t)] ELSE 0),
            strs |-> Only(mib.name, t)]
      ELSE [ints |-> Only(mib.name, n.n), strs |-> IF n.ok THEN <<>> ELSE Only(mib.name, t)]

FromConv(mib, c) ==
  IF c.i > 0 THEN [ints |-> Only(mib.name, c.i), strs |-> Only(mib.name, c.s)]
  ELSE IF c.m # <<>>
  THEN LET text(k) == Raw(c.m[CHOOSE j \in DOMAIN c.m : c.m[j].name = k].bytes)
           keys == {c.m[j].name : j \in DOMAIN c.m}
       IN  [ints |-> [k \in keys |-> ParseInt(text(k)).n], strs |-> [k \in keys |-> text(k)]]
  ELSE FromText(mib, c.s)

Attributes(w) ==
  LET mib == DevMibs[w.oid]
  IN  IF w.type = "octets"
      THEN IF mib.conv.kind = "" THEN FromText(mib, Raw(w.val)) ELSE FromConv(mib, GetFromConv(w.val, mib.conv))
      ELSE [ints |-> Only(mib.name, ToInt64(w)),
            strs |-> IF mib.enumRev = <<>> THEN <<>>
                     ELSE Only(mib.name, Text("enum", <<IF ToInt64(w) \in DOMAIN mib.enumRev THEN mib.enumRev[ToInt64(w)] ELSE -1>>))]

\* assureDeviceMetrics and what is put into the row: a later variable of the
\* same name wins.
AddTo(rows, w) ==
  LET row == IF w.idx \in DOMAIN rows THEN rows[w.idx] ELSE NoRow
      a == Attributes(w)
  IN  Only(w.idx, [ints |-> a.ints ++ row.ints, strs |-> a.strs ++ row.strs, error |-> FALSE]) ++ rows

RowsOf(results) ==
  LET rows[i \in 0..Len(results)] ==
        IF i = 0 THEN <<>>
        ELSE IF Kept(results[i], results) THEN AddTo(rows[i - 1], results[i]) ELSE rows[i - 1]
  IN  rows[Len(results)]

\* Mutant of Scripted: a script runs as soon as its own value is in.
ScriptedEarly(results, rows) ==
  [w \in {results[i] : i \in {j \in 1..Len(results) : DevMibs[results[j].oid].script # "" /\ Kept(results[j], results)}} |->
     DOMAIN Attributes(w).ints]

\* The scripts that run, in a second loop, and the attributes each finds in its
\* row. A script may add an attribute (EnrichMetric).
Scripted(results, rows) ==
  [w \in {results[i] : i \in {j \in 1..Len(results) : DevMibs[results[j].oid].script # "" /\ Kept(results[j], results)}} |->
     DOMAIN rows[w.idx].ints]

EnrichMetric(rows, seen) ==
  [i \in DOMAIN rows |->
     [rows[i] EXCEPT !.ints = [k \in {DevMibs[w.oid].script : w \in {x \in DOMAIN seen : x.idx = i}} |->
        Cardinality(seen[CHOOSE w \in DOMAIN seen : w.idx = i /\ DevMibs[w.oid].script = k])] ++ @]]

\* Mutant of Utilization: of total and free the free part is reported.
UtilizationFree(m) ==
  LET has(a, b) == {a, b} \subseteq DOMAIN m
  IN  IF "MemoryUtilization" \in DOMAIN m THEN {}
      ELSE IF has("MemoryUsed", "MemoryFree")
      THEN {Percent(m["MemoryUsed"], t) : t \in {m["MemoryUsed"] + m["MemoryFree"]} \cap 1..100}
      ELSE IF has("MemoryTotal", "MemoryFree") THEN {Percent(m["MemoryFree"], t) : t \in {m["MemoryTotal"]} \cap 1..100}
      ELSE {}

\* The share of memory in use, from whichever of the numbers the device has.
Utilization(m) ==
  LET has(a, b) == {a, b} \subseteq DOMAIN m
      of(used, total) == IF total > 0 THEN {Percent(used, total)} ELSE {}
  IN  IF "MemoryUtilization" \in DOMAIN m THEN {}
      ELSE IF has("MemoryUsed", "MemoryFree") THEN of(m["MemoryUsed"], m["MemoryFree"] + m["MemoryUsed"])
      ELSE IF has("MemoryTotal", "MemoryFree") THEN of(m["MemoryTotal"] - m["MemoryFree"], m["MemoryTotal"])
      ELSE IF has("MemoryTotal", "MemoryUsed") THEN of(m["MemoryUsed"], m["MemoryTotal"])
      ELSE IF has("MemoryBuffer", "MemoryCache") /\ "MemoryTotal" \in DOMAIN m
      THEN of(m["MemoryTotal"] - (m["MemoryBuffer"] + m["MemoryCache"]), m["MemoryTotal"])
      ELSE {}

Derived(row) ==
  LET m == row.ints
      cpu == IF "CPUIdle" \in DOMAIN m /\ m["CPUIdle"] <= 100 THEN Only("CPU", 100 - m["CPUIdle"]) ELSE <<>>
      util == Utilization(m)
  IN  [row EXCEPT !.ints = cpu ++ (IF util = {} THEN <<>> ELSE Only("MemoryUtilization", CHOOSE u \in util : TRUE)) ++ @]

\* What a record is of.
OfRow(i) == [kind |-> "row", of |-> i]
OfFailed(e) == [kind |-> "err", of |-> e]
OneOff == [kind |-> "one-off", of |-> ""]

\* The records: a row per index, a row per failed walk, and the one-off for the
\* uptime. They share one map of the metrics that were found.
DeviceFlows(rows, errs, uptime) ==
  LET failed == errs \cup (IF uptime = UptimeError THEN {UptimeOid} ELSE {})
  IN  [r \in {OfRow(i) : i \in DOMAIN rows} |-> Derived(rows[r.of])]
      ++ [r \in {OfFailed(e) : e \in failed} |-> [NoRow EXCEPT !.error = TRUE]]
      ++ Only(OneOff, [NoRow EXCEPT !.ints = Only("Uptime", IF uptime = UptimeError THEN 0 ELSE uptime)])

\* metricsFound: the uptime, what each variable that is kept is called and brings,
\* what the scripts add, and what is computed from a row.
MetricsFound(results, seen, rows) ==
  {"Uptime"} \cup {DevMibs[w.oid].script : w \in DOMAIN seen}
  \cup {k \in {"CPU", "MemoryUtilization"} : \E i \in DOMAIN rows : k \in DOMAIN Derived(rows[i]).ints}
  \cup {DevMibs[results[j].oid].name : j \in {i \in 1..Len(results) : Kept(results[i], results)}}
  \cup UNION {DOMAIN Attributes(results[j]).ints : j \in {i \in 1..Len(results) : Kept(results[i], results)}}

UptimeOf(ans) == IF ans = <<>> THEN 0 ELSE ToInt64(ans[1])

DevicePolled ==
  /\ mPhase = "uptime" /\ WalkOver
  /\ \E up \in {UptimeOf(ans) : ans \in {x \in UptimeAnswers : WalkAnswered(x)}}
               \cup (IF WalkFailed THEN {UptimeError} ELSE {}) :
     \E rows \in {RowsOf(mResults)} : \E seen \in {Scripted(mResults, rows)} :
     \E enriched \in {EnrichMetric(rows, seen)} :
       /\ mUptime' = up /\ mSeen' = {[w |-> w, keys |-> seen[w]] : w \in DOMAIN seen}
       /\ mFlows' = DeviceFlows(enriched, mErrs, up) /\ mFound' = MetricsFound(mResults, seen, enriched)
  /\ mPhase' = "ready"
  /\ UNCHANGED <<mMode, mDone, mResults, mErrs, mBase, mDeltas, mIfFlows, mHealth, mPolls>>

------------------------------------------------------------------------------
\* InterfaceMetrics.

StartInterfaces(ready) ==
  /\ mPhase = "ready" /\ ready \in ReadyOf(IfMibs) /\ mPhase' = "interfaces" /\ mTodo' = ready
  /\ mResults' = <<>> /\ mErrs' = {} /\ mFlows' = <<>> /\ mFound' = {} /\ mSeen' = {}
  /\ UNCHANGED <<mMode, mWalk, mDone, mUptime, mBase, mDeltas, mIfFlows, mHealth, mPolls>>

RowAt(f, i) == IF i \in DOMAIN f THEN f[i] ELSE <<>>

\* Mutant of DeltaOf: a counter that has gone down counts from zero.
DeltaOfWrapped(base, i, n, v) ==
  IF i \in DOMAIN base /\ n \in DOMAIN base[i] THEN v - base[i][n] ELSE v

\* SetValueAndReturnDelta (GetDelta): nothing for a counter that is new or down.
DeltaOf(base, i, n, v) ==
  IF i \in DOMAIN base /\ n \in DOMAIN base[i] /\ base[i][n] <= v THEN v - base[i][n] ELSE 0

\* A gauge and an integer as they are; anything else is a counter.
IsCounter(o, v) == ~IfMibs[o].gauge /\ v.type # "int"

\* One variable of a walk: the counter's base and what the record is made of. A
\* variable that is the object id itself has no interface.
Measure(o, st, v) ==
  LET n == IfMibs[o].name
      new == IF IsCounter(o, v) THEN Only(n, DeltaOf(st.base, v.idx, n, v.val)) ++ Only(IfMibs[o].counter, v.val)
             ELSE Only(n, v.val)
      set == IF IsCounter(o, v) THEN Only(n, v.val) ELSE <<>>
  IN  IF v.idx = "" THEN st
      ELSE [base |-> Only(v.idx, set ++ RowAt(st.base, v.idx)) ++ st.base,
            deltas |-> Only(v.idx, new ++ RowAt(st.deltas, v.idx)) ++ st.deltas]

Measured(o, ans, start) ==
  LET at[i \in 0..Len(ans)] == IF i = 0 THEN start ELSE Measure(o, at[i - 1], ans[i])
  IN  at[Len(ans)]

InterfaceWalked ==
  /\ mPhase = "interfaces" /\ WalkOver
  /\ \E ans \in AnswersTo(mWalk.oid) : WalkAnswered(ans)
       /\ \E st \in {Measured(mWalk.oid, ans, [base |-> mBase, deltas |-> mDeltas])} :
            mBase' = st.base /\ mDeltas' = st.deltas
  /\ UNCHANGED <<mMode, mPhase, mDone, mResults, mErrs, mUptime, mFlows, mFound, mSeen, mIfFlows, mHealth, mPolls>>

\* A failed walk ends the poll. The values of the walks before it stay, until
\* the caller has the state discarded (DiscardDeltaState).
InterfacePollFails ==
  /\ mPhase = "interfaces" /\ WalkFailed /\ mWalk' = NoWalk /\ mTodo' = {}
  /\ mPhase' = "idle" /\ mHealth' = "timeout" /\ mBase' = <<>> /\ mDeltas' = <<>> /\ mUptime' = 0
  /\ UNCHANGED <<mMode, mDone, mResults, mErrs, mFlows, mFound, mSeen, mIfFlows, mPolls>>

\* Mutant of Duration: the difference of the uptimes, whatever it is.
DurationDelta(d) == d

\* The time an interface's record counts for: the difference of the uptimes, or
\* the poll interval when there is none, or the device has restarted.
Duration(d) == IF d > 0 THEN d ELSE TickDuration

\* convertToCHF: the percentage of errors where packets came in. The texts of
\* enumerations and the scripts a profile may attach to an interface's metrics,
\* which may set any attribute, are left out.
ErrorPercent(m, errors, packets, as) ==
  IF packets \in DOMAIN m /\ m[packets] > 0 /\ errors \in {IfMibs[o].name : o \in DOMAIN IfMibs}
  THEN Only(as, Percent(IF errors \in DOMAIN m THEN m[errors] ELSE 0, m[packets])) ELSE <<>>

ConvertToCHF(deltas, uptimeDelta) ==
  [i \in DOMAIN deltas |->
     Only("Uptime", Duration(uptimeDelta))
     ++ ErrorPercent(deltas[i], "ifInErrors", "ifHCInUcastPkts", "ifInErrorPercent")
     ++ ErrorPercent(deltas[i], "ifOutErrors", "ifHCOutUcastPkts", "ifOutErrorPercent") ++ deltas[i]]

MetricsPolled ==
  /\ mPhase = "interfaces" /\ mTodo = {} /\ mWalk = NoWalk /\ mPhase' = "idle" /\ mHealth' = "good"
  /\ \E up \in {mUptime} :
       /\ mIfFlows' = ConvertToCHF(mDeltas, IF up > 0 THEN DeltaOf(mBase, "device", "Uptime", up) ELSE 0)
       /\ mBase' = IF up > 0 THEN Only("device", Only("Uptime", up)) ++ mBase ELSE mBase
  /\ mUptime' = 0 /\ mDeltas' = <<>>
  /\ UNCHANGED <<mMode, mTodo, mWalk, mDone, mResults, mErrs, mFlows, mFound, mSeen, mPolls>>

MetricsStep ==
  \/ \E o \in mTodo : StartWalk(o)
  \/ TryFails \/ DeviceWalked \/ AllWalked \/ DevicePolled \/ InterfaceWalked
  \/ InterfacePollFails \/ MetricsPolled \/ \E r \in ReadyOf(IfMibs) : StartInterfaces(r)
MetricsNext == MetricsStep \/ PollContextEnds \/ \E r \in ReadyOf(DevMibs) : MetricsPoll(r)

------------------------------------------------------------------------------
\* Properties.

Polled == mPhase = "ready"

\* A walk that fails takes nothing from the others: every variable that came is
\* an attribute of the record of its index unless its condition, judged by what
\* came, says otherwise; every failed walk has a record; there are no others.
RowsComplete ==
  Polled =>
    /\ \A i \in 1..Len(mResults) : LET w == mResults[i] IN
         Kept(w, mResults) => /\ OfRow(w.idx) \in DOMAIN mFlows
                              /\ DOMAIN Attributes(w).ints \subseteq DOMAIN mFlows[OfRow(w.idx)].ints
    /\ \A e \in mErrs : OfFailed(e) \in DOMAIN mFlows /\ mFlows[OfFailed(e)].error
    /\ \A r \in DOMAIN mFlows : \/ mFlows[r].error \/ r = OneOff
                                \/ \E j \in 1..Len(mResults) : r = OfRow(mResults[j].idx) /\ mResults[j].type # "nil"

\* A script finds every value of its row, in whatever order the walks came, and
\* runs for no row that its condition blocks.
ScriptsSeeRows ==
  Polled =>
    \A s \in mSeen :
      /\ Kept(s.w, mResults)
      /\ \A i \in 1..Len(mResults) :
           (mResults[i].idx = s.w.idx /\ Kept(mResults[i], mResults)) => DOMAIN Attributes(mResults[i]).ints \subseteq s.keys

\* The attributes of a row that are the device's, or a script's.
Given(r) ==
  {DevMibs[mResults[j].oid].script : j \in 1..Len(mResults)}
  \cup UNION {DOMAIN Attributes(mResults[j]).ints : j \in {i \in 1..Len(mResults) : OfRow(mResults[i].idx) = r}}

\* Where the agent computes them, a device whose numbers agree with each other
\* is reported with a utilization between 0 and 100, and of memory in use, not
\* of free memory; a device that says how idle it is, as busy for the rest. All
\* that a record has is in metricsFound, without which no format reports it.
UtilizationSane ==
  Polled =>
    \A r \in DOMAIN mFlows : LET m == mFlows[r].ints IN
      /\ (/\ "MemoryUtilization" \in DOMAIN m \ Given(r) /\ {"MemoryTotal", "MemoryFree"} \subseteq DOMAIN m
          /\ m["MemoryTotal"] \in Nat \ {0} /\ m["MemoryFree"] \in 0..m["MemoryTotal"] /\ "MemoryUsed" \notin DOMAIN m) =>
            m["MemoryUtilization"] \in 0..100
            /\ m["MemoryTotal"] * (m["MemoryUtilization"] + 1) > 100 * (m["MemoryTotal"] - m["MemoryFree"])
      /\ "CPUIdle" \in DOMAIN m /\ m["CPUIdle"] \in 0..100 => "CPU" \in DOMAIN m /\ m["CPU"] + m["CPUIdle"] = 100
      /\ DOMAIN m \subseteq mFound

\* Every interface record counts for some time, which rates divide by, and
\* reports no more than the counter has ever shown.
InterfaceRecordsSane ==
  \A i \in DOMAIN mIfFlows : LET m == mIfFlows[i] IN
    /\ m["Uptime"] > 0
    /\ \A o \in DOMAIN IfMibs :
         IfMibs[o].counter \in DOMAIN m =>
           IfMibs[o].name \in DOMAIN m /\ m[IfMibs[o].name] \in 0..m[IfMibs[o].counter]

\* What a poll's records say of the device.
MetricsInv == RowsComplete /\ ScriptsSeeRows /\ UtilizationSane /\ InterfaceRecordsSane

=============================================================================
