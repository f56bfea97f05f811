----------------------------- MODULE FlowDriver -----------------------------
(***************************************************************************)
(* The driver of the NetFlow, sFlow and IPFIX input. The workers of the    *)
(* flow library call Format, which names the device that sent a flow (from *)
(* the device list, or else by DNS, the driver's read lock held), counts it*)
(* on the meter of that name and puts it on t.inputs; run collects the     *)
(* flows into batches. A goroutine replaces the device list without a lock.*)
(***************************************************************************)
EXTENDS DnsCache, Sequences, SequencesExt

CONSTANTS
  Known,         \* addresses of devices that the API may list
  MaxBatchSize,  \* maxBatchSize: of a batch, and of t.inputs
  MaxFlows,      \* flows that arrive
  NoWorker

ASSUME FlowAssumption ==
  /\ MaxBatchSize \in Nat \ {0} /\ MaxFlows \in Nat
  /\ NoWorker \notin Workers /\ Known \subseteq Addrs

VARIABLES
  devices,      \* the addresses of the devices that are known
  wat,          \* where each worker is
  flow,         \* the flow it has, and the name it has found
  flows,        \* flows that have arrived
  rlocked,      \* workers that hold the driver's read lock
  wlocked,      \* the worker that holds, or waits for, its write lock
  meters,       \* the names with a meter in t.metrics
  marked,       \* what the meter of each name in the registry counts
  queue,        \* t.inputs, of which only the names matter
  batch,        \* the batch of run
  sent,         \* flows given to jchfChan under each name
  given,        \* history: flows given to jchfChan
  handing,      \* run waits for jchfChan
  running       \* run has not seen the end of the context

lockVars == <<rlocked, wlocked>>
runVars == <<queue, batch, sent, given, handing, running>>
driverVars == <<devices, wat, flow, flows, lockVars, meters, marked, runVars>>
flowVars == <<dnsVars, driverVars>>

FlowNames == Addrs \cup {Host(a) : a \in Addrs} \cup {<<"device", a>> : a \in Addrs}
NoFlow == [addr |-> NoName, name |-> NoName]

FlowInit ==
  /\ DnsInit
  /\ devices \in SUBSET Known
  /\ wat = [w \in Workers |-> "idle"] /\ flow = [w \in Workers |-> NoFlow] /\ flows = 0
  /\ rlocked = {} /\ wlocked = NoWorker /\ meters = {} /\ marked = [n \in FlowNames |-> 0]
  /\ queue = <<>> /\ batch = <<>> /\ sent = [n \in FlowNames |-> 0]
  /\ given = 0 /\ handing = FALSE /\ running = TRUE

Step(w, from, to) == wat[w] = from /\ wat' = [wat EXCEPT ![w] = to]
SetName(w, n) == flow' = [flow EXCEPT ![w].name = n]

------------------------------------------------------------------------------
\* toJCHF

Format(w, a) ==
  /\ flows < MaxFlows /\ Step(w, "idle", "rlock") /\ flows' = flows + 1
  /\ flow' = [flow EXCEPT ![w] = [addr |-> a, name |-> NoName]]
  /\ UNCHANGED <<dnsVars, devices, lockVars, meters, marked, runVars>>

FlowRLock(w) ==
  /\ wat[w] \in {"rlock", "relock"} /\ wlocked = NoWorker /\ rlocked' = rlocked \cup {w}
  /\ wat' = [wat EXCEPT ![w] = IF wat[w] = "rlock" THEN "name" ELSE "mark"]
  /\ UNCHANGED <<dnsVars, devices, flow, flows, wlocked, meters, marked, runVars>>

KnownDevice(w) ==
  /\ flow[w].addr \in devices /\ Step(w, "name", "meter") /\ SetName(w, <<"device", flow[w].addr>>)
  /\ UNCHANGED <<dnsVars, devices, flows, lockVars, meters, marked, runVars>>

UnknownDevice(w) ==
  /\ flow[w].addr \notin devices /\ Step(w, "name", "resolve") /\ Resolve(w, flow[w].addr)
  /\ UNCHANGED <<devices, flow, flows, lockVars, meters, marked, runVars>>

NameResolved(w) ==
  /\ Step(w, "resolve", "meter") /\ Resolved(w)
  /\ SetName(w, IF answer[w] = NoName THEN flow[w].addr ELSE answer[w])
  /\ UNCHANGED <<cache, devices, flows, lockVars, meters, marked,
                 runVars>>

HasMeter(w) ==
  /\ flow[w].name \in meters /\ Step(w, "meter", "mark")
  /\ UNCHANGED <<dnsVars, devices, flow, flows, lockVars, meters, marked, runVars>>

\* The lock dance: RUnlock, Lock, register, Unlock, RLock.
NoMeter(w) ==
  /\ flow[w].name \notin meters /\ Step(w, "meter", "lock") /\ rlocked' = rlocked \ {w}
  /\ UNCHANGED <<dnsVars, devices, flow, flows, wlocked, meters, marked, runVars>>

FlowLock(w) ==
  /\ wat[w] = "lock" /\ wlocked = NoWorker /\ wlocked' = w
  /\ UNCHANGED <<dnsVars, devices, wat, flow, flows, rlocked, meters, marked, runVars>>

\* GetOrRegisterMeter: a second worker finds the meter of the first.
RegisterMeter(w) ==
  /\ wlocked = w /\ rlocked = {} /\ wlocked' = NoWorker /\ Step(w, "lock", "relock")
  /\ meters' = meters \cup {flow[w].name}
  /\ UNCHANGED <<dnsVars, devices, flow, flows, rlocked, marked, runVars>>

MarkFlow(w) ==
  /\ Step(w, "mark", "put") /\ marked' = [marked EXCEPT ![flow[w].name] = @ + 1]
  /\ rlocked' = rlocked \ {w}
  /\ UNCHANGED <<dnsVars, devices, flow, flows, wlocked, meters, runVars>>

\* t.inputs <- blocks while it is full.
PutFlow(w) ==
  /\ Step(w, "put", "idle") /\ Len(queue) < MaxBatchSize /\ queue' = Append(queue, flow[w].name)
  /\ flow' = [flow EXCEPT ![w] = NoFlow]
  /\ UNCHANGED <<dnsVars, devices, flows, lockVars, meters, marked, batch, sent, given,
                 handing, running>>

------------------------------------------------------------------------------
\* run

TakeFlow ==
  /\ running /\ ~handing /\ queue # <<>> /\ queue' = Tail(queue) /\ batch' = Append(batch, Head(queue))
  /\ handing' = (Len(batch) + 1 >= MaxBatchSize)
  /\ UNCHANGED <<dnsVars, devices, wat, flow, flows, lockVars, meters, marked, sent, given, running>>

SendTick ==
  /\ running /\ ~handing /\ batch # <<>> /\ handing' = TRUE
  /\ UNCHANGED <<dnsVars, devices, wat, flow, flows, lockVars, meters, marked, queue, batch,
                 sent, given, running>>

Count(s, n) == Cardinality({i \in DOMAIN s : s[i] = n})

HandOver ==
  /\ handing /\ handing' = FALSE /\ batch' = <<>> /\ given' = given + Len(batch)
  /\ sent' = [n \in FlowNames |-> sent[n] + Count(batch, n)]
  /\ UNCHANGED <<dnsVars, devices, wat, flow, flows, lockVars, meters, marked, queue, running>>

\* The context is done: what is in the batch and on t.inputs stays there.
RunDone ==
  /\ running /\ ~handing /\ running' = FALSE
  /\ UNCHANGED <<dnsVars, devices, wat, flow, flows, lockVars, meters, marked, queue, batch, sent,
                 given, handing>>

\* GetDevicesAsMap returns a new map; readers see the old one or the new one.
RefreshDevices ==
  /\ devices' \in SUBSET Known
  /\ UNCHANGED <<dnsVars, wat, flow, flows, lockVars, meters, marked, runVars>>

Clear == ClearCache /\ UNCHANGED driverVars
Ask(w) == DnsStep(w) /\ UNCHANGED driverVars

WorkerStep(w) ==
  \/ FlowRLock(w) \/ KnownDevice(w) \/ UnknownDevice(w) \/ Ask(w) \/ NameResolved(w) \/ HasMeter(w)
  \/ NoMeter(w) \/ FlowLock(w) \/ RegisterMeter(w) \/ MarkFlow(w) \/ PutFlow(w)

RunStep == TakeFlow \/ SendTick \/ HandOver

FlowNext == \/ \E w \in Workers : WorkerStep(w) \/ \E a \in Addrs : Format(w, a)
            \/ RunStep \/ RunDone \/ RefreshDevices \/ Clear

------------------------------------------------------------------------------
\* Properties.

\* The variables have the types of the code's; the locks are held by those
\* that are between their calls.
FlowTypeOK ==
  /\ DnsTypeOK /\ devices \subseteq Addrs /\ meters \subseteq FlowNames
  /\ wat \in [Workers -> {"idle", "rlock", "name", "resolve", "meter", "lock", "relock", "mark", "put"}]
  /\ rlocked = {w \in Workers : wat[w] \in {"name", "resolve", "meter", "mark"}}
  /\ Len(queue) <= MaxBatchSize /\ flows \in 0..MaxFlows

\* No flow is lost or doubled, and no batch is empty or above the limit when
\* it is given to jchfChan.
EveryFlowOnce ==
  /\ flows = Cardinality({w \in Workers : wat[w] # "idle"}) + Len(queue) + Len(batch) + given
  /\ handing => Len(batch) \in 1..MaxBatchSize

\* The meters count every flow that went on under the name it was given, also
\* when two workers register the name at the same time.
MetersCountAll ==
  \A n \in FlowNames :
    marked[n] = Count(queue, n) + Count(batch, n) + sent[n]
                + Cardinality({w \in Workers : wat[w] = "put" /\ flow[w].name = n})

\* The driver keeps its types, its flows and its meters.
FlowInv == FlowTypeOK /\ EveryFlowOnce /\ MetersCountAll

\* Every call of Format returns, though it waits for DNS with the read lock
\* held and others wait for the write lock: whenever calls are in progress,
\* all of them come to an end, unless the agent stops.
FormatReturns == []<>(~running \/ \A w \in Workers : wat[w] = "idle")
==============================================================================
