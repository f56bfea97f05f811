----------------------------- MODULE OtelExport -----------------------------
(***************************************************************************)
(* OtelFormat: the threads of the agent that call To and Rollup turn       *)
(* messages into samples and put each one on the channel of its name, which*)
(* the callback of that name's gauge empties when the SDK collects. All    *)
(* maps are under one RWMutex f.mux, but for the callback, which reads     *)
(* f.inputs without it.                                                    *)
(*                                                                         *)
(* Go's RWMutex: a writer first keeps out other writers and new readers    *)
(* (`writer') and then waits for the readers that are inside.              *)
(***************************************************************************)
EXTENDS Naturals, Sequences, FiniteSets, SequencesExt

CONSTANTS
  Threads,     \* threads that call To or Rollup
  Names,       \* names of metrics
  ChanSlack,   \* CHAN_SLACK
  Sizes,       \* numbers of attributes a metadata message may carry
  MaxMsgs,     \* messages of a batch
  MaxBatches,  \* batches of each thread
  NoThread

ASSUME OtelAssumption ==
  /\ IsFiniteSet(Names) /\ ChanSlack \in Nat \ {0} /\ Sizes \subseteq Nat \ {0}
  /\ MaxMsgs \in Nat /\ MaxBatches \in Nat /\ NoThread \notin Threads

Metric(n) == [kind |-> "metric", name |-> n]
Metadata(k) == [kind |-> "metadata", size |-> k]
Messages == {Metric(n) : n \in Names} \cup {Metadata(k) : k \in Sizes}

VARIABLES
  noBlock,      \* config.NoBlockExport
  at,           \* where each thread is
  todo,         \* messages it has yet to translate
  res,          \* samples it has yet to hand over
  batches,      \* batches it has begun
  made,         \* samples it has made
  readers,      \* threads that hold the read lock
  writer,       \* the thread that holds, or waits for, the write lock
  vecs,         \* names with a gauge
  inputs,       \* the channel of each name
  warnFull,     \* names that had a full channel
  marks,        \* ExportDrops: what the meter of each name shows
  lastMetadata, \* size of the device's metadata, 0 for none
  observed,     \* samples the SDK has seen
  gone          \* history: samples that are dropped, replaced or failed

mapVars == <<vecs, inputs, warnFull, marks, lastMetadata>>
otelVars == <<noBlock, at, todo, res, batches, made, readers, writer, mapVars, observed, gone>>

OtelInit ==
  /\ noBlock \in BOOLEAN
  /\ at = [t \in Threads |-> "idle"] /\ todo = [t \in Threads |-> <<>>]
  /\ res = [t \in Threads |-> <<>>] /\ batches = [t \in Threads |-> 0]
  /\ made = [t \in Threads |-> 0]
  /\ readers = {} /\ writer = NoThread
  /\ vecs = {} /\ inputs = [n \in Names |-> <<>>] /\ warnFull = {}
  /\ marks = [n \in Names |-> 0] /\ lastMetadata = 0
  /\ observed = <<>> /\ gone = [dropped |-> {}, replaced |-> {}, failed |-> {}]

Goto(t, from, to) == at[t] = from /\ at' = [at EXCEPT ![t] = to]
Lose(why, S) == gone' = [gone EXCEPT ![why] = @ \cup S]

------------------------------------------------------------------------------
\* f.mux

\* Where a thread is on its way to the read lock, and where it goes on.
RLockThen == [translated |-> "loop", registered |-> "send", warned |-> "mark"]

RLock(t) ==
  /\ at[t] \in DOMAIN RLockThen /\ writer = NoThread
  /\ readers' = readers \cup {t} /\ at' = [at EXCEPT ![t] = RLockThen[at[t]]]
  /\ UNCHANGED <<noBlock, todo, res, batches, made, writer, mapVars, observed, gone>>

RUnlock(t) == readers' = readers \ {t}

\* A thread that wants the write lock announces itself.
Lock(t) ==
  /\ at[t] \in {"metadata", "register", "warn"} /\ writer = NoThread /\ writer' = t
  /\ UNCHANGED <<noBlock, at, todo, res, batches, made, readers, mapVars, observed, gone>>

\* It is inside; the section it guards is one step, which unlocks.
Locked(t) == writer = t /\ readers = {} /\ writer' = NoThread

------------------------------------------------------------------------------
\* The translation of a batch.

To(t, b) ==
  /\ Goto(t, "idle", "translate") /\ batches[t] < MaxBatches
  /\ batches' = [batches EXCEPT ![t] = @ + 1] /\ todo' = [todo EXCEPT ![t] = b]
  /\ UNCHANGED <<noBlock, res, made, readers, writer, mapVars, observed, gone>>

\* A metric message: its attributes are read under the read lock, which is
\* given back before the next message.
TranslateMetric(t) ==
  /\ at[t] = "translate" /\ todo[t] # <<>> /\ Head(todo[t]).kind = "metric" /\ writer = NoThread
  /\ todo' = [todo EXCEPT ![t] = Tail(@)] /\ made' = [made EXCEPT ![t] = @ + 1]
  /\ res' = [res EXCEPT ![t] = Append(@, [by |-> t, nr |-> made[t] + 1,
                                         name |-> Head(todo[t]).name, attrs |-> lastMetadata])]
  /\ UNCHANGED <<noBlock, at, batches, readers, writer, mapVars, observed, gone>>

MeetMetadata(t) ==
  /\ todo[t] # <<>> /\ Head(todo[t]).kind = "metadata" /\ Goto(t, "translate", "metadata")
  /\ UNCHANGED <<noBlock, todo, res, batches, made, readers, writer, mapVars, observed, gone>>

\* Metadata with fewer attributes than the last is not taken.
Newer(size) == lastMetadata = 0 \/ size >= lastMetadata

\* fromSnmpMetadata
SetMetadata(t) ==
  /\ Goto(t, "metadata", "translate") /\ Locked(t)
  /\ lastMetadata' = IF Newer(Head(todo[t]).size) THEN Head(todo[t]).size ELSE lastMetadata
  /\ todo' = [todo EXCEPT ![t] = Tail(@)]
  /\ UNCHANGED <<noBlock, res, batches, made, readers, vecs, inputs, warnFull, marks, observed, gone>>

Translated(t) ==
  /\ todo[t] = <<>> /\ Goto(t, "translate", IF res[t] = <<>> THEN "idle" ELSE "translated")
  /\ UNCHANGED <<noBlock, todo, res, batches, made, readers, writer, mapVars, observed, gone>>

------------------------------------------------------------------------------
\* The samples are handed over, with the read lock held.

Name(t) == Head(res[t]).name
Next1(t) == res' = [res EXCEPT ![t] = Tail(@)]

LookUp(t) ==
  /\ res[t] # <<>> /\ Name(t) \in vecs /\ Goto(t, "loop", "send")
  /\ UNCHANGED <<noBlock, todo, res, batches, made, readers, writer, mapVars, observed, gone>>

\* The SDK refuses the gauge: the rest of the batch is not handed over.
GaugeFails(t) ==
  /\ res[t] # <<>> /\ Name(t) \notin vecs /\ Goto(t, "loop", "idle") /\ RUnlock(t)
  /\ Lose("failed", ToSet(res[t])) /\ res' = [res EXCEPT ![t] = <<>>]
  /\ UNCHANGED <<noBlock, todo, batches, made, writer, mapVars, observed>>

GaugeMade(t) ==
  /\ res[t] # <<>> /\ Name(t) \notin vecs /\ Goto(t, "loop", "register") /\ RUnlock(t)
  /\ UNCHANGED <<noBlock, todo, res, batches, made, writer, mapVars, observed, gone>>

\* The channel is made anew, without a second look at vecs.
Register(t) ==
  /\ Goto(t, "register", "registered") /\ Locked(t)
  /\ vecs' = vecs \cup {Name(t)} /\ inputs' = [inputs EXCEPT ![Name(t)] = <<>>]
  /\ Lose("replaced", ToSet(inputs[Name(t)]))
  /\ UNCHANGED <<noBlock, todo, res, batches, made, readers, warnFull, marks, lastMetadata, observed>>

\* Blocks, the read lock held, while the channel is full.
Send(t) ==
  /\ Goto(t, "send", "loop") /\ Len(inputs[Name(t)]) < ChanSlack
  /\ inputs' = [inputs EXCEPT ![Name(t)] = Append(@, Head(res[t]))] /\ Next1(t)
  /\ UNCHANGED <<noBlock, todo, batches, made, readers, writer, vecs, warnFull, marks,
                 lastMetadata, observed, gone>>

Full(t) == at[t] = "send" /\ noBlock /\ Len(inputs[Name(t)]) = ChanSlack

\* Mutant of MeetFull: the flag is set at once, and the meter later.
MeetFullFlags(t) ==
  /\ Full(t) /\ Name(t) \notin warnFull /\ Goto(t, "send", "warn") /\ RUnlock(t)
  /\ warnFull' = warnFull \cup {Name(t)}
  /\ UNCHANGED <<noBlock, todo, res, batches, made, writer, vecs, inputs, marks, lastMetadata,
                 observed, gone>>

\* With NoBlockExport the first sample that does not fit makes the meter.
MeetFull(t) ==
  /\ Full(t) /\ Name(t) \notin warnFull /\ Goto(t, "send", "warn") /\ RUnlock(t)
  /\ UNCHANGED <<noBlock, todo, res, batches, made, writer, mapVars, observed, gone>>

Warn(t) ==
  /\ Goto(t, "warn", "warned") /\ Locked(t) /\ warnFull' = warnFull \cup {Name(t)}
  /\ UNCHANGED <<noBlock, todo, res, batches, made, readers, vecs, inputs, marks, lastMetadata,
                 observed, gone>>

Mark(t) ==
  /\ Goto(t, "mark", "loop") /\ marks' = [marks EXCEPT ![Name(t)] = @ + 1]
  /\ Lose("dropped", {Head(res[t])}) /\ Next1(t)
  /\ UNCHANGED <<noBlock, todo, batches, made, readers, writer, vecs, inputs, warnFull,
                 lastMetadata, observed>>

\* Later ones are dropped and not counted.
DropQuietly(t) ==
  /\ Full(t) /\ Name(t) \in warnFull /\ Goto(t, "send", "loop")
  /\ Lose("dropped", {Head(res[t])}) /\ Next1(t)
  /\ UNCHANGED <<noBlock, todo, batches, made, readers, writer, mapVars, observed>>

BatchDone(t) ==
  /\ res[t] = <<>> /\ Goto(t, "loop", "idle") /\ RUnlock(t)
  /\ UNCHANGED <<noBlock, todo, res, batches, made, writer, mapVars, observed, gone>>

\* Mutant of Collect: the callback reads f.inputs under the read lock.
CollectLocked(n) ==
  /\ writer = NoThread /\ inputs[n] # <<>>
  /\ observed' = Append(observed, Head(inputs[n])) /\ inputs' = [inputs EXCEPT ![n] = Tail(@)]
  /\ UNCHANGED <<noBlock, at, todo, res, batches, made, readers, writer, vecs, warnFull, marks,
                 lastMetadata, gone>>

\* One receive of the callback of n, which goes on until the channel is empty.
Collect(n) ==
  /\ inputs[n] # <<>>
  /\ observed' = Append(observed, Head(inputs[n])) /\ inputs' = [inputs EXCEPT ![n] = Tail(@)]
  /\ UNCHANGED <<noBlock, at, todo, res, batches, made, readers, writer, vecs, warnFull, marks,
                 lastMetadata, gone>>

\* Rollup is the same code over samples made of rollups.
OtelStep(t) ==
  \/ RLock(t) \/ Lock(t) \/ TranslateMetric(t) \/ MeetMetadata(t) \/ SetMetadata(t)
  \/ Translated(t) \/ LookUp(t) \/ GaugeFails(t) \/ GaugeMade(t) \/ Register(t) \/ Send(t)
  \/ MeetFull(t) \/ Warn(t) \/ Mark(t) \/ DropQuietly(t) \/ BatchDone(t)

OtelNext == \/ \E t \in Threads, b \in SeqOf(Messages, MaxMsgs) : To(t, b)
            \/ \E t \in Threads : OtelStep(t)
            \/ \E n \in Names : Collect(n)

------------------------------------------------------------------------------
\* Properties.

SampleType == [by : Threads, nr : Nat, name : Names, attrs : Sizes \cup {0}]

\* The variables have the types of the code's; no writer works with a reader.
OtelTypeOK ==
  /\ noBlock \in BOOLEAN
  /\ at \in [Threads -> {"idle", "translate", "metadata", "translated", "loop", "register",
                         "registered", "send", "warn", "warned", "mark"}]
  /\ \A t \in Threads : ToSet(todo[t]) \subseteq Messages /\ ToSet(res[t]) \subseteq SampleType
  /\ batches \in [Threads -> 0..MaxBatches] /\ made \in [Threads -> Nat]
  /\ readers = {t \in Threads : at[t] \in {"loop", "send", "mark"}}
  /\ writer \in Threads \cup {NoThread} /\ vecs \subseteq Names /\ warnFull \subseteq Names
  /\ \A n \in Names : Len(inputs[n]) <= ChanSlack /\ ToSet(inputs[n]) \subseteq SampleType
  /\ marks \in [Names -> Nat] /\ lastMetadata \in Sizes \cup {0}

\* Every sample of a batch is in exactly one place: with its thread, on its
\* channel, seen by the SDK, or lost for one of three reasons. With blocking
\* exports a thread never drops one for lack of room.
EverySampleOnce ==
  /\ \A t \in Threads :
       made[t] = Len(res[t]) + Cardinality({i \in DOMAIN observed : observed[i].by = t})
                 + Cardinality({p \in Names \X (1..ChanSlack) :
                                  p[2] \in DOMAIN inputs[p[1]] /\ inputs[p[1]][p[2]].by = t})
                 + Cardinality({s \in UNION {gone[w] : w \in DOMAIN gone} : s.by = t})
  /\ ~noBlock => gone.dropped = {}

\* The SDK sees the samples of a thread under one name in the order in which
\* they were made, and with metadata that never shrinks.
ObservedInOrder ==
  \A i, j \in DOMAIN observed :
    (i < j /\ observed[i].by = observed[j].by /\ observed[i].name = observed[j].name)
    => observed[i].nr < observed[j].nr /\ observed[i].attrs <= observed[j].attrs

\* A name that has lost samples to a full channel has a meter that says so,
\* or a thread is about to mark it.
DropsMetered ==
  \A s \in gone.dropped :
    marks[s.name] > 0 \/ \E t \in Threads : at[t] \in {"warned", "mark"} /\ Name(t) = s.name

\* The format keeps its types, its samples, their order and its meters.
OtelInv == OtelTypeOK /\ EverySampleOnce /\ ObservedInOrder /\ DropsMetered

\* Every call of To returns, even one that waits for room with the read lock
\* held while others wait for the write lock: whenever calls are in progress,
\* all of them come to an end.
BatchesFinish == []<>(\A t \in Threads : at[t] = "idle")
==============================================================================
