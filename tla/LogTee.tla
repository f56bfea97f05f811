------------------------------- MODULE LogTee -------------------------------
(***************************************************************************)
(* The agent's own logs and the syslog messages on their way to the sinks: *)
(* the message pool and the writer of pkg/util/logger/logger_writer.go,    *)
(* the tee, splitLogsForSinks (pkg/cat/logs.go), which copies each log to  *)
(* a channel per sink, and watchLogs of the sinks (pkg/sinks/nr/nr.go,     *)
(* http, otel and stdout alike), which collects and sends them.            *)
(***************************************************************************)
EXTENDS Integers, Sequences, SequencesExt

CONSTANTS
  Loggers,       \* goroutines that log
  NumMessages,   \* message structs, and capacity of freeMessages and messages
  TeeCap,        \* capacity of logTee
  NumSinks, SinkCap,
  Watched,       \* the sinks that run watchLogs: a subset of 1 .. NumSinks
  TeeLogs,       \* cfg.EnableTeeLogs: the writer has a tee
  MaxLogs,       \* bound: logs made by the agent
  MaxSyslogs     \* bound: syslog messages received

ASSUME LogAssumption ==
  /\ IsFiniteSet(Loggers)
  /\ {NumMessages, TeeCap, NumSinks, SinkCap} \subseteq Nat \ {0}
  /\ {MaxLogs, MaxSyslogs} \subseteq Nat
  /\ Watched \subseteq 1 .. NumSinks /\ TeeLogs \in BOOLEAN

Sinks == 1 .. NumSinks

VARIABLES
  free,       \* messages on freeMessages
  hand,       \* hand[l]: the log for which logger l holds a message, or 0
  messages,   \* the queue of the writer
  writer,     \* "wait", "tee" or "free": where the writer is
  writing,    \* the log it holds
  made,       \* logs made so far, which numbers them
  syslogs,    \* syslog messages so far
  tee,        \* logTee
  split,      \* the sink splitLogsForSinks sends to next, 0 when it reads,
              \* -1 when it has returned
  copying,    \* the log it copies
  chan,       \* chan[i]: logTeeSinks[i]
  batch,      \* batch[i]: logs sink i has collected
  sent,       \* sent[i]: logs sink i has sent
  watching,   \* sinks whose watchLogs runs
  ctx

poolVars == <<free, hand, messages, writer, writing>>
teeVars  == <<made, syslogs, tee>>
outVars  == <<split, copying, chan, batch, sent, watching>>
vars == <<poolVars, teeVars, outVars, ctx>>

Init ==
  /\ free = NumMessages /\ hand = [l \in Loggers |-> 0]
  /\ messages = <<>> /\ writer = "wait" /\ writing = 0
  /\ made = 0 /\ syslogs = 0 /\ tee = <<>>
  /\ split = 0 /\ copying = 0
  /\ chan = [i \in Sinks |-> <<>>]
  /\ batch = [i \in Sinks |-> <<>>] /\ sent = [i \in Sinks |-> <<>>]
  /\ watching = Watched
  /\ ctx = "live"

-----------------------------------------------------------------------------
(* The logger.                                                             *)

\* freeMsg: the message goes back unless freeMessages is full.
FreeMsg == free' = IF free < NumMessages THEN free + 1 ELSE free

\* queueMsg takes a message from the pool, or drops the log when there is none.
TakeMsg(l) ==
  /\ hand[l] = 0 /\ made < MaxLogs
  /\ made' = made + 1
  /\ \/ /\ free > 0
        /\ free' = free - 1
        /\ hand' = [hand EXCEPT ![l] = made']
     \/ free = 0 /\ UNCHANGED <<free, hand>>
  /\ UNCHANGED <<messages, writer, writing, syslogs, tee, outVars, ctx>>

\* It renders the log, giving the message back on an error, and queues it,
\* losing the message when the queue is full.
QueueMsg(l) ==
  /\ hand[l] # 0
  /\ hand' = [hand EXCEPT ![l] = 0]
  /\ \/ FreeMsg /\ UNCHANGED messages
     \/ /\ messages' = IF Len(messages) < NumMessages THEN Append(messages, hand[l])
                       ELSE messages
        /\ UNCHANGED free
  /\ UNCHANGED <<writer, writing, teeVars, outVars, ctx>>

WriterTake ==
  /\ writer = "wait" /\ messages # <<>>
  /\ writing' = Head(messages) /\ messages' = Tail(messages)
  /\ writer' = IF TeeLogs THEN "tee" ELSE "free"
  /\ UNCHANGED <<free, hand, teeVars, outVars, ctx>>

\* A send on the tee that does not wait.
OfferTee(log) == tee' = IF Len(tee) < TeeCap THEN Append(tee, log) ELSE tee

\* Mutant of PrintTee: the writer waits for room.
PrintTeeWaits ==
  /\ writer = "tee" /\ Len(tee) < TeeCap
  /\ OfferTee(writing)
  /\ writer' = "free"
  /\ UNCHANGED <<free, hand, messages, writing, made, syslogs, outVars, ctx>>

PrintTee ==
  /\ writer = "tee"
  /\ OfferTee(writing)
  /\ writer' = "free"
  /\ UNCHANGED <<free, hand, messages, writing, made, syslogs, outVars, ctx>>

\* The log is printed and the message given back.
WriterFree ==
  /\ writer = "free"
  /\ writer' = "wait" /\ writing' = 0
  /\ FreeMsg
  /\ UNCHANGED <<hand, messages, teeVars, outVars, ctx>>

\* A thread of the syslog source formats a message (the number after the
\* agent's own logs) and offers it to the tee.
Syslog ==
  /\ syslogs < MaxSyslogs /\ ctx = "live"
  /\ syslogs' = syslogs + 1
  /\ OfferTee(MaxLogs + syslogs')
  /\ UNCHANGED <<poolVars, made, outVars, ctx>>

-----------------------------------------------------------------------------
(* The splitter and the sinks.                                             *)

SplitTake ==
  /\ split = 0 /\ tee # <<>>
  /\ copying' = Head(tee) /\ tee' = Tail(tee)
  /\ split' = 1
  /\ UNCHANGED <<poolVars, made, syslogs, chan, batch, sent, watching, ctx>>

\* Mutant of SplitCopy: a sink whose channel is full is passed over.
SplitCopyOrSkip ==
  /\ split > 0
  /\ chan' = [chan EXCEPT ![split] =
                IF Len(@) < SinkCap THEN Append(@, copying) ELSE @]
  /\ split' = IF split = NumSinks THEN 0 ELSE split + 1
  /\ copying' = IF split = NumSinks THEN 0 ELSE copying
  /\ UNCHANGED <<poolVars, teeVars, batch, sent, watching, ctx>>

\* The copy for one sink, which waits for room in its channel.
SplitCopy ==
  /\ split > 0 /\ Len(chan[split]) < SinkCap
  /\ chan' = [chan EXCEPT ![split] = Append(@, copying)]
  /\ split' = IF split = NumSinks THEN 0 ELSE split + 1
  /\ copying' = IF split = NumSinks THEN 0 ELSE copying
  /\ UNCHANGED <<poolVars, teeVars, batch, sent, watching, ctx>>

SplitDone ==
  /\ split = 0 /\ ctx = "done"
  /\ split' = -1
  /\ UNCHANGED <<poolVars, teeVars, copying, chan, batch, sent, watching, ctx>>

\* watchLogs collects a log, and sends what it has collected every second.
WatchLog(i) ==
  /\ i \in watching /\ chan[i] # <<>>
  /\ batch' = [batch EXCEPT ![i] = Append(@, Head(chan[i]))]
  /\ chan' = [chan EXCEPT ![i] = Tail(@)]
  /\ UNCHANGED <<poolVars, teeVars, split, copying, sent, watching, ctx>>

SendLogBatch(i) ==
  /\ i \in watching /\ batch[i] # <<>>
  /\ sent' = [sent EXCEPT ![i] = @ \o batch[i]]
  /\ batch' = [batch EXCEPT ![i] = <<>>]
  /\ UNCHANGED <<poolVars, teeVars, split, copying, chan, watching, ctx>>

WatchDone(i) ==
  /\ i \in watching /\ ctx = "done"
  /\ watching' = watching \ {i}
  /\ UNCHANGED <<poolVars, teeVars, split, copying, chan, batch, sent, ctx>>

Cancel ==
  /\ ctx = "live" /\ ctx' = "done"
  /\ UNCHANGED <<poolVars, teeVars, outVars>>

-----------------------------------------------------------------------------
LoggerNext == \E l \in Loggers : TakeMsg(l) \/ QueueMsg(l)
WriterNext == WriterTake \/ PrintTee \/ WriterFree
SplitNext  == SplitTake \/ SplitCopy \/ SplitDone
SinkNext   == \E i \in Sinks : WatchLog(i) \/ SendLogBatch(i) \/ WatchDone(i)

Next == LoggerNext \/ WriterNext \/ Syslog \/ SplitNext \/ SinkNext \/ Cancel

Spec == Init /\ [][Next]_vars

\* Goroutines that can run do, and the sinks' tickers fire; nothing has to be
\* logged and the context need not end.
Fairness ==
  /\ \A l \in Loggers : WF_vars(QueueMsg(l))
  /\ WF_vars(WriterNext)
  /\ WF_vars(SplitTake) /\ WF_vars(SplitCopy)
  /\ \A i \in Sinks : WF_vars(WatchLog(i)) /\ WF_vars(SendLogBatch(i))

FairSpec == Spec /\ Fairness

-----------------------------------------------------------------------------
(* Properties.                                                             *)

\* Type invariant of the log path.
TypeOK ==
  /\ free \in 0 .. NumMessages /\ hand \in [Loggers -> 0 .. MaxLogs]
  /\ writer \in {"wait", "tee", "free"} /\ split \in -1 .. NumSinks
  /\ Len(messages) <= NumMessages /\ Len(tee) <= TeeCap
  /\ \A i \in Sinks : Len(chan[i]) <= SinkCap
  /\ watching \subseteq Watched

Holding == {l \in Loggers : hand[l] # 0}

\* "there is an exact number of messages": whoever holds them, the structs of
\* the pool add up, so that neither channel of the logger ever overflows.
PoolConserved ==
  free + Len(messages) + Cardinality(Holding) + (IF writer = "wait" THEN 0 ELSE 1)
    = NumMessages

\* Everything that sink i has been given so far.
Given(i) == sent[i] \o batch[i] \o chan[i]

\* Every sink gets the same logs in the same order: "We want a copy of each log
\* to go to each sink".  No sink is more than one log ahead of another.
SameLogsEverywhere ==
  \A i, j \in Sinks : i < j =>
    /\ IsPrefix(Given(j), Given(i))
    /\ Len(Given(i)) <= Len(Given(j)) + 1

\* The log path keeps its types, its pool and the agreement of the sinks.
LogInv == TypeOK /\ PoolConserved /\ SameLogsEverywhere

\* However slow the sinks are, the writer never waits for them: what is logged
\* gets written and the pool fills up again.
LoggerDrains ==
  <>[](messages = <<>> /\ writer = "wait" /\ free = NumMessages)
=============================================================================
