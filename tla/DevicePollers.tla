---------------------------- MODULE DevicePollers ----------------------------
(***************************************************************************)
(* What launchSnmp starts for a device: the ping loop when the device or   *)
(* the global section asks for pings only, otherwise the counter poller,   *)
(* by its schedule (CounterPoll) and by the records of a poll              *)
(* (SnmpMetrics), and the metadata poller (SnmpMetadata). They share       *)
(* nothing but the connection and the output queue, and `part' says which  *)
(* one is looked at.                                                       *)
(***************************************************************************)
EXTENDS CounterPoll, PingLoop, SnmpMetrics, SnmpMetadata

VARIABLE part

vars == <<pollVars, pingVars, metricVars, metaVars, part>>

Init ==
  /\ part \in {"poll", "ping", "metrics", "metadata"}
  /\ PollInit /\ PingInit /\ MetricsInit /\ MetaInit
  /\ part # "poll" => drop
  /\ part # "metrics" => mMode = "bulk"
  /\ part # "metadata" => ~dSave

\* A step of one of them.
OfPoll(A) == part = "poll" /\ A /\ UNCHANGED <<pingVars, metricVars, metaVars, part>>
OfPing(A) == part = "ping" /\ A /\ UNCHANGED <<pollVars, metricVars, metaVars, part>>
OfMetrics(A) == part = "metrics" /\ A /\ UNCHANGED <<pollVars, pingVars, metaVars, part>>
OfMetadata(A) == part = "metadata" /\ A /\ UNCHANGED <<pollVars, pingVars, metricVars, part>>

Next == OfPoll(PollNext) \/ OfPing(PingNext) \/ OfMetrics(MetricsNext) \/ OfMetadata(MetaNext)

Spec == Init /\ [][Next]_vars

\* Goroutines run on. A loop whose context is done ends, since select
\* chooses among the channels that are ready at random.
FairSpec == /\ Spec
            /\ WF_vars(OfPoll(Ticking)) /\ WF_vars(OfPoll(Looping)) /\ SF_vars(OfPoll(LoopEnds))
            /\ \A i \in Ticks : WF_vars(OfPing(PingStep(i)))

\* The variables have the types of the code's.
TypeOK == PollTypeOK /\ PingTypeOK

\* The pollers keep their types, the ping-only loop its rate and its flag, and
\* the records say what the device has answered.
PollersInv ==
  /\ TypeOK /\ SlowWhenIdle /\ FlagFollowsPolls
  /\ (part = "metrics" => MetricsInv) /\ (part = "metadata" => MetadataInv)

\* The pollers get out of what they are in: a cancelled loop ends, and fast
\* polling goes back to the slow rate.
PollersEnd == LoopWindsDown /\ FastEnds
=============================================================================
