------------------------------ MODULE PingLoop ------------------------------
(***************************************************************************)
(* The ping-only loop of a device (Poller.StartPingOnlyLoop, runFastPoll). *)
(* Every tick starts a goroutine that pings, and that turns to fast polling*)
(* when every packet is lost. The goroutines of several ticks overlap: one *)
(* ping takes about as long as the time between two ticks. They share      *)
(* runningFast, seenGoodPacketLoss and the pinger without a lock, so that  *)
(* each read and each write of them is a step.                             *)
(***************************************************************************)
EXTENDS Naturals, FiniteSets

CONSTANTS
  Ticks,        \* the goroutines, one per tick, of which one runs before the first tick
  FastPoll      \* gconf.FastPoll

ASSUME PingAssumption == FastPoll \in BOOLEAN /\ IsFiniteSet(Ticks)

VARIABLES
  ping,         \* where the goroutine of each tick is
  lost,         \* its isTotalLoss
  runningFast,
  seenGood,     \* seenGoodPacketLoss
  pinger,       \* the rate the pinger was last reset to
  pingDone      \* the context is done

pingVars == <<ping, lost, runningFast, seenGood, pinger, pingDone>>

PingInit ==
  /\ ping = [i \in Ticks |-> "none"] /\ lost = [i \in Ticks |-> FALSE]
  /\ runningFast = FALSE /\ seenGood = TRUE /\ pinger = "slow" /\ pingDone = FALSE

At(i, from, to) == ping[i] = from /\ ping' = [ping EXCEPT ![i] = to]

\* A tick of the counterCheck timer.
PingTick(i) ==
  /\ ~pingDone /\ At(i, "none", "check")
  /\ UNCHANGED <<lost, runningFast, seenGood, pinger, pingDone>>

\* The first ping after the start only sends its flows.
FirstPing(i) ==
  /\ \A j \in Ticks : ping[j] = "none"
  /\ At(i, "none", "end")
  /\ UNCHANGED <<lost, runningFast, seenGood, pinger, pingDone>>

CheckFast(i) ==
  /\ At(i, "check", IF runningFast THEN "end" ELSE "ping")
  /\ UNCHANGED <<lost, runningFast, seenGood, pinger, pingDone>>

\* GetPingStats: an error ends the goroutine; when nothing was sent it
\* reports no total loss.
PingEnds(i, total) ==
  /\ At(i, "ping", "decide") /\ lost' = [lost EXCEPT ![i] = total]
  /\ UNCHANGED <<runningFast, seenGood, pinger, pingDone>>
PingErrs(i) ==
  /\ At(i, "ping", "end")
  /\ UNCHANGED <<lost, runningFast, seenGood, pinger, pingDone>>

\* After the flows are sent: note a good ping, or go to fast polling.
NoLoss(i) ==
  /\ ~lost[i] /\ At(i, "decide", "end") /\ seenGood' = TRUE
  /\ UNCHANGED <<lost, runningFast, pinger, pingDone>>
TotalLoss(i) ==
  /\ lost[i] /\ At(i, "decide", IF FastPoll /\ seenGood /\ ~runningFast THEN "enter" ELSE "end")
  /\ UNCHANGED <<lost, runningFast, seenGood, pinger, pingDone>>

\* runningFast is set, and runFastPoll resets the pinger.
SetRunning(i) ==
  /\ At(i, "enter", "reset") /\ runningFast' = TRUE
  /\ UNCHANGED <<lost, seenGood, pinger, pingDone>>
StartFast(i) ==
  /\ At(i, "reset", "fast") /\ pinger' = "fast"
  /\ UNCHANGED <<lost, runningFast, seenGood, pingDone>>

\* Mutant of FastOver: the rate is left as it is.
FastOverStaysFast(i) ==
  /\ At(i, "fast", "forget")
  /\ UNCHANGED <<lost, runningFast, seenGood, pinger, pingDone>>

\* A packet comes back, or fastDuration or the context ends fast polling:
\* the deferred function slows the pinger down again.
FastOver(i) ==
  /\ At(i, "fast", "forget") /\ pinger' = "slow"
  /\ UNCHANGED <<lost, runningFast, seenGood, pingDone>>

ForgetGood(i) ==
  /\ At(i, "forget", "clear") /\ seenGood' = FALSE
  /\ UNCHANGED <<lost, runningFast, pinger, pingDone>>

\* The next tick pings again.
ClearRunning(i) ==
  /\ At(i, "clear", "end") /\ runningFast' = FALSE
  /\ UNCHANGED <<lost, seenGood, pinger, pingDone>>

PingCancel ==
  /\ ~pingDone /\ pingDone' = TRUE
  /\ UNCHANGED <<ping, lost, runningFast, seenGood, pinger>>

PingStep(i) ==
  \/ CheckFast(i) \/ PingEnds(i, TRUE) \/ PingEnds(i, FALSE) \/ PingErrs(i) \/ NoLoss(i)
  \/ TotalLoss(i) \/ SetRunning(i) \/ StartFast(i) \/ FastOver(i) \/ ForgetGood(i)
  \/ ClearRunning(i)

PingNext == PingCancel \/ \E i \in Ticks : PingTick(i) \/ FirstPing(i) \/ PingStep(i)

------------------------------------------------------------------------------
\* Properties.

\* The variables have the types of the code's.
PingTypeOK ==
  /\ ping \in [Ticks -> {"none", "check", "ping", "decide", "enter", "reset", "fast",
                         "forget", "clear", "end"}]
  /\ lost \in [Ticks -> BOOLEAN] /\ runningFast \in BOOLEAN /\ seenGood \in BOOLEAN
  /\ pinger \in {"slow", "fast"} /\ pingDone \in BOOLEAN

\* However many goroutines took part, the pinger is back at its normal rate
\* once none of them polls fast.
SlowWhenIdle == (\A i \in Ticks : ping[i] # "fast") => pinger = "slow"

\* The flag is never left behind: when no goroutine is in the fast branch a
\* later tick is not turned away.
FlagFollowsPolls ==
  runningFast => \E i \in Ticks : ping[i] \in {"reset", "fast", "forget", "clear"}

\* Fast polling ends, whatever the device does.
FastEnds == (pinger = "fast") ~> (pinger = "slow")
=============================================================================
