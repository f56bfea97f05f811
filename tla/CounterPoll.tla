----------------------------- MODULE CounterPoll -----------------------------
(***************************************************************************)
(* The counter polling of one SNMP device: the AlignedTicker that schedules*)
(* polls (util/tick), the loop of Poller.StartLoop with the first poll that*)
(* launchSnmp does before it, and the counters of InterfaceMetrics, which  *)
(* turn raw values into differences (kt/counters).                         *)
(*                                                                         *)
(* Time is counted in units of which a counter alignment has BlockLen. The *)
(* device counts one unit of traffic per unit of time on every counter, so *)
(* that the traffic between two moments is their difference; what the      *)
(* counter shows wraps at CounterMod and restarts from any value at a      *)
(* reboot.                                                                 *)
(***************************************************************************)
EXTENDS Integers, FiniteSets

CONSTANTS
  Oids,           \* the counters that are walked
  BlockLen,       \* counterAlignment
  Jitter,         \* where in a block this device is polled
  CounterMod,     \* values of a counter before it wraps
  StartValue,     \* what the counters show when the agent starts
  MaxTime,        \* time that is explored
  RestartValues,  \* what the counters may show after a reboot
  RebootTimes,    \* when a reboot may happen, and
  MaxReboots,     \* how many: what is explored
  NoTick          \* an empty slot

ASSUME PollAssumption ==
  /\ BlockLen \in Nat \ {0} /\ Jitter \in 0..(BlockLen - 1)
  /\ CounterMod \in Nat \ {0} /\ StartValue \in 0..(CounterMod - 1)
  /\ RestartValues \subseteq 0..(CounterMod - 1)
  /\ MaxTime \in Nat /\ RebootTimes \subseteq Nat /\ MaxReboots \in Nat /\ NoTick \notin Nat

Block(t) == t \div BlockLen

VARIABLES
  now,         \* the clock
  bootTime,    \* when the device's counters were 0
  reboots,
  lifted,      \* history: by how much reboots have raised the counters
  due,         \* when the runtime's ticker fires next
  tslot,       \* the runtime ticker's channel, one slot
  hand,        \* the tick that AlignedTicker.run holds
  tick,        \* the channel C of the ticker, one slot
  ticker,      \* "off", "running", "stopped" (Stop was called), "ended"
  loop,        \* where the poll loop is
  drop,        \* dropIfOutside
  sched,       \* scheduledTime of the poll at work
  todo,        \* counters the poll has yet to walk
  deltas,      \* what the poll has found, a function on the counters it has read
  base,        \* intValues: for each known counter its last value, and when it was read
  polls,       \* polls begun
  sum,         \* history: the sum of the differences sent for each counter
  point,       \* history: the flows that are being sent
  restart,     \* history: the polls begun when the differences were last started over
  cancelled    \* the context is done

tickVars == <<due, tslot, hand, tick, ticker>>
devVars == <<bootTime, reboots, lifted>>
histVars == <<sum, point, restart>>
pollVars == <<now, devVars, tickVars, loop, drop, sched, todo, deltas, base, polls,
              histVars, cancelled>>

Nothing == [o \in {} |-> 0]
NoPoint == [block |-> -1, sent |-> -1, gaps |-> {}]

PollInit ==
  /\ now = 0 /\ bootTime = -StartValue /\ reboots = 0 /\ lifted = 0
  /\ due = NoTick /\ tslot = NoTick /\ hand = NoTick /\ tick = NoTick /\ ticker = "off"
  /\ loop = "seed" /\ drop \in BOOLEAN /\ sched = NoTick /\ todo = Oids /\ deltas = Nothing
  /\ base = Nothing /\ polls = 1
  /\ sum = [o \in Oids |-> 0] /\ point = NoPoint /\ restart = 0
  /\ cancelled = FALSE

------------------------------------------------------------------------------
\* The world.

\* The clock. The runtime drops a tick when its channel is still full.
Clock ==
  /\ now < MaxTime /\ now' = now + 1
  /\ IF due = now + 1 /\ ticker \in {"running", "stopped"}
     THEN /\ due' = due + BlockLen /\ tslot' = IF tslot = NoTick THEN now + 1 ELSE tslot
     ELSE UNCHANGED <<due, tslot>>
  /\ UNCHANGED <<devVars, hand, tick, ticker, loop, drop, sched, todo, deltas, base, polls,
                 histVars, cancelled>>

\* What a counter shows.
Shown == (now - bootTime) % CounterMod

\* A reboot resets the counters "to zero or some random / arbitrary value".
\* (Once the loop has ended nobody reads the device.)
Reboot ==
  /\ now \in RebootTimes /\ reboots < MaxReboots /\ loop # "ended" /\ reboots' = reboots + 1
  /\ \E v \in RestartValues : /\ bootTime' = now - v
                              /\ lifted' = lifted + (IF v > Shown THEN v - Shown ELSE 0)
  /\ UNCHANGED <<now, tickVars, loop, drop, sched, todo, deltas, base, polls, histVars, cancelled>>

\* The next generation is started, or the agent stops.
Cancel ==
  /\ ~cancelled /\ cancelled' = TRUE
  /\ UNCHANGED <<now, devVars, tickVars, loop, drop, sched, todo, deltas, base, polls, histVars>>

------------------------------------------------------------------------------
\* AlignedTicker.run: the goroutine between the runtime's ticker and C.

TickerTakes ==
  /\ ticker \in {"running", "stopped"} /\ hand = NoTick /\ tslot # NoTick
  /\ hand' = tslot /\ tslot' = NoTick
  /\ UNCHANGED <<now, devVars, due, tick, ticker, loop, drop, sched, todo, deltas, base, polls,
                 histVars, cancelled>>

\* at.c <- t waits for the slot and not for stop.
TickerPuts ==
  /\ hand # NoTick /\ tick = NoTick /\ tick' = hand /\ hand' = NoTick
  /\ UNCHANGED <<now, devVars, due, tslot, ticker, loop, drop, sched, todo, deltas, base, polls,
                 histVars, cancelled>>

TickerEnds ==
  /\ ticker = "stopped" /\ hand = NoTick /\ ticker' = "ended"
  /\ UNCHANGED <<now, devVars, due, tslot, hand, tick, loop, drop, sched, todo, deltas, base,
                 polls, histVars, cancelled>>

------------------------------------------------------------------------------
\* CounterSet and InterfaceMetrics.

\* Mutant of GetDelta: a counter that is new or has gone down counts from 0.
GetDeltaFromZero(o, cur) ==
  IF o \in DOMAIN base /\ base[o].val <= cur THEN cur - base[o].val ELSE cur

\* GetDelta: nothing for a counter that is new or has gone down.
GetDelta(o, cur) ==
  IF o \in DOMAIN base /\ base[o].val <= cur THEN cur - base[o].val ELSE 0

SetBase(o, cur) ==
  [p \in DOMAIN base \cup {o} |->
     IF p = o THEN [val |-> cur, block |-> Block(now), poll |-> polls] ELSE base[p]]

\* The difference a counter is sent with, the poll it counts from (0 if
\* there is none) and the blocks and the polls between the two.
Reading(o, cur) ==
  [d |-> GetDelta(o, cur),
   poll |-> IF o \in DOMAIN base THEN base[o].poll ELSE 0,
   gap |-> IF o \in DOMAIN base THEN Block(now) - base[o].block ELSE 0,
   over |-> IF o \in DOMAIN base THEN polls - base[o].poll ELSE 0]

\* One counter of Poll: SetValueAndReturnDelta.
WalkOid(o) ==
  /\ loop \in {"seed", "poll"} /\ o \in todo /\ todo' = todo \ {o}
  /\ base' = SetBase(o, Shown)
  /\ deltas' = [p \in DOMAIN deltas \cup {o} |-> IF p = o THEN Reading(o, Shown) ELSE deltas[p]]
  /\ UNCHANGED <<now, devVars, tickVars, loop, drop, sched, polls, histVars, cancelled>>

\* A counter that Poll does not get: its mib is not ready (IsPollReady), or
\* the walk does not answer for it. It keeps the value of an earlier poll.
PassOver(o) ==
  /\ loop \in {"seed", "poll"} /\ o \in todo /\ todo' = todo \ {o}
  /\ UNCHANGED <<now, devVars, tickVars, loop, drop, sched, deltas, base, polls, histVars, cancelled>>

\* DiscardDeltaState
Discard == base' = Nothing /\ restart' = polls

\* The time of the first scheduled poll: the jitter, in the next block.
FirstCollection(t) == (Block(t) + 1) * BlockLen + Jitter

\* launchSnmp: whatever the first poll did, its flows are thrown away, what
\* it has stored stays, and once the first metadata poll is over (which
\* takes its time) StartLoop starts the ticker.
StartLoop ==
  /\ loop = "metadata" /\ loop' = "select" /\ ticker' = "running" /\ due' = FirstCollection(now)
  /\ UNCHANGED <<now, devVars, tslot, hand, tick, drop, sched, todo, deltas, base, polls,
                 histVars, cancelled>>
SeedDone ==
  /\ loop = "seed" /\ loop' = "metadata"
  /\ todo' = {} /\ deltas' = Nothing
  /\ UNCHANGED <<now, devVars, tickVars, drop, sched, base, polls, histVars, cancelled>>

------------------------------------------------------------------------------
\* The poll loop.

\* Mutant of TickTooLate: the values of the last poll are kept.
TickTooLateKeeps ==
  /\ loop = "select" /\ tick # NoTick /\ Block(now) # Block(tick)
  /\ tick' = NoTick /\ restart' = polls
  /\ UNCHANGED <<now, devVars, due, tslot, hand, ticker, loop, drop, sched, todo, deltas, base,
                 polls, sum, point, cancelled>>

\* A tick of an earlier block: skip it and start the differences over.
TickTooLate ==
  /\ loop = "select" /\ tick # NoTick /\ Block(now) # Block(tick)
  /\ tick' = NoTick /\ Discard
  /\ UNCHANGED <<now, devVars, due, tslot, hand, ticker, loop, drop, sched, todo, deltas, polls,
                 sum, point, cancelled>>

PollStarts ==
  /\ loop = "select" /\ tick # NoTick /\ Block(now) = Block(tick)
  /\ loop' = "poll" /\ sched' = tick /\ tick' = NoTick
  /\ todo' = Oids /\ deltas' = Nothing /\ polls' = polls + 1
  /\ UNCHANGED <<now, devVars, due, tslot, hand, ticker, drop, base, histVars, cancelled>>

\* A walk fails, or pollTimeout or the context ends it.
PollFails ==
  /\ loop = "poll" /\ todo # {} /\ loop' = "select" /\ todo' = {} /\ deltas' = Nothing
  /\ sched' = NoTick /\ Discard
  /\ UNCHANGED <<now, devVars, tickVars, drop, polls, sum, point, cancelled>>

\* The poll ended in another block than it was scheduled for.
Outside == drop /\ Block(now) # Block(sched)
PollOutside ==
  /\ loop = "poll" /\ todo = {} /\ Outside
  /\ loop' = "select" /\ deltas' = Nothing /\ sched' = NoTick /\ Discard
  /\ UNCHANGED <<now, devVars, tickVars, drop, todo, polls, sum, point, cancelled>>

\* The flows are handed over; jchfChan may take its time.
PollDone ==
  /\ loop = "poll" /\ todo = {} /\ ~Outside /\ loop' = "send" /\ sched' = NoTick
  /\ deltas' = Nothing
  /\ sum' = [o \in Oids |-> IF o \in DOMAIN deltas THEN sum[o] + deltas[o].d ELSE sum[o]]
  /\ point' = [block |-> Block(sched), sent |-> Block(now),
               gaps |-> {deltas[o].gap - deltas[o].over :
                           o \in {p \in DOMAIN deltas : deltas[p].poll > 1}}]
  /\ UNCHANGED <<now, devVars, tickVars, drop, todo, base, polls, restart, cancelled>>

StatusCheck ==
  /\ loop = "select" /\ loop' = "send"
  /\ UNCHANGED <<now, devVars, tickVars, drop, sched, todo, deltas, base, polls, histVars, cancelled>>

Sent ==
  /\ loop = "send" /\ loop' = "select" /\ point' = NoPoint
  /\ UNCHANGED <<now, devVars, tickVars, drop, sched, todo, deltas, base, polls, sum,
                 restart, cancelled>>

\* Mutant of LoopEnds: the ticker is not stopped.
LoopEndsTicking ==
  /\ loop = "select" /\ cancelled /\ loop' = "ended"
  /\ UNCHANGED <<now, devVars, tickVars, drop, sched, todo, deltas, base, polls, histVars,
                 cancelled>>

\* The loop returns, and with it the counters are garbage.
LoopEnds ==
  /\ loop = "select" /\ cancelled /\ loop' = "ended" /\ ticker' = "stopped" /\ base' = Nothing
  /\ UNCHANGED <<now, devVars, due, tslot, hand, tick, drop, sched, todo, deltas, polls,
                 histVars, cancelled>>

Ticking == TickerTakes \/ TickerPuts \/ TickerEnds
Looping == \/ SeedDone \/ StartLoop \/ TickTooLate \/ PollStarts \/ PollFails \/ PollOutside
           \/ PollDone \/ Sent \/ LoopEnds \/ \E o \in Oids : WalkOid(o) \/ PassOver(o)

PollNext == Clock \/ Reboot \/ Cancel \/ Ticking \/ Looping \/ StatusCheck

------------------------------------------------------------------------------
\* Properties.

\* The variables have the types of the code's.
PollTypeOK ==
  /\ now \in 0..MaxTime /\ bootTime \in (1 - CounterMod)..MaxTime /\ reboots \in 0..MaxReboots
  /\ lifted \in Nat /\ restart \in Nat
  /\ {due, tslot, hand, tick, sched} \subseteq Nat \cup {NoTick}
  /\ ticker \in {"off", "running", "stopped", "ended"}
  /\ loop \in {"seed", "metadata", "select", "poll", "send", "ended"}
  /\ drop \in BOOLEAN /\ cancelled \in BOOLEAN
  /\ todo \subseteq Oids /\ DOMAIN deltas \subseteq Oids /\ DOMAIN base \subseteq Oids
  /\ \A o \in DOMAIN base : base[o].val \in 0..(CounterMod - 1) /\ base[o].block \in 0..Block(now)
  /\ \A o \in Oids : sum[o] \in Nat

\* The differences sent for a counter never add up to more than its
\* traffic, through wraps, reboots, failed walks, counters that a poll passes
\* over and discarded states, but for what a reboot adds that leaves a counter
\* above the value it had (which GetDelta cannot tell from traffic).
NeverOverReports == \A o \in Oids : sum[o] <= now + lifted

\* No difference counts from before the last poll that failed or ended
\* outside its block, or the last tick that was skipped: a poll that fails
\* between two walks leaves no half-new set of values behind.
StartedOver == \A o \in DOMAIN deltas : deltas[o].poll = 0 \/ deltas[o].poll > restart

\* With dropIfOutside no difference spans a block without a poll: it reaches
\* back over as many blocks as polls (several if polls have passed the counter
\* over), except from the first poll, which is done before the schedule begins.
NoGapSpanned == drop => \A n \in point.gaps : n <= 0

\* With dropIfOutside every value that is sent was read in the block of its
\* tick.
PointsInTheirBlock == drop => point.sent = point.block

\* What a difference spans: nothing from before a failure, no block without a
\* poll, and a value of the block it is sent for.
SpansKept == StartedOver /\ NoGapSpanned /\ PointsInTheirBlock

\* After a cancel the loop ends, and the ticker's goroutine with it unless it
\* holds a tick for a channel that is full and has no reader any more.
LoopWindsDown ==
  cancelled ~> (loop = "ended" /\ (ticker = "ended" \/ (hand # NoTick /\ tick # NoTick)))
=============================================================================
