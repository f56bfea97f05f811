------------------------ MODULE DevicePollersProofs ------------------------
(***************************************************************************)
(* Proofs about the pollers of a device: the counter poller never sends    *)
(* more than the traffic, whatever the wraps, reboots, failures and the    *)
(* length of the schedule, and its differences span what they should; the  *)
(* ping-only loop always finds back to its rate; and the records of metrics*)
(* and metadata say what the device has answered, whatever it answers.     *)
(***************************************************************************)
EXTENDS DevicePollers, FiniteSetTheorems, WellFoundedInduction, TLAPS

------------------------------------------------------------------------------
(* Arithmetic *)

\* A remainder is what the quotient leaves.
LEMMA DivMod == ASSUME NEW b \in Int, NEW M \in Nat \ {0}
                PROVE  b \div M \in Int /\ b % M \in 0..(M - 1) /\ b % M = b - M * (b \div M)
<1>1. b \div M \in Int /\ b % M \in 0..(M - 1)
  OBVIOUS
<1>2. b % M = b - M * (b \div M)
  BY Z3
<1> QED BY <1>1, <1>2
\* Of two numbers the remainder of the larger is larger by no more than it is.
LEMMA ModDiff ==
  ASSUME NEW a \in Nat, NEW b \in Nat, a <= b, NEW M \in Nat \ {0}
  PROVE  (b % M) - (a % M) <= b - a
<1> DEFINE q == b \div M
<1> DEFINE p == a \div M
<1> HIDE DEF q, p
<1>1. q \in Int /\ b % M \in 0..(M - 1) /\ b % M = b - M * q
  <2>1. b \in Int
    OBVIOUS
  <2> QED
    BY <2>1, DivMod, Zenon DEF q
<1>2. p \in Int /\ a % M \in 0..(M - 1) /\ a % M = a - M * p
  <2>1. a \in Int
    OBVIOUS
  <2> QED
    BY <2>1, DivMod, Zenon DEF p
<1>3. p <= q
  <2> SUFFICES ASSUME q + 1 <= p PROVE FALSE
    BY <1>1, <1>2
  <2>1. M * (q + 1) <= M * p
    BY <1>1, <1>2
  <2>2. M * (q + 1) = M * q + M
    BY <1>1
  <2>3. M * p <= a /\ b < M * q + M /\ M * p \in Int /\ M * q \in Int
    BY <1>1, <1>2
  <2> QED
    BY <2>1, <2>2, <2>3
<1>4. M * p <= M * q /\ M * p \in Int /\ M * q \in Int
  BY <1>1, <1>2, <1>3
<1> QED
  BY <1>1, <1>2, <1>4

------------------------------------------------------------------------------
(* What every state of the counter poller keeps *)

\* The counters a poll has read and those it has yet to read, and what the
\* stored values are of.
PollShape ==
  /\ now \in Nat /\ bootTime \in Int /\ bootTime <= now /\ polls \in Nat \ {0}
  /\ lifted \in Nat
  /\ loop \in {"seed", "metadata", "select", "poll", "send", "ended"}
  /\ loop \in {"seed", "metadata"} => polls = 1
  /\ todo \subseteq Oids /\ DOMAIN deltas \subseteq Oids /\ DOMAIN base \subseteq Oids
  /\ todo \cap DOMAIN deltas = {}
  /\ loop \notin {"seed", "poll"} => DOMAIN deltas = {}
  /\ DOMAIN deltas \subseteq DOMAIN base
  /\ sum \in [Oids -> Nat]
  /\ \A o \in DOMAIN base : /\ base[o].val \in 0..(CounterMod - 1)
                            /\ base[o].block \in Nat /\ base[o].poll \in 1..polls
  /\ \A o \in DOMAIN deltas : /\ deltas[o].d \in Nat /\ deltas[o].gap \in Int
                              /\ deltas[o].poll \in Nat /\ deltas[o].over \in Int

\* The time has blocks.
LEMMA BlockType == ASSUME NEW t \in Nat PROVE Block(t) \in Nat
<1>1. BlockLen \in Nat \ {0}
  BY PollAssumption
<1> QED
  BY <1>1 DEF Block

LEMMA ShownType == ASSUME PollShape PROVE Shown \in 0..(CounterMod - 1)
<1>1. CounterMod \in Nat \ {0}
  BY PollAssumption
<1>2. now - bootTime \in Nat
  BY DEF PollShape
<1> QED
  BY <1>1, <1>2 DEF Shown

\* A step of the pollers is a step of the counter poller or leaves it alone.
LEMMA PollFrame == [Next]_vars => [PollNext]_pollVars
BY DEF Next, vars, OfPoll, OfPing, OfMetrics, OfMetadata

LEMMA ShapeInit == PollInit => PollShape
BY PollAssumption DEF PollInit, PollShape, Nothing

LEMMA ShapeWalk ==
  ASSUME PollShape, NEW o \in Oids, WalkOid(o) PROVE PollShape'
<1> USE PollAssumption
<1>1. Shown \in 0..(CounterMod - 1) /\ Block(now) \in Nat
  BY ShownType, BlockType DEF PollShape
<1>2. GetDelta(o, Shown) \in Nat
  BY <1>1 DEF GetDelta, PollShape
<1>3. /\ DOMAIN base' = DOMAIN base \cup {o} /\ DOMAIN deltas' = DOMAIN deltas \cup {o}
      /\ todo' = todo \ {o} /\ o \in todo /\ loop \in {"seed", "poll"}
      /\ UNCHANGED <<now, bootTime, lifted, loop, polls, sum>>
  BY DEF WalkOid, SetBase, devVars, histVars
<1>4. \A p \in DOMAIN base' : /\ base'[p].val \in 0..(CounterMod - 1)
                              /\ base'[p].block \in Nat /\ base'[p].poll \in 1..polls
  BY <1>1 DEF WalkOid, SetBase, PollShape
<1>5. \A p \in DOMAIN deltas' : /\ deltas'[p].d \in Nat /\ deltas'[p].gap \in Int
                                /\ deltas'[p].poll \in Nat /\ deltas'[p].over \in Int
  BY <1>1, <1>2 DEF WalkOid, Reading, PollShape
<1> QED
  BY <1>3, <1>4, <1>5 DEF PollShape

LEMMA ShapeStep == PollShape /\ [PollNext]_pollVars => PollShape'
<1> SUFFICES ASSUME PollShape, [PollNext]_pollVars PROVE PollShape'
  OBVIOUS
<1> USE DEF devVars, tickVars, histVars
<1>1. CASE Clock
  BY <1>1 DEF Clock, PollShape
<1>2. CASE Reboot
  <2>1. Shown \in Nat
    BY ShownType
  <2> QED
    BY <1>2, <2>1, PollAssumption DEF Reboot, PollShape
<1>3. CASE UNCHANGED pollVars \/ Cancel
  BY <1>3 DEF Cancel, PollShape, pollVars
<1>4. CASE Ticking
  BY <1>4 DEF Ticking, TickerTakes, TickerPuts, TickerEnds, PollShape
<1>5. CASE SeedDone
  BY <1>5 DEF SeedDone, PollShape, Nothing
<1>6. CASE StartLoop
  BY <1>6 DEF StartLoop, PollShape
<1>7. CASE TickTooLate
  BY <1>7 DEF TickTooLate, Discard, PollShape, Nothing
<1>8. CASE PollStarts
  BY <1>8 DEF PollStarts, PollShape, Nothing
<1>9. CASE PollFails \/ PollOutside
  BY <1>9 DEF PollFails, PollOutside, Discard, PollShape, Nothing
<1>10. CASE PollDone
  <2>1. \A o \in DOMAIN deltas : deltas[o].d \in Nat
    BY DEF PollShape
  <2>2. sum' \in [Oids -> Nat]
    BY <1>10, <2>1 DEF PollDone, PollShape
  <2> QED
    BY <1>10, <2>2 DEF PollDone, PollShape, Nothing
<1>11. CASE Sent \/ StatusCheck
  BY <1>11 DEF Sent, StatusCheck, PollShape
<1>12. CASE LoopEnds
  BY <1>12 DEF LoopEnds, PollShape, Nothing
<1>13. CASE \E o \in Oids : WalkOid(o) \/ PassOver(o)
  <2>1. ASSUME NEW o \in Oids, PassOver(o) PROVE PollShape'
    BY <2>1 DEF PassOver, PollShape
  <2> QED
    BY <1>13, <2>1, ShapeWalk
<1> QED
  BY <1>1, <1>2, <1>3, <1>4, <1>5, <1>6, <1>7, <1>8, <1>9, <1>10, <1>11, <1>12, <1>13
     DEF PollNext, Looping

------------------------------------------------------------------------------
(* No more than the traffic *)

\* What was sent for a counter, and what the poll at work has found for it.
TrafficCounted(o) == sum[o] + (IF o \in DOMAIN deltas THEN deltas[o].d ELSE 0)

\* No more was counted than has passed and reboots have raised, and the
\* difference to the stored value leaves that so.
Spare(o) == TrafficCounted(o) + (Shown - base[o].val) <= now + lifted
Traffic ==
  /\ \A o \in Oids : TrafficCounted(o) <= now + lifted
  /\ \A o \in DOMAIN base : Spare(o)

LEMMA CountedType == ASSUME PollShape PROVE \A o \in Oids : TrafficCounted(o) \in Nat
BY DEF PollShape, TrafficCounted

LEMMA TrafficInit == PollInit => Traffic
BY PollAssumption DEF PollInit, Traffic, TrafficCounted, Nothing

\* Steps that count nothing and store nothing: what the counters show rises by
\* no more than the time and the reboots allow.
LEMMA TrafficFrame ==
  ASSUME PollShape, PollShape', Traffic, now' + lifted' >= now + lifted,
         Shown' - Shown <= (now' + lifted') - (now + lifted),
         \A o \in Oids : TrafficCounted(o)' \in Nat /\ TrafficCounted(o)' <= TrafficCounted(o),
         \A o \in DOMAIN base' : o \in DOMAIN base /\ base'[o] = base[o]
  PROVE  Traffic'
<1>1. /\ now \in Nat /\ lifted \in Nat /\ now' \in Nat /\ lifted' \in Nat
      /\ Shown \in Int /\ Shown' \in Int /\ DOMAIN base' \subseteq Oids
  <2>1. Shown \in Int /\ Shown' \in Int
    BY ShownType, PollAssumption DEF PollShape, Shown
  <2> QED
    BY <2>1 DEF PollShape
<1>2. ASSUME NEW o \in Oids PROVE TrafficCounted(o)' <= now' + lifted'
  BY <1>1, CountedType DEF Traffic
<1>3. ASSUME NEW o \in DOMAIN base' PROVE Spare(o)'
  <2>1. PICK c \in Nat, d \in Nat, v \in Nat :
          c = TrafficCounted(o) /\ d = TrafficCounted(o)' /\ v = base[o].val /\ base'[o].val = v
    <3>1. o \in Oids /\ o \in DOMAIN base /\ base'[o] = base[o] /\ base[o].val \in Nat
      BY <1>1 DEF PollShape
    <3> QED
      BY <3>1, CountedType
  <2>2. c + (Shown - v) <= now + lifted /\ d <= c
    BY <1>1, <2>1 DEF Traffic, Spare
  <2>3. d + (Shown' - v) <= now' + lifted'
    BY <1>1, <2>2
  <2> QED
    BY <2>1, <2>3 DEF Spare
<1> QED
  BY <1>2, <1>3 DEF Traffic

LEMMA TrafficWalk ==
  ASSUME PollShape, Traffic, NEW o \in Oids, WalkOid(o) PROVE Traffic'
<1>1. /\ now' = now /\ bootTime' = bootTime /\ lifted' = lifted /\ sum' = sum
      /\ o \notin DOMAIN deltas
      /\ DOMAIN deltas' = DOMAIN deltas \cup {o} /\ DOMAIN base' = DOMAIN base \cup {o}
      /\ deltas'[o].d = GetDelta(o, Shown) /\ base'[o].val = Shown
      /\ \A p \in DOMAIN deltas \ {o} : deltas'[p] = deltas[p]
      /\ \A p \in DOMAIN base \ {o} : base'[p] = base[p]
  BY DEF WalkOid, SetBase, Reading, PollShape, devVars, histVars
<1>2. /\ now \in Nat /\ lifted \in Nat /\ TrafficCounted(o) \in Nat
      /\ TrafficCounted(o) = sum[o] /\ TrafficCounted(o) <= now + lifted
      /\ Shown \in Nat /\ Shown' = Shown
  BY <1>1, CountedType, ShownType DEF PollShape, TrafficCounted, Traffic, Shown
<1>3. TrafficCounted(o)' = sum[o] + GetDelta(o, Shown)
  BY <1>1 DEF TrafficCounted
<1>4. TrafficCounted(o)' <= now + lifted /\ TrafficCounted(o)' \in Int
  <2>1. CASE o \in DOMAIN base /\ base[o].val <= Shown
    <3>1. base[o].val \in Nat /\ TrafficCounted(o) + (Shown - base[o].val) <= now + lifted
      BY <2>1 DEF Traffic, Spare, PollShape
    <3>2. GetDelta(o, Shown) = Shown - base[o].val
      BY <2>1 DEF GetDelta
    <3> QED
      BY <1>2, <1>3, <3>1, <3>2
  <2>2. CASE ~(o \in DOMAIN base /\ base[o].val <= Shown)
    BY <1>2, <1>3, <2>2 DEF GetDelta
  <2> QED
    BY <2>1, <2>2
<1>5. Spare(o)'
  <2>1. Shown' - base'[o].val = 0
    BY <1>1, <1>2
  <2> QED
    BY <1>1, <1>2, <1>4, <2>1 DEF Spare
<1>6. ASSUME NEW p \in Oids, p # o PROVE TrafficCounted(p)' = TrafficCounted(p)
  BY <1>1, <1>6 DEF TrafficCounted
<1>7. ASSUME NEW p \in DOMAIN base, p # o PROVE Spare(p)'
  <2>1. TrafficCounted(p)' = TrafficCounted(p)
    BY <1>6, <1>7 DEF PollShape
  <2> QED
    BY <1>1, <1>2, <1>7, <2>1 DEF Spare, Traffic
<1> QED
  BY <1>1, <1>2, <1>4, <1>5, <1>6, <1>7 DEF Traffic

\* The clock raises a counter by one or lets it wrap.
LEMMA ShownClock == ASSUME PollShape, Clock PROVE Shown' - Shown <= 1
<1>1. /\ CounterMod \in Nat \ {0} /\ now - bootTime \in Nat /\ now' - bootTime' = (now - bootTime) + 1
      /\ now' - bootTime' \in Nat
  BY PollAssumption DEF PollShape, Clock, devVars
<1>2. PICK a \in Nat, b \in Nat : a = now - bootTime /\ b = now' - bootTime' /\ b = a + 1
  BY <1>1
<1>3. (b % CounterMod) - (a % CounterMod) <= b - a
  BY <1>1, <1>2, ModDiff
<1> QED
  BY <1>2, <1>3 DEF Shown

\* A reboot raises it by what is noted.
LEMMA ShownReboot == ASSUME PollShape, Reboot PROVE Shown' - Shown <= lifted' - lifted /\ lifted' >= lifted
<1>1. Shown \in Nat /\ CounterMod \in Nat \ {0} /\ lifted \in Nat /\ now \in Nat
  BY ShownType, PollAssumption DEF PollShape
<1>2. PICK v \in RestartValues : /\ bootTime' = now - v /\ now' = now
                                 /\ lifted' = lifted + (IF v > Shown THEN v - Shown ELSE 0)
  BY DEF Reboot
<1>3. v \in 0..(CounterMod - 1)
  BY PollAssumption
<1>4. Shown' = v
  <2>1. now' - bootTime' = v
    BY <1>1, <1>2, <1>3
  <2>2. \A n \in Nat, M \in Nat \ {0} : n < M => n % M = n
    OBVIOUS
  <2> QED
    BY <1>1, <1>3, <2>1, <2>2 DEF Shown
<1> QED
  BY <1>1, <1>2, <1>3, <1>4

LEMMA TrafficStep == PollShape /\ Traffic /\ [PollNext]_pollVars => Traffic'
<1> SUFFICES ASSUME PollShape, Traffic, [PollNext]_pollVars PROVE Traffic'
  OBVIOUS
<1> USE DEF devVars, tickVars, histVars
<1>1. PollShape'
  BY ShapeStep
<1>2. \A o \in Oids : TrafficCounted(o) \in Nat
  BY CountedType
<1>3. \A o \in Oids : TrafficCounted(o)' \in Nat
  BY <1>1 DEF PollShape, TrafficCounted
<1>4. /\ now \in Nat /\ lifted \in Nat /\ Shown \in Nat
      /\ now' \in Nat /\ lifted' \in Nat /\ Shown' \in Int
  BY <1>1, ShownType, PollAssumption DEF PollShape, Shown
<1>5. CASE Clock
  <2>1. now' = now + 1 /\ UNCHANGED <<lifted, sum, deltas, base>> /\ Shown' - Shown <= 1
    BY <1>5, ShownClock DEF Clock
  <2>2. now' + lifted' >= now + lifted /\ Shown' - Shown <= (now' + lifted') - (now + lifted)
    <3>1. PICK x \in Int, y \in Int : x = Shown /\ y = Shown'
      BY <1>4
    <3>2. y - x <= 1 /\ now' = now + 1 /\ lifted' = lifted
      BY <2>1, <3>1
    <3>3. now' + lifted' >= now + lifted /\ y - x <= (now' + lifted') - (now + lifted)
      BY <1>4, <3>2
    <3> QED
      BY <3>1, <3>3
  <2> QED
    BY <1>1, <1>2, <2>1, <2>2, TrafficFrame DEF TrafficCounted
<1>6. CASE Reboot
  <2>1. /\ UNCHANGED <<now, sum, deltas, base>>
        /\ Shown' - Shown <= lifted' - lifted /\ lifted' >= lifted
    BY <1>6, ShownReboot DEF Reboot
  <2>2. now' + lifted' >= now + lifted /\ Shown' - Shown <= (now' + lifted') - (now + lifted)
    <3>1. PICK x \in Int, y \in Int, l \in Nat, m \in Nat, n \in Nat :
            x = Shown /\ y = Shown' /\ l = lifted /\ m = lifted' /\ n = now /\ n = now'
      BY <1>4, <2>1
    <3>2. y - x <= m - l /\ m >= l
      BY <2>1, <3>1
    <3>3. n + m >= n + l /\ y - x <= (n + m) - (n + l)
      BY ONLY <3>2, x \in Int, y \in Int, l \in Nat, m \in Nat, n \in Nat
    <3> QED
      BY <3>1, <3>3
  <2> QED
    BY <1>1, <1>2, <2>1, <2>2, TrafficFrame DEF TrafficCounted
<1>7. ASSUME UNCHANGED <<now, bootTime, lifted>>,
             \A o \in Oids : TrafficCounted(o)' <= TrafficCounted(o),
             \A o \in DOMAIN base' : o \in DOMAIN base /\ base'[o] = base[o]
      PROVE  Traffic'
  <2>1. Shown' = Shown
    BY <1>7 DEF Shown
  <2>2. now' + lifted' >= now + lifted /\ Shown' - Shown <= (now' + lifted') - (now + lifted)
    BY ONLY <1>4, <1>7, <2>1
  <2> QED
    BY <1>1, <1>3, <1>7, <2>2, TrafficFrame
<1>8. CASE UNCHANGED pollVars \/ Cancel \/ Ticking \/ Sent \/ StatusCheck \/ StartLoop
  BY <1>2, <1>7, <1>8 DEF Cancel, Ticking, TickerTakes, TickerPuts, TickerEnds, Sent, StatusCheck,
                          StartLoop, pollVars, TrafficCounted
<1>9. CASE SeedDone \/ TickTooLate \/ PollStarts \/ PollFails \/ PollOutside \/ LoopEnds
  BY <1>2, <1>7, <1>9 DEF SeedDone, TickTooLate, PollStarts, PollFails, PollOutside, LoopEnds,
                          Discard, PollShape, Nothing, TrafficCounted
<1>10. CASE PollDone
  <2>1. \A o \in Oids : TrafficCounted(o)' = TrafficCounted(o)
    BY <1>10 DEF PollDone, PollShape, Nothing, TrafficCounted
  <2> QED
    BY <1>2, <1>7, <1>10, <2>1 DEF PollDone, PollShape
<1>11. CASE \E o \in Oids : WalkOid(o) \/ PassOver(o)
  <2>1. ASSUME NEW o \in Oids, PassOver(o) PROVE Traffic'
    BY <1>2, <1>7, <2>1 DEF PassOver, TrafficCounted
  <2> QED
    BY <1>11, <2>1, TrafficWalk
<1> QED
  BY <1>5, <1>6, <1>8, <1>9, <1>10, <1>11 DEF PollNext, Looping

\* Whatever the number of counters, their width, the length of the run, the
\* reboots and the values they leave: the differences sent for a counter never
\* add up to more than its traffic and what reboots have raised it by.
THEOREM NoOverReport == Spec => []NeverOverReports
<1>1. Init => PollShape /\ Traffic
  BY ShapeInit, TrafficInit DEF Init
<1>2. PollShape /\ Traffic /\ [Next]_vars => (PollShape /\ Traffic)'
  BY PollFrame, ShapeStep, TrafficStep
<1>3. PollShape /\ Traffic => NeverOverReports
  BY CountedType DEF PollShape, Traffic, TrafficCounted, NeverOverReports
<1> QED
  BY <1>1, <1>2, <1>3, PTL DEF Spec

------------------------------------------------------------------------------
(* What a difference spans *)

\* Every stored value is of a poll since the differences were last started
\* over, and so is the poll at work.
Unwalked == DOMAIN base \ DOMAIN deltas
Span ==
  /\ restart \in 0..polls
  /\ loop \in {"seed", "poll"} => restart < polls
  /\ \A o \in DOMAIN base : base[o].poll > restart
  /\ \A o \in DOMAIN deltas : base[o].poll = polls
  /\ StartedOver

LEMMA SpanInit == PollInit => Span
BY DEF PollInit, Span, StartedOver, Nothing

LEMMA SpanWalk ==
  ASSUME PollShape, Span, NEW o \in Oids, WalkOid(o) PROVE Span'
<1>1. /\ UNCHANGED <<polls, restart, loop>> /\ loop \in {"seed", "poll"} /\ polls \in Nat \ {0}
      /\ DOMAIN deltas' = DOMAIN deltas \cup {o} /\ DOMAIN base' = DOMAIN base \cup {o}
      /\ deltas'[o].poll = (IF o \in DOMAIN base THEN base[o].poll ELSE 0)
      /\ base'[o].poll = polls
      /\ \A p \in DOMAIN deltas \ {o} : deltas'[p] = deltas[p]
      /\ \A p \in DOMAIN base \ {o} : base'[p] = base[p]
  BY DEF WalkOid, SetBase, Reading, PollShape, devVars, histVars
<1>2. \A p \in DOMAIN base' : base'[p].poll > restart
  BY <1>1 DEF Span
<1>3. \A p \in DOMAIN deltas' : base'[p].poll = polls
  BY <1>1 DEF Span, PollShape
<1>4. StartedOver'
  BY <1>1 DEF Span, StartedOver
<1> QED
  BY <1>1, <1>2, <1>3, <1>4 DEF Span

LEMMA SpanStep == PollShape /\ Span /\ [PollNext]_pollVars => Span'
<1> SUFFICES ASSUME PollShape, Span, [PollNext]_pollVars PROVE Span'
  OBVIOUS
<1> USE DEF devVars, tickVars, histVars
<1>1. CASE UNCHANGED <<base, deltas, polls, restart, loop>>
  BY <1>1 DEF Span, StartedOver
<1>2. CASE UNCHANGED pollVars \/ Clock \/ Reboot \/ Cancel
  BY <1>1, <1>2 DEF Clock, Reboot, Cancel, pollVars
<1>3. CASE Ticking
  BY <1>1, <1>3 DEF Ticking, TickerTakes, TickerPuts, TickerEnds
<1>4. CASE SeedDone
  BY <1>4 DEF SeedDone, PollShape, Nothing, Span, StartedOver
<1>5. CASE TickTooLate \/ PollFails \/ PollOutside
  BY <1>5 DEF TickTooLate, PollFails, PollOutside, Discard, PollShape, Nothing, Span, StartedOver
<1>6. CASE PollStarts
  BY <1>6 DEF PollStarts, PollShape, Nothing, Span, StartedOver
<1>7. CASE PollDone
  BY <1>7 DEF PollDone, PollShape, Nothing, Span, StartedOver
<1>8. CASE LoopEnds
  BY <1>8 DEF LoopEnds, PollShape, Nothing, Span, StartedOver
<1>9. CASE Sent \/ StatusCheck \/ StartLoop
  BY <1>9 DEF Sent, StatusCheck, StartLoop, Span, StartedOver
<1>10. CASE \E o \in Oids : WalkOid(o) \/ PassOver(o)
  <2>1. ASSUME NEW o \in Oids, PassOver(o) PROVE Span'
    BY <1>1, <2>1 DEF PassOver
  <2> QED
    BY <1>10, <2>1, SpanWalk
<1> QED
  BY <1>2, <1>3, <1>4, <1>5, <1>6, <1>7, <1>8, <1>9, <1>10 DEF PollNext, Looping

------------------------------------------------------------------------------
(* The schedule *)

\* The tick that the loop gets next.
First == IF tick # NoTick THEN tick ELSE IF hand # NoTick THEN hand
         ELSE IF tslot # NoTick THEN tslot ELSE due

\* A tick on its way is at least a block older than the one that is due, and
\* that one is at most a block away.
OnItsWay(x) == x # NoTick => /\ x \in Nat /\ due \in Nat
                             /\ x + BlockLen <= due /\ due - BlockLen <= now
Schedule ==
  /\ due \in Nat \cup {NoTick}
  /\ OnItsWay(tslot) /\ OnItsWay(hand) /\ OnItsWay(tick)
  /\ loop \in {"seed", "metadata"} => due = NoTick
  /\ loop \notin {"seed", "metadata"} => due \in Nat
  /\ loop = "poll" => /\ sched \in Nat /\ Block(sched) <= Block(now)
                      /\ Block(First) <= Block(sched) + 1

LEMMA BlockMonotone ==
  ASSUME NEW a \in Nat, NEW b \in Nat, a <= b PROVE Block(a) <= Block(b)
<1> DEFINE p == Block(a)
           q == Block(b)
<1> HIDE DEF p, q
<1>1. BlockLen \in Nat \ {0}
  BY PollAssumption
<1>2. p \in Nat /\ BlockLen * p <= a /\ a < BlockLen * p + BlockLen
  BY <1>1 DEF p, Block
<1>3. q \in Nat /\ BlockLen * q <= b /\ b < BlockLen * q + BlockLen
  BY <1>1 DEF q, Block
<1>4. p <= q
  <2> SUFFICES ASSUME q + 1 <= p PROVE FALSE
    BY <1>2, <1>3
  <2>1. BlockLen * (q + 1) <= BlockLen * p
    BY <1>1, <1>2, <1>3
  <2>2. BlockLen * (q + 1) = BlockLen * q + BlockLen
    BY <1>1, <1>3
  <2>3. BlockLen * q \in Int /\ BlockLen * p \in Int
    BY <1>1, <1>2, <1>3
  <2> QED
    BY <1>1, <1>2, <1>3, <2>1, <2>2, <2>3
<1> QED
  BY <1>4 DEF p, q

LEMMA NextBlock == ASSUME NEW a \in Nat PROVE Block(a + BlockLen) = Block(a) + 1
<1> DEFINE p == Block(a)
<1> HIDE DEF p
<1>1. BlockLen \in Nat \ {0}
  BY PollAssumption
<1>2. p \in Nat /\ BlockLen * p <= a /\ a < BlockLen * p + BlockLen
  BY <1>1 DEF p, Block
<1>3. BlockLen * (p + 1) = BlockLen * p + BlockLen /\ BlockLen * p \in Int
  BY <1>1, <1>2
<1>4. PICK r \in 0..(BlockLen - 1) : a + BlockLen = BlockLen * (p + 1) + r
  <2>1. a - BlockLen * p \in 0..(BlockLen - 1)
    BY <1>1, <1>2, <1>3
  <2>2. a + BlockLen = BlockLen * (p + 1) + (a - BlockLen * p)
    BY <1>1, <1>3
  <2> QED
    BY <2>1, <2>2
<1>5. ASSUME NEW M \in Nat \ {0}, NEW n \in Nat, NEW q \in Nat, NEW m \in 0..(M - 1),
             n = M * q + m
      PROVE  n \div M = q
  BY <1>5
<1>6. (a + BlockLen) \div BlockLen = p + 1
  <2>1. a + BlockLen \in Nat /\ p + 1 \in Nat
    BY <1>1, <1>2
  <2> QED
    BY <1>1, <1>4, <1>5, <2>1
<1> QED
  BY <1>6 DEF p, Block

\* The tick after one that is taken in its block is of the next block at the
\* latest: none was dropped in between.
LEMMA NextTickSoon ==
  ASSUME PollShape, Schedule, tick # NoTick, Block(now) = Block(tick)
  PROVE  /\ hand # NoTick => Block(hand) <= Block(now) + 1
         /\ tslot # NoTick => Block(tslot) <= Block(now) + 1
         /\ Block(due) <= Block(now) + 1
<1>1. BlockLen \in Nat \ {0} /\ now \in Nat /\ tick \in Nat /\ due \in Nat
      /\ tick + BlockLen <= due /\ due - BlockLen <= now
  BY PollAssumption DEF PollShape, Schedule, OnItsWay
<1>2. due - BlockLen \in Nat /\ due = (due - BlockLen) + BlockLen
  BY <1>1
<1>3. Block(due) = Block(due - BlockLen) + 1
  <2> DEFINE e == due - BlockLen
  <2>1. Block(e + BlockLen) = Block(e) + 1
    BY <1>2, NextBlock
  <2> QED
    BY <1>2, <2>1
<1>4. Block(due - BlockLen) <= Block(now) /\ Block(due - BlockLen) \in Nat /\ Block(now) \in Nat
      /\ Block(due) \in Nat
  BY <1>1, <1>2, BlockMonotone, BlockType
<1>5. Block(due) <= Block(now) + 1
  BY <1>3, <1>4
<1>6. ASSUME NEW x \in Nat, x + BlockLen <= due PROVE Block(x) <= Block(now) + 1
  <2>1. x <= due
    BY <1>1, <1>6
  <2>2. Block(x) <= Block(due) /\ Block(x) \in Nat
    BY <1>1, <2>1, BlockMonotone, BlockType
  <2> QED
    BY <1>4, <1>5, <2>2
<1> QED
  BY <1>5, <1>6 DEF Schedule, OnItsWay

LEMMA ScheduleInit == PollInit => Schedule
BY DEF PollInit, Schedule, OnItsWay

\* Steps in which the ticks stay where they are, or move on towards the loop.
LEMMA SchedulePasses ==
  ASSUME PollShape, Schedule, now' = now, due' = due, loop' = loop, sched' = sched,
         First' = First,
         \A x \in {tslot', hand', tick'} : x \in {tslot, hand, tick, NoTick}
  PROVE  Schedule'
BY DEF Schedule, OnItsWay, Block

LEMMA ScheduleClock == ASSUME PollShape, Schedule, Clock PROVE Schedule'
<1>1. BlockLen \in Nat \ {0} /\ now \in Nat /\ NoTick \notin Nat
  BY PollAssumption DEF PollShape
<1>2. now' = now + 1 /\ loop' = loop /\ sched' = sched /\ hand' = hand /\ tick' = tick
  BY DEF Clock
<1>3. Block(now) <= Block(now') /\ Block(now) \in Nat /\ Block(now') \in Nat
  BY <1>1, <1>2, BlockMonotone, BlockType
<1>4. CASE due = now + 1 /\ ticker \in {"running", "stopped"}
  <2>1. due' = due + BlockLen /\ tslot' = IF tslot = NoTick THEN now + 1 ELSE tslot
    BY <1>4 DEF Clock
  <2>2. First' = First
    BY <1>1, <1>2, <1>4, <2>1 DEF First
  <2>3. OnItsWay(tslot)' /\ OnItsWay(hand)' /\ OnItsWay(tick)' /\ due' \in Nat
    BY <1>1, <1>2, <1>4, <2>1 DEF Schedule, OnItsWay
  <2>4. loop \notin {"seed", "metadata"}
    BY <1>1, <1>4 DEF Schedule
  <2>5. loop' = "poll" => Block(sched') <= Block(now') /\ Block(First') <= Block(sched') + 1
    BY <1>2, <1>3, <2>2, BlockType DEF Schedule
  <2> QED
    BY <1>2, <2>3, <2>4, <2>5 DEF Schedule, Block
<1>5. CASE ~(due = now + 1 /\ ticker \in {"running", "stopped"})
  <2>1. due' = due /\ tslot' = tslot
    BY <1>5 DEF Clock
  <2>2. First' = First
    BY <1>2, <2>1 DEF First
  <2>3. OnItsWay(tslot)' /\ OnItsWay(hand)' /\ OnItsWay(tick)'
    BY <1>1, <1>2, <2>1 DEF Schedule, OnItsWay
  <2>4. loop' = "poll" => Block(sched') <= Block(now') /\ Block(First') <= Block(sched') + 1
    BY <1>2, <1>3, <2>2, BlockType DEF Schedule
  <2> QED
    BY <1>2, <2>1, <2>3, <2>4 DEF Schedule, Block
<1> QED
  BY <1>4, <1>5

LEMMA ScheduleStep == PollShape /\ Schedule /\ [PollNext]_pollVars => Schedule'
<1> SUFFICES ASSUME PollShape, Schedule, [PollNext]_pollVars PROVE Schedule'
  OBVIOUS
<1> USE DEF devVars, tickVars, histVars
<1>1. CASE Clock
  BY <1>1, ScheduleClock
<1>2. CASE UNCHANGED pollVars \/ Reboot \/ Cancel
  BY <1>2, SchedulePasses DEF Reboot, Cancel, pollVars, First
<1>3. CASE Ticking
  BY <1>3, SchedulePasses DEF Ticking, TickerTakes, TickerPuts, TickerEnds, First
<1>4. CASE \E o \in Oids : WalkOid(o) \/ PassOver(o)
  BY <1>4, SchedulePasses DEF WalkOid, PassOver, First
<1>5. CASE SeedDone \/ Sent \/ StatusCheck \/ PollFails \/ PollOutside \/ PollDone \/ LoopEnds
  BY <1>5 DEF SeedDone, Sent, StatusCheck, PollFails, PollOutside, PollDone, LoopEnds, Schedule,
              OnItsWay
<1>6. CASE StartLoop
  <2>1. now \in Nat /\ BlockLen \in Nat /\ Jitter \in Nat /\ Block(now) \in Nat
    BY PollAssumption, BlockType DEF PollShape
  <2>2. FirstCollection(now) \in Nat
    BY <2>1 DEF FirstCollection
  <2>3. tslot = NoTick /\ hand = NoTick /\ tick = NoTick
    BY <1>6, PollAssumption DEF StartLoop, Schedule, OnItsWay
  <2> QED
    BY <1>6, <2>2, <2>3 DEF StartLoop, Schedule, OnItsWay
<1>7. CASE TickTooLate
  BY <1>7 DEF TickTooLate, Schedule, OnItsWay
<1>8. CASE PollStarts
  <2>1. /\ tick # NoTick /\ Block(now) = Block(tick) /\ sched' = tick /\ tick' = NoTick
        /\ loop = "select" /\ loop' = "poll" /\ UNCHANGED <<now, due, tslot, hand>>
    BY <1>8 DEF PollStarts
  <2>2. Block(First') <= Block(now) + 1
    BY <2>1, NextTickSoon DEF First
  <2>3. tick \in Nat /\ Block(now) \in Nat
    BY <2>1, BlockType DEF Schedule, OnItsWay, PollShape
  <2> QED
    BY <2>1, <2>2, <2>3 DEF Schedule, OnItsWay, Block
<1> QED
  BY <1>1, <1>2, <1>3, <1>4, <1>5, <1>6, <1>7, <1>8 DEF PollNext, Looping

------------------------------------------------------------------------------
(* No block is spanned *)

\* Polls that are not discarded are of consecutive blocks: between polls the
\* next tick is of at most as many blocks after a stored value as there were
\* polls since, and one more. During a poll that is still in its block the
\* same holds of the block of the poll, for the values that it has not
\* replaced, and the others are of the poll's block and count from as many
\* blocks before as polls. Values of the first poll, which had no tick, are
\* exempt.
Fresh(o, b) == base[o].poll # 1 => b <= base[o].block + (polls - base[o].poll)
Gaps == drop =>
  /\ loop \in {"select", "send"} => \A o \in DOMAIN base : Fresh(o, Block(First) - 1)
  /\ loop = "poll" => \A o \in Unwalked : Fresh(o, Block(sched))
  /\ (loop = "poll" /\ Block(now) = Block(sched)) =>
        \A o \in DOMAIN deltas : /\ base[o].block = Block(sched)
                                 /\ deltas[o].poll > 1 => deltas[o].gap - deltas[o].over <= 0

LEMMA GapsInit == PollInit => Gaps
BY DEF PollInit, Gaps, Unwalked, Nothing

LEMMA GapsWalk ==
  ASSUME PollShape, Schedule, Gaps, NEW o \in Oids, WalkOid(o) PROVE Gaps'
<1> SUFFICES ASSUME drop' PROVE Gaps'
  BY DEF Gaps
<1>1. /\ UNCHANGED <<now, loop, drop, sched, polls>> /\ loop \in {"seed", "poll"}
      /\ o \notin DOMAIN deltas
      /\ DOMAIN deltas' = DOMAIN deltas \cup {o} /\ DOMAIN base' = DOMAIN base \cup {o}
      /\ deltas'[o].poll = (IF o \in DOMAIN base THEN base[o].poll ELSE 0)
      /\ deltas'[o].gap = (IF o \in DOMAIN base THEN Block(now) - base[o].block ELSE 0)
      /\ deltas'[o].over = (IF o \in DOMAIN base THEN polls - base[o].poll ELSE 0)
      /\ base'[o].block = Block(now)
      /\ \A p \in DOMAIN deltas : p # o /\ deltas'[p] = deltas[p]
      /\ \A p \in DOMAIN base \ {o} : base'[p] = base[p]
  BY DEF WalkOid, SetBase, Reading, PollShape, devVars, histVars
<1>2. Unwalked' = Unwalked \ {o} /\ \A p \in Unwalked' : base'[p] = base[p]
  BY <1>1 DEF Unwalked
<1>3. loop' = "poll" => \A p \in Unwalked' : Fresh(p, Block(sched))'
  BY <1>1, <1>2 DEF Gaps, Fresh, Block
<1>4. ASSUME loop = "poll", Block(now) = Block(sched)
      PROVE  \A p \in DOMAIN deltas' :
               /\ base'[p].block = Block(sched)
               /\ deltas'[p].poll > 1 => deltas'[p].gap - deltas'[p].over <= 0
  <2>1. Block(now) \in Nat
    BY BlockType DEF PollShape
  <2>2. o \in DOMAIN base /\ base[o].poll # 1 =>
          /\ Block(sched) <= base[o].block + (polls - base[o].poll) /\ base[o].block \in Nat
          /\ base[o].poll \in Nat /\ polls \in Nat
    BY <1>1, <1>4 DEF Gaps, Fresh, Unwalked, PollShape
  <2>3. deltas'[o].poll > 1 => deltas'[o].gap - deltas'[o].over <= 0
    BY <1>1, <1>4, <2>1, <2>2
  <2>4. \A p \in DOMAIN deltas : /\ base[p].block = Block(sched)
                                 /\ deltas[p].poll > 1 => deltas[p].gap - deltas[p].over <= 0
    BY <1>1, <1>4 DEF Gaps
  <2> QED
    BY <1>1, <1>4, <2>3, <2>4 DEF PollShape
<1> QED
  BY <1>1, <1>3, <1>4 DEF Gaps, Block

LEMMA GapsStep == PollShape /\ Schedule /\ Span /\ Gaps /\ [PollNext]_pollVars => Gaps'
<1> SUFFICES ASSUME PollShape, Schedule, Span, Gaps, [PollNext]_pollVars, drop' PROVE Gaps'
  BY DEF Gaps
<1> USE DEF devVars, tickVars, histVars
<1>1. CASE Clock
  <2>1. /\ UNCHANGED <<loop, drop, sched, deltas, base, polls, hand, tick>> /\ now' = now + 1
        /\ now \in Nat /\ NoTick \notin Nat
    BY <1>1, PollAssumption DEF Clock, PollShape
  <2>2. First' = First
    BY <1>1, <2>1 DEF Clock, First
  <2>3. Block(now) <= Block(now') /\ Block(now) \in Nat /\ Block(now') \in Nat
    BY <2>1, BlockMonotone, BlockType
  <2>4. loop = "poll" /\ Block(now') = Block(sched) => Block(now) = Block(sched)
    BY <2>3, BlockType DEF Schedule
  <2> QED
    BY <2>1, <2>2, <2>4 DEF Gaps, Fresh, Unwalked, Block
<1>2. CASE UNCHANGED pollVars \/ Reboot \/ Cancel
  <2>1. UNCHANGED <<now, loop, drop, sched, deltas, base, polls, tick, hand, tslot, due>>
    BY <1>2 DEF Reboot, Cancel, pollVars
  <2> QED
    BY <2>1 DEF First, Gaps, Fresh, Unwalked, Block
<1>3. CASE Ticking
  <2>1. First' = First
    BY <1>3 DEF Ticking, TickerTakes, TickerPuts, TickerEnds, First
  <2>2. UNCHANGED <<now, loop, drop, sched, deltas, base, polls>>
    BY <1>3 DEF Ticking, TickerTakes, TickerPuts, TickerEnds
  <2> QED
    BY <2>1, <2>2 DEF Gaps, Fresh, Unwalked, Block
<1>4. CASE \E o \in Oids : WalkOid(o) \/ PassOver(o)
  <2>1. ASSUME NEW o \in Oids, PassOver(o) PROVE Gaps'
    <3>1. UNCHANGED <<now, loop, drop, sched, deltas, base, polls, tick, hand, tslot, due>>
      BY <2>1 DEF PassOver
    <3> QED
      BY <3>1 DEF First, Gaps, Fresh, Unwalked, Block
  <2> QED
    BY <1>4, <2>1, GapsWalk
<1>5. CASE SeedDone
  BY <1>5 DEF SeedDone, Gaps
<1>6. CASE StartLoop
  <2>1. \A o \in DOMAIN base : base[o].poll = 1
    BY <1>6 DEF StartLoop, PollShape
  <2> QED
    BY <1>6, <2>1 DEF StartLoop, Gaps, Fresh
<1>7. CASE TickTooLate \/ PollFails \/ PollOutside
  BY <1>7 DEF TickTooLate, PollFails, PollOutside, Discard, Gaps, Nothing
<1>8. CASE LoopEnds
  BY <1>8 DEF LoopEnds, Gaps, Nothing
<1>9. CASE PollStarts
  <2>1. /\ First = tick /\ sched' = tick /\ drop /\ loop = "select" /\ loop' = "poll"
        /\ base' = base /\ polls' = polls + 1 /\ DOMAIN deltas' = {} /\ tick # NoTick
    BY <1>9 DEF PollStarts, First, Nothing
  <2>2. tick \in Nat
    BY <2>1 DEF Schedule, OnItsWay
  <2>3. Block(tick) \in Nat
    BY <2>2, BlockType
  <2>4. ASSUME NEW o \in DOMAIN base, base[o].poll # 1
        PROVE  Block(tick) <= base[o].block + (polls' - base[o].poll)
    <3>1. PICK b \in Nat, p \in Nat, n \in Nat : b = base[o].block /\ p = base[o].poll /\ n = polls
      BY DEF PollShape
    <3>2. Block(tick) - 1 <= b + (n - p)
      BY <2>1, <2>4, <3>1 DEF Gaps, Fresh
    <3> QED
      BY <2>1, <2>3, <3>1, <3>2
  <2> QED
    BY <2>1, <2>4 DEF Gaps, Fresh, Unwalked, Block
<1>10. CASE PollDone
  <2>1. /\ loop = "poll" /\ Block(now) = Block(sched) /\ loop' = "send"
        /\ drop /\ UNCHANGED <<tick, hand, tslot, due, base, polls>>
    BY <1>10 DEF PollDone, Outside, PollShape
  <2>2. Block(First) <= Block(sched) + 1 /\ First' = First
    BY <2>1 DEF Schedule, First
  <2>3. Block(sched) \in Nat /\ Block(First) \in Int
    <3>1. First \in Nat
      BY <2>1 DEF Schedule, OnItsWay, First
    <3> QED
      BY <2>1, <3>1, BlockType DEF Schedule
  <2>4. ASSUME NEW o \in DOMAIN base PROVE Fresh(o, Block(First) - 1)
    <3> SUFFICES ASSUME base[o].poll # 1
                 PROVE  Block(First) - 1 <= base[o].block + (polls - base[o].poll)
      BY DEF Fresh
    <3>1. PICK b \in Nat, p \in Nat, n \in Nat : b = base[o].block /\ p = base[o].poll /\ n = polls
      BY DEF PollShape
    <3>2. Block(sched) <= b + (n - p)
      <4>1. CASE o \in DOMAIN deltas
        BY <2>1, <2>3, <3>1, <4>1 DEF Gaps, Span
      <4>2. CASE o \in Unwalked
        BY <2>1, <3>1, <4>2 DEF Gaps, Fresh
      <4> QED
        BY <4>1, <4>2 DEF Unwalked
    <3> QED
      BY <2>2, <2>3, <3>1, <3>2
  <2> QED
    BY <2>1, <2>2, <2>4 DEF Gaps, Fresh, Block
<1>11. CASE Sent \/ StatusCheck
  <2>1. /\ UNCHANGED <<drop, base, polls, tick, hand, tslot, due>>
        /\ loop \in {"select", "send"} /\ loop' \in {"select", "send"}
    BY <1>11 DEF Sent, StatusCheck
  <2> QED
    BY <2>1 DEF Gaps, Fresh, First, Block
<1> QED
  BY <1>1, <1>2, <1>3, <1>4, <1>5, <1>6, <1>7, <1>8, <1>9, <1>10, <1>11 DEF PollNext, Looping

\* What is being sent spans no block without a poll and is of its block.
LEMMA PointStep ==
  ASSUME PollShape, Gaps, NoGapSpanned, PointsInTheirBlock, [PollNext]_pollVars
  PROVE  NoGapSpanned' /\ PointsInTheirBlock'
<1> USE DEF devVars, tickVars, histVars
<1>1. CASE PollDone
  <2> SUFFICES ASSUME drop' PROVE NoGapSpanned' /\ PointsInTheirBlock'
    BY DEF NoGapSpanned, PointsInTheirBlock
  <2>1. /\ loop = "poll" /\ Block(now) = Block(sched) /\ drop
        /\ point' = [block |-> Block(sched), sent |-> Block(now),
                     gaps |-> {deltas[o].gap - deltas[o].over :
                                 o \in {p \in DOMAIN deltas : deltas[p].poll > 1}}]
    BY <1>1 DEF PollDone, Outside, PollShape
  <2>2. \A o \in DOMAIN deltas : deltas[o].poll > 1 => deltas[o].gap - deltas[o].over <= 0
    BY <2>1 DEF Gaps
  <2> QED
    BY <2>1, <2>2 DEF NoGapSpanned, PointsInTheirBlock
<1>2. CASE Sent
  BY <1>2 DEF Sent, NoPoint, NoGapSpanned, PointsInTheirBlock
<1>3. CASE \E o \in Oids : WalkOid(o) \/ PassOver(o)
  BY <1>3 DEF WalkOid, PassOver, NoGapSpanned, PointsInTheirBlock
<1>4. CASE UNCHANGED pollVars \/ Clock \/ Reboot \/ Cancel \/ StatusCheck \/ Ticking
  BY <1>4 DEF Clock, Reboot, Cancel, StatusCheck, Ticking, TickerTakes, TickerPuts, TickerEnds,
              pollVars, NoGapSpanned, PointsInTheirBlock
<1>5. CASE SeedDone \/ StartLoop \/ TickTooLate \/ PollStarts \/ PollFails \/ PollOutside
           \/ LoopEnds
  BY <1>5 DEF SeedDone, StartLoop, TickTooLate, PollStarts, PollFails, PollOutside, LoopEnds,
              NoGapSpanned, PointsInTheirBlock
<1> QED
  BY <1>1, <1>2, <1>3, <1>4, <1>5 DEF PollNext, Looping

\* Whatever the lengths of polls, walks and sends, the ticks that are dropped,
\* skipped or late and the counters that polls pass over: no difference counts
\* from before a failure and, with dropIfOutside, none spans a block without a
\* poll and all are sent for the block they were read in.
THEOREM DifferencesSpanPolledBlocks == Spec => []SpansKept
<1> DEFINE Inv == PollShape /\ Span /\ Schedule /\ Gaps /\ NoGapSpanned /\ PointsInTheirBlock
<1>1. Init => Inv
  BY ShapeInit, SpanInit, ScheduleInit, GapsInit
     DEF Init, PollInit, NoPoint, NoGapSpanned, PointsInTheirBlock
<1>2. Inv /\ [Next]_vars => Inv'
  BY PollFrame, ShapeStep, SpanStep, ScheduleStep, GapsStep, PointStep
<1>3. Inv => SpansKept
  BY DEF Span, SpansKept
<1> QED
  BY <1>1, <1>2, <1>3, PTL DEF Spec

------------------------------------------------------------------------------
(* The ping-only loop *)

LEMMA PingFrame == [Next]_vars => [PingNext]_pingVars
BY DEF Next, vars, OfPoll, OfPing, OfMetrics, OfMetadata

PingInv == PingTypeOK /\ SlowWhenIdle /\ FlagFollowsPolls

LEMMA PingInvStep == PingInv /\ [PingNext]_pingVars => PingInv'
<1> SUFFICES ASSUME PingInv, [PingNext]_pingVars PROVE PingInv'
  OBVIOUS
<1>1. CASE UNCHANGED pingVars \/ PingCancel
  <2>1. UNCHANGED <<ping, lost, runningFast, seenGood, pinger>> /\ pingDone' \in BOOLEAN
    BY <1>1 DEF pingVars, PingCancel, PingInv, PingTypeOK
  <2> QED
    BY <2>1 DEF PingInv, PingTypeOK, SlowWhenIdle, FlagFollowsPolls
<1>2. ASSUME NEW i \in Ticks, PingTick(i) \/ FirstPing(i) \/ PingStep(i) PROVE PingInv'
  <2>1. CASE PingTick(i) \/ FirstPing(i) \/ CheckFast(i) \/ PingErrs(i) \/ TotalLoss(i)
    BY <2>1 DEF PingTick, FirstPing, CheckFast, PingErrs, TotalLoss, At, PingInv, PingTypeOK,
                SlowWhenIdle, FlagFollowsPolls
  <2>2. CASE PingEnds(i, TRUE) \/ PingEnds(i, FALSE)
    <3>1. /\ ping[i] = "ping" /\ ping' = [ping EXCEPT ![i] = "decide"]
          /\ lost' \in [Ticks -> BOOLEAN] /\ UNCHANGED <<runningFast, seenGood, pinger, pingDone>>
      BY <2>2 DEF PingEnds, At, PingInv, PingTypeOK
    <3> QED
      BY <3>1 DEF PingInv, PingTypeOK, SlowWhenIdle, FlagFollowsPolls
  <2>3. CASE NoLoss(i)
    BY <2>3 DEF NoLoss, At, PingInv, PingTypeOK, SlowWhenIdle, FlagFollowsPolls
  <2>4. CASE SetRunning(i)
    BY <2>4 DEF SetRunning, At, PingInv, PingTypeOK, SlowWhenIdle, FlagFollowsPolls
  <2>5. CASE StartFast(i)
    BY <2>5 DEF StartFast, At, PingInv, PingTypeOK, SlowWhenIdle, FlagFollowsPolls
  <2>6. CASE FastOver(i)
    BY <2>6 DEF FastOver, At, PingInv, PingTypeOK, SlowWhenIdle, FlagFollowsPolls
  <2>7. CASE ForgetGood(i)
    BY <2>7 DEF ForgetGood, At, PingInv, PingTypeOK, SlowWhenIdle, FlagFollowsPolls
  <2>8. CASE ClearRunning(i)
    BY <2>8 DEF ClearRunning, At, PingInv, PingTypeOK, SlowWhenIdle, FlagFollowsPolls
  <2> QED
    BY <1>2, <2>1, <2>2, <2>3, <2>4, <2>5, <2>6, <2>7, <2>8 DEF PingStep
<1> QED
  BY <1>1, <1>2 DEF PingNext

\* However many ping goroutines overlap: the pinger is slow when none of them
\* polls fast, and runningFast is never set without one that will clear it.
THEOREM PingFindsBack == Spec => [](SlowWhenIdle /\ FlagFollowsPolls)
<1>1. Init => PingInv
  BY DEF Init, PingInit, PingInv, PingTypeOK, SlowWhenIdle, FlagFollowsPolls
<1>2. PingInv /\ [Next]_vars => PingInv'
  BY PingFrame, PingInvStep
<1> QED
  BY <1>1, <1>2, PTL DEF Spec, PingInv

------------------------------------------------------------------------------
(* Loops over a list *)

\* A set of numbers has a least one: the order is well-founded.
LEMMA LeastNat ==
  ASSUME NEW T \in SUBSET Nat, T # {}
  PROVE  \E n \in T : \A m \in T : n <= m
<1>1. PICK n \in T : \A m \in T : ~(<<m, n>> \in OpToRel(<, Nat))
  BY NatLessThanWellFounded, WFMin, Zenon
<1>2. ASSUME NEW m \in T PROVE n <= m
  <2>1. ~(<<m, n>> \in OpToRel(<, Nat))
    BY <1>1
  <2> QED BY <2>1 DEF OpToRel
<1> QED BY <1>2

\* Induction up to a bound, with a set in the place of the predicate.
LEMMA InductTo ==
  ASSUME NEW n \in Nat, NEW S, 0 \in S, \A i \in 0 .. n - 1 : i \in S => i + 1 \in S
  PROVE  \A i \in 0 .. n : i \in S
<1> DEFINE T == {i \in 0 .. n : i \notin S}
<1> SUFFICES ASSUME T # {} PROVE FALSE
  OBVIOUS
<1>1. T \in SUBSET Nat
  OBVIOUS
<1>2. PICK i \in T : \A m \in T : i <= m
  BY <1>1, LeastNat
<1>3. i \in 1 .. n /\ i - 1 \in 0 .. n - 1 /\ i - 1 \notin T /\ i \notin S
  BY <1>1, <1>2
<1>4. i - 1 \in S /\ (i - 1) + 1 = i
  BY <1>3
<1> QED BY <1>3, <1>4

\* Lists.
LEMMA ListLaw == ASSUME NEW T, NEW s \in Seq(T) PROVE /\ Len(s) \in Nat /\ DOMAIN s = 1 .. Len(s)
                                                     /\ \A i \in 1 .. Len(s) : s[i] \in T
OBVIOUS

LEMMA AppendLaw ==
  ASSUME NEW T, NEW s \in Seq(T), NEW x \in T
  PROVE  /\ Append(s, x) \in Seq(T) /\ DOMAIN Append(s, x) = 1 .. (Len(s) + 1)
         /\ Append(s, x)[Len(s) + 1] = x /\ \A k \in 1 .. Len(s) : Append(s, x)[k] = s[k]
OBVIOUS

LEMMA ReplaceLaw ==
  ASSUME NEW T, NEW s \in Seq(T), NEW x \in T, NEW h \in 1 .. Len(s)
  PROVE  /\ [s EXCEPT ![h] = x] \in Seq(T) /\ DOMAIN [s EXCEPT ![h] = x] = 1 .. Len(s)
         /\ [s EXCEPT ![h] = x][h] = x /\ \A k \in 1 .. Len(s) : k # h => [s EXCEPT ![h] = x][k] = s[k]
OBVIOUS

\* The loop over the variables of an interface walk.
IfWalkedDef(f, name, start, ans) == f = [i \in 0 .. Len(ans) |-> IF i = 0 THEN start ELSE IfVariable(name, f[i - 1], ans[i])]

LEMMA IfWalkedIs == ASSUME NEW name, NEW start, NEW ans PROVE IfWalked(name, start, ans) = (CHOOSE f : IfWalkedDef(f, name, start, ans))[Len(ans)]
BY Zenon DEF IfWalked, IfWalkedDef

LEMMA IfWalkedSteps ==
  ASSUME NEW name, NEW start, NEW ans, Len(ans) \in Nat
  PROVE  \E f : /\ f[0] = start /\ IfWalked(name, start, ans) = f[Len(ans)]
                /\ \A i \in 1 .. Len(ans) : f[i] = IfVariable(name, f[i - 1], ans[i])
<1> DEFINE n == Len(ans)
           Upto(f, m) == f = [i \in 0 .. m |-> f[i]] /\ f[0] = start /\ \A i \in 1 .. m : f[i] = IfVariable(name, f[i - 1], ans[i])
           S == {m \in 0 .. n : \E f : Upto(f, m)}
           cell == CHOOSE f : IfWalkedDef(f, name, start, ans)
<1>1. 0 \in S
  <2>1. Upto([i \in 0 .. 0 |-> start], 0)
    OBVIOUS
  <2> HIDE DEF Upto
  <2> QED BY <2>1
<1>2. ASSUME NEW m \in 0 .. n - 1, m \in S PROVE m + 1 \in S
  <2>1. PICK f : Upto(f, m)
    BY <1>2
  <2> DEFINE g == [j \in 0 .. (m + 1) |-> IF j <= m THEN f[j] ELSE IfVariable(name, f[m], ans[m + 1])]
  <2>2. /\ g = [j \in 0 .. (m + 1) |-> g[j]] /\ g[m + 1] = IfVariable(name, f[m], ans[m + 1])
        /\ \A j \in 0 .. m : g[j] = f[j]
    BY m \in Nat
  <2> HIDE DEF g
  <2>3. g[0] = start
    BY <2>1, <2>2
  <2>4. ASSUME NEW j \in 1 .. (m + 1) PROVE g[j] = IfVariable(name, g[j - 1], ans[j])
    <3>1. CASE j \in 1 .. m
      <4>1. j \in 0 .. m /\ j - 1 \in 0 .. m
        BY <3>1
      <4>2. f[j] = IfVariable(name, f[j - 1], ans[j])
        BY <2>1, <3>1, Zenon
      <4> QED BY <2>2, <4>1, <4>2, Zenon
    <3>2. CASE j = m + 1
      <4>1. j - 1 = m /\ m \in 0 .. m
        BY <3>2
      <4> QED BY <2>2, <3>2, <4>1
    <3> QED BY <3>1, <3>2
  <2>5. Upto(g, m + 1)
    BY <2>2, <2>3, <2>4, Zenon
  <2> HIDE DEF Upto
  <2> QED BY <2>5
<1> HIDE DEF S
<1>3. n \in S
  BY <1>1, <1>2, InductTo, n \in 0 .. n
<1>4. PICK f : Upto(f, n)
  BY <1>3, Zenon DEF S
<1>5. IfWalkedDef(f, name, start, ans)
  <2>1. ASSUME NEW i \in 0 .. n PROVE f[i] = IF i = 0 THEN start ELSE IfVariable(name, f[i - 1], ans[i])
    <3>1. CASE i # 0
      BY <1>4, <3>1, i \in 1 .. n
    <3> QED BY <1>4, <3>1
  <2>2. f = [i \in 0 .. n |-> f[i]]
    BY <1>4
  <2> HIDE DEF Upto
  <2> QED BY <2>1, <2>2, Zenon DEF IfWalkedDef
<1>6. IfWalkedDef(cell, name, start, ans)
  BY <1>5, Zenon
<1>7. IfWalked(name, start, ans) = cell[n]
  BY IfWalkedIs, Zenon
<1> HIDE DEF cell
<1>8. \A i \in 0 .. n : cell[i] = IF i = 0 THEN start ELSE IfVariable(name, cell[i - 1], ans[i])
  BY <1>6 DEF IfWalkedDef
<1>9. cell[0] = start /\ \A i \in 1 .. n : cell[i] = IfVariable(name, cell[i - 1], ans[i])
  <2>1. \A i \in 1 .. n : i \in 0 .. n /\ i # 0
    OBVIOUS
  <2> QED BY <1>8, <2>1, 0 \in 0 .. n
<1> QED BY <1>7, <1>9

\* The loop over the tags.
TaggedDef(f, strs, order) == f = [i \in 0 .. Len(order) |-> IF i = 0 THEN strs ELSE SetTag(f[i - 1], order[i])]

LEMMA TaggedIs == ASSUME NEW strs, NEW order PROVE Tagged(strs, order) = (CHOOSE f : TaggedDef(f, strs, order))[Len(order)]
BY Zenon DEF Tagged, TaggedDef

LEMMA TaggedSteps ==
  ASSUME NEW strs, NEW order, Len(order) \in Nat
  PROVE  \E f : /\ f[0] = strs /\ Tagged(strs, order) = f[Len(order)]
                /\ \A i \in 1 .. Len(order) : f[i] = SetTag(f[i - 1], order[i])
<1> DEFINE n == Len(order)
           Upto(f, m) == f = [i \in 0 .. m |-> f[i]] /\ f[0] = strs /\ \A i \in 1 .. m : f[i] = SetTag(f[i - 1], order[i])
           S == {m \in 0 .. n : \E f : Upto(f, m)}
           cell == CHOOSE f : TaggedDef(f, strs, order)
<1>1. 0 \in S
  <2>1. Upto([i \in 0 .. 0 |-> strs], 0)
    OBVIOUS
  <2> HIDE DEF Upto
  <2> QED BY <2>1
<1>2. ASSUME NEW m \in 0 .. n - 1, m \in S PROVE m + 1 \in S
  <2>1. PICK f : Upto(f, m)
    BY <1>2
  <2> DEFINE g == [j \in 0 .. (m + 1) |-> IF j <= m THEN f[j] ELSE SetTag(f[m], order[m + 1])]
  <2>2. /\ g = [j \in 0 .. (m + 1) |-> g[j]] /\ g[m + 1] = SetTag(f[m], order[m + 1])
        /\ \A j \in 0 .. m : g[j] = f[j]
    BY m \in Nat
  <2> HIDE DEF g
  <2>3. g[0] = strs
    BY <2>1, <2>2
  <2>4. ASSUME NEW j \in 1 .. (m + 1) PROVE g[j] = SetTag(g[j - 1], order[j])
    <3>1. CASE j \in 1 .. m
      <4>1. j \in 0 .. m /\ j - 1 \in 0 .. m
        BY <3>1
      <4>2. f[j] = SetTag(f[j - 1], order[j])
        BY <2>1, <3>1, Zenon
      <4> QED BY <2>2, <4>1, <4>2, Zenon
    <3>2. CASE j = m + 1
      <4>1. j - 1 = m /\ m \in 0 .. m
        BY <3>2
      <4> QED BY <2>2, <3>2, <4>1
    <3> QED BY <3>1, <3>2
  <2>5. Upto(g, m + 1)
    BY <2>2, <2>3, <2>4, Zenon
  <2> HIDE DEF Upto
  <2> QED BY <2>5
<1> HIDE DEF S
<1>3. n \in S
  BY <1>1, <1>2, InductTo, n \in 0 .. n
<1>4. PICK f : Upto(f, n)
  BY <1>3, Zenon DEF S
<1>5. TaggedDef(f, strs, order)
  <2>1. ASSUME NEW i \in 0 .. n PROVE f[i] = IF i = 0 THEN strs ELSE SetTag(f[i - 1], order[i])
    <3>1. CASE i # 0
      BY <1>4, <3>1, i \in 1 .. n
    <3> QED BY <1>4, <3>1
  <2>2. f = [i \in 0 .. n |-> f[i]]
    BY <1>4
  <2> HIDE DEF Upto
  <2> QED BY <2>1, <2>2, Zenon DEF TaggedDef
<1>6. TaggedDef(cell, strs, order)
  BY <1>5, Zenon
<1>7. Tagged(strs, order) = cell[n]
  BY TaggedIs, Zenon
<1> HIDE DEF cell
<1>8. \A i \in 0 .. n : cell[i] = IF i = 0 THEN strs ELSE SetTag(cell[i - 1], order[i])
  BY <1>6 DEF TaggedDef
<1>9. cell[0] = strs /\ \A i \in 1 .. n : cell[i] = SetTag(cell[i - 1], order[i])
  <2>1. \A i \in 1 .. n : i \in 0 .. n /\ i # 0
    OBVIOUS
  <2> QED BY <1>8, <2>1, 0 \in 0 .. n
<1> QED BY <1>7, <1>9

AddKept(rows, w, results) == IF Kept(w, results) THEN AddTo(rows, w) ELSE rows

\* The first loop over the results.
RowsDef(f, results) == f = [i \in 0 .. Len(results) |-> IF i = 0 THEN <<>> ELSE AddKept(f[i - 1], results[i], results)]

LEMMA RowsIs == ASSUME NEW results PROVE RowsOf(results) = (CHOOSE f : RowsDef(f, results))[Len(results)]
BY Zenon DEF RowsOf, RowsDef, AddKept

LEMMA RowsSteps ==
  ASSUME NEW results, Len(results) \in Nat
  PROVE  \E f : /\ f[0] = <<>> /\ RowsOf(results) = f[Len(results)]
                /\ \A i \in 1 .. Len(results) : f[i] = AddKept(f[i - 1], results[i], results)
<1> DEFINE n == Len(results)
           Upto(f, m) == f = [i \in 0 .. m |-> f[i]] /\ f[0] = <<>> /\ \A i \in 1 .. m : f[i] = AddKept(f[i - 1], results[i], results)
           S == {m \in 0 .. n : \E f : Upto(f, m)}
           cell == CHOOSE f : RowsDef(f, results)
<1>1. 0 \in S
  <2>1. Upto([i \in 0 .. 0 |-> <<>>], 0)
    OBVIOUS
  <2> HIDE DEF Upto
  <2> QED BY <2>1
<1>2. ASSUME NEW m \in 0 .. n - 1, m \in S PROVE m + 1 \in S
  <2>1. PICK f : Upto(f, m)
    BY <1>2
  <2> DEFINE g == [j \in 0 .. (m + 1) |-> IF j <= m THEN f[j] ELSE AddKept(f[m], results[m + 1], results)]
  <2>2. /\ g = [j \in 0 .. (m + 1) |-> g[j]] /\ g[m + 1] = AddKept(f[m], results[m + 1], results)
        /\ \A j \in 0 .. m : g[j] = f[j]
    BY m \in Nat
  <2> HIDE DEF g
  <2>3. g[0] = <<>>
    BY <2>1, <2>2
  <2>4. ASSUME NEW j \in 1 .. (m + 1) PROVE g[j] = AddKept(g[j - 1], results[j], results)
    <3>1. CASE j \in 1 .. m
      <4>1. j \in 0 .. m /\ j - 1 \in 0 .. m
        BY <3>1
      <4>2. f[j] = AddKept(f[j - 1], results[j], results)
        BY <2>1, <3>1, Zenon
      <4> QED BY <2>2, <4>1, <4>2, Zenon
    <3>2. CASE j = m + 1
      <4>1. j - 1 = m /\ m \in 0 .. m
        BY <3>2
      <4> QED BY <2>2, <3>2, <4>1
    <3> QED BY <3>1, <3>2
  <2>5. Upto(g, m + 1)
    BY <2>2, <2>3, <2>4, Zenon
  <2> HIDE DEF Upto
  <2> QED BY <2>5
<1> HIDE DEF S
<1>3. n \in S
  BY <1>1, <1>2, InductTo, n \in 0 .. n
<1>4. PICK f : Upto(f, n)
  BY <1>3, Zenon DEF S
<1>5. RowsDef(f, results)
  <2>1. ASSUME NEW i \in 0 .. n PROVE f[i] = IF i = 0 THEN <<>> ELSE AddKept(f[i - 1], results[i], results)
    <3>1. CASE i # 0
      BY <1>4, <3>1, i \in 1 .. n
    <3> QED BY <1>4, <3>1
  <2>2. f = [i \in 0 .. n |-> f[i]]
    BY <1>4
  <2> HIDE DEF Upto
  <2> QED BY <2>1, <2>2, Zenon DEF RowsDef
<1>6. RowsDef(cell, results)
  BY <1>5, Zenon
<1>7. RowsOf(results) = cell[n]
  BY RowsIs, Zenon
<1> HIDE DEF cell
<1>8. \A i \in 0 .. n : cell[i] = IF i = 0 THEN <<>> ELSE AddKept(cell[i - 1], results[i], results)
  BY <1>6 DEF RowsDef
<1>9. cell[0] = <<>> /\ \A i \in 1 .. n : cell[i] = AddKept(cell[i - 1], results[i], results)
  <2>1. \A i \in 1 .. n : i \in 0 .. n /\ i # 0
    OBVIOUS
  <2> QED BY <1>8, <2>1, 0 \in 0 .. n
<1> QED BY <1>7, <1>9

\* The loop over the variables of a device walk.
GottenDef(f, o, results, ans) == f = [i \in 0 .. Len(ans) |-> IF i = 0 THEN results ELSE Asked(o, f[i - 1], ans[i])]

LEMMA GottenIs == ASSUME NEW o, NEW results, NEW ans PROVE Gotten(o, results, ans) = (CHOOSE f : GottenDef(f, o, results, ans))[Len(ans)]
BY Zenon DEF Gotten, GottenDef

LEMMA GottenSteps ==
  ASSUME NEW o, NEW results, NEW ans, Len(ans) \in Nat
  PROVE  \E f : /\ f[0] = results /\ Gotten(o, results, ans) = f[Len(ans)]
                /\ \A i \in 1 .. Len(ans) : f[i] = Asked(o, f[i - 1], ans[i])
<1> DEFINE n == Len(ans)
           Upto(f, m) == f = [i \in 0 .. m |-> f[i]] /\ f[0] = results /\ \A i \in 1 .. m : f[i] = Asked(o, f[i - 1], ans[i])
           S == {m \in 0 .. n : \E f : Upto(f, m)}
           cell == CHOOSE f : GottenDef(f, o, results, ans)
<1>1. 0 \in S
  <2>1. Upto([i \in 0 .. 0 |-> results], 0)
    OBVIOUS
  <2> HIDE DEF Upto
  <2> QED BY <2>1
<1>2. ASSUME NEW m \in 0 .. n - 1, m \in S PROVE m + 1 \in S
  <2>1. PICK f : Upto(f, m)
    BY <1>2
  <2> DEFINE g == [j \in 0 .. (m + 1) |-> IF j <= m THEN f[j] ELSE Asked(o, f[m], ans[m + 1])]
  <2>2. /\ g = [j \in 0 .. (m + 1) |-> g[j]] /\ g[m + 1] = Asked(o, f[m], ans[m + 1])
        /\ \A j \in 0 .. m : g[j] = f[j]
    BY m \in Nat
  <2> HIDE DEF g
  <2>3. g[0] = results
    BY <2>1, <2>2
  <2>4. ASSUME NEW j \in 1 .. (m + 1) PROVE g[j] = Asked(o, g[j - 1], ans[j])
    <3>1. CASE j \in 1 .. m
      <4>1. j \in 0 .. m /\ j - 1 \in 0 .. m
        BY <3>1
      <4>2. f[j] = Asked(o, f[j - 1], ans[j])
        BY <2>1, <3>1, Zenon
      <4> QED BY <2>2, <4>1, <4>2, Zenon
    <3>2. CASE j = m + 1
      <4>1. j - 1 = m /\ m \in 0 .. m
        BY <3>2
      <4> QED BY <2>2, <3>2, <4>1
    <3> QED BY <3>1, <3>2
  <2>5. Upto(g, m + 1)
    BY <2>2, <2>3, <2>4, Zenon
  <2> HIDE DEF Upto
  <2> QED BY <2>5
<1> HIDE DEF S
<1>3. n \in S
  BY <1>1, <1>2, InductTo, n \in 0 .. n
<1>4. PICK f : Upto(f, n)
  BY <1>3, Zenon DEF S
<1>5. GottenDef(f, o, results, ans)
  <2>1. ASSUME NEW i \in 0 .. n PROVE f[i] = IF i = 0 THEN results ELSE Asked(o, f[i - 1], ans[i])
    <3>1. CASE i # 0
      BY <1>4, <3>1, i \in 1 .. n
    <3> QED BY <1>4, <3>1
  <2>2. f = [i \in 0 .. n |-> f[i]]
    BY <1>4
  <2> HIDE DEF Upto
  <2> QED BY <2>1, <2>2, Zenon DEF GottenDef
<1>6. GottenDef(cell, o, results, ans)
  BY <1>5, Zenon
<1>7. Gotten(o, results, ans) = cell[n]
  BY GottenIs, Zenon
<1> HIDE DEF cell
<1>8. \A i \in 0 .. n : cell[i] = IF i = 0 THEN results ELSE Asked(o, cell[i - 1], ans[i])
  BY <1>6 DEF GottenDef
<1>9. cell[0] = results /\ \A i \in 1 .. n : cell[i] = Asked(o, cell[i - 1], ans[i])
  <2>1. \A i \in 1 .. n : i \in 0 .. n /\ i # 0
    OBVIOUS
  <2> QED BY <1>8, <2>1, 0 \in 0 .. n
<1> QED BY <1>7, <1>9

\* The loop over the variables of a counter walk.
MeasuredDef(f, o, ans, start) == f = [i \in 0 .. Len(ans) |-> IF i = 0 THEN start ELSE Measure(o, f[i - 1], ans[i])]

LEMMA MeasuredIs == ASSUME NEW o, NEW ans, NEW start PROVE Measured(o, ans, start) = (CHOOSE f : MeasuredDef(f, o, ans, start))[Len(ans)]
BY Zenon DEF Measured, MeasuredDef

LEMMA MeasuredSteps ==
  ASSUME NEW o, NEW ans, NEW start, Len(ans) \in Nat
  PROVE  \E f : /\ f[0] = start /\ Measured(o, ans, start) = f[Len(ans)]
                /\ \A i \in 1 .. Len(ans) : f[i] = Measure(o, f[i - 1], ans[i])
<1> DEFINE n == Len(ans)
           Upto(f, m) == f = [i \in 0 .. m |-> f[i]] /\ f[0] = start /\ \A i \in 1 .. m : f[i] = Measure(o, f[i - 1], ans[i])
           S == {m \in 0 .. n : \E f : Upto(f, m)}
           cell == CHOOSE f : MeasuredDef(f, o, ans, start)
<1>1. 0 \in S
  <2>1. Upto([i \in 0 .. 0 |-> start], 0)
    OBVIOUS
  <2> HIDE DEF Upto
  <2> QED BY <2>1
<1>2. ASSUME NEW m \in 0 .. n - 1, m \in S PROVE m + 1 \in S
  <2>1. PICK f : Upto(f, m)
    BY <1>2
  <2> DEFINE g == [j \in 0 .. (m + 1) |-> IF j <= m THEN f[j] ELSE Measure(o, f[m], ans[m + 1])]
  <2>2. /\ g = [j \in 0 .. (m + 1) |-> g[j]] /\ g[m + 1] = Measure(o, f[m], ans[m + 1])
        /\ \A j \in 0 .. m : g[j] = f[j]
    BY m \in Nat
  <2> HIDE DEF g
  <2>3. g[0] = start
    BY <2>1, <2>2
  <2>4. ASSUME NEW j \in 1 .. (m + 1) PROVE g[j] = Measure(o, g[j - 1], ans[j])
    <3>1. CASE j \in 1 .. m
      <4>1. j \in 0 .. m /\ j - 1 \in 0 .. m
        BY <3>1
      <4>2. f[j] = Measure(o, f[j - 1], ans[j])
        BY <2>1, <3>1, Zenon
      <4> QED BY <2>2, <4>1, <4>2, Zenon
    <3>2. CASE j = m + 1
      <4>1. j - 1 = m /\ m \in 0 .. m
        BY <3>2
      <4> QED BY <2>2, <3>2, <4>1
    <3> QED BY <3>1, <3>2
  <2>5. Upto(g, m + 1)
    BY <2>2, <2>3, <2>4, Zenon
  <2> HIDE DEF Upto
  <2> QED BY <2>5
<1> HIDE DEF S
<1>3. n \in S
  BY <1>1, <1>2, InductTo, n \in 0 .. n
<1>4. PICK f : Upto(f, n)
  BY <1>3, Zenon DEF S
<1>5. MeasuredDef(f, o, ans, start)
  <2>1. ASSUME NEW i \in 0 .. n PROVE f[i] = IF i = 0 THEN start ELSE Measure(o, f[i - 1], ans[i])
    <3>1. CASE i # 0
      BY <1>4, <3>1, i \in 1 .. n
    <3> QED BY <1>4, <3>1
  <2>2. f = [i \in 0 .. n |-> f[i]]
    BY <1>4
  <2> HIDE DEF Upto
  <2> QED BY <2>1, <2>2, Zenon DEF MeasuredDef
<1>6. MeasuredDef(cell, o, ans, start)
  BY <1>5, Zenon
<1>7. Measured(o, ans, start) = cell[n]
  BY MeasuredIs, Zenon
<1> HIDE DEF cell
<1>8. \A i \in 0 .. n : cell[i] = IF i = 0 THEN start ELSE Measure(o, cell[i - 1], ans[i])
  BY <1>6 DEF MeasuredDef
<1>9. cell[0] = start /\ \A i \in 1 .. n : cell[i] = Measure(o, cell[i - 1], ans[i])
  <2>1. \A i \in 1 .. n : i \in 0 .. n /\ i # 0
    OBVIOUS
  <2> QED BY <1>8, <2>1, 0 \in 0 .. n
<1> QED BY <1>7, <1>9

------------------------------------------------------------------------------
(* The metadata poll: interfaces and their addresses *)

\* What the interface walks may say.
Variables == UNION {UNION {{ans[j] : j \in DOMAIN ans} : ans \in IfMetaAnswers[IfWalks[i]]} : i \in DOMAIN IfWalks}
AddrSet == {v.addr : v \in Variables} \cup {""}
MaskSet == {v.val : v \in Variables} \cup {""}
Alias == [addr : AddrSet, mask : MaskSet]

IsInterface(d) ==
  /\ d = [index |-> d.index, addr |-> d.addr, mask |-> d.mask, alias |-> d.alias, extra |-> d.extra]
  /\ d.addr \in AddrSet /\ d.mask \in MaskSet /\ d.alias \in Seq(Alias)

\* An address has been said of interface i; a mask has been said of an address.
SaidOf(a, i, said) ==
  \E s \in said : \/ s[1] = "ipAdEntIfIndex" /\ s[2].addr = a /\ s[2].val = i
                  \/ s[1] = "ipv6AddrPrefix" /\ s[2].addr = a /\ s[2].idx = i
MaskSaid(a, mask, said) ==
  mask # "" => \E s \in said : s[1] \in {"ipAdEntNetMask", "ipv6AddrPrefix"} /\ s[2].addr = a /\ s[2].val = mask
PairTrue(p, i, said) == p.addr # "" => SaidOf(p.addr, i, said) /\ MaskSaid(p.addr, p.mask, said)

\* An interface with its number, its addresses true; without one it has no mask.
InterfaceTrue(d, i, said) ==
  /\ IsInterface(d) /\ d.index = i
  /\ PairTrue([addr |-> d.addr, mask |-> d.mask], i, said)
  /\ \A k \in DOMAIN d.alias : PairTrue(d.alias[k], i, said)
  /\ d.addr = "" => d.mask = ""

LEMMA AddAddressKeeps ==
  ASSUME NEW d, NEW i, NEW said, InterfaceTrue(d, i, said),
         NEW a \in AddrSet, a # "", NEW mask \in MaskSet, SaidOf(a, i, said), MaskSaid(a, mask, said)
  PROVE  InterfaceTrue(AddAddress(d, a, mask), i, said)
<1> DEFINE e == AddAddress(d, a, mask)
<1>1. CASE d.addr = ""
  <2> DEFINE m == IF mask = "" THEN d.mask ELSE mask
  <2>1. e = [index |-> d.index, addr |-> a, mask |-> m, alias |-> d.alias, extra |-> d.extra]
    BY <1>1 DEF AddAddress, InterfaceTrue, IsInterface
  <2>2. m = mask
    BY <1>1 DEF InterfaceTrue
  <2> HIDE DEF m, e
  <2>3. e.index = i /\ e.addr = a /\ e.mask = mask /\ e.alias = d.alias /\ IsInterface(e)
    BY <2>1, <2>2 DEF InterfaceTrue, IsInterface
  <2> QED BY <2>3 DEF InterfaceTrue, PairTrue, e
<1>2. CASE d.addr # ""
  <2> DEFINE p == [addr |-> a, mask |-> mask]
  <2>1. e = [index |-> d.index, addr |-> d.addr, mask |-> d.mask, alias |-> Append(d.alias, p), extra |-> d.extra]
    BY <1>2 DEF AddAddress, InterfaceTrue, IsInterface
  <2>2. p \in Alias /\ d.alias \in Seq(Alias)
    BY DEF Alias, InterfaceTrue, IsInterface
  <2>3. PairTrue(p, i, said)
    BY DEF PairTrue
  <2> HIDE DEF p, e
  <2>4. Append(d.alias, p) \in Seq(Alias) /\ DOMAIN Append(d.alias, p) = 1 .. (Len(d.alias) + 1)
        /\ Append(d.alias, p)[Len(d.alias) + 1] = p /\ \A k \in 1 .. Len(d.alias) : Append(d.alias, p)[k] = d.alias[k]
    <3> DEFINE q == d.alias
    <3>1. q \in Seq(Alias) /\ p \in Alias
      BY <2>2
    <3> HIDE DEF q
    <3>2. /\ Append(q, p) \in Seq(Alias) /\ DOMAIN Append(q, p) = 1 .. (Len(q) + 1)
          /\ Append(q, p)[Len(q) + 1] = p /\ \A k \in 1 .. Len(q) : Append(q, p)[k] = q[k]
      BY ONLY <3>1, AppendLaw
    <3> QED BY <3>2, Zenon DEF q
  <2>5. \A k \in DOMAIN Append(d.alias, p) : PairTrue(Append(d.alias, p)[k], i, said)
    <3>1. \A k \in 1 .. Len(d.alias) : PairTrue(d.alias[k], i, said)
      BY <2>2, ListLaw, Zenon DEF InterfaceTrue
    <3>2. \A k \in 1 .. (Len(d.alias) + 1) : k \in 1 .. Len(d.alias) \/ k = Len(d.alias) + 1
      <4>1. Len(d.alias) \in Nat
        BY <2>2, ListLaw, Zenon
      <4> QED BY ONLY <4>1
    <3> QED BY <2>3, <2>4, <3>1, <3>2, Zenon
  <2>6. e.index = i /\ e.addr = d.addr /\ e.mask = d.mask /\ e.alias = Append(d.alias, p) /\ IsInterface(e)
    BY <2>1, <2>4 DEF InterfaceTrue, IsInterface
  <2> QED BY <1>2, <2>5, <2>6, Zenon DEF InterfaceTrue, e
<1> QED BY <1>1, <1>2

LEMMA MaskChanged ==
  ASSUME NEW B, NEW M, NEW q \in [addr : B, mask : M], NEW mask \in M
  PROVE  [q EXCEPT !.mask = mask] = [addr |-> q.addr, mask |-> mask]
OBVIOUS

LEMMA SetMaskKeeps ==
  ASSUME NEW d, NEW i, NEW said, InterfaceTrue(d, i, said), NEW a, a # "", NEW mask \in MaskSet, MaskSaid(a, mask, said)
  PROVE  InterfaceTrue(SetMask(d, a, mask), i, said)
<1> DEFINE e == SetMask(d, a, mask)
           at == {j \in DOMAIN d.alias : d.alias[j].addr = a}
<1>1. CASE d.addr = a
  <2>1. e = [index |-> d.index, addr |-> d.addr, mask |-> mask, alias |-> d.alias, extra |-> d.extra]
    BY <1>1 DEF SetMask, InterfaceTrue, IsInterface
  <2> HIDE DEF e
  <2>3. e.index = i /\ e.addr = d.addr /\ e.mask = mask /\ e.alias = d.alias /\ IsInterface(e)
    BY <2>1 DEF InterfaceTrue, IsInterface
  <2> QED BY <1>1, <2>3 DEF InterfaceTrue, PairTrue, e
<1>2. CASE d.addr # a /\ at = {}
  <2>1. e = d
    BY <1>2 DEF SetMask
  <2> QED BY <2>1
<1>3. CASE d.addr # a /\ at # {}
  <2> DEFINE h == CHOOSE j \in at : \A k \in at : j <= k
             p == [addr |-> a, mask |-> mask]
             al == [d.alias EXCEPT ![h] = p]
  <2>0. d.alias \in Seq(Alias)
    BY DEF InterfaceTrue, IsInterface
  <2>1. DOMAIN d.alias = 1 .. Len(d.alias) /\ at \in SUBSET Nat /\ \A k \in 1 .. Len(d.alias) : d.alias[k] \in Alias
    <3>1. DOMAIN d.alias = 1 .. Len(d.alias) /\ \A k \in 1 .. Len(d.alias) : d.alias[k] \in Alias
      BY <2>0, ListLaw, Zenon
    <3>2. \A k \in DOMAIN d.alias : k \in Nat
      <4> DEFINE D == DOMAIN d.alias
                 n == Len(d.alias)
      <4>1. D = 1 .. n
        BY <3>1
      <4> HIDE DEF D, n
      <4>2. \A k \in D : k \in Nat
        BY ONLY <4>1
      <4> QED BY <4>2 DEF D
    <3> QED BY <3>1, <3>2, Zenon
  <2>2. h \in at
    <3>1. \E j \in at : \A k \in at : j <= k
      BY <1>3, <2>1, LeastNat
    <3> HIDE DEF at
    <3> QED BY <3>1
  <2>3. e = [index |-> d.index, addr |-> d.addr, mask |-> d.mask, alias |-> al, extra |-> d.extra]
    <3>1. e = [d EXCEPT !.alias[h].mask = mask]
      BY <1>3, Zenon DEF SetMask
    <3>2. d.alias[h].addr = a /\ d.alias[h] \in Alias
      BY <2>1, <2>2
    <3> HIDE DEF h, e
    <3>3. [d.alias[h] EXCEPT !.mask = mask] = p
      <4> DEFINE q == d.alias[h]
      <4>1. q \in [addr : AddrSet, mask : MaskSet] /\ q.addr = a
        BY <3>2, Zenon DEF Alias
      <4> HIDE DEF q
      <4>2. [q EXCEPT !.mask = mask] = [addr |-> q.addr, mask |-> mask]
        BY ONLY <4>1, mask \in MaskSet
      <4>3. [q EXCEPT !.mask = mask] = [addr |-> a, mask |-> mask]
        BY <4>1, <4>2
      <4> QED BY <4>3 DEF q
    <3>4. e = [d EXCEPT !.alias = [d.alias EXCEPT ![h] = [d.alias[h] EXCEPT !.mask = mask]]]
      BY <3>1
    <3> HIDE DEF p
    <3> QED BY <3>3, <3>4 DEF InterfaceTrue, IsInterface
  <2>4. h \in 1 .. Len(d.alias) /\ d.alias[h].addr = a
    BY <2>1, <2>2
  <2> HIDE DEF h, e
  <2>5. p \in Alias
    <3>1. d.alias[h] \in Alias
      BY <2>1, <2>4
    <3> QED BY <2>4, <3>1 DEF Alias
  <2>6. /\ DOMAIN al = 1 .. Len(d.alias) /\ \A k \in 1 .. Len(d.alias) : k # h => al[k] = d.alias[k]
        /\ al \in Seq(Alias) /\ al[h] = p
    <3> DEFINE q == d.alias
               x == p
    <3>1. q \in Seq(Alias) /\ h \in 1 .. Len(q) /\ x \in Alias
      BY <2>0, <2>4, <2>5
    <3> HIDE DEF q, x
    <3>2. /\ DOMAIN [q EXCEPT ![h] = x] = 1 .. Len(q) /\ \A k \in 1 .. Len(q) : k # h => [q EXCEPT ![h] = x][k] = q[k]
          /\ [q EXCEPT ![h] = x] \in Seq(Alias) /\ [q EXCEPT ![h] = x][h] = x
      BY <3>1, ReplaceLaw
    <3> QED BY <3>2, Zenon DEF q, x
  <2> HIDE DEF al
  <2>7. PairTrue(al[h], i, said)
    <3>1. PairTrue(d.alias[h], i, said)
      BY <2>1, <2>4 DEF InterfaceTrue
    <3>2. SaidOf(a, i, said)
      BY <2>4, <3>1, Zenon DEF PairTrue
    <3>3. al[h].addr = a /\ al[h].mask = mask
      <4> DEFINE x == al[h]
      <4>1. x = [addr |-> a, mask |-> mask]
        BY <2>6 DEF p
      <4> HIDE DEF x
      <4>2. x.addr = a /\ x.mask = mask
        BY ONLY <4>1
      <4> QED BY <4>2 DEF x
    <3> QED BY <3>2, <3>3, Zenon DEF PairTrue
  <2>8. \A k \in DOMAIN al : PairTrue(al[k], i, said)
    BY <2>1, <2>6, <2>7 DEF InterfaceTrue
  <2>9. e.index = i /\ e.addr = d.addr /\ e.mask = d.mask /\ e.alias = al /\ IsInterface(e)
    BY <2>3, <2>6 DEF InterfaceTrue, IsInterface
  <2> QED BY <2>8, <2>9, Zenon DEF InterfaceTrue, e
<1> QED BY <1>1, <1>2, <1>3

\* The interfaces of a poll so far.
AllTrue(ints, said) == /\ ints = [i \in DOMAIN ints |-> ints[i]]
                       /\ \A i \in DOMAIN ints : InterfaceTrue(ints[i], i, said)
Gathered(st, said) == st = [ints |-> st.ints, ifc |-> st.ifc] /\ AllTrue(st.ints, said)

LEMMA GatheredAre == ASSUME NEW x, NEW y, NEW said, AllTrue(x, said) PROVE Gathered([ints |-> x, ifc |-> y], said)
BY DEF Gathered

LEMMA OneChanged ==
  ASSUME NEW ints, NEW said, AllTrue(ints, said), NEW i, NEW d, i \in DOMAIN ints => InterfaceTrue(d, i, said)
  PROVE  AllTrue([ints EXCEPT ![i] = d], said)
BY DEF AllTrue

LEMMA IfVariableKeeps ==
  ASSUME NEW name, NEW st, NEW said, Gathered(st, said), NEW v \in Variables, <<name, v>> \in said,
         name \in AddressWalks => v.addr # ""
  PROVE  Gathered(IfVariable(name, st, v), said)
<1> DEFINE e == IfVariable(name, st, v)
<1>0. /\ AllTrue(st.ints, said) /\ st = [ints |-> st.ints, ifc |-> st.ifc]
      /\ v.addr \in AddrSet /\ v.val \in MaskSet /\ "" \in MaskSet
  BY DEF Gathered, AddrSet, MaskSet
<1>1. CASE name = "ipAdEntIfIndex"
  <2>1. CASE v.type = "int" /\ v.val \in DOMAIN st.ints
    <3>1. e = [ints |-> [st.ints EXCEPT ![v.val] = AddAddress(st.ints[v.val], v.addr, "")], ifc |-> Only(v.addr, v.val) ++ st.ifc]
      BY <1>1, <2>1, Zenon DEF IfVariable
    <3>2. SaidOf(v.addr, v.val, said)
      BY <1>1 DEF SaidOf
    <3>3. InterfaceTrue(AddAddress(st.ints[v.val], v.addr, ""), v.val, said)
      BY <1>0, <1>1, <2>1, <3>2, AddAddressKeeps DEF AllTrue, MaskSaid, AddressWalks
    <3>4. AllTrue([st.ints EXCEPT ![v.val] = AddAddress(st.ints[v.val], v.addr, "")], said)
      BY <1>0, <3>3, OneChanged
    <3> QED BY <3>1, <3>4, GatheredAre
  <2>2. CASE ~(v.type = "int" /\ v.val \in DOMAIN st.ints)
    <3>1. e = st
      BY <1>1, <2>2, Zenon DEF IfVariable
    <3> QED BY <3>1
  <2> QED BY <2>1, <2>2
<1>2. CASE name = "ipAdEntNetMask"
  <2>1. CASE v.type = "ip" /\ v.addr \in DOMAIN st.ifc
    <3> DEFINE i == st.ifc[v.addr]
               d == SetMask(st.ints[i], v.addr, v.val)
    <3>1. e = [st EXCEPT !.ints[i] = d]
      BY <1>2, <2>1, Zenon DEF IfVariable
    <3>2. MaskSaid(v.addr, v.val, said)
      BY <1>2 DEF MaskSaid
    <3>3. i \in DOMAIN st.ints => InterfaceTrue(d, i, said)
      BY <1>0, <1>2, <3>2, SetMaskKeeps DEF AllTrue, AddressWalks
    <3> HIDE DEF d, i, e
    <3>4. AllTrue([st.ints EXCEPT ![i] = d], said)
      BY <1>0, <3>3, OneChanged
    <3>5. e = [ints |-> [st.ints EXCEPT ![i] = d], ifc |-> st.ifc]
      BY <1>0, <3>1
    <3> QED BY <3>4, <3>5, GatheredAre DEF e
  <2>2. CASE ~(v.type = "ip" /\ v.addr \in DOMAIN st.ifc)
    <3>1. e = st
      BY <1>2, <2>2, Zenon DEF IfVariable
    <3> QED BY <3>1
  <2> QED BY <2>1, <2>2
<1>3. CASE name = "ipv6AddrPrefix"
  <2>1. CASE v.type = "int" /\ v.idx \in DOMAIN st.ints
    <3> DEFINE i == v.idx
               d == AddAddress(st.ints[i], v.addr, v.val)
    <3>1. e = [st EXCEPT !.ints[i] = d]
      BY <1>3, <2>1, Zenon DEF IfVariable
    <3>2. SaidOf(v.addr, i, said) /\ MaskSaid(v.addr, v.val, said)
      BY <1>3 DEF SaidOf, MaskSaid
    <3>3. InterfaceTrue(d, i, said)
      BY <1>0, <1>3, <2>1, <3>2, AddAddressKeeps DEF AllTrue, AddressWalks
    <3> HIDE DEF d, i, e
    <3>4. AllTrue([st.ints EXCEPT ![i] = d], said)
      BY <1>0, <3>3, OneChanged
    <3>5. e = [ints |-> [st.ints EXCEPT ![i] = d], ifc |-> st.ifc]
      BY <1>0, <3>1
    <3> QED BY <3>4, <3>5, GatheredAre DEF e
  <2>2. CASE ~(v.type = "int" /\ v.idx \in DOMAIN st.ints)
    <3>1. e = st
      BY <1>3, <2>2, Zenon DEF IfVariable
    <3> QED BY <3>1
  <2> QED BY <2>1, <2>2
<1>4. CASE name \notin AddressWalks
  <2> DEFINE i == v.idx
             d == IF i \in DOMAIN st.ints THEN st.ints[i] ELSE NewInterface(i)
  <2>1. PICK x : e = [st EXCEPT !.ints = Only(i, [d EXCEPT !.extra = x]) ++ @]
    BY <1>4, Zenon DEF IfVariable, AddressWalks
  <2>2. InterfaceTrue(d, i, said)
    <3>1. InterfaceTrue(NewInterface(i), i, said)
      <4> DEFINE new == NewInterface(i)
      <4>1. new = [index |-> i, addr |-> "", mask |-> "", alias |-> <<>>, extra |-> <<>>]
        BY DEF NewInterface
      <4>a. "" \in AddrSet /\ "" \in MaskSet
        BY Zenon DEF AddrSet, MaskSet
      <4>b. <<>> \in Seq(Alias) /\ DOMAIN <<>> = {}
        BY ONLY TRUE
      <4>2. "" \in AddrSet /\ "" \in MaskSet /\ <<>> \in Seq(Alias) /\ DOMAIN <<>> = {}
        BY <4>a, <4>b
      <4> HIDE DEF new
      <4>3. new.index = i /\ new.addr = "" /\ new.mask = "" /\ new.alias = <<>> /\ IsInterface(new)
        BY <4>1, <4>2 DEF IsInterface
      <4> QED BY <4>2, <4>3 DEF InterfaceTrue, PairTrue, new
    <3> QED BY <1>0, <3>1 DEF AllTrue
  <2> HIDE DEF d, i, e
  <2> DEFINE new == [index |-> d.index, addr |-> d.addr, mask |-> d.mask, alias |-> d.alias, extra |-> x]
  <2>3. [d EXCEPT !.extra = x] = new
    <3>1. d = [index |-> d.index, addr |-> d.addr, mask |-> d.mask, alias |-> d.alias, extra |-> d.extra]
      BY <2>2 DEF InterfaceTrue, IsInterface
    <3> QED BY ONLY <3>1
  <2>4. InterfaceTrue(new, i, said)
    <3>1. new.index = d.index /\ new.addr = d.addr /\ new.mask = d.mask /\ new.alias = d.alias /\ new.extra = x
      OBVIOUS
    <3>2. IsInterface(new)
      BY <2>2, <3>1 DEF IsInterface, InterfaceTrue
    <3> HIDE DEF new
    <3> QED BY <2>2, <3>1, <3>2, Zenon DEF InterfaceTrue
  <2> HIDE DEF new
  <2>5. e = [ints |-> Only(i, new) ++ st.ints, ifc |-> st.ifc]
    BY <1>0, <2>1, <2>3
  <2>6. AllTrue(Only(i, new) ++ st.ints, said)
    BY <1>0, <2>4 DEF AllTrue, Only, ++
  <2> QED BY <2>5, <2>6, GatheredAre DEF e
<1> QED BY <1>1, <1>2, <1>3, <1>4 DEF AddressWalks

LEMMA IfWalkedKeeps ==
  ASSUME NEW w \in DOMAIN IfWalks, NEW ans \in IfMetaAnswers[IfWalks[w]], NEW st, NEW said, Gathered(st, said),
         \A j \in DOMAIN ans : <<IfWalks[w], ans[j]>> \in said
  PROVE  Gathered(IfWalked(IfWalks[w], st, ans), said)
<1> DEFINE n == Len(ans)
<1>1. n \in Nat /\ DOMAIN ans = 1 .. n
  BY MetadataAssumption, ListLaw, Zenon
<1>2. PICK f : /\ f[0] = st /\ IfWalked(IfWalks[w], st, ans) = f[n]
               /\ \A i \in 1 .. n : f[i] = IfVariable(IfWalks[w], f[i - 1], ans[i])
  BY <1>1, IfWalkedSteps
<1> DEFINE S == {i \in 0 .. n : Gathered(f[i], said)}
<1>3. 0 \in S
  BY <1>1, <1>2
<1>4. ASSUME NEW i \in 0 .. n - 1, i \in S PROVE i + 1 \in S
  <2>1. i + 1 \in 1 .. n /\ (i + 1) - 1 = i /\ i + 1 \in 0 .. n
    BY <1>1
  <2>2. ans[i + 1] \in Variables
    BY <1>1, <2>1 DEF Variables
  <2>3. IfWalks[w] \in AddressWalks => ans[i + 1].addr # ""
    BY <1>1, <2>1, MetadataAssumption
  <2>4. Gathered(IfVariable(IfWalks[w], f[i], ans[i + 1]), said)
    BY <1>1, <1>4, <2>1, <2>2, <2>3, IfVariableKeeps
  <2> QED BY <1>2, <2>1, <2>4
<1> HIDE DEF S
<1>5. \A i \in 0 .. n : i \in S
  BY <1>1, <1>3, <1>4, InductTo
<1> QED BY <1>1, <1>2, <1>5 DEF S

LEMMA MoreSaid ==
  ASSUME NEW ints, NEW said, NEW more, said \subseteq more, AllTrue(ints, said)
  PROVE  AllTrue(ints, more)
<1>1. ASSUME NEW p, NEW i, PairTrue(p, i, said) PROVE PairTrue(p, i, more)
  <2>1. SaidOf(p.addr, i, said) => SaidOf(p.addr, i, more)
    BY Zenon DEF SaidOf
  <2>2. MaskSaid(p.addr, p.mask, said) => MaskSaid(p.addr, p.mask, more)
    BY Zenon DEF MaskSaid
  <2> QED BY <1>1, <2>1, <2>2, Zenon DEF PairTrue
<1> QED BY <1>1, Zenon DEF AllTrue, InterfaceTrue

------------------------------------------------------------------------------
(* The metadata poll: tags *)

LEMMA AllOrdered ==
  ASSUME NEW order \in SetToSeqs(DOMAIN UserTags)
  PROVE  /\ Len(order) \in Nat /\ \A i \in 1 .. Len(order) : order[i] \in DOMAIN UserTags
         /\ \A k \in DOMAIN UserTags : \E i \in 1 .. Len(order) : order[i] = k
<1> DEFINE T == DOMAIN UserTags
           n == Cardinality(T)
<1>0. IsFiniteSet(T)
  BY MetadataAssumption
<1>1. n \in Nat
  BY <1>0, FS_CardinalityType, Zenon
<1>2. order \in [1 .. n -> T] /\ \A i, j \in 1 .. n : i # j => order[i] # order[j]
  BY Zenon DEF SetToSeqs
<1> HIDE DEF n, T
<1>3. order \in Seq(T) /\ Len(order) = n
  BY <1>1, <1>2
<1>4. order \in Injection(1 .. n, T)
  BY <1>2, Zenon DEF Injection, IsInjective
<1>5. Cardinality(1 .. n) = n
  BY <1>1, FS_Interval
<1>6. order \in Surjection(1 .. n, T)
  BY <1>0, <1>4, <1>5, FS_Injection DEF n
<1>7. \A k \in T : \E i \in 1 .. n : order[i] = k
  BY <1>6, Zenon DEF Surjection
<1> QED BY <1>1, <1>2, <1>3, <1>7 DEF T

Has(m, k, x) == k \in DOMAIN m /\ m[k] = x

LEMMA TagStep ==
  ASSUME NEW m, NEW t, t \in DOMAIN UserTags, NEW k, NEW x, UserTags[k].ref # "",
         UserTags[k].ref \notin DOMAIN UserTags, Has(m, UserTags[k].ref, x)
  PROVE  Has(SetTag(m, t), UserTags[k].ref, x) /\ (t = k \/ Has(m, k, x) => Has(SetTag(m, t), k, x))
<1> DEFINE y == IF UserTags[t].ref # "" /\ UserTags[t].ref \in DOMAIN m THEN m[UserTags[t].ref] ELSE UserTags[t].text
           r == UserTags[k].ref
<1>1. SetTag(m, t) = Only(t, y) ++ m
  BY Zenon DEF SetTag
<1>2. t # r
  OBVIOUS
<1>3. t = k => y = x
  BY DEF Has
<1> HIDE DEF y, r
<1> DEFINE g == SetTag(m, t)
<1> HIDE DEF g
<1>4. Has(g, t, y) /\ \A j : j # t /\ Has(m, j, x) => Has(g, j, x)
  BY <1>1 DEF Only, ++, Has, g
<1>5. Has(m, r, x)
  BY DEF r
<1>6. Has(g, r, x)
  BY <1>2, <1>4, <1>5
<1>7. t = k \/ Has(m, k, x) => Has(g, k, x)
  BY <1>3, <1>4
<1> QED BY <1>6, <1>7, Zenon DEF r, g

\* A tag that refers to what is not a tag has its value, in whatever order the
\* tags are set.
LEMMA TagsSet ==
  ASSUME NEW strs, NEW order \in SetToSeqs(DOMAIN UserTags), NEW k \in DOMAIN UserTags, UserTags[k].ref # "",
         NEW x, Has(strs, UserTags[k].ref, x), UserTags[k].ref \notin DOMAIN UserTags
  PROVE  Has(Tagged(strs, order), k, x)
<1> DEFINE n == Len(order)
<1>1. n \in Nat /\ \A i \in 1 .. n : order[i] \in DOMAIN UserTags
  BY AllOrdered, Zenon
<1>2. PICK h \in 1 .. n : order[h] = k
  BY AllOrdered, Zenon
<1>3. PICK f : f[0] = strs /\ Tagged(strs, order) = f[n] /\ \A i \in 1 .. n : f[i] = SetTag(f[i - 1], order[i])
  <2>1. Len(order) \in Nat
    BY AllOrdered, Zenon
  <2>2. \E f : /\ f[0] = strs /\ Tagged(strs, order) = f[Len(order)]
               /\ \A i \in 1 .. Len(order) : f[i] = SetTag(f[i - 1], order[i])
    BY ONLY <2>1, TaggedSteps
  <2> QED BY <2>2, Zenon
<1> HIDE DEF n
<1> DEFINE S == {i \in 0 .. n : Has(f[i], UserTags[k].ref, x) /\ (h <= i => Has(f[i], k, x))}
<1>4. 0 \in S
  <2>1. 0 \in 0 .. n /\ ~(h <= 0)
    BY ONLY <1>1, h \in 1 .. n
  <2> QED BY <1>3, <2>1, Zenon
<1>5. ASSUME NEW i \in 0 .. n - 1, i \in S PROVE i + 1 \in S
  <2>1. i + 1 \in 1 .. n /\ (i + 1) - 1 = i /\ i + 1 \in 0 .. n /\ (h <= i + 1 => h <= i \/ h = i + 1)
    BY ONLY <1>1, h \in 1 .. n, i \in 0 .. n - 1
  <2>2. f[i + 1] = SetTag(f[i], order[i + 1]) /\ order[i + 1] \in DOMAIN UserTags
    BY <1>1, <1>3, <2>1, Zenon
  <2>3. Has(f[i], UserTags[k].ref, x) /\ (h <= i => Has(f[i], k, x))
    BY <1>5, Zenon
  <2>4. h <= i + 1 => h <= i \/ order[i + 1] = k
    BY <1>2, <2>1, Zenon
  <2>5. Has(f[i + 1], UserTags[k].ref, x) /\ (order[i + 1] = k \/ Has(f[i], k, x) => Has(f[i + 1], k, x))
    BY <2>2, <2>3, TagStep, Zenon
  <2> QED BY <2>1, <2>3, <2>4, <2>5, Zenon
<1> HIDE DEF S
<1>6. \A i \in 0 .. n : i \in S
  BY <1>1, <1>4, <1>5, InductTo
<1>7. n \in 0 .. n /\ h <= n
  BY ONLY <1>1, h \in 1 .. n
<1>8. n \in S
  BY <1>6, <1>7, Zenon
<1> QED BY <1>3, <1>7, <1>8, Zenon DEF S

------------------------------------------------------------------------------
(* The metadata poll: the invariant *)

Shaped == /\ dInt = [i \in DOMAIN dInt |-> dInt[i]]
          /\ \A i \in DOMAIN dInt : IsInterface(dInt[i]) /\ dInt[i].index = i

\* While the walks go on all that was gathered is true, and with save_cache all
\* that a record has had is in the cache.
Walking == /\ dAt \in 0 .. Len(IfWalks) /\ (dPhase \in {"interfaces", "huawei"} => AllTrue(dInt, dSaid))
           /\ dPhase = "device" => DOMAIN dInt = dBefore
Cached == dSave => dEver.strs \subseteq DOMAIN scache /\ dEver.rows \subseteq DOMAIN tcache
MetaIInv == Shaped /\ Walking /\ Cached /\ CacheKeeps /\ TagsAndTables

LEMMA NothingShaped == ASSUME NEW said PROVE AllTrue(<<>>, said)
<1>1. DOMAIN <<>> = {} /\ <<>> = [i \in DOMAIN <<>> |-> <<>>[i]]
  BY ONLY TRUE
<1> QED BY <1>1, Zenon DEF AllTrue

LEMMA TrueShaped == ASSUME NEW said, AllTrue(dInt, said) PROVE Shaped
BY Zenon DEF AllTrue, InterfaceTrue, Shaped

LEMMA MetaSafe == MetaIInv => MetadataInv
<1> SUFFICES ASSUME MetaIInv PROVE MetadataInv
  OBVIOUS
<1>1. Numbered
  BY Zenon DEF MetaIInv, Shaped, Walking, Numbered
<1>2. ASSUME dPhase \in {"huawei", "interfaces"}, NEW i \in DOMAIN dInt, NEW p \in Addresses(dInt[i]), p.addr # ""
      PROVE  SaidOf(p.addr, i, dSaid) /\ MaskSaid(p.addr, p.mask, dSaid)
  <2>1. InterfaceTrue(dInt[i], i, dSaid)
    BY <1>2, Zenon DEF MetaIInv, Walking, AllTrue
  <2>2. PairTrue(p, i, dSaid)
    BY <2>1, Zenon DEF InterfaceTrue, Addresses
  <2> QED BY <1>2, <2>2, Zenon DEF PairTrue
<1>3. AddressesTrue
  BY <1>2, Zenon DEF AddressesTrue, SaidOf, MaskSaid
<1> QED BY <1>1, <1>3, Zenon DEF MetaIInv, MetadataInv

LEMMA MetaStart == MetaInit => MetaIInv
<1> SUFFICES ASSUME MetaInit PROVE MetaIInv
  OBVIOUS
<1>1. AllTrue(dInt, dSaid)
  BY NothingShaped, Zenon DEF MetaInit
<1>2. Len(IfWalks) \in Nat
  BY MetadataAssumption, ListLaw, Zenon
<1>3. Walking
  BY <1>1, <1>2 DEF MetaInit, Walking
<1>4. Cached /\ CacheKeeps /\ TagsAndTables
  BY DEF MetaInit, Cached, CacheKeeps, TagsAndTables
<1> QED BY <1>1, <1>3, <1>4, TrueShaped, Zenon DEF MetaIInv

\* Outside toFlows no record is made and the caches stay.
LEMMA NoRecord ==
  ASSUME Cached, UNCHANGED <<dSave, scache, tcache, dEver>>, dPhase' # "send" PROVE (Cached /\ CacheKeeps /\ TagsAndTables)'
BY DEF Cached, CacheKeeps, TagsAndTables

LEMMA RenumberedAre ==
  ASSUME Shaped, NEW map
  PROVE  /\ DOMAIN Renumbered(map) = {IF i \in DOMAIN map THEN map[i] ELSE i : i \in DOMAIN dInt}
         /\ Renumbered(map) = [n \in DOMAIN Renumbered(map) |-> Renumbered(map)[n]]
         /\ \A n \in DOMAIN Renumbered(map) : IsInterface(Renumbered(map)[n]) /\ Renumbered(map)[n].index = n
<1> DEFINE D == DOMAIN dInt \cap DOMAIN map
           of(n) == CHOOSE i \in D : map[i] = n
           to == {map[i] : i \in D}
<1>1. /\ Moved(map) = [n \in to |-> [dInt[of(n)] EXCEPT !.index = n]]
      /\ NotFound(map) = [n \in DOMAIN dInt \ DOMAIN map |-> dInt[n]]
  BY Zenon DEF Moved, NotFound
<1>2. ASSUME NEW n \in to PROVE of(n) \in D
  BY <1>2, Zenon
<1>3. ASSUME NEW n \in to
      PROVE  Moved(map)[n] = [dInt[of(n)] EXCEPT !.index = n] /\ IsInterface(Moved(map)[n]) /\ Moved(map)[n].index = n
  <2> DEFINE d == dInt[of(n)]
             e == Moved(map)[n]
  <2>1. e = [d EXCEPT !.index = n]
    BY <1>1, <1>3, Zenon
  <2>2. IsInterface(d)
    BY <1>2, <1>3, Zenon DEF Shaped
  <2> HIDE DEF d, e
  <2>3. e = [index |-> n, addr |-> d.addr, mask |-> d.mask, alias |-> d.alias, extra |-> d.extra]
    BY <2>1, <2>2 DEF IsInterface
  <2>4. e.index = n /\ e.addr = d.addr /\ e.mask = d.mask /\ e.alias = d.alias /\ e.extra = d.extra
    BY ONLY <2>3
  <2>5. IsInterface(e)
    BY <2>2, <2>3, <2>4, Zenon DEF IsInterface
  <2> QED BY <2>1, <2>4, <2>5 DEF d, e
<1> DEFINE M == Moved(map)
           N == NotFound(map)
<1>4. DOMAIN M = to /\ DOMAIN N = DOMAIN dInt \ DOMAIN map
  BY <1>1, Zenon
<1>5. \A n \in DOMAIN N : N[n] = dInt[n] /\ IsInterface(N[n]) /\ N[n].index = n
  BY <1>1, Zenon DEF Shaped
<1>6. \A n \in DOMAIN M : IsInterface(M[n]) /\ M[n].index = n
  BY <1>3, <1>4
<1> HIDE DEF M, N
<1>7. Renumbered(map) = M ++ N
  BY DEF Renumbered, M, N
<1>8. /\ DOMAIN (M ++ N) = DOMAIN M \cup DOMAIN N
      /\ M ++ N = [n \in DOMAIN (M ++ N) |-> (M ++ N)[n]]
      /\ \A n \in DOMAIN M \cup DOMAIN N : (M ++ N)[n] = IF n \in DOMAIN M THEN M[n] ELSE N[n]
  BY DEF ++
<1>9. to \cup (DOMAIN dInt \ DOMAIN map) = {IF i \in DOMAIN map THEN map[i] ELSE i : i \in DOMAIN dInt}
  OBVIOUS
<1>10. ASSUME NEW n \in DOMAIN (M ++ N) PROVE IsInterface((M ++ N)[n]) /\ (M ++ N)[n].index = n
  <2>1. CASE n \in DOMAIN M
    <3>1. (M ++ N)[n] = M[n]
      BY <1>8, <2>1
    <3> QED BY <1>6, <2>1, <3>1
  <2>2. CASE n \notin DOMAIN M
    <3>1. (M ++ N)[n] = N[n] /\ n \in DOMAIN N
      BY <1>8, <2>2
    <3> QED BY <1>5, <3>1
  <2> QED BY <2>1, <2>2
<1> QED BY <1>4, <1>7, <1>8, <1>9, <1>10

------------------------------------------------------------------------------
(* The metadata poll: its steps *)

\* What the steps outside toFlows have to show.
LEMMA MetaRest ==
  ASSUME MetaIInv, UNCHANGED <<dSave, scache, tcache, dEver>>, dPhase' # "send", Shaped', Walking'
  PROVE  MetaIInv'
BY NoRecord, Zenon DEF MetaIInv

LEMMA NothingGathered == ASSUME dInt' = <<>> PROVE Shaped' /\ AllTrue(dInt', dSaid') /\ DOMAIN dInt' = {}
<1>1. AllTrue(dInt', dSaid')
  BY NothingShaped, Zenon
<1>2. DOMAIN <<>> = {}
  BY ONLY TRUE
<1> QED BY <1>1, <1>2, Zenon DEF AllTrue, InterfaceTrue, Shaped

LEMMA WalksLen == Len(IfWalks) \in Nat /\ DOMAIN IfWalks = 1 .. Len(IfWalks)
BY MetadataAssumption, ListLaw, Zenon

LEMMA PollKeeps == ASSUME MetaIInv, MetaPoll PROVE MetaIInv'
<1>1. Shaped' /\ AllTrue(dInt', dSaid')
  BY NothingGathered, Zenon DEF MetaPoll
<1>2. Walking'
  BY <1>1, WalksLen DEF MetaPoll, Walking
<1> QED BY <1>1, <1>2, MetaRest DEF MetaPoll

LEMMA AnswerKeeps == ASSUME MetaIInv, IfWalkAnswers PROVE MetaIInv'
<1> DEFINE w == dAt + 1
<1>1. w \in DOMAIN IfWalks /\ dAt' = w /\ w \in 0 .. Len(IfWalks)
  BY WalksLen DEF MetaIInv, Walking, IfWalkAnswers
<1>2. PICK ans \in IfMetaAnswers[IfWalks[w]] :
        \E st \in {IfWalked(IfWalks[w], [ints |-> dInt, ifc |-> dIfc], ans)} :
          /\ dInt' = st.ints /\ dIfc' = st.ifc
          /\ dSaid' = dSaid \cup {<<IfWalks[w], ans[i]>> : i \in DOMAIN ans}
  BY Zenon DEF IfWalkAnswers
<1> DEFINE st == IfWalked(IfWalks[w], [ints |-> dInt, ifc |-> dIfc], ans)
<1>3. dInt' = st.ints /\ dSaid' = dSaid \cup {<<IfWalks[w], ans[i]>> : i \in DOMAIN ans}
  BY <1>2, Zenon
<1> HIDE DEF w
<1>4. AllTrue(dInt, dSaid)
  BY Zenon DEF MetaIInv, Walking, IfWalkAnswers
<1>5. AllTrue(dInt, dSaid')
  BY <1>3, <1>4, MoreSaid
<1>6. Gathered([ints |-> dInt, ifc |-> dIfc], dSaid')
  BY <1>5, GatheredAre
<1>7. \A j \in DOMAIN ans : <<IfWalks[w], ans[j]>> \in dSaid'
  BY <1>3
<1>8. Gathered(st, dSaid')
  BY <1>1, <1>6, <1>7, IfWalkedKeeps
<1>9. AllTrue(dInt', dSaid')
  BY <1>3, <1>8, Zenon DEF Gathered
<1>10. Shaped'
  BY <1>9, Zenon DEF AllTrue, InterfaceTrue, Shaped
<1>11. Walking'
  BY <1>1, <1>9 DEF IfWalkAnswers, Walking
<1> QED BY <1>10, <1>11, MetaRest DEF IfWalkAnswers

LEMMA FailKeeps == ASSUME MetaIInv, IfWalkFails PROVE MetaIInv'
<1>1. Shaped'
  BY NothingGathered, Zenon DEF IfWalkFails
<1>2. Walking'
  BY WalksLen DEF IfWalkFails, Walking
<1> QED BY <1>1, <1>2, MetaRest DEF IfWalkFails

LEMMA ManufacturerKeeps == ASSUME MetaIInv, Manufacturer PROVE MetaIInv'
<1>0. UNCHANGED <<dInt, dSaid, dAt>> /\ dPhase = "interfaces" /\ dBefore' = DOMAIN dInt /\ dPhase' \in {"huawei", "device"}
  BY DEF Manufacturer
<1>1. Shaped'
  BY <1>0, Zenon DEF MetaIInv, Shaped
<1>2. AllTrue(dInt, dSaid) /\ dAt \in 0 .. Len(IfWalks)
  BY <1>0, Zenon DEF MetaIInv, Walking
<1>3. Walking'
  BY <1>0, <1>2 DEF Walking
<1> QED BY <1>1, <1>3, MetaRest DEF Manufacturer

LEMMA HuaweiKeeps == ASSUME MetaIInv, UpdateForHuawei PROVE MetaIInv'
<1>0. UNCHANGED dAt /\ dAt \in 0 .. Len(IfWalks) /\ Shaped
  BY Zenon DEF UpdateForHuawei, MetaIInv, Walking
<1>1. CASE \E map \in Huawei : dInt' = Renumbered(map) /\ dPhase' = "device" /\ dTodo' = DOMAIN MetaMibs
             /\ dBefore' = {IF i \in DOMAIN map THEN map[i] ELSE i : i \in DOMAIN dInt}
  <2>1. PICK map \in Huawei : /\ dInt' = Renumbered(map) /\ dPhase' = "device"
                              /\ dBefore' = {IF i \in DOMAIN map THEN map[i] ELSE i : i \in DOMAIN dInt}
    BY <1>1, Zenon
  <2>2. Shaped' /\ DOMAIN dInt' = dBefore'
    BY <1>0, <2>1, RenumberedAre, Zenon DEF Shaped
  <2>3. Walking'
    BY <1>0, <2>1, <2>2 DEF Walking
  <2> QED BY <2>1, <2>2, <2>3, MetaRest DEF UpdateForHuawei
<1>2. CASE dPhase' = "idle" /\ dBefore' = {} /\ UNCHANGED <<dInt, dTodo>>
  <2>1. Shaped'
    BY <1>0, <1>2, Zenon DEF Shaped
  <2>2. Walking'
    BY <1>0, <1>2 DEF Walking
  <2> QED BY <1>2, <2>1, <2>2, MetaRest DEF UpdateForHuawei
<1> QED BY <1>1, <1>2, Zenon DEF UpdateForHuawei

LEMMA WalkedKeeps == ASSUME MetaIInv, NEW o, MetaWalked(o) PROVE MetaIInv'
<1>1. UNCHANGED <<dInt, dAt, dBefore, dSave, scache, tcache, dEver>> /\ dPhase' \in {"device", "convert"} /\ dPhase = "device"
  BY DEF MetaWalked
<1>2. Shaped'
  BY <1>1, Zenon DEF MetaIInv, Shaped
<1>3. Walking'
  BY <1>1 DEF MetaIInv, Walking
<1> QED BY <1>1, <1>2, <1>3, MetaRest

LEMMA PanicKeeps == ASSUME MetaIInv, ToFlowsPanics PROVE MetaIInv'
<1>1. UNCHANGED <<dInt, dAt, dBefore, dSave, scache, tcache, dEver>> /\ dPhase' = "panicked"
  BY DEF ToFlowsPanics
<1>2. Shaped'
  BY <1>1, Zenon DEF MetaIInv, Shaped
<1>3. Walking'
  BY <1>1 DEF MetaIInv, Walking
<1> QED BY <1>1, <1>2, <1>3, MetaRest

LEMMA SentKeeps == ASSUME MetaIInv, MetaSent PROVE MetaIInv'
<1>1. Shaped'
  BY NothingGathered, Zenon DEF MetaSent
<1>2. Walking'
  BY WalksLen DEF MetaSent, Walking
<1> QED BY <1>1, <1>2, MetaRest DEF MetaSent

LEMMA MergeLaw ==
  ASSUME NEW f, NEW g
  PROVE  /\ DOMAIN (f ++ g) = DOMAIN f \cup DOMAIN g
         /\ \A k, x : Has(f, k, x) => Has(f ++ g, k, x)
         /\ \A k, x : k \notin DOMAIN f /\ Has(g, k, x) => Has(f ++ g, k, x)
BY DEF ++, Has

LEMMA TablesLaw ==
  ASSUME NEW tables, NEW i \in DOMAIN tables, NEW k \in DOMAIN tables[i]
  PROVE  tables[i][k].tables \subseteq TablesOf(tables)[k]
<1>1. k \in UNION {DOMAIN tables[j] : j \in DOMAIN tables}
  BY Zenon
<1>2. TablesOf(tables)[k] = UNION {tables[n][k].tables : n \in {j \in DOMAIN tables : k \in DOMAIN tables[j]}}
  BY <1>1, Zenon DEF TablesOf
<1> QED BY <1>2, Zenon

\* The record has all that there is now and, with save_cache, all that there was.
LEMMA FlowKeeps == ASSUME MetaIInv, NEW order \in SetToSeqs(DOMAIN UserTags), ToFlows(order) PROVE MetaIInv'
<1> DEFINE known == dMeta.strs ++ SysFields
           tags == Tagged(dMeta.strs ++ SysFields, order)
           mine == IfAttributes ++ Tagged(dMeta.strs ++ SysFields, order)
           tabs == dMeta.tables
           fstrs == IF dSave THEN Filled(mine, scache) ELSE mine
           ftabs == IF dSave THEN Filled(tabs, tcache) ELSE tabs
<1>1. UNCHANGED <<dSave, dAt, dInt, dMeta>> /\ dPhase' = "send"
  BY DEF ToFlows
<1>2. /\ dFlow' = [strs |-> fstrs, tables |-> ftabs, metrics |-> TablesOf(tabs)]
      /\ scache' = (IF dSave THEN dFlow'.strs ELSE scache) /\ tcache' = (IF dSave THEN dFlow'.tables ELSE tcache)
      /\ dEver' = [strs |-> dEver.strs \cup DOMAIN mine, rows |-> dEver.rows \cup DOMAIN tabs]
  BY Zenon DEF ToFlows
<1> HIDE DEF fstrs, ftabs, tabs, mine
<1>3. dFlow'.strs = fstrs /\ dFlow'.tables = ftabs /\ dFlow'.metrics = TablesOf(tabs)
  BY <1>2
<1>4. dEver'.strs = dEver.strs \cup DOMAIN mine /\ dEver'.rows = dEver.rows \cup DOMAIN tabs
  BY <1>2
<1>5. Shaped'
  BY <1>1, Zenon DEF MetaIInv, Shaped
<1>6. Walking'
  BY <1>1 DEF MetaIInv, Walking
<1>7. dSave => dEver'.strs \subseteq DOMAIN fstrs /\ dEver'.rows \subseteq DOMAIN ftabs
  <2>1. dSave => fstrs = mine ++ scache /\ ftabs = tabs ++ tcache
    BY Zenon DEF fstrs, ftabs, Filled
  <2>2. dSave => DOMAIN fstrs = DOMAIN mine \cup DOMAIN scache /\ DOMAIN ftabs = DOMAIN tabs \cup DOMAIN tcache
    BY <2>1, MergeLaw
  <2>3. dSave => dEver.strs \subseteq DOMAIN scache /\ dEver.rows \subseteq DOMAIN tcache
    BY Zenon DEF MetaIInv, Cached
  <2> QED BY <1>4, <2>2, <2>3
<1>8. Cached' /\ CacheKeeps'
  <2>1. dSave => scache' = fstrs /\ tcache' = ftabs
    BY <1>2, <1>3
  <2> QED BY <1>1, <1>3, <1>7, <2>1, Zenon DEF Cached, CacheKeeps
<1>9. ASSUME NEW k \in DOMAIN UserTags \ DOMAIN IfAttributes, UserTags[k].ref # "",
             UserTags[k].ref \in DOMAIN dMeta.strs \ DOMAIN UserTags
      PROVE  k \in DOMAIN fstrs /\ fstrs[k] = dMeta.strs[UserTags[k].ref]
  <2> DEFINE x == dMeta.strs[UserTags[k].ref]
  <2>1. Has(dMeta.strs, UserTags[k].ref, x)
    BY <1>9, Zenon DEF Has
  <2>2. Has(known, UserTags[k].ref, x)
    BY <2>1, MergeLaw
  <2>3. Has(tags, k, x)
    BY <1>9, <2>2, TagsSet
  <2> HIDE DEF x, tags
  <2>4. Has(mine, k, x)
    BY <1>9, <2>3, MergeLaw DEF mine, tags
  <2>5. Has(mine ++ scache, k, x)
    BY <2>4, MergeLaw
  <2>6. Has(fstrs, k, x)
    BY <2>4, <2>5, Zenon DEF fstrs, Filled
  <2> QED BY <2>6, Zenon DEF Has, x
<1>10. IfAttributes' = IfAttributes
  BY <1>1 DEF IfAttributes
<1>11. ASSUME NEW i \in DOMAIN dMeta.tables, NEW k \in DOMAIN dMeta.tables[i]
       PROVE  dMeta.tables[i][k].tables \subseteq dFlow'.metrics[k]
  BY <1>3, TablesLaw, Zenon DEF tabs
<1>12. TagsAndTables'
  BY <1>1, <1>3, <1>9, <1>10, <1>11, Zenon DEF TagsAndTables
<1> QED BY <1>5, <1>6, <1>8, <1>12, Zenon DEF MetaIInv

LEMMA MetaKept == MetaIInv /\ [MetaNext]_metaVars => MetaIInv'
<1> SUFFICES ASSUME MetaIInv, [MetaNext]_metaVars PROVE MetaIInv'
  OBVIOUS
<1>1. CASE UNCHANGED metaVars
  BY <1>1 DEF metaVars, MetaIInv, Shaped, Walking, Cached, CacheKeeps, TagsAndTables, IfAttributes
<1>2. CASE MetaNext
  BY <1>2, PollKeeps, AnswerKeeps, FailKeeps, ManufacturerKeeps, HuaweiKeeps, WalkedKeeps, PanicKeeps, SentKeeps, FlowKeeps, Zenon
  DEF MetaNext, MetaStep
<1> QED BY <1>1, <1>2

LEMMA MetaFrame == [Next]_vars => [MetaNext]_metaVars
BY Zenon DEF vars, Next, OfPoll, OfPing, OfMetrics, OfMetadata

\* Whatever the walks answer and whichever fail: interfaces have the addresses and
\* masks said of them, renumbering loses none, the cache keeps what a record had,
\* and tags that refer to attributes have their values.
THEOREM MetadataIsTrue == Spec => []MetadataInv
<1>1. Init => MetaIInv
  BY MetaStart DEF Init
<1>2. MetaIInv /\ [Next]_vars => MetaIInv'
  BY MetaKept, MetaFrame
<1> QED BY <1>1, <1>2, MetaSafe, PTL DEF Spec

------------------------------------------------------------------------------
(* The metrics of a poll: which walks there are *)

\* What a walk of the device's metrics may put into the results.
WrappedOf(o, ans) == {[ans[i] EXCEPT !.oid = o] : i \in DOMAIN ans}
Wrapped == UNION {UNION {WrappedOf(o, ans) : ans \in DevAnswers[o]} : o \in DOMAIN DevMibs}

\* Walks are of what is left to walk, and nothing is walked between the phases.
Control ==
  /\ mPhase \in {"idle", "device", "uptime", "ready", "interfaces"}
  /\ mWalk = [oid |-> mWalk.oid, left |-> mWalk.left]
  /\ mWalk # NoWalk => mWalk.oid \in mTodo
  /\ mPhase = "device" => mTodo \subseteq DOMAIN DevMibs
  /\ mPhase = "uptime" => mTodo \subseteq {UptimeOid}
  /\ mPhase = "interfaces" => mTodo \subseteq DOMAIN IfMibs
  /\ mPhase = "ready" => mTodo = {}
  /\ mPhase = "idle" => mWalk = NoWalk
  /\ mPhase # "interfaces" => mDeltas = <<>>
  /\ mResults \in Seq(Wrapped) /\ mUptime \in Nat \cup {UptimeError}

LEMMA GottenAre ==
  ASSUME NEW o \in DOMAIN DevMibs, NEW ans \in DevAnswers[o], NEW results \in Seq(Wrapped)
  PROVE  Gotten(o, results, ans) \in Seq(Wrapped)
<1> DEFINE n == Len(ans)
<1>1. n \in Nat /\ DOMAIN ans = 1 .. n
  <2>1. ans \in Seq({ans[i] : i \in DOMAIN ans})
    BY MetricsAssumption
  <2> QED BY <2>1, ListLaw, Zenon
<1>2. PICK f : /\ f[0] = results /\ Gotten(o, results, ans) = f[n]
               /\ \A i \in 1 .. n : f[i] = Asked(o, f[i - 1], ans[i])
  BY <1>1, GottenSteps
<1> DEFINE S == {i \in 0 .. n : f[i] \in Seq(Wrapped)}
<1> HIDE DEF n
<1>3. 0 \in S
  BY <1>1, <1>2
<1>4. ASSUME NEW i \in 0 .. n - 1, i \in S PROVE i + 1 \in S
  <2>1. i + 1 \in 1 .. n /\ (i + 1) - 1 = i /\ i + 1 \in 0 .. n
    BY ONLY <1>1, i \in 0 .. n - 1
  <2> DEFINE x == [ans[i + 1] EXCEPT !.oid = o]
             s == f[i]
  <2>2. x \in Wrapped
    <3>1. i + 1 \in DOMAIN ans
      BY <1>1, <2>1
    <3>2. x \in WrappedOf(o, ans)
      BY <3>1 DEF WrappedOf
    <3> HIDE DEF x
    <3>3. x \in UNION {WrappedOf(o, a) : a \in DevAnswers[o]}
      BY <3>2
    <3> QED BY <3>3 DEF Wrapped
  <2>3. f[i + 1] = IF DevMibs[o].table /\ ans[i + 1].oid # o THEN s ELSE Append(s, x)
    BY <1>2, <2>1, Zenon DEF Asked
  <2>4. s \in Seq(Wrapped)
    BY <1>4, Zenon
  <2> HIDE DEF x, s
  <2>5. Append(s, x) \in Seq(Wrapped)
    BY ONLY <2>2, <2>4, AppendLaw
  <2>6. f[i + 1] \in Seq(Wrapped)
    BY <2>3, <2>4, <2>5, Zenon
  <2> QED BY <2>1, <2>6, Zenon
<1> HIDE DEF S
<1>5. \A i \in 0 .. n : i \in S
  BY <1>1, <1>3, <1>4, InductTo
<1>6. n \in 0 .. n
  BY ONLY <1>1
<1>7. n \in S
  BY <1>5, <1>6, Zenon
<1> QED BY <1>2, <1>7, Zenon DEF S

LEMMA NoWalkIs == NoWalk = [oid |-> NoWalk.oid, left |-> NoWalk.left] /\ NoWalk.left = 0 /\ NoWalk.oid = ""
BY DEF NoWalk

LEMMA UptimeRead == ASSUME NEW ans \in UptimeAnswers PROVE UptimeOf(ans) \in Nat
<1>1. CASE ans = <<>>
  BY <1>1 DEF UptimeOf
<1>2. CASE ans # <<>> /\ ans[1].type \in {"int", "counter"}
  <2>1. UptimeOf(ans) = ans[1].val
    BY <1>2, Zenon DEF UptimeOf, ToInt64
  <2> DEFINE T == {ans[i] : i \in DOMAIN ans}
  <2>a. ans \in Seq(T)
    BY MetricsAssumption
  <2> HIDE DEF T
  <2>b. 1 \in DOMAIN ans
    BY ONLY <1>2, <2>a
  <2>2. ans[1].val \in Nat
    BY <1>2, <2>b, MetricsAssumption
  <2> QED BY <2>1, <2>2
<1>3. CASE ans # <<>> /\ ~(ans[1].type \in {"int", "counter"})
  BY <1>3 DEF UptimeOf, ToInt64
<1> QED BY <1>1, <1>2, <1>3

LEMMA ControlStart == MetricsInit => Control
<1> SUFFICES ASSUME MetricsInit PROVE Control
  OBVIOUS
<1>1. <<>> \in Seq(Wrapped)
  BY ONLY TRUE
<1> QED BY <1>1, NoWalkIs DEF MetricsInit, Control

LEMMA WalkEnds ==
  ASSUME Control, WalkOver PROVE /\ mWalk' = NoWalk /\ mTodo' = mTodo \ {mWalk.oid} /\ mWalk.oid \in mTodo /\ mWalk # NoWalk
                                 /\ mTodo' \subseteq mTodo
BY DEF Control, WalkOver

LEMMA ControlStep == Control /\ [MetricsNext]_metricVars => Control'
<1> SUFFICES ASSUME Control, [MetricsNext]_metricVars PROVE Control'
  OBVIOUS
<1>0. UptimeError \notin Nat
  BY DEF UptimeError
<1>1. CASE UNCHANGED metricVars
  BY <1>1 DEF metricVars, Control
<1>2. ASSUME NEW o \in mTodo, StartWalk(o) PROVE Control'
  <2>1. /\ mWalk'.oid = o /\ mWalk' = [oid |-> mWalk'.oid, left |-> mWalk'.left] /\ mPhase # "idle"
        /\ UNCHANGED <<mPhase, mTodo, mDeltas, mResults, mUptime>>
    BY <1>2 DEF StartWalk
  <2> QED BY <2>1 DEF Control
<1>3. CASE TryFails
  <2>1. /\ mWalk' = [oid |-> mWalk.oid, left |-> mWalk.left - 1] /\ mWalk.left > 1
        /\ UNCHANGED <<mPhase, mTodo, mDeltas, mResults, mUptime>>
    BY <1>3 DEF TryFails, Control
  <2>2. mWalk # NoWalk
    <3> SUFFICES ASSUME mWalk = NoWalk PROVE FALSE
      OBVIOUS
    <3>1. mWalk.left = 0
      BY NoWalkIs
    <3>2. 0 > 1
      BY <2>1, <3>1
    <3> QED BY <3>2
  <2>3. mWalk'.oid = mWalk.oid /\ mWalk' = [oid |-> mWalk'.oid, left |-> mWalk'.left]
    BY <2>1
  <2> QED BY <2>1, <2>2, <2>3 DEF Control
<1>4. CASE DeviceWalked
  <2>1. mWalk' = NoWalk /\ mTodo' \subseteq mTodo /\ mWalk.oid \in mTodo
    BY <1>4, WalkEnds DEF DeviceWalked
  <2>2. UNCHANGED <<mPhase, mDeltas, mUptime>> /\ mPhase = "device"
    BY <1>4 DEF DeviceWalked
  <2>3. mResults' \in Seq(Wrapped)
    <3>1. mResults' = mResults \/ \E ans \in AnswersTo(mWalk.oid) : mResults' = Gotten(mWalk.oid, mResults, ans)
      BY <1>4, Zenon DEF DeviceWalked
    <3>2. AnswersTo(mWalk.oid) = DevAnswers[mWalk.oid]
      BY <2>2, Zenon DEF AnswersTo
    <3>3. mWalk.oid \in DOMAIN DevMibs /\ mResults \in Seq(Wrapped)
      BY <2>1, <2>2 DEF Control
    <3> QED BY <3>1, <3>2, <3>3, GottenAre
  <2> QED BY <2>1, <2>2, <2>3, NoWalkIs DEF Control
<1>5. CASE AllWalked
  BY <1>5 DEF AllWalked, Control
<1>6. CASE DevicePolled
  <2>1. mWalk' = NoWalk /\ mTodo' = mTodo \ {mWalk.oid} /\ mWalk.oid \in mTodo
    BY <1>6, WalkEnds DEF DevicePolled
  <2>2. UNCHANGED <<mDeltas, mResults>> /\ mPhase = "uptime" /\ mPhase' = "ready"
    BY <1>6 DEF DevicePolled
  <2>3. mTodo' = {}
    BY <2>1, <2>2 DEF Control
  <2>4. mUptime' \in Nat \cup {UptimeError}
    <3>1. mUptime' \in {UptimeOf(ans) : ans \in {x \in UptimeAnswers : WalkAnswered(x)}} \cup (IF WalkFailed THEN {UptimeError} ELSE {})
      BY <1>6, Zenon DEF DevicePolled
    <3>2. mUptime' = UptimeError \/ \E ans \in UptimeAnswers : mUptime' = UptimeOf(ans)
      BY <3>1, Zenon
    <3> QED BY <3>2, UptimeRead
  <2> QED BY <2>1, <2>2, <2>3, <2>4, NoWalkIs DEF Control
<1>7. CASE InterfaceWalked
  <2>1. mWalk' = NoWalk /\ mTodo' \subseteq mTodo
    BY <1>7, WalkEnds DEF InterfaceWalked
  <2>2. UNCHANGED <<mPhase, mResults, mUptime>> /\ mPhase = "interfaces"
    BY <1>7 DEF InterfaceWalked
  <2> QED BY <2>1, <2>2, NoWalkIs DEF Control
<1>8. CASE InterfacePollFails
  BY <1>8, NoWalkIs DEF InterfacePollFails, Control
<1>9. CASE MetricsPolled
  <2>1. /\ mPhase' = "idle" /\ mWalk = NoWalk /\ mUptime' = 0 /\ mDeltas' = <<>>
        /\ UNCHANGED <<mTodo, mWalk, mResults>>
    BY <1>9 DEF MetricsPolled
  <2> QED BY <2>1 DEF Control
<1>10. ASSUME NEW r, StartInterfaces(r) PROVE Control'
  <2>1. /\ mPhase = "ready" /\ mPhase' = "interfaces" /\ mTodo' = r /\ mResults' = <<>>
        /\ UNCHANGED <<mWalk, mUptime, mDeltas>>
    BY <1>10 DEF StartInterfaces
  <2>2. r \subseteq DOMAIN IfMibs
    BY <1>10, Zenon DEF StartInterfaces, ReadyOf
  <2>3. mWalk = NoWalk
    BY <2>1 DEF Control
  <2>4. <<>> \in Seq(Wrapped)
    BY ONLY TRUE
  <2> QED BY <2>1, <2>2, <2>3, <2>4, NoWalkIs DEF Control
<1>11. CASE PollContextEnds
  BY <1>11 DEF PollContextEnds, Control
<1>12. ASSUME NEW r, MetricsPoll(r) PROVE Control'
  <2>1. /\ mPhase = "idle" /\ mPhase' = "device" /\ mTodo' = r /\ mResults' = <<>> /\ mUptime' = 0 /\ mDeltas' = <<>>
        /\ UNCHANGED mWalk
    BY <1>12 DEF MetricsPoll
  <2>2. r \subseteq DOMAIN DevMibs
    BY <1>12, Zenon DEF MetricsPoll, ReadyOf
  <2>3. mWalk = NoWalk
    BY <2>1 DEF Control
  <2>4. <<>> \in Seq(Wrapped)
    BY ONLY TRUE
  <2> QED BY <2>1, <2>2, <2>3, <2>4, NoWalkIs DEF Control
<1> QED BY <1>1, <1>2, <1>3, <1>4, <1>5, <1>6, <1>7, <1>8, <1>9, <1>10, <1>11, <1>12, Zenon DEF MetricsNext, MetricsStep

------------------------------------------------------------------------------
(* The metrics of a poll: counters *)

LEMMA MergeIs ==
  ASSUME NEW f, NEW g
  PROVE  /\ DOMAIN (f ++ g) = DOMAIN f \cup DOMAIN g
         /\ \A k \in DOMAIN f : (f ++ g)[k] = f[k]
         /\ \A k \in DOMAIN g : k \notin DOMAIN f => (f ++ g)[k] = g[k]
BY DEF ++

LEMMA OnlyIs == ASSUME NEW k, NEW x PROVE DOMAIN Only(k, x) = {k} /\ Only(k, x)[k] = x
BY DEF Only

BaseNat(m) == \A i \in DOMAIN m : \A n \in DOMAIN m[i] : m[i][n] \in Nat

\* A row reports no more than its counters show.
RowSane(d) ==
  \A o \in DOMAIN IfMibs : IfMibs[o].counter \in DOMAIN d =>
    IfMibs[o].name \in DOMAIN d /\ d[IfMibs[o].name] \in 0 .. d[IfMibs[o].counter]
RowsSane(m) == \A i \in DOMAIN m : RowSane(m[i])

\* No value of metric o has come for interface i.
Missing(m, i, o) == i \in DOMAIN m => IfMibs[o].name \notin DOMAIN m[i]

LEMMA CounterRow ==
  ASSUME NEW o \in DOMAIN IfMibs, NEW d, RowSane(d), IfMibs[o].name \notin DOMAIN d,
         NEW val \in Nat, NEW x \in 0 .. val
  PROVE  RowSane((Only(IfMibs[o].name, x) ++ Only(IfMibs[o].counter, val)) ++ d)
<1> DEFINE n == IfMibs[o].name
           c == IfMibs[o].counter
           a == Only(n, x) ++ Only(c, val)
           e == a ++ d
<1>1. n # c
  BY MetricsAssumption
<1> HIDE DEF n, c
<1>2. DOMAIN a = {n, c} /\ a[n] = x /\ a[c] = val
  BY <1>1 DEF Only, ++
<1> HIDE DEF a
<1>3. /\ DOMAIN e = {n, c} \cup DOMAIN d /\ e[n] = x /\ e[c] = val
      /\ \A k \in DOMAIN d : k # n /\ k # c => e[k] = d[k]
  BY <1>2 DEF ++
<1> HIDE DEF e
<1>4. ASSUME NEW p \in DOMAIN IfMibs, IfMibs[p].counter \in DOMAIN e
      PROVE  IfMibs[p].name \in DOMAIN e /\ e[IfMibs[p].name] \in 0 .. e[IfMibs[p].counter]
  <2>1. CASE p = o
    BY <1>3, <2>1 DEF n, c
  <2>2. CASE p # o
    <3>1. IfMibs[p].name # n /\ IfMibs[p].counter # c /\ IfMibs[p].name # c /\ IfMibs[p].counter # n
      BY <2>2, MetricsAssumption, Zenon DEF n, c
    <3>2. IfMibs[p].counter \in DOMAIN d
      BY <1>3, <1>4, <3>1
    <3>3. IfMibs[p].name \in DOMAIN d /\ d[IfMibs[p].name] \in 0 .. d[IfMibs[p].counter]
      BY <3>2, Zenon DEF RowSane
    <3>4. e[IfMibs[p].name] = d[IfMibs[p].name] /\ e[IfMibs[p].counter] = d[IfMibs[p].counter] /\ IfMibs[p].name \in DOMAIN e
      BY <1>3, <3>1, <3>2, <3>3
    <3> QED BY <3>3, <3>4
  <2> QED BY <2>1, <2>2
<1> QED BY <1>4, Zenon DEF RowSane, e, a, n, c

LEMMA GaugeRow ==
  ASSUME NEW o \in DOMAIN IfMibs, NEW d, RowSane(d), IfMibs[o].name \notin DOMAIN d, NEW val
  PROVE  RowSane(Only(IfMibs[o].name, val) ++ d)
<1> DEFINE n == IfMibs[o].name
           e == Only(n, val) ++ d
<1>0. n \notin DOMAIN d
  OBVIOUS
<1> HIDE DEF n
<1>3. DOMAIN e = {n} \cup DOMAIN d /\ \A k \in DOMAIN d : k # n => e[k] = d[k]
  BY DEF Only, ++
<1> HIDE DEF e
<1>4. ASSUME NEW p \in DOMAIN IfMibs, IfMibs[p].counter \in DOMAIN e
      PROVE  IfMibs[p].name \in DOMAIN e /\ e[IfMibs[p].name] \in 0 .. e[IfMibs[p].counter]
  <2>1. IfMibs[p].counter # n
    BY MetricsAssumption, Zenon DEF n
  <2>2. IfMibs[p].counter \in DOMAIN d
    BY <1>3, <1>4, <2>1
  <2>3. IfMibs[p].name \in DOMAIN d /\ d[IfMibs[p].name] \in 0 .. d[IfMibs[p].counter]
    BY <2>2, Zenon DEF RowSane
  <2>4. e[IfMibs[p].name] = d[IfMibs[p].name] /\ e[IfMibs[p].counter] = d[IfMibs[p].counter] /\ IfMibs[p].name \in DOMAIN e
    BY <1>0, <1>3, <2>1, <2>2, <2>3
  <2> QED BY <2>3, <2>4
<1> QED BY <1>4, Zenon DEF RowSane, e, n

LEMMA DeltaIs == ASSUME NEW m, BaseNat(m), NEW i, NEW n, NEW val \in Nat PROVE DeltaOf(m, i, n, val) \in 0 .. val
<1>1. CASE i \in DOMAIN m /\ n \in DOMAIN m[i] /\ m[i][n] <= val
  <2> DEFINE b == m[i][n]
  <2>1. b \in Nat /\ b <= val /\ DeltaOf(m, i, n, val) = val - b
    BY <1>1, Zenon DEF BaseNat, DeltaOf
  <2> HIDE DEF b
  <2> QED BY <2>1
<1>2. CASE ~(i \in DOMAIN m /\ n \in DOMAIN m[i] /\ m[i][n] <= val)
  <2>1. DeltaOf(m, i, n, val) = 0
    BY <1>2, Zenon DEF DeltaOf
  <2> QED BY <2>1
<1> QED BY <1>1, <1>2

Sane(st) == BaseNat(st.base) /\ RowsSane(st.deltas)

LEMMA MeasureKeeps ==
  ASSUME NEW o \in DOMAIN IfMibs, NEW st, Sane(st), NEW v, v.val \in Nat, Missing(st.deltas, v.idx, o)
  PROVE  /\ Sane(Measure(o, st, v))
         /\ \A i : \A p \in DOMAIN IfMibs : Missing(st.deltas, i, p) /\ ~(i = v.idx /\ p = o) => Missing(Measure(o, st, v).deltas, i, p)
<1>1. CASE v.idx = ""
  <2>1. Measure(o, st, v) = st
    BY <1>1, Zenon DEF Measure
  <2> QED BY <2>1
<1>2. CASE v.idx # ""
  <2> DEFINE n == IfMibs[o].name
             val == v.val
             old == RowAt(st.deltas, v.idx)
             x == DeltaOf(st.base, v.idx, n, val)
             new == IF IsCounter(o, v) THEN Only(n, x) ++ Only(IfMibs[o].counter, val) ELSE Only(n, val)
             set == IF IsCounter(o, v) THEN Only(n, val) ELSE <<>>
             b == Only(v.idx, set ++ RowAt(st.base, v.idx)) ++ st.base
             d == Only(v.idx, new ++ old) ++ st.deltas
  <2>1. Measure(o, st, v) = [base |-> b, deltas |-> d]
    BY <1>2, Zenon DEF Measure
  <2>0. DOMAIN <<>> = {}
    BY ONLY TRUE
  <2>2. x \in 0 .. val /\ val \in Nat
    BY DeltaIs DEF Sane
  <2>3. RowSane(old) /\ n \notin DOMAIN old
    <3>1. CASE v.idx \in DOMAIN st.deltas
      BY <3>1, Zenon DEF RowAt, Sane, RowsSane, Missing
    <3>2. CASE v.idx \notin DOMAIN st.deltas
      BY <2>0, <3>2, Zenon DEF RowAt, RowSane
    <3> QED BY <3>1, <3>2
  <2> HIDE DEF old
  <2>4. RowSane(new ++ old)
    <3>1. CASE IsCounter(o, v)
      <4>1. new = Only(n, x) ++ Only(IfMibs[o].counter, val)
        BY <3>1, Zenon
      <4> HIDE DEF x, val, new
      <4>2. RowSane((Only(n, x) ++ Only(IfMibs[o].counter, val)) ++ old)
        BY <2>2, <2>3, CounterRow
      <4> QED BY <4>1, <4>2
    <3>2. CASE ~IsCounter(o, v)
      <4>1. new = Only(n, val)
        BY <3>2, Zenon
      <4> HIDE DEF x, val, new
      <4>2. RowSane(Only(n, val) ++ old)
        BY <2>2, <2>3, GaugeRow
      <4> QED BY <4>1, <4>2
    <3> QED BY <3>1, <3>2
  <2>5. DOMAIN new \subseteq {n, IfMibs[o].counter}
    <3> HIDE DEF x
    <3> QED BY DEF Only, ++
  <2>6. \A k \in DOMAIN (set ++ RowAt(st.base, v.idx)) : (set ++ RowAt(st.base, v.idx))[k] \in Nat
    <3> DEFINE r == RowAt(st.base, v.idx)
    <3>1. \A k \in DOMAIN r : r[k] \in Nat
      BY <2>0, Zenon DEF RowAt, Sane, BaseNat
    <3>2. \A k \in DOMAIN set : set[k] \in Nat
      <4>1. \A k \in DOMAIN Only(n, val) : Only(n, val)[k] \in Nat
        BY <2>2 DEF Only
      <4>2. set = Only(n, val) \/ set = <<>>
        BY Zenon
      <4> HIDE DEF set
      <4> QED BY <2>0, <4>1, <4>2
    <3> HIDE DEF r, set
    <3>3. \A k \in DOMAIN (set ++ r) : (set ++ r)[k] \in Nat
      BY <3>1, <3>2 DEF ++
    <3> QED BY <3>3 DEF r
  <2> DEFINE rb == set ++ RowAt(st.base, v.idx)
             rd == new ++ old
             sb == st.base
             sd == st.deltas
             j == v.idx
  <2>7. \A k \in DOMAIN rd : k \in DOMAIN new \/ k \in DOMAIN old
    BY MergeIs
  <2>8. b = Only(j, rb) ++ sb /\ d = Only(j, rd) ++ sd
    OBVIOUS
  <2>9. BaseNat(sb) /\ RowsSane(sd) /\ RowSane(rd) /\ \A k \in DOMAIN rb : rb[k] \in Nat
    BY <2>4, <2>6 DEF Sane
  <2>10. ASSUME NEW p \in DOMAIN IfMibs, p # o PROVE IfMibs[p].name \notin DOMAIN new
    <3>1. IfMibs[p].name # n /\ IfMibs[p].name # IfMibs[o].counter
      BY <2>10, MetricsAssumption, Zenon
    <3> HIDE DEF new
    <3> QED BY <2>5, <3>1
  <2>11. Measure(o, st, v).base = b /\ Measure(o, st, v).deltas = d
    BY <2>1
  <2>a. sd = st.deltas /\ sb = st.base /\ j = v.idx /\ (j \in DOMAIN sd => old = sd[j]) /\ (j \notin DOMAIN sd => DOMAIN old = {})
    BY <2>0, Zenon DEF RowAt, old
  <2> HIDE DEF b, d, rb, rd, sb, sd, j, new, n
  <2>12. /\ DOMAIN b = {j} \cup DOMAIN sb /\ b[j] = rb /\ \A i \in DOMAIN sb : i # j => b[i] = sb[i]
         /\ DOMAIN d = {j} \cup DOMAIN sd /\ d[j] = rd /\ \A i \in DOMAIN sd : i # j => d[i] = sd[i]
    BY <2>8 DEF Only, ++
  <2>13. BaseNat(b)
    BY <2>9, <2>12 DEF BaseNat
  <2>14. RowsSane(d)
    BY <2>9, <2>12 DEF RowsSane
  <2>15. ASSUME NEW i, NEW p \in DOMAIN IfMibs, Missing(sd, i, p), ~(i = j /\ p = o) PROVE Missing(d, i, p)
    <3>1. CASE i # j
      BY <2>12, <2>15, <3>1 DEF Missing
    <3>2. CASE i = j /\ p # o
      <4>1. IfMibs[p].name \notin DOMAIN new
        BY <2>10, <3>2
      <4>2. IfMibs[p].name \notin DOMAIN old
        BY <2>15, <2>a, <3>2 DEF Missing
      <4> QED BY <2>7, <2>12, <3>2, <4>1, <4>2 DEF Missing
    <3> QED BY <2>15, <3>1, <3>2
  <2> QED BY <2>11, <2>13, <2>14, <2>15, <2>a, Zenon DEF Sane
<1> QED BY <1>1, <1>2

LEMMA MeasuredKeeps ==
  ASSUME NEW o \in DOMAIN IfMibs, NEW ans \in IfAnswers[o], NEW start, Sane(start), \A i : Missing(start.deltas, i, o)
  PROVE  /\ Sane(Measured(o, ans, start))
         /\ \A i : \A p \in DOMAIN IfMibs : p # o /\ Missing(start.deltas, i, p) => Missing(Measured(o, ans, start).deltas, i, p)
<1> DEFINE n == Len(ans)
<1>1. n \in Nat /\ DOMAIN ans = 1 .. n
  <2>1. ans \in Seq({ans[i] : i \in DOMAIN ans})
    BY MetricsAssumption
  <2> QED BY <2>1, ListLaw, Zenon
<1>2. PICK f : /\ f[0] = start /\ Measured(o, ans, start) = f[n]
               /\ \A i \in 1 .. n : f[i] = Measure(o, f[i - 1], ans[i])
  BY <1>1, MeasuredSteps
<1>3. /\ \A i, j \in DOMAIN ans : ans[i].idx = ans[j].idx => i = j
      /\ \A i \in DOMAIN ans : ans[i].val \in Nat
  BY MetricsAssumption
<1> HIDE DEF n
<1> DEFINE Ahead(k) == \A j \in 1 .. n : k < j => Missing(f[k].deltas, ans[j].idx, o)
           Others(k) == \A i : \A p \in DOMAIN IfMibs : p # o /\ Missing(start.deltas, i, p) => Missing(f[k].deltas, i, p)
           S == {k \in 0 .. n : Sane(f[k]) /\ Ahead(k) /\ Others(k)}
<1>4. 0 \in S
  <2>1. 0 \in 0 .. n
    BY ONLY <1>1
  <2>2. Ahead(0) /\ Others(0)
    BY <1>2, Zenon
  <2> QED BY <1>2, <2>1, <2>2, Zenon
<1>5. ASSUME NEW k \in 0 .. n - 1, k \in S PROVE k + 1 \in S
  <2>1. k + 1 \in 1 .. n /\ (k + 1) - 1 = k /\ k + 1 \in 0 .. n /\ k < k + 1
    BY ONLY <1>1, k \in 0 .. n - 1
  <2> DEFINE v == ans[k + 1]
  <2>2. f[k + 1] = Measure(o, f[k], v)
    BY <1>2, <2>1, Zenon
  <2>3. v.val \in Nat
    BY <1>1, <1>3, <2>1, Zenon
  <2>4. Sane(f[k]) /\ Ahead(k) /\ Others(k)
    BY <1>5, Zenon
  <2>5. Missing(f[k].deltas, v.idx, o)
    BY <2>1, <2>4, Zenon
  <2>6. /\ Sane(f[k + 1])
        /\ \A i : \A p \in DOMAIN IfMibs : Missing(f[k].deltas, i, p) /\ ~(i = v.idx /\ p = o) => Missing(f[k + 1].deltas, i, p)
    <3> HIDE DEF v
    <3>1. /\ Sane(Measure(o, f[k], v))
          /\ \A i : \A p \in DOMAIN IfMibs : Missing(f[k].deltas, i, p) /\ ~(i = v.idx /\ p = o) => Missing(Measure(o, f[k], v).deltas, i, p)
      BY <2>3, <2>4, <2>5, MeasureKeeps, Zenon
    <3> QED BY <2>2, <3>1, Zenon
  <2>7. ASSUME NEW j \in 1 .. n, k + 1 < j PROVE Missing(f[k + 1].deltas, ans[j].idx, o)
    <3>1. k < j /\ j # k + 1
      BY ONLY <2>7, <1>1, k \in 0 .. n - 1, j \in 1 .. n
    <3>2. ans[j].idx # v.idx
      BY <1>1, <1>3, <2>1, <3>1, Zenon
    <3> QED BY <2>4, <2>6, <3>1, <3>2, Zenon
  <2>8. Others(k + 1)
    BY <2>4, <2>6, Zenon
  <2> QED BY <2>1, <2>6, <2>7, <2>8, Zenon
<1> HIDE DEF S
<1>6. \A i \in 0 .. n : i \in S
  BY <1>1, <1>4, <1>5, InductTo
<1>7. n \in 0 .. n
  BY ONLY <1>1
<1>8. n \in S
  BY <1>6, <1>7, Zenon
<1> QED BY <1>2, <1>8, Zenon DEF S

\* The values kept are numbers, and a metric comes once in a poll.
Counters ==
  /\ BaseNat(mBase) /\ RowsSane(mDeltas)
  /\ mPhase = "interfaces" => \A o \in mTodo : \A i : Missing(mDeltas, i, o)
  /\ InterfaceRecordsSane

LEMMA NothingCounted ==
  /\ BaseNat(<<>>) /\ RowsSane(<<>>) /\ \A i, o : Missing(<<>>, i, o)
<1>1. DOMAIN <<>> = {}
  BY ONLY TRUE
<1> QED BY <1>1, Zenon DEF BaseNat, RowsSane, Missing

LEMMA CountersStart == MetricsInit => Counters
<1> SUFFICES ASSUME MetricsInit PROVE Counters
  OBVIOUS
<1>1. DOMAIN <<>> = {}
  BY ONLY TRUE
<1>2. InterfaceRecordsSane
  BY <1>1, Zenon DEF InterfaceRecordsSane, MetricsInit
<1> QED BY <1>2, NothingCounted DEF MetricsInit, Counters

\* A record has the metrics of its interface as they are.
LEMMA RecordsSane ==
  ASSUME NEW all, RowsSane(all), NEW d, NEW i \in DOMAIN ConvertToCHF(all, d)
  PROVE  LET m == ConvertToCHF(all, d)[i] IN
         /\ m["Uptime"] > 0
         /\ \A o \in DOMAIN IfMibs : IfMibs[o].counter \in DOMAIN m =>
              IfMibs[o].name \in DOMAIN m /\ m[IfMibs[o].name] \in 0 .. m[IfMibs[o].counter]
<1> DEFINE m == ConvertToCHF(all, d)[i]
           up == Only("Uptime", Duration(d))
           e1 == ErrorPercent(all[i], "ifInErrors", "ifHCInUcastPkts", "ifInErrorPercent")
           e2 == ErrorPercent(all[i], "ifOutErrors", "ifHCOutUcastPkts", "ifOutErrorPercent")
           r == all[i]
<1>1. i \in DOMAIN all /\ m = ((up ++ e1) ++ e2) ++ r
  BY Zenon DEF ConvertToCHF
<1>2. DOMAIN up = {"Uptime"} /\ up["Uptime"] = Duration(d)
  BY OnlyIs
<1>3. DOMAIN e1 \subseteq ReservedNames /\ DOMAIN e2 \subseteq ReservedNames /\ "Uptime" \in ReservedNames
  <2>1. DOMAIN <<>> = {}
    BY ONLY TRUE
  <2>2. e1 = <<>> \/ \E x : e1 = Only("ifInErrorPercent", x)
    BY Zenon DEF ErrorPercent
  <2>3. e2 = <<>> \/ \E x : e2 = Only("ifOutErrorPercent", x)
    BY Zenon DEF ErrorPercent
  <2> HIDE DEF e1, e2
  <2> QED BY <2>1, <2>2, <2>3 DEF Only, ReservedNames
<1>4. Duration(d) > 0
  BY MetricsAssumption DEF Duration
<1>5. RowSane(r)
  BY <1>1, Zenon DEF RowsSane
<1> HIDE DEF m, up, e1, e2, r
<1> DEFINE a == (up ++ e1) ++ e2
<1>6. DOMAIN a \subseteq ReservedNames /\ "Uptime" \in DOMAIN a /\ a["Uptime"] = Duration(d)
  BY <1>2, <1>3 DEF ++
<1>7. m = a ++ r
  BY <1>1
<1> HIDE DEF a
<1>8. m["Uptime"] = Duration(d) /\ \A k : k \notin ReservedNames => (k \in DOMAIN m <=> k \in DOMAIN r) /\ (k \in DOMAIN r => m[k] = r[k])
  BY <1>6, <1>7 DEF ++
<1>9. ASSUME NEW o \in DOMAIN IfMibs, IfMibs[o].counter \in DOMAIN m
      PROVE  IfMibs[o].name \in DOMAIN m /\ m[IfMibs[o].name] \in 0 .. m[IfMibs[o].counter]
  <2>1. IfMibs[o].counter \notin ReservedNames /\ IfMibs[o].name \notin ReservedNames
    <3>1. {IfMibs[o].name, IfMibs[o].counter} \cap ReservedNames = {}
      BY MetricsAssumption
    <3> QED BY <3>1, Zenon
  <2>2. IfMibs[o].counter \in DOMAIN r
    BY <1>8, <1>9, <2>1, Zenon
  <2>3. IfMibs[o].name \in DOMAIN r /\ r[IfMibs[o].name] \in 0 .. r[IfMibs[o].counter]
    BY <1>5, <2>2, Zenon DEF RowSane
  <2>4. m[IfMibs[o].name] = r[IfMibs[o].name] /\ m[IfMibs[o].counter] = r[IfMibs[o].counter] /\ IfMibs[o].name \in DOMAIN m
    BY <1>8, <2>1, <2>2, <2>3, Zenon
  <2> QED BY <2>3, <2>4
<1>10. m["Uptime"] > 0
  BY <1>4, <1>8
<1> QED BY <1>9, <1>10, Zenon DEF m

LEMMA CountersKept ==
  ASSUME Counters, UNCHANGED <<mBase, mDeltas, mIfFlows>>, mPhase' = "interfaces" => mPhase = "interfaces" /\ mTodo' \subseteq mTodo
  PROVE  Counters'
<1>1. InterfaceRecordsSane'
  BY DEF Counters, InterfaceRecordsSane
<1>2. BaseNat(mBase') /\ RowsSane(mDeltas')
  BY DEF Counters
<1>3. mPhase' = "interfaces" => \A o \in mTodo' : \A i : Missing(mDeltas', i, o)
  BY DEF Counters
<1> QED BY <1>1, <1>2, <1>3, Zenon DEF Counters

LEMMA CountersStep == Control /\ Counters /\ [MetricsNext]_metricVars => Counters'
<1> SUFFICES ASSUME Control, Counters, [MetricsNext]_metricVars PROVE Counters'
  OBVIOUS
<1>a. DOMAIN <<>> = {}
  BY ONLY TRUE
<1>1. CASE UNCHANGED metricVars
  BY <1>1, CountersKept DEF metricVars
<1>2. ASSUME NEW o \in mTodo, StartWalk(o) PROVE Counters'
  BY <1>2, CountersKept DEF StartWalk
<1>3. CASE TryFails
  BY <1>3, CountersKept DEF TryFails
<1>4. CASE DeviceWalked
  BY <1>4, CountersKept DEF DeviceWalked
<1>5. CASE AllWalked
  BY <1>5, CountersKept DEF AllWalked
<1>6. CASE DevicePolled
  BY <1>6, CountersKept DEF DevicePolled
<1>7. CASE InterfaceWalked
  <2> DEFINE o == mWalk.oid
             start == [base |-> mBase, deltas |-> mDeltas]
  <2>1. mTodo' = mTodo \ {o} /\ o \in mTodo
    BY <1>7, WalkEnds DEF InterfaceWalked
  <2>2. UNCHANGED <<mPhase, mIfFlows>> /\ mPhase = "interfaces" /\ mTodo \subseteq DOMAIN IfMibs
    BY <1>7 DEF InterfaceWalked, Control
  <2>3. AnswersTo(o) = IfAnswers[o]
    BY <2>2 DEF AnswersTo
  <2>4. PICK ans \in IfAnswers[o] : mBase' = Measured(o, ans, start).base /\ mDeltas' = Measured(o, ans, start).deltas
    BY <1>7, <2>3, Zenon DEF InterfaceWalked
  <2>5. start.base = mBase /\ start.deltas = mDeltas
    OBVIOUS
  <2>6. o \in DOMAIN IfMibs
    BY <2>1, <2>2, Zenon
  <2> HIDE DEF start, o
  <2>7. Sane(start) /\ \A i : Missing(start.deltas, i, o)
    BY <2>1, <2>2, <2>5, Zenon DEF Sane, Counters
  <2>8. /\ Sane(Measured(o, ans, start))
        /\ \A i : \A p \in DOMAIN IfMibs : p # o /\ Missing(start.deltas, i, p) => Missing(Measured(o, ans, start).deltas, i, p)
    BY <2>6, <2>7, MeasuredKeeps, Zenon
  <2>9. BaseNat(mBase') /\ RowsSane(mDeltas')
    BY <2>4, <2>8, Zenon DEF Sane
  <2>10. ASSUME NEW p \in mTodo', NEW i PROVE Missing(mDeltas', i, p)
    <3>1. p \in mTodo /\ p # o /\ p \in DOMAIN IfMibs
      BY <2>1, <2>2
    <3>2. Missing(mDeltas, i, p)
      BY <2>2, <3>1, Zenon DEF Counters
    <3> QED BY <2>4, <2>5, <2>8, <3>1, <3>2, Zenon
  <2>11. InterfaceRecordsSane'
    BY <2>2 DEF Counters, InterfaceRecordsSane
  <2> QED BY <2>9, <2>10, <2>11, Zenon DEF Counters
<1>8. CASE InterfacePollFails
  <2>1. mBase' = <<>> /\ mDeltas' = <<>> /\ mPhase' = "idle" /\ UNCHANGED mIfFlows
    BY <1>8 DEF InterfacePollFails
  <2>2. InterfaceRecordsSane'
    BY <2>1 DEF Counters, InterfaceRecordsSane
  <2>3. BaseNat(mBase') /\ RowsSane(mDeltas')
    BY <2>1, NothingCounted
  <2> QED BY <2>1, <2>2, <2>3 DEF Counters
<1>9. CASE MetricsPolled
  <2>1. mPhase' = "idle" /\ mDeltas' = <<>>
    BY <1>9 DEF MetricsPolled
  <2>2. PICK d : mIfFlows' = ConvertToCHF(mDeltas, d)
    BY <1>9, Zenon DEF MetricsPolled
  <2>3. RowsSane(mDeltas)
    BY Zenon DEF Counters
  <2>4. InterfaceRecordsSane'
    BY <2>2, <2>3, RecordsSane, Zenon DEF InterfaceRecordsSane
  <2>5. BaseNat(mBase')
    <3>1. mBase' = mBase \/ (mUptime > 0 /\ mBase' = Only("device", Only("Uptime", mUptime)) ++ mBase)
      BY <1>9, Zenon DEF MetricsPolled
    <3>2. mUptime > 0 => mUptime \in Nat
      BY DEF Control, UptimeError
    <3>3. BaseNat(mBase)
      BY Zenon DEF Counters
    <3>4. mUptime > 0 => BaseNat(Only("device", Only("Uptime", mUptime)) ++ mBase)
      BY <3>2, <3>3 DEF BaseNat, Only, ++
    <3> QED BY <3>1, <3>3, <3>4
  <2> QED BY <2>1, <2>4, <2>5, NothingCounted DEF Counters
<1>10. ASSUME NEW r, StartInterfaces(r) PROVE Counters'
  <2>1. mPhase = "ready" /\ UNCHANGED <<mBase, mDeltas, mIfFlows>>
    BY <1>10 DEF StartInterfaces
  <2>2. mDeltas' = <<>>
    BY <2>1 DEF Control
  <2>3. InterfaceRecordsSane'
    BY <2>1 DEF Counters, InterfaceRecordsSane
  <2>4. BaseNat(mBase')
    BY <2>1 DEF Counters
  <2> QED BY <2>2, <2>3, <2>4, NothingCounted DEF Counters
<1>11. CASE PollContextEnds
  BY <1>11, CountersKept DEF PollContextEnds
<1>12. ASSUME NEW r, MetricsPoll(r) PROVE Counters'
  <2>1. UNCHANGED mBase /\ mPhase' = "device" /\ mDeltas' = <<>> /\ mIfFlows' = <<>>
    BY <1>12 DEF MetricsPoll
  <2>2. InterfaceRecordsSane'
    BY <1>a, <2>1, Zenon DEF InterfaceRecordsSane
  <2>3. BaseNat(mBase')
    BY <2>1 DEF Counters
  <2> QED BY <2>1, <2>2, <2>3, NothingCounted DEF Counters
<1> QED BY <1>1, <1>2, <1>3, <1>4, <1>5, <1>6, <1>7, <1>8, <1>9, <1>10, <1>11, <1>12, Zenon DEF MetricsNext, MetricsStep

------------------------------------------------------------------------------
(* The metrics of a poll: rows *)

IsRow(row) == row = [ints |-> row.ints, strs |-> row.strs, error |-> row.error] /\ row.error = FALSE
AreRows(rows) == \A x \in DOMAIN rows : IsRow(rows[x])
Names(w) == DOMAIN Attributes(w).ints

\* The attributes of an index that came and were kept, and the scripts there are.
CameFor(results, x) ==
  UNION {Names(results[j]) : j \in {i \in 1 .. Len(results) : results[i].idx = x /\ Kept(results[i], results)}}
Scripts(results) == {DevMibs[results[j].oid].script : j \in 1 .. Len(results)}

\* The rows have what was kept of the first k results, and nothing that did not come.
Complete(rows, results, k) ==
  \A j \in 1 .. Len(results) : j <= k /\ Kept(results[j], results) =>
    results[j].idx \in DOMAIN rows /\ Names(results[j]) \subseteq DOMAIN rows[results[j].idx].ints
NoMore(rows, results) ==
  \A x \in DOMAIN rows :
    /\ \E j \in 1 .. Len(results) : x = results[j].idx /\ results[j].type # "nil"
    /\ DOMAIN rows[x].ints \subseteq CameFor(results, x)

LEMMA AddToIs ==
  ASSUME NEW rows, AreRows(rows), NEW w
  PROVE  /\ AreRows(AddTo(rows, w)) /\ DOMAIN AddTo(rows, w) = {w.idx} \cup DOMAIN rows
         /\ \A x \in DOMAIN rows : x # w.idx => AddTo(rows, w)[x] = rows[x]
         /\ DOMAIN AddTo(rows, w)[w.idx].ints =
              Names(w) \cup (IF w.idx \in DOMAIN rows THEN DOMAIN rows[w.idx].ints ELSE {})
<1> DEFINE old == IF w.idx \in DOMAIN rows THEN rows[w.idx] ELSE NoRow
           a == Attributes(w)
           new == [ints |-> a.ints ++ old.ints, strs |-> a.strs ++ old.strs, error |-> FALSE]
           e == AddTo(rows, w)
<1>1. e = Only(w.idx, new) ++ rows
  BY Zenon DEF AddTo
<1>2. DOMAIN old.ints = IF w.idx \in DOMAIN rows THEN DOMAIN rows[w.idx].ints ELSE {}
  <2>1. NoRow.ints = <<>> /\ DOMAIN <<>> = {}
    BY DEF NoRow
  <2> QED BY <2>1, Zenon
<1> HIDE DEF old, a, e
<1>3. IsRow(new) /\ DOMAIN new.ints = DOMAIN a.ints \cup DOMAIN old.ints
  <2> DEFINE p == a.ints ++ old.ints
             q == a.strs ++ old.strs
  <2>1. DOMAIN p = DOMAIN a.ints \cup DOMAIN old.ints
    BY DEF ++
  <2>2. new = [ints |-> p, strs |-> q, error |-> FALSE]
    OBVIOUS
  <2> HIDE DEF p, q, new
  <2>3. new.ints = p /\ new.strs = q /\ new.error = FALSE
    BY ONLY <2>2
  <2>4. IsRow(new)
    BY <2>2, <2>3, Zenon DEF IsRow
  <2> QED BY <2>1, <2>3, <2>4
<1> DEFINE i == w.idx
<1> HIDE DEF new, i
<1>4. e = Only(i, new) ++ rows
  BY <1>1 DEF i
<1>5. DOMAIN e = {i} \cup DOMAIN rows /\ e[i] = new /\ \A x \in DOMAIN rows : x # i => e[x] = rows[x]
  BY <1>4 DEF Only, ++
<1>6. AreRows(e)
  BY <1>3, <1>5 DEF AreRows
<1>7. DOMAIN e[i].ints = Names(w) \cup (IF i \in DOMAIN rows THEN DOMAIN rows[i].ints ELSE {})
  BY <1>2, <1>3, <1>5, Zenon DEF Names, a, i
<1> QED BY <1>5, <1>6, <1>7 DEF e, i

LEMMA AddKeptIs ==
  ASSUME NEW rows, NEW results, NEW k, k \in Nat, Len(results) \in Nat, k + 1 \in 1 .. Len(results),
         AreRows(rows), Complete(rows, results, k), NoMore(rows, results)
  PROVE  LET R == AddKept(rows, results[k + 1], results)
         IN  AreRows(R) /\ Complete(R, results, k + 1) /\ NoMore(R, results)
<1> DEFINE w == results[k + 1]
           R == AddKept(rows, w, results)
<1>0. ASSUME NEW j \in 1 .. Len(results), j <= k + 1 PROVE j <= k \/ j = k + 1
  BY <1>0
<1>1. CASE ~Kept(w, results)
  <2>1. R = rows
    BY <1>1, Zenon DEF AddKept
  <2>2. Complete(rows, results, k + 1)
    BY <1>0, <1>1, Zenon DEF Complete
  <2> QED BY <2>1, <2>2, Zenon
<1>2. CASE Kept(w, results)
  <2>1. R = AddTo(rows, w)
    BY <1>2, Zenon DEF AddKept
  <2> HIDE DEF R
  <2>2. /\ AreRows(R) /\ DOMAIN R = {w.idx} \cup DOMAIN rows
        /\ \A x \in DOMAIN rows : x # w.idx => R[x] = rows[x]
        /\ DOMAIN R[w.idx].ints = Names(w) \cup (IF w.idx \in DOMAIN rows THEN DOMAIN rows[w.idx].ints ELSE {})
    <3>1. ASSUME NEW x
          PROVE  /\ AreRows(AddTo(rows, x)) /\ DOMAIN AddTo(rows, x) = {x.idx} \cup DOMAIN rows
                 /\ \A y \in DOMAIN rows : y # x.idx => AddTo(rows, x)[y] = rows[y]
                 /\ DOMAIN AddTo(rows, x)[x.idx].ints =
                      Names(x) \cup (IF x.idx \in DOMAIN rows THEN DOMAIN rows[x.idx].ints ELSE {})
      BY AddToIs
    <3> QED BY <2>1, <3>1, Zenon
  <2>3. \A x \in DOMAIN rows : x \in DOMAIN R /\ DOMAIN rows[x].ints \subseteq DOMAIN R[x].ints
    <3> SUFFICES ASSUME NEW x \in DOMAIN rows PROVE x \in DOMAIN R /\ DOMAIN rows[x].ints \subseteq DOMAIN R[x].ints
      OBVIOUS
    <3>1. CASE x = w.idx
      <4>1. DOMAIN R[x].ints = Names(w) \cup DOMAIN rows[x].ints
        BY <2>2, <3>1, Zenon
      <4> QED BY <2>2, <4>1, Zenon
    <3>2. CASE x # w.idx
      BY <2>2, <3>2, Zenon
    <3> QED BY <3>1, <3>2
  <2>4. w.idx \in DOMAIN R /\ Names(w) \subseteq DOMAIN R[w.idx].ints
    BY <2>2, Zenon
  <2>5. ASSUME NEW j \in 1 .. Len(results), j <= k + 1, Kept(results[j], results)
        PROVE  results[j].idx \in DOMAIN R /\ Names(results[j]) \subseteq DOMAIN R[results[j].idx].ints
    <3>1. CASE j = k + 1
      BY <2>4, <3>1
    <3>2. CASE j <= k
      <4>1. results[j].idx \in DOMAIN rows /\ Names(results[j]) \subseteq DOMAIN rows[results[j].idx].ints
        BY <2>5, <3>2, Zenon DEF Complete
      <4> QED BY <2>3, <4>1, Zenon
    <3> QED BY <1>0, <2>5, <3>1, <3>2
  <2>6. Complete(R, results, k + 1)
    BY <2>5, Zenon DEF Complete
  <2>7. w.type # "nil"
    BY <1>2, Zenon DEF Kept
  <2>8. Names(w) \subseteq CameFor(results, w.idx)
    BY <1>2, Zenon DEF CameFor
  <2>9. ASSUME NEW x \in DOMAIN R
        PROVE  /\ \E j \in 1 .. Len(results) : x = results[j].idx /\ results[j].type # "nil"
               /\ DOMAIN R[x].ints \subseteq CameFor(results, x)
    <3>1. CASE x = w.idx
      <4>1. w.idx \in DOMAIN rows => DOMAIN rows[w.idx].ints \subseteq CameFor(results, w.idx)
        BY Zenon DEF NoMore
      <4>2. DOMAIN R[w.idx].ints \subseteq CameFor(results, w.idx)
        BY <2>2, <2>8, <4>1, Zenon
      <4> QED BY <2>7, <3>1, <4>2, Zenon
    <3>2. CASE x # w.idx
      <4>1. x \in DOMAIN rows /\ R[x] = rows[x]
        BY <2>2, <3>2, Zenon
      <4> QED BY <4>1, Zenon DEF NoMore
    <3> QED BY <3>1, <3>2
  <2>10. NoMore(R, results)
    BY <2>9, Zenon DEF NoMore
  <2> QED BY <2>2, <2>6, <2>10, Zenon DEF R
<1> QED BY <1>1, <1>2

LEMMA RowsAre ==
  ASSUME NEW results, Len(results) \in Nat
  PROVE  /\ AreRows(RowsOf(results)) /\ Complete(RowsOf(results), results, Len(results)) /\ NoMore(RowsOf(results), results)
<1> DEFINE n == Len(results)
<1>1. PICK f : /\ f[0] = <<>> /\ RowsOf(results) = f[n]
               /\ \A i \in 1 .. n : f[i] = AddKept(f[i - 1], results[i], results)
  BY RowsSteps
<1> DEFINE S == {k \in 0 .. n : AreRows(f[k]) /\ Complete(f[k], results, k) /\ NoMore(f[k], results)}
<1>a. n \in Nat /\ n = Len(results)
  OBVIOUS
<1> HIDE DEF n
<1>2. 0 \in S
  <2>1. 0 \in 0 .. n /\ \A j \in 1 .. n : ~(j <= 0)
    BY ONLY <1>a
  <2>2. DOMAIN <<>> = {}
    BY ONLY TRUE
  <2>3. AreRows(<<>>) /\ NoMore(<<>>, results)
    BY <2>2, Zenon DEF AreRows, NoMore
  <2>4. Complete(<<>>, results, 0)
    BY <1>a, <2>1, Zenon DEF Complete
  <2> QED BY <1>1, <2>1, <2>3, <2>4
<1>3. ASSUME NEW k \in 0 .. n - 1, k \in S PROVE k + 1 \in S
  <2>1. k + 1 \in 1 .. n /\ (k + 1) - 1 = k /\ k + 1 \in 0 .. n /\ k \in Nat
    BY ONLY <1>a, k \in 0 .. n - 1
  <2>2. AreRows(f[k]) /\ Complete(f[k], results, k) /\ NoMore(f[k], results)
    BY <1>3, Zenon
  <2>3. f[k + 1] = AddKept(f[k], results[k + 1], results)
    BY <1>1, <2>1, Zenon
  <2>4. AreRows(f[k + 1]) /\ Complete(f[k + 1], results, k + 1) /\ NoMore(f[k + 1], results)
    BY <1>a, <2>1, <2>2, <2>3, AddKeptIs, Zenon
  <2> QED BY <2>1, <2>4, Zenon
<1> HIDE DEF S
<1>4. \A i \in 0 .. n : i \in S
  BY <1>a, <1>2, <1>3, InductTo
<1>5. n \in 0 .. n
  BY ONLY <1>a
<1>6. n \in S
  BY <1>4, <1>5, Zenon
<1> QED BY <1>1, <1>6, <1>a, Zenon DEF S

------------------------------------------------------------------------------
(* The metrics of a poll: records *)

LEMMA IntsSet ==
  ASSUME NEW row, IsRow(row), NEW m, NEW e, e = [row EXCEPT !.ints = m]
  PROVE  IsRow(e) /\ e.ints = m
<1>1. ASSUME NEW i, NEW s, NEW b, NEW r, r = [ints |-> i, strs |-> s, error |-> b], NEW n, n = [r EXCEPT !.ints = m]
      PROVE  n = [ints |-> m, strs |-> s, error |-> b] /\ n.ints = m /\ n.strs = s /\ n.error = b
  BY <1>1
<1> DEFINE i == row.ints
           s == row.strs
           b == row.error
<1>2. row = [ints |-> i, strs |-> s, error |-> b]
  BY Zenon DEF IsRow
<1>3. b = FALSE
  BY Zenon DEF IsRow
<1> HIDE DEF i, s, b
<1>4. e = [ints |-> m, strs |-> s, error |-> b] /\ e.ints = m /\ e.strs = s /\ e.error = b
  BY <1>1, <1>2
<1> QED BY <1>3, <1>4, Zenon DEF IsRow

\* A script adds its own attribute to its row.
LEMMA EnrichIs ==
  ASSUME NEW rows, AreRows(rows), NEW seen, NEW S, \A w \in DOMAIN seen : DevMibs[w.oid].script \in S
  PROVE  LET R == EnrichMetric(rows, seen) IN
         /\ DOMAIN R = DOMAIN rows /\ AreRows(R)
         /\ \A x \in DOMAIN rows : /\ DOMAIN rows[x].ints \subseteq DOMAIN R[x].ints
                                   /\ DOMAIN R[x].ints \subseteq DOMAIN rows[x].ints \cup S
<1> DEFINE R == EnrichMetric(rows, seen)
           g(x) == [k \in {DevMibs[w.oid].script : w \in {y \in DOMAIN seen : y.idx = x}} |->
                      Cardinality(seen[CHOOSE w \in DOMAIN seen : w.idx = x /\ DevMibs[w.oid].script = k])]
<1>1. DOMAIN R = DOMAIN rows
  BY Zenon DEF EnrichMetric
<1>2. ASSUME NEW x \in DOMAIN rows
      PROVE  /\ IsRow(R[x]) /\ DOMAIN rows[x].ints \subseteq DOMAIN R[x].ints
             /\ DOMAIN R[x].ints \subseteq DOMAIN rows[x].ints \cup S
  <2> DEFINE a == rows[x]
             e == R[x]
             h == g(x)
             m == h ++ a.ints
  <2>1. e = [a EXCEPT !.ints = m]
    BY Zenon DEF EnrichMetric
  <2>2. DOMAIN h \subseteq S
    BY Zenon
  <2>3. IsRow(a)
    BY Zenon DEF AreRows
  <2> HIDE DEF a, e, h
  <2>4. DOMAIN m = DOMAIN h \cup DOMAIN a.ints
    BY DEF ++
  <2> HIDE DEF m
  <2>6. IsRow(e) /\ e.ints = m
    BY <2>1, <2>3, IntsSet
  <2>7. DOMAIN a.ints \subseteq DOMAIN e.ints /\ DOMAIN e.ints \subseteq DOMAIN a.ints \cup S
    BY <2>2, <2>4, <2>6, Zenon
  <2> QED BY <2>6, <2>7, Zenon DEF a, e
<1> QED BY <1>1, <1>2, Zenon DEF AreRows

LEMMA PercentIs ==
  ASSUME NEW t \in Nat \ {0}, NEW u \in 0 .. t
  PROVE  Percent(u, t) \in 0 .. 100 /\ t * (Percent(u, t) + 1) > 100 * u
<1> DEFINE q == (u * 100) \div t
<1>1. Percent(u, t) = q
  <2>1. ~(u < 0)
    OBVIOUS
  <2> QED BY <2>1, Zenon DEF Percent
<1>2. u * 100 \in Int
  OBVIOUS
<1>3. q \in Int /\ (u * 100) % t \in 0 .. (t - 1) /\ (u * 100) % t = (u * 100) - t * q
  BY <1>2, DivMod
<1> HIDE DEF q
<1>4. t * q <= u * 100 /\ u * 100 < t * q + t /\ t * q \in Int
  BY <1>3
<1>5. t * (q + 1) = t * q + t
  BY <1>3
<1>6. q <= 100
  <2> SUFFICES ASSUME q >= 101 PROVE FALSE
    BY <1>3
  <2>1. t * q >= t * 101
    BY <1>3
  <2> QED BY <1>4, <2>1
<1>7. q >= 0
  <2> SUFFICES ASSUME q + 1 <= 0 PROVE FALSE
    BY <1>3
  <2>1. t * (q + 1) <= 0
    BY <1>3
  <2> QED BY <1>4, <1>5, <2>1
<1>8. q \in 0 .. 100 /\ t * (q + 1) > 100 * u
  BY <1>3, <1>4, <1>5, <1>6, <1>7
<1> QED BY <1>1, <1>8

LEMMA UtilizationIs ==
  ASSUME NEW m, "MemoryUtilization" \notin DOMAIN m, {"MemoryTotal", "MemoryFree"} \subseteq DOMAIN m,
         "MemoryUsed" \notin DOMAIN m, m["MemoryTotal"] > 0
  PROVE  Utilization(m) = {Percent(m["MemoryTotal"] - m["MemoryFree"], m["MemoryTotal"])}
<1>1. ~({"MemoryUsed", "MemoryFree"} \subseteq DOMAIN m)
  BY Zenon
<1> QED BY <1>1, Zenon DEF Utilization

Computed == {"CPU", "MemoryUtilization"}

\* Derived leaves alone what it does not compute.
LEMMA DerivedIs ==
  ASSUME NEW row, IsRow(row)
  PROVE  LET e == Derived(row) IN
         /\ IsRow(e) /\ DOMAIN row.ints \subseteq DOMAIN e.ints
         /\ \A k : k \notin Computed => (k \in DOMAIN e.ints <=> k \in DOMAIN row.ints) /\ (k \in DOMAIN row.ints => e.ints[k] = row.ints[k])
         /\ "MemoryUtilization" \in DOMAIN e.ints \ DOMAIN row.ints =>
              Utilization(row.ints) # {} /\ e.ints["MemoryUtilization"] \in Utilization(row.ints)
         /\ ("CPUIdle" \in DOMAIN row.ints /\ row.ints["CPUIdle"] <= 100) => "CPU" \in DOMAIN e.ints /\ e.ints["CPU"] = 100 - row.ints["CPUIdle"]
<1> DEFINE m == row.ints
           util == Utilization(m)
           idle == "CPUIdle" \in DOMAIN m /\ m["CPUIdle"] <= 100
           cpu == IF "CPUIdle" \in DOMAIN m /\ m["CPUIdle"] <= 100 THEN Only("CPU", 100 - m["CPUIdle"]) ELSE <<>>
           mem == IF util = {} THEN <<>> ELSE Only("MemoryUtilization", CHOOSE u \in util : TRUE)
           n == (cpu ++ mem) ++ m
           e == Derived(row)
<1>0. DOMAIN <<>> = {}
  BY ONLY TRUE
<1>1. e = [row EXCEPT !.ints = n]
  BY Zenon DEF Derived
<1>2. util # {} => (CHOOSE u \in util : TRUE) \in util
  BY Zenon
<1>3. /\ DOMAIN cpu \subseteq {"CPU"} /\ (idle => "CPU" \in DOMAIN cpu /\ cpu["CPU"] = 100 - m["CPUIdle"])
  <2> DEFINE x == 100 - m["CPUIdle"]
  <2>1. DOMAIN Only("CPU", x) = {"CPU"} /\ Only("CPU", x)["CPU"] = x
    BY OnlyIs, Zenon
  <2> HIDE DEF x
  <2>2. cpu = IF idle THEN Only("CPU", x) ELSE <<>>
    BY Zenon DEF x
  <2> HIDE DEF cpu, idle
  <2>3. DOMAIN cpu \subseteq {"CPU"} /\ (idle => "CPU" \in DOMAIN cpu /\ cpu["CPU"] = x)
    BY <1>0, <2>1, <2>2, Zenon
  <2> QED BY <2>3 DEF x
<1>4. DOMAIN mem \subseteq {"MemoryUtilization"} /\ ("MemoryUtilization" \in DOMAIN mem => util # {} /\ mem["MemoryUtilization"] \in util)
  <2> DEFINE y == CHOOSE u \in util : TRUE
  <2>1. DOMAIN Only("MemoryUtilization", y) = {"MemoryUtilization"} /\ Only("MemoryUtilization", y)["MemoryUtilization"] = y
    BY OnlyIs, Zenon
  <2>2. util # {} => y \in util
    BY <1>2
  <2>3. mem = IF util = {} THEN <<>> ELSE Only("MemoryUtilization", y)
    OBVIOUS
  <2> HIDE DEF y, util, mem
  <2> QED BY <1>0, <2>1, <2>2, <2>3
<1> HIDE DEF cpu, mem, m, util, idle, e
<1>5. DOMAIN n = (DOMAIN cpu \cup DOMAIN mem) \cup DOMAIN m
  BY DEF ++
<1>6. /\ \A k \in DOMAIN cpu : n[k] = cpu[k]
      /\ \A k \in DOMAIN mem : k \notin DOMAIN cpu => n[k] = mem[k]
      /\ \A k \in DOMAIN m : k \notin DOMAIN cpu \cup DOMAIN mem => n[k] = m[k]
  BY DEF ++
<1> HIDE DEF n
<1>8. IsRow(e) /\ e.ints = n
  BY <1>1, IntsSet
<1>9. DOMAIN m \subseteq DOMAIN n
  BY <1>5, Zenon
<1>10. \A k : k \notin Computed => (k \in DOMAIN n <=> k \in DOMAIN m) /\ (k \in DOMAIN m => n[k] = m[k])
  BY <1>3, <1>4, <1>5, <1>6 DEF Computed
<1>11. "MemoryUtilization" \in DOMAIN n \ DOMAIN m => util # {} /\ n["MemoryUtilization"] \in util
  <2>1. SUFFICES ASSUME "MemoryUtilization" \in DOMAIN n \ DOMAIN m PROVE util # {} /\ n["MemoryUtilization"] \in util
    OBVIOUS
  <2>2. "MemoryUtilization" \notin DOMAIN cpu
    BY <1>3
  <2>3. "MemoryUtilization" \in DOMAIN mem
    BY <1>5, <2>1, <2>2
  <2>4. n["MemoryUtilization"] = mem["MemoryUtilization"]
    BY <1>6, <2>2, <2>3
  <2> QED BY <1>4, <2>3, <2>4
<1>12. idle => "CPU" \in DOMAIN n /\ n["CPU"] = 100 - m["CPUIdle"]
  <2>1. SUFFICES ASSUME idle PROVE "CPU" \in DOMAIN n /\ n["CPU"] = 100 - m["CPUIdle"]
    OBVIOUS
  <2>2. "CPU" \in DOMAIN cpu /\ cpu["CPU"] = 100 - m["CPUIdle"]
    BY <1>3, <2>1
  <2>3. n["CPU"] = cpu["CPU"] /\ "CPU" \in DOMAIN n
    BY <1>5, <1>6, <2>2
  <2> QED BY <2>2, <2>3
<1> QED BY <1>8, <1>9, <1>10, <1>11, <1>12, Zenon DEF e, m, util, idle

LEMMA Kinds == /\ \A i, j : OfRow(i) = OfRow(j) => i = j
               /\ \A i, e : OfRow(i) # OfFailed(e) /\ OfRow(i) # OneOff /\ OfFailed(e) # OneOff
               /\ \A i : OfRow(i).of = i
BY DEF OfRow, OfFailed, OneOff

FailedRow == [NoRow EXCEPT !.error = TRUE]
UptimeRow(n) == [NoRow EXCEPT !.ints = Only("Uptime", n)]

LEMMA OtherRows == /\ FailedRow.error = TRUE /\ DOMAIN FailedRow.ints = {}
                   /\ \A n : DOMAIN UptimeRow(n).ints = {"Uptime"}
<1>0. NoRow = [ints |-> <<>>, strs |-> <<>>, error |-> FALSE] /\ DOMAIN <<>> = {}
  BY DEF NoRow
<1>1. FailedRow.error = TRUE /\ FailedRow.ints = <<>>
  BY <1>0 DEF FailedRow
<1>2. ASSUME NEW n PROVE DOMAIN UptimeRow(n).ints = {"Uptime"}
  <2> DEFINE x == Only("Uptime", n)
  <2>1. DOMAIN x = {"Uptime"}
    BY OnlyIs, Zenon
  <2> HIDE DEF x
  <2>2. UptimeRow(n) = [NoRow EXCEPT !.ints = x]
    BY DEF UptimeRow, x
  <2>3. UptimeRow(n).ints = x
    BY <1>0, <2>2
  <2> QED BY <2>1, <2>3
<1> QED BY <1>0, <1>1, <1>2, Zenon

\* The records are of the rows, of the failed walks, and the one-off.
Records(fl, rows, errs) ==
  /\ \A i \in DOMAIN rows : OfRow(i) \in DOMAIN fl /\ fl[OfRow(i)] = Derived(rows[i])
  /\ \A e \in errs : OfFailed(e) \in DOMAIN fl /\ fl[OfFailed(e)] = FailedRow
  /\ \A r \in DOMAIN fl : \/ \E i \in DOMAIN rows : r = OfRow(i) /\ fl[r] = Derived(rows[i])
                          \/ fl[r] = FailedRow
                          \/ r = OneOff /\ \E n : fl[r] = UptimeRow(n)

LEMMA RecordsAre == ASSUME NEW rows, NEW errs, NEW up PROVE Records(DeviceFlows(rows, errs, up), rows, errs)
<1> DEFINE failed == errs \cup (IF up = UptimeError THEN {UptimeOid} ELSE {})
           A == [r \in {OfRow(i) : i \in DOMAIN rows} |-> Derived(rows[r.of])]
           B == [r \in {OfFailed(e) : e \in failed} |-> [NoRow EXCEPT !.error = TRUE]]
           n == IF up = UptimeError THEN 0 ELSE up
           C == Only(OneOff, [NoRow EXCEPT !.ints = Only("Uptime", n)])
           fl == DeviceFlows(rows, errs, up)
<1>1. fl = (A ++ B) ++ C
  BY Zenon DEF DeviceFlows
<1>2. DOMAIN A = {OfRow(i) : i \in DOMAIN rows} /\ \A i \in DOMAIN rows : A[OfRow(i)] = Derived(rows[i])
  BY Kinds, Zenon
<1>3. DOMAIN B = {OfFailed(e) : e \in failed} /\ \A r \in DOMAIN B : B[r] = FailedRow
  BY Zenon DEF FailedRow
<1>4. DOMAIN C = {OneOff} /\ C[OneOff] = UptimeRow(n)
  BY OnlyIs, Zenon DEF UptimeRow
<1>5. errs \subseteq failed
  BY Zenon
<1> HIDE DEF A, B, C, fl, failed, n
<1>6. /\ DOMAIN A \cap DOMAIN B = {} /\ OneOff \notin DOMAIN A /\ OneOff \notin DOMAIN B
  BY <1>2, <1>3, Kinds, Zenon
<1>7. /\ DOMAIN fl = (DOMAIN A \cup DOMAIN B) \cup DOMAIN C
      /\ \A r \in DOMAIN A : fl[r] = A[r]
      /\ \A r \in DOMAIN B : r \notin DOMAIN A => fl[r] = B[r]
      /\ \A r \in DOMAIN C : r \notin DOMAIN A \cup DOMAIN B => fl[r] = C[r]
  BY <1>1 DEF ++
<1>8. \A i \in DOMAIN rows : OfRow(i) \in DOMAIN fl /\ fl[OfRow(i)] = Derived(rows[i])
  BY <1>2, <1>7, Zenon
<1>9. \A e \in errs : OfFailed(e) \in DOMAIN fl /\ fl[OfFailed(e)] = FailedRow
  <2>1. \A e \in errs : OfFailed(e) \in DOMAIN B /\ OfFailed(e) \notin DOMAIN A
    BY <1>3, <1>5, <1>6, Zenon
  <2> QED BY <1>3, <1>7, <2>1, Zenon
<1>10. ASSUME NEW r \in DOMAIN fl
       PROVE  \/ \E i \in DOMAIN rows : r = OfRow(i) /\ fl[r] = Derived(rows[i])
              \/ fl[r] = FailedRow
              \/ r = OneOff /\ \E x : fl[r] = UptimeRow(x)
  <2>1. CASE r \in DOMAIN A
    <3>1. PICK i \in DOMAIN rows : r = OfRow(i)
      BY <1>2, <2>1, Zenon
    <3>2. fl[r] = A[r] /\ A[OfRow(i)] = Derived(rows[i])
      BY <1>2, <1>7, <2>1, Zenon
    <3> QED BY <3>1, <3>2
  <2>2. CASE r \in DOMAIN B
    BY <1>3, <1>6, <1>7, <2>2, Zenon
  <2>3. CASE r \in DOMAIN C
    <3>1. r = OneOff /\ fl[r] = C[r]
      BY <1>4, <1>6, <1>7, <2>3, Zenon
    <3> QED BY <1>4, <3>1, Zenon
  <2> QED BY <1>7, <2>1, <2>2, <2>3, Zenon
<1> QED BY <1>8, <1>9, <1>10, Zenon DEF fl, Records

------------------------------------------------------------------------------
(* The metrics of a poll: what the records say *)

\* The properties of a poll that is done, of its results and its records.
RowsWhole(results, errs, fl) ==
  /\ \A i \in 1 .. Len(results) : Kept(results[i], results) =>
       OfRow(results[i].idx) \in DOMAIN fl /\ Names(results[i]) \subseteq DOMAIN fl[OfRow(results[i].idx)].ints
  /\ \A e \in errs : OfFailed(e) \in DOMAIN fl /\ fl[OfFailed(e)].error
  /\ \A r \in DOMAIN fl : fl[r].error \/ r = OneOff \/ \E j \in 1 .. Len(results) : r = OfRow(results[j].idx) /\ results[j].type # "nil"
GivenIn(results, r) ==
  Scripts(results) \cup UNION {Names(results[j]) : j \in {i \in 1 .. Len(results) : OfRow(results[i].idx) = r}}
MemorySane(m, given) ==
  (/\ "MemoryUtilization" \in DOMAIN m \ given /\ {"MemoryTotal", "MemoryFree"} \subseteq DOMAIN m
   /\ m["MemoryTotal"] \in Nat \ {0} /\ m["MemoryFree"] \in 0 .. m["MemoryTotal"] /\ "MemoryUsed" \notin DOMAIN m) =>
     m["MemoryUtilization"] \in 0 .. 100
     /\ m["MemoryTotal"] * (m["MemoryUtilization"] + 1) > 100 * (m["MemoryTotal"] - m["MemoryFree"])
CpuSane(m) ==
  "CPUIdle" \in DOMAIN m /\ m["CPUIdle"] \in 0 .. 100 => "CPU" \in DOMAIN m /\ m["CPU"] + m["CPUIdle"] = 100

LEMMA DerivedSane ==
  ASSUME NEW row, IsRow(row), NEW given, DOMAIN row.ints \subseteq given
  PROVE  MemorySane(Derived(row).ints, given) /\ CpuSane(Derived(row).ints)
<1> DEFINE m == row.ints
           n == Derived(row).ints
<1>1. /\ DOMAIN m \subseteq DOMAIN n
      /\ \A k : k \notin Computed => (k \in DOMAIN n <=> k \in DOMAIN m) /\ (k \in DOMAIN m => n[k] = m[k])
      /\ "MemoryUtilization" \in DOMAIN n \ DOMAIN m => Utilization(m) # {} /\ n["MemoryUtilization"] \in Utilization(m)
      /\ ("CPUIdle" \in DOMAIN m /\ m["CPUIdle"] <= 100) => "CPU" \in DOMAIN n /\ n["CPU"] = 100 - m["CPUIdle"]
  BY DerivedIs, Zenon
<1>a. DOMAIN m \subseteq given
  OBVIOUS
<1> HIDE DEF m, n
<1>0. "MemoryTotal" \notin Computed /\ "MemoryFree" \notin Computed /\ "MemoryUsed" \notin Computed /\ "CPUIdle" \notin Computed
  BY DEF Computed
<1>2. MemorySane(n, given)
  <2> SUFFICES ASSUME "MemoryUtilization" \in DOMAIN n \ given, {"MemoryTotal", "MemoryFree"} \subseteq DOMAIN n,
                      n["MemoryTotal"] \in Nat \ {0}, n["MemoryFree"] \in 0 .. n["MemoryTotal"], "MemoryUsed" \notin DOMAIN n
               PROVE  /\ n["MemoryUtilization"] \in 0 .. 100
                      /\ n["MemoryTotal"] * (n["MemoryUtilization"] + 1) > 100 * (n["MemoryTotal"] - n["MemoryFree"])
    BY DEF MemorySane
  <2> DEFINE t == n["MemoryTotal"]
             f == n["MemoryFree"]
             u == n["MemoryUtilization"]
  <2>1. "MemoryTotal" \in DOMAIN m /\ "MemoryFree" \in DOMAIN m /\ m["MemoryTotal"] = t /\ m["MemoryFree"] = f /\ "MemoryUsed" \notin DOMAIN m
    BY <1>0, <1>1
  <2>2. "MemoryUtilization" \notin DOMAIN m
    BY <1>a
  <2>3. u \in Utilization(m)
    BY <1>1, <2>2
  <2>4. t \in Nat \ {0} /\ f \in 0 .. t
    OBVIOUS
  <2> HIDE DEF t, f, u
  <2>5. t > 0 /\ t - f \in 0 .. t
    BY <2>4
  <2>6. Utilization(m) = {Percent(t - f, t)}
    <3>1. m["MemoryTotal"] > 0 /\ {"MemoryTotal", "MemoryFree"} \subseteq DOMAIN m
      BY <2>1, <2>5
    <3>2. Utilization(m) = {Percent(m["MemoryTotal"] - m["MemoryFree"], m["MemoryTotal"])}
      BY <2>1, <2>2, <3>1, UtilizationIs, Zenon
    <3> QED BY <2>1, <3>2, Zenon
  <2>7. u = Percent(t - f, t)
    BY <2>3, <2>6, Zenon
  <2>8. Percent(t - f, t) \in 0 .. 100 /\ t * (Percent(t - f, t) + 1) > 100 * (t - f)
    BY <2>4, <2>5, PercentIs
  <2>9. u \in 0 .. 100 /\ t * (u + 1) > 100 * (t - f)
    BY <2>7, <2>8, Zenon
  <2> QED BY <2>9 DEF t, f, u
<1>3. CpuSane(n)
  <2> SUFFICES ASSUME "CPUIdle" \in DOMAIN n, n["CPUIdle"] \in 0 .. 100 PROVE "CPU" \in DOMAIN n /\ n["CPU"] + n["CPUIdle"] = 100
    BY DEF CpuSane
  <2> DEFINE x == n["CPUIdle"]
  <2>1. "CPUIdle" \in DOMAIN m /\ m["CPUIdle"] = x
    BY <1>0, <1>1
  <2>2. x \in 0 .. 100
    OBVIOUS
  <2> HIDE DEF x
  <2>3. x <= 100 /\ (100 - x) + x = 100
    BY <2>2
  <2>4. "CPU" \in DOMAIN n /\ n["CPU"] = 100 - x
    BY <1>1, <2>1, <2>3, Zenon
  <2>5. n["CPU"] + x = 100
    BY <2>3, <2>4, Zenon
  <2> QED BY <2>4, <2>5 DEF x
<1> QED BY <1>2, <1>3 DEF n

LEMMA PolledWell ==
  ASSUME NEW results, Len(results) \in Nat, NEW errs, NEW up, NEW rows, rows = RowsOf(results),
         NEW seen, seen = Scripted(results, rows), NEW fl, fl = DeviceFlows(EnrichMetric(rows, seen), errs, up)
  PROVE  /\ RowsWhole(results, errs, fl)
         /\ \A w \in DOMAIN seen : /\ Kept(w, results)
                                   /\ \A i \in 1 .. Len(results) : results[i].idx = w.idx /\ Kept(results[i], results) => Names(results[i]) \subseteq seen[w]
         /\ \A r \in DOMAIN fl : MemorySane(fl[r].ints, GivenIn(results, r)) /\ CpuSane(fl[r].ints)
         /\ \A r \in DOMAIN fl : DOMAIN fl[r].ints \subseteq MetricsFound(results, seen, EnrichMetric(rows, seen))
<1> DEFINE N == 1 .. Len(results)
           R == EnrichMetric(rows, seen)
           Ran == {DevMibs[w.oid].script : w \in DOMAIN seen}
<1>1. AreRows(rows) /\ Complete(rows, results, Len(results)) /\ NoMore(rows, results)
  BY RowsAre, Zenon
<1>2. \A j \in N : j <= Len(results)
  OBVIOUS
<1>3. \A j \in N : Kept(results[j], results) =>
        results[j].idx \in DOMAIN rows /\ Names(results[j]) \subseteq DOMAIN rows[results[j].idx].ints
  BY <1>1, <1>2, Zenon DEF Complete
<1>4. /\ DOMAIN seen = {results[i] : i \in {j \in N : DevMibs[results[j].oid].script # "" /\ Kept(results[j], results)}}
      /\ \A w \in DOMAIN seen : seen[w] = DOMAIN rows[w.idx].ints
  BY Zenon DEF Scripted
<1>5. \A w \in DOMAIN seen : \E j \in N : w = results[j] /\ Kept(results[j], results)
  BY <1>4, Zenon
<1>6. Ran \subseteq Scripts(results)
  <2>1. \A w \in DOMAIN seen : DevMibs[w.oid].script \in Scripts(results)
    BY <1>5, Zenon DEF Scripts
  <2> QED BY <2>1
<1>a. \A w \in DOMAIN seen : DevMibs[w.oid].script \in Ran
  OBVIOUS
<1> HIDE DEF R, Ran
<1>7. /\ DOMAIN R = DOMAIN rows /\ AreRows(R)
      /\ \A x \in DOMAIN rows : /\ DOMAIN rows[x].ints \subseteq DOMAIN R[x].ints
                                /\ DOMAIN R[x].ints \subseteq DOMAIN rows[x].ints \cup Ran
  BY <1>1, <1>a, EnrichIs, Zenon DEF R
<1>8. fl = DeviceFlows(R, errs, up)
  BY DEF R
<1>9. /\ \A i \in DOMAIN R : OfRow(i) \in DOMAIN fl /\ fl[OfRow(i)] = Derived(R[i])
      /\ \A e \in errs : OfFailed(e) \in DOMAIN fl /\ fl[OfFailed(e)] = FailedRow
      /\ \A r \in DOMAIN fl : \/ \E i \in DOMAIN R : r = OfRow(i) /\ fl[r] = Derived(R[i])
                              \/ fl[r] = FailedRow
                              \/ r = OneOff /\ \E n : fl[r] = UptimeRow(n)
  <2>1. Records(fl, R, errs)
    BY <1>8, RecordsAre
  <2> QED BY <2>1, Zenon DEF Records
<1>10. RowsWhole(results, errs, fl)
  <2>1. ASSUME NEW j \in N, Kept(results[j], results)
        PROVE  OfRow(results[j].idx) \in DOMAIN fl /\ Names(results[j]) \subseteq DOMAIN fl[OfRow(results[j].idx)].ints
    <3> DEFINE x == results[j].idx
    <3>1. x \in DOMAIN R /\ Names(results[j]) \subseteq DOMAIN R[x].ints
      BY <1>3, <1>7, <2>1, Zenon
    <3>2. IsRow(R[x])
      BY <1>7, <3>1, Zenon DEF AreRows
    <3>3. DOMAIN R[x].ints \subseteq DOMAIN Derived(R[x]).ints
      BY <3>2, DerivedIs, Zenon
    <3> QED BY <1>9, <3>1, <3>3, Zenon
  <2>2. \A e \in errs : OfFailed(e) \in DOMAIN fl /\ fl[OfFailed(e)].error
    BY <1>9, OtherRows, Zenon
  <2>3. ASSUME NEW r \in DOMAIN fl
        PROVE  fl[r].error \/ r = OneOff \/ \E j \in N : r = OfRow(results[j].idx) /\ results[j].type # "nil"
    <3>1. \A i \in DOMAIN R : \E j \in N : i = results[j].idx /\ results[j].type # "nil"
      BY <1>1, <1>7, Zenon DEF NoMore
    <3>2. CASE \E i \in DOMAIN R : r = OfRow(i)
      BY <3>1, <3>2, Zenon
    <3>3. CASE fl[r] = FailedRow
      BY <3>3, OtherRows, Zenon
    <3> QED BY <1>9, <3>2, <3>3, Zenon
  <2> QED BY <2>1, <2>2, <2>3, Zenon DEF RowsWhole
<1>11. ASSUME NEW w \in DOMAIN seen
       PROVE  /\ Kept(w, results)
              /\ \A i \in N : results[i].idx = w.idx /\ Kept(results[i], results) => Names(results[i]) \subseteq seen[w]
  <2>1. Kept(w, results)
    BY <1>5, Zenon
  <2>2. \A i \in N : results[i].idx = w.idx /\ Kept(results[i], results) => Names(results[i]) \subseteq DOMAIN rows[w.idx].ints
    BY <1>3, Zenon
  <2> QED BY <1>4, <2>1, <2>2, Zenon
<1>12. ASSUME NEW r \in DOMAIN fl PROVE MemorySane(fl[r].ints, GivenIn(results, r)) /\ CpuSane(fl[r].ints)
  <2>1. ASSUME NEW i \in DOMAIN R, r = OfRow(i), fl[r] = Derived(R[i]) PROVE MemorySane(fl[r].ints, GivenIn(results, r)) /\ CpuSane(fl[r].ints)
    <3>1. IsRow(R[i])
      BY <1>7, Zenon DEF AreRows
    <3>2. DOMAIN R[i].ints \subseteq CameFor(results, i) \cup Scripts(results)
      BY <1>1, <1>6, <1>7, Zenon DEF NoMore
    <3>3. CameFor(results, i) \subseteq UNION {Names(results[j]) : j \in {k \in 1 .. Len(results) : OfRow(results[k].idx) = r}}
      BY <2>1, Zenon DEF CameFor
    <3>4. DOMAIN R[i].ints \subseteq GivenIn(results, r)
      BY <3>2, <3>3, Zenon DEF GivenIn
    <3>5. MemorySane(Derived(R[i]).ints, GivenIn(results, r)) /\ CpuSane(Derived(R[i]).ints)
      BY <3>1, <3>4, DerivedSane, Zenon
    <3> QED BY <2>1, <3>5, Zenon
  <2>2. ASSUME DOMAIN fl[r].ints \subseteq {"Uptime"} PROVE MemorySane(fl[r].ints, GivenIn(results, r)) /\ CpuSane(fl[r].ints)
    <3>1. "MemoryUtilization" \notin DOMAIN fl[r].ints /\ "CPUIdle" \notin DOMAIN fl[r].ints
      BY <2>2
    <3> QED BY <3>1, Zenon DEF MemorySane, CpuSane
  <2>3. fl[r] = FailedRow \/ (\E n : fl[r] = UptimeRow(n)) => DOMAIN fl[r].ints \subseteq {"Uptime"}
    BY OtherRows, Zenon
  <2> QED BY <1>9, <2>1, <2>2, <2>3, Zenon
<1>13. ASSUME NEW r \in DOMAIN fl PROVE DOMAIN fl[r].ints \subseteq MetricsFound(results, seen, R)
  <2> DEFINE Found == MetricsFound(results, seen, R)
             Comp == {k \in {"CPU", "MemoryUtilization"} : \E i \in DOMAIN R : k \in DOMAIN Derived(R[i]).ints}
  <2>1. "Uptime" \in Found /\ Ran \subseteq Found /\ Comp \subseteq Found
    BY Zenon DEF MetricsFound, Ran
  <2>2. \A i : CameFor(results, i) \subseteq Found
    BY Zenon DEF MetricsFound, CameFor, Names
  <2>3. Computed = {"CPU", "MemoryUtilization"}
    BY DEF Computed
  <2> HIDE DEF Found
  <2>4. ASSUME NEW i \in DOMAIN R PROVE DOMAIN Derived(R[i]).ints \subseteq Found
    <3>1. IsRow(R[i])
      BY <1>7, Zenon DEF AreRows
    <3>2. DOMAIN R[i].ints \subseteq Found
      BY <1>1, <1>7, <2>1, <2>2, Zenon DEF NoMore
    <3>3. ASSUME NEW k \in DOMAIN Derived(R[i]).ints PROVE k \in Found
      <4>1. k \notin Computed => k \in DOMAIN R[i].ints
        BY <3>1, DerivedIs, Zenon
      <4>2. k \in Computed => k \in Comp
        BY <2>3, Zenon
      <4> QED BY <2>1, <3>2, <4>1, <4>2, Zenon
    <3> QED BY <3>3, Zenon
  <2>5. fl[r] = FailedRow \/ (\E n : fl[r] = UptimeRow(n)) => DOMAIN fl[r].ints \subseteq {"Uptime"}
    BY OtherRows, Zenon
  <2> QED BY <1>9, <2>1, <2>4, <2>5, Zenon DEF Found
<1> QED BY <1>10, <1>11, <1>12, <1>13, Zenon DEF R

Whole == RowsComplete /\ ScriptsSeeRows /\ UtilizationSane

LEMMA WholeKept ==
  ASSUME Whole, mPhase' = "ready" => mPhase = "ready" /\ UNCHANGED <<mResults, mErrs, mFlows, mFound, mSeen>>
  PROVE  Whole'
<1>1. CASE mPhase' # "ready"
  BY <1>1, Zenon DEF Whole, RowsComplete, ScriptsSeeRows, UtilizationSane, Polled
<1>2. CASE mPhase' = "ready"
  <2>1. mPhase = "ready" /\ mResults' = mResults /\ mErrs' = mErrs /\ mFlows' = mFlows /\ mFound' = mFound /\ mSeen' = mSeen
    BY <1>2
  <2>2. RowsComplete'
    BY <1>2, <2>1 DEF Whole, RowsComplete, Polled
  <2>3. ScriptsSeeRows'
    BY <1>2, <2>1 DEF Whole, ScriptsSeeRows, Polled
  <2>4. ASSUME NEW r PROVE Given(r)' = Given(r)
    BY <2>1 DEF Given
  <2>5. UtilizationSane'
    <3>1. \A r \in DOMAIN mFlows : MemorySane(mFlows[r].ints, Given(r)) /\ CpuSane(mFlows[r].ints) /\ DOMAIN mFlows[r].ints \subseteq mFound
      BY <2>1, Zenon DEF Whole, UtilizationSane, Polled, MemorySane, CpuSane
    <3>2. \A r \in DOMAIN mFlows' : MemorySane(mFlows'[r].ints, Given(r)') /\ CpuSane(mFlows'[r].ints) /\ DOMAIN mFlows'[r].ints \subseteq mFound'
      BY <2>1, <2>4, <3>1
    <3> QED BY <3>2, Zenon DEF UtilizationSane, MemorySane, CpuSane
  <2> QED BY <2>2, <2>3, <2>5, Zenon DEF Whole
<1> QED BY <1>1, <1>2

LEMMA WholeMade == ASSUME Control, DevicePolled PROVE Whole'
<1> DEFINE results == mResults
           errs == mErrs
           rows == RowsOf(mResults)
           seen == Scripted(mResults, RowsOf(mResults))
<1>1. PICK up : /\ mFlows' = DeviceFlows(EnrichMetric(rows, seen), mErrs, up)
                /\ mSeen' = {[w |-> w, keys |-> seen[w]] : w \in DOMAIN seen}
                /\ mFound' = MetricsFound(mResults, seen, EnrichMetric(rows, seen))
  BY Zenon DEF DevicePolled
<1>2. mResults' = results /\ mErrs' = errs
  BY DEF DevicePolled
<1>3. Len(results) \in Nat
  BY ListLaw, Zenon DEF Control
<1> DEFINE fl == mFlows'
<1> HIDE DEF results
<1>4. /\ RowsWhole(results, errs, fl)
      /\ \A w \in DOMAIN seen : /\ Kept(w, results)
                                /\ \A i \in 1 .. Len(results) : results[i].idx = w.idx /\ Kept(results[i], results) => Names(results[i]) \subseteq seen[w]
      /\ \A r \in DOMAIN fl : MemorySane(fl[r].ints, GivenIn(results, r)) /\ CpuSane(fl[r].ints)
      /\ \A r \in DOMAIN fl : DOMAIN fl[r].ints \subseteq MetricsFound(results, seen, EnrichMetric(rows, seen))
  <2>1. rows = RowsOf(results) /\ seen = Scripted(results, rows) /\ fl = DeviceFlows(EnrichMetric(rows, seen), errs, up)
    BY <1>1, Zenon DEF results
  <2> HIDE DEF rows, seen, fl, errs
  <2> QED BY <1>3, <2>1, PolledWell
<1>5. RowsComplete'
  BY <1>2, <1>4, Zenon DEF RowsComplete, RowsWhole, Names
<1>6. \A s \in mSeen' : s.w \in DOMAIN seen /\ s.keys = seen[s.w]
  <2> HIDE DEF seen
  <2> QED BY <1>1
<1>7. ScriptsSeeRows'
  BY <1>2, <1>4, <1>6, Zenon DEF ScriptsSeeRows, Names
<1>8. ASSUME NEW r PROVE GivenIn(results, r) = Given(r)'
  BY <1>2, Zenon DEF GivenIn, Given, Scripts, Names
<1>9. \A r \in DOMAIN fl : DOMAIN fl[r].ints \subseteq mFound'
  <2>1. mFound' = MetricsFound(results, seen, EnrichMetric(rows, seen))
    BY <1>1 DEF results
  <2> QED BY <1>4, <2>1, Zenon
<1>10. ASSUME NEW r \in DOMAIN fl PROVE MemorySane(fl[r].ints, Given(r)') /\ CpuSane(fl[r].ints) /\ DOMAIN fl[r].ints \subseteq mFound'
  BY <1>4, <1>8, <1>9, Zenon
<1>11. UtilizationSane'
  BY <1>10, Zenon DEF UtilizationSane, MemorySane, CpuSane
<1> QED BY <1>5, <1>7, <1>11, Zenon DEF Whole

LEMMA WholeStep == Control /\ Whole /\ [MetricsNext]_metricVars => Whole'
<1> SUFFICES ASSUME Control, Whole, [MetricsNext]_metricVars PROVE Whole'
  OBVIOUS
<1>1. CASE UNCHANGED metricVars
  BY <1>1, WholeKept DEF metricVars
<1>2. ASSUME NEW o \in mTodo, StartWalk(o) PROVE Whole'
  BY <1>2, WholeKept DEF StartWalk
<1>3. CASE TryFails
  BY <1>3, WholeKept DEF TryFails
<1>4. CASE DeviceWalked
  BY <1>4, WholeKept DEF DeviceWalked
<1>5. CASE AllWalked
  BY <1>5, WholeKept DEF AllWalked
<1>6. CASE DevicePolled
  BY <1>6, WholeMade
<1>7. CASE InterfaceWalked
  BY <1>7, WholeKept DEF InterfaceWalked
<1>8. CASE InterfacePollFails
  BY <1>8, WholeKept DEF InterfacePollFails
<1>9. CASE MetricsPolled
  BY <1>9, WholeKept DEF MetricsPolled
<1>10. ASSUME NEW r, StartInterfaces(r) PROVE Whole'
  BY <1>10, WholeKept DEF StartInterfaces
<1>11. CASE PollContextEnds
  BY <1>11, WholeKept DEF PollContextEnds
<1>12. ASSUME NEW r, MetricsPoll(r) PROVE Whole'
  BY <1>12, WholeKept DEF MetricsPoll
<1> QED BY <1>1, <1>2, <1>3, <1>4, <1>5, <1>6, <1>7, <1>8, <1>9, <1>10, <1>11, <1>12, Zenon DEF MetricsNext, MetricsStep

MetricsIInv == Control /\ Counters /\ Whole

LEMMA MetricsStart == MetricsInit => MetricsIInv
<1>1. MetricsInit => Whole
  BY Zenon DEF MetricsInit, Whole, RowsComplete, ScriptsSeeRows, UtilizationSane, Polled
<1> QED BY <1>1, ControlStart, CountersStart DEF MetricsIInv

LEMMA MetricsKept == MetricsIInv /\ [MetricsNext]_metricVars => MetricsIInv'
BY ControlStep, CountersStep, WholeStep DEF MetricsIInv

LEMMA MetricsSafe == MetricsIInv => MetricsInv
BY Zenon DEF MetricsIInv, MetricsInv, Counters, Whole

LEMMA MetricsFrame == [Next]_vars => [MetricsNext]_metricVars
BY Zenon DEF vars, Next, OfPoll, OfPing, OfMetrics, OfMetadata

\* Whatever a device answers, in whatever order its object ids are walked and
\* whichever walks fail or are cut off: no value that came is lost to another, a
\* script finds its whole row, and what is computed is what the numbers say.
THEOREM MetricsAreTrue == Spec => []MetricsInv
<1>1. Init => MetricsIInv
  BY MetricsStart DEF Init
<1>2. MetricsIInv /\ [Next]_vars => MetricsIInv'
  BY MetricsKept, MetricsFrame
<1> QED BY <1>1, <1>2, MetricsSafe, PTL DEF Spec

------------------------------------------------------------------------------
(* The pollers together *)

LEMMA PollTypesStart == PollInit => PollTypeOK
<1> SUFFICES ASSUME PollInit PROVE PollTypeOK
  OBVIOUS
<1>1. now \in 0..MaxTime /\ bootTime \in (1 - CounterMod)..MaxTime /\ reboots \in 0..MaxReboots
      /\ lifted \in Nat /\ restart \in Nat
  BY PollAssumption DEF PollInit
<1>2. {due, tslot, hand, tick, sched} \subseteq Nat \cup {NoTick}
  BY DEF PollInit
<1>3. ticker = "off" /\ loop = "seed" /\ drop \in BOOLEAN /\ cancelled \in BOOLEAN
  BY Zenon DEF PollInit
<1>4. todo \subseteq Oids /\ deltas = Nothing /\ base = Nothing /\ DOMAIN Nothing = {}
  BY DEF PollInit, Nothing
<1>5. \A o \in Oids : sum[o] \in Nat
  BY DEF PollInit
<1> QED BY <1>1, <1>2, <1>3, <1>4, <1>5, Zenon DEF PollTypeOK

LEMMA PollTypesStep == PollShape /\ PollTypeOK /\ [PollNext]_pollVars => PollTypeOK'
<1> SUFFICES ASSUME PollShape, PollTypeOK, [PollNext]_pollVars PROVE PollTypeOK'
  OBVIOUS
<1> USE PollAssumption DEF devVars, tickVars, histVars
<1>0. PollShape'
  BY ShapeStep
<1>1. CASE Clock
  <2>1. /\ now' = now + 1 /\ now' \in 0 .. MaxTime /\ now \in Nat
        /\ UNCHANGED <<bootTime, reboots, lifted, restart, hand, tick, ticker, loop, drop, sched, todo, deltas, base, sum, cancelled>>
    BY <1>1 DEF Clock, PollTypeOK
  <2>2. due' \in Nat \cup {NoTick} /\ tslot' \in Nat \cup {NoTick}
    BY <1>1 DEF Clock, PollTypeOK
  <2>3. Block(now) \in Nat /\ Block(now') \in Nat /\ Block(now) <= Block(now')
    BY <2>1, BlockType, BlockMonotone
  <2>4. \A o \in DOMAIN base : base[o].block \in 0 .. Block(now')
    BY <2>3 DEF PollTypeOK
  <2> QED BY <2>1, <2>2, <2>4 DEF PollTypeOK
<1>2. CASE Reboot
  <2>1. PICK v \in RestartValues : bootTime' = now - v
    BY <1>2 DEF Reboot
  <2>2. v \in 0..(CounterMod - 1) /\ now \in 0..MaxTime
    BY DEF PollTypeOK
  <2>3. bootTime' \in (1 - CounterMod)..MaxTime
    BY <2>1, <2>2
  <2>4. lifted' \in Nat
    BY <1>0 DEF PollShape
  <2> QED BY <1>2, <2>3, <2>4 DEF Reboot, PollTypeOK
<1>3. CASE UNCHANGED pollVars \/ Cancel
  BY <1>3 DEF Cancel, PollTypeOK, pollVars
<1>4. CASE Ticking
  BY <1>4 DEF Ticking, TickerTakes, TickerPuts, TickerEnds, PollTypeOK
<1>5. CASE SeedDone
  BY <1>5 DEF SeedDone, PollTypeOK, Nothing
<1>6. CASE StartLoop
  <2>1. Block(now) \in Nat
    BY BlockType DEF PollShape
  <2>2. FirstCollection(now) \in Nat
    BY <2>1 DEF FirstCollection
  <2> QED BY <1>6, <2>2 DEF StartLoop, PollTypeOK
<1>7. CASE TickTooLate
  BY <1>7 DEF TickTooLate, Discard, PollShape, PollTypeOK, Nothing
<1>8. CASE PollStarts
  BY <1>8 DEF PollStarts, PollTypeOK, Nothing
<1>9. CASE PollFails \/ PollOutside
  BY <1>9 DEF PollFails, PollOutside, Discard, PollShape, PollTypeOK, Nothing
<1>10. CASE PollDone
  <2>1. \A o \in Oids : sum'[o] \in Nat
    BY <1>0 DEF PollShape
  <2> QED BY <1>10, <2>1 DEF PollDone, PollTypeOK, Nothing
<1>11. CASE StatusCheck \/ Sent
  BY <1>11 DEF StatusCheck, Sent, PollTypeOK
<1>12. CASE LoopEnds
  BY <1>12 DEF LoopEnds, PollTypeOK, Nothing
<1>13. ASSUME NEW o \in Oids, WalkOid(o) PROVE PollTypeOK'
  <2>1. /\ todo' \subseteq Oids /\ DOMAIN deltas' \subseteq Oids /\ DOMAIN base' \subseteq Oids
        /\ \A p \in DOMAIN base' : base'[p].val \in 0 .. (CounterMod - 1)
    BY <1>0 DEF PollShape
  <2>2. Block(now) \in Nat
    BY BlockType DEF PollShape
  <2>3. \A p \in DOMAIN base' : base'[p].block \in 0 .. Block(now)
    BY <1>13, <2>2 DEF WalkOid, SetBase, PollTypeOK
  <2> QED BY <1>13, <2>1, <2>3 DEF WalkOid, PollTypeOK
<1>14. ASSUME NEW o \in Oids, PassOver(o) PROVE PollTypeOK'
  BY <1>14 DEF PassOver, PollTypeOK
<1> QED BY <1>1, <1>2, <1>3, <1>4, <1>5, <1>6, <1>7, <1>8, <1>9, <1>10, <1>11, <1>12, <1>13, <1>14 DEF PollNext, Looping

\* The pollers of a device, all of them at once: types, the ping-only loop's rate
\* and flag, and what the records of metrics and metadata say.
THEOREM PollersAreSound == Spec => []PollersInv
<1> DEFINE Inv == PollShape /\ PollTypeOK /\ PingInv /\ MetricsIInv /\ MetaIInv
<1>1. Init => Inv
  <2> SUFFICES ASSUME Init PROVE Inv
    OBVIOUS
  <2>1. PingInv
    BY DEF Init, PingInit, PingInv, PingTypeOK, SlowWhenIdle, FlagFollowsPolls
  <2> QED BY <2>1, ShapeInit, PollTypesStart, MetricsStart, MetaStart DEF Init
<1>2. Inv /\ [Next]_vars => Inv'
  BY PollFrame, ShapeStep, PollTypesStep, PingFrame, PingInvStep, MetricsFrame, MetricsKept, MetaFrame, MetaKept
<1>3. Inv => PollersInv
  BY MetricsSafe, MetaSafe, Zenon DEF PollersInv, TypeOK, PingInv
<1> QED BY <1>1, <1>2, <1>3, PTL DEF Spec
=============================================================================
