--------------------------- MODULE ServicesProofs ---------------------------
(***************************************************************************)
(* Proofs about Services, for any number of loggers, sinks, credentials,   *)
(* callers, networks and events and for any capacities, periods and delays *)
(* that the assumptions admit. The services share no state, so each has an *)
(* inductive invariant of its own.                                         *)
(***************************************************************************)
EXTENDS Services, FiniteSetTheorems, SequenceTheorems, WellFoundedInduction, TLAPS

\* What one service does leaves the others alone.
LEMMA EachAlone ==
  ServicesSafety => /\ Init /\ [][Next]_vars /\ ServerInit /\ [][ServerNext]_serverVars
                    /\ ApiInit /\ [][ApiNext]_apiVars /\ EventsInit /\ [][EventsNext]_eventVars
                    /\ MerakiInit /\ [][MerakiNext]_pollVars /\ ProfilesInit /\ [][ProfilesNext]_profileVars
                    /\ TrapsInit /\ [][TrapsNext]_trapVars
<1>1. [ServicesNext]_serviceVars =>
        /\ [Next]_vars /\ [ServerNext]_serverVars /\ [ApiNext]_apiVars /\ [EventsNext]_eventVars
        /\ [MerakiNext]_pollVars /\ [ProfilesNext]_profileVars /\ [TrapsNext]_trapVars
  BY DEF ServicesNext, serviceVars, OfLogs, OfServer, OfApi, OfMeraki, OfEvents, OfProfiles, OfTraps
<1>2. ServicesInit => Init /\ ServerInit /\ ApiInit /\ EventsInit /\ MerakiInit /\ ProfilesInit /\ TrapsInit
  BY DEF ServicesInit
<1> QED
  BY <1>1, <1>2, PTL DEF ServicesSafety

-----------------------------------------------------------------------------
(* BaseServer.                                                             *)

\* The terms of the wait group's counter.
One(b) == IF b THEN 1 ELSE 0

\* While the process lives, the wait group counts Run itself until MainReady,
\* and each goroutine from its start until it says that it is ready. A meta
\* server without an address never says so.
WaitGroup ==
  Alive =>
    /\ wg = One(main \in {"health", "meta", "service", "ready"}) + One(hc = "starting")
            + One(main \notin {"health", "meta"} /\ meta # "serving") + One(service = "starting")
    /\ main = "health" <=> hc = "none"
    /\ main \in {"health", "meta"} => meta = "none"
    /\ main \in {"health", "meta", "service"} <=> service = "none"

\* How long the goroutine of the health checks may go without a result.
Longest == IF StartupDelay < Period THEN Period ELSE StartupDelay

\* Where the clock is between two results.
Health ==
  /\ {wake, checkFrom, stamp} \subseteq Nat /\ latest \in BOOLEAN /\ sound \in BOOLEAN
  /\ stopped \in BOOLEAN
  /\ stamp <= clock
  /\ hc = "checking" => stamp <= checkFrom
  /\ sound => latest
  /\ hc = "starting" => clock = stamp
  /\ hc = "sleeping" => clock <= wake /\ wake <= stamp + Longest
  /\ hc = "checking" => checkFrom <= stamp + Longest
  /\ hc = "checking" /\ sound => clock <= checkFrom + CheckTimeout
  /\ hc = "ended" => stopped

ServerIInv == ServerTypeOK /\ ReadyMeansUp /\ WaitGroup /\ Health

\* The process begins with Run.
LEMMA ServerStart == ServerInit => ServerIInv
<1> SUFFICES ASSUME ServerInit PROVE ServerIInv
  OBVIOUS
<1> USE ServerAssumption DEF ServerInit
<1>1. ServerTypeOK /\ ReadyMeansUp
  BY DEF ServerTypeOK, ReadyMeansUp
<1>2. WaitGroup
  BY DEF WaitGroup, One, Alive
<1>3. Health
  <2>1. latest /\ sound /\ stopped = FALSE /\ latest \in BOOLEAN /\ sound \in BOOLEAN
    BY Zenon
  <2>2. {wake, checkFrom, stamp} \subseteq Nat /\ stamp <= clock /\ hc = "none"
    OBVIOUS
  <2> HIDE DEF ServerInit
  <2> QED
    BY <2>1, <2>2, Zenon DEF Health
<1> QED
  BY <1>1, <1>2, <1>3 DEF ServerIInv

\* Steps of Run, and of the goroutines until they are ready.
LEMMA WaitGroupKept == ASSUME ServerIInv, ServerNext PROVE ServerTypeOK' /\ ReadyMeansUp' /\ WaitGroup'
<1> USE DEF ServerIInv, ServerTypeOK, ReadyMeansUp, WaitGroup, One, Alive, healthVars
<1>1. CASE SpawnHealthCheck
  BY <1>1 DEF SpawnHealthCheck
<1>2. CASE SpawnMetaServer
  BY <1>2 DEF SpawnMetaServer
<1>3. CASE SpawnService
  BY <1>3 DEF SpawnService
<1>4. CASE MainReady
  BY <1>4 DEF MainReady
<1>5. CASE Shutdown \/ ContextDone \/ Finish \/ Signal \/ Fail
  BY <1>5 DEF Shutdown, ContextDone, Finish, Signal, Fail
<1>6. CASE ServiceReady \/ ServiceReturns
  BY <1>6 DEF ServiceReady, ServiceReturns
<1>7. CASE MetaListens
  BY <1>7 DEF MetaListens
<1>8. CASE HealthReady
  BY <1>8 DEF HealthReady
<1>9. CASE HealthWakes \/ Tick \/ \E ok \in BOOLEAN : CheckEnds(ok)
  BY <1>9, ServerAssumption DEF HealthWakes, Tick, CheckEnds
<1> QED
  BY <1>1, <1>2, <1>3, <1>4, <1>5, <1>6, <1>7, <1>8, <1>9 DEF ServerNext, ServerStep

\* Steps of the health checks and of the clock.
LEMMA HealthKept == ASSUME ServerTypeOK, Health, ServerNext PROVE Health'
<1> USE ServerAssumption DEF ServerTypeOK, Health, Longest
<1>1. CASE SpawnHealthCheck
  BY <1>1 DEF SpawnHealthCheck
<1>2. CASE HealthReady
  BY <1>2 DEF HealthReady
<1>3. CASE HealthWakes
  BY <1>3 DEF HealthWakes
<1>4. ASSUME NEW ok \in BOOLEAN, CheckEnds(ok) PROVE Health'
  BY <1>4 DEF CheckEnds
<1>5. CASE Tick
  <2>1. sound' \in BOOLEAN /\ (sound' => sound /\ ~(hc = "checking" /\ clock >= checkFrom + CheckTimeout))
    BY <1>5, Zenon DEF Tick
  <2>2. /\ clock' = clock + 1 /\ hc # "starting" /\ (hc = "sleeping" => clock < wake)
        /\ UNCHANGED <<stopped, hc, wake, checkFrom, latest, stamp>>
    BY <1>5 DEF Tick
  <2> QED
    BY <2>1, <2>2
<1>6. CASE UNCHANGED <<clock, healthVars>> /\ stopped' \in BOOLEAN /\ (stopped => stopped')
  BY <1>6 DEF healthVars
<1> QED
  BY <1>1, <1>2, <1>3, <1>4, <1>5, <1>6 DEF ServerNext, ServerStep, SpawnMetaServer, SpawnService,
     MainReady, Signal, Shutdown, ContextDone, Finish, ServiceReady, ServiceReturns, MetaListens, Fail

\* What the two say of the meta server's answers.
LEMMA ServerImplies == ServerIInv => ServerInv
<1> SUFFICES ASSUME ServerIInv PROVE HangIsSeen /\ NoFalseAlarm
  BY DEF ServerIInv, ServerInv
<1> USE ServerAssumption DEF ServerIInv, ServerTypeOK, Health, Longest, GetResult
<1>1. HangIsSeen
  BY DEF HangIsSeen
<1>2. NoFalseAlarm
  BY DEF NoFalseAlarm
<1> QED
  BY <1>1, <1>2


\* For every start-up delay, period and timeout that the assumption admits:
\* the server is ready only when its three goroutines are, a check that hangs
\* is reported, and one that succeeds in time never expires.
THEOREM ServerIsReliable == ServicesSpec => []ServerInv
<1>1. ServerIInv /\ [ServerNext]_serverVars => ServerIInv'
  <2> SUFFICES ASSUME ServerIInv, [ServerNext]_serverVars PROVE ServerIInv'
    OBVIOUS
  <2>1. CASE UNCHANGED serverVars
    BY <2>1 DEF serverVars, healthVars, ServerIInv, ServerTypeOK, ReadyMeansUp, WaitGroup, Health, Alive
  <2>2. CASE ServerNext
    BY <2>2, WaitGroupKept, HealthKept DEF ServerIInv
  <2> QED
    BY <2>1, <2>2
<1> QED
  BY <1>1, ServerStart, ServerImplies, EachAlone, PTL DEF ServicesSpec


-----------------------------------------------------------------------------
(* LogTee.                                                                 *)

\* The queues are sequences of logs.
LogTypes ==
  /\ free \in 0 .. NumMessages /\ hand \in [Loggers -> 0 .. MaxLogs] /\ made \in 0 .. MaxLogs
  /\ syslogs \in 0 .. MaxSyslogs /\ messages \in Seq(Int) /\ writing \in Int
  /\ writer \in {"wait", "tee", "free"}
  /\ tee \in Seq(Int) /\ Len(tee) <= TeeCap
  /\ split \in -1 .. NumSinks /\ copying \in Int
  /\ chan \in [Sinks -> Seq(Int)] /\ batch \in [Sinks -> Seq(Int)] /\ sent \in [Sinks -> Seq(Int)]
  /\ \A i \in Sinks : Len(chan[i]) <= SinkCap
  /\ watching \subseteq Watched

\* The sinks before split have the log that is being copied, and but for that
\* all sinks have been given the same.
Copied(i) == i < split
Copies ==
  \A i, j \in Sinks :
    /\ (Copied(i) <=> Copied(j)) => Given(i) = Given(j)
    /\ (Copied(i) /\ ~Copied(j)) => Given(i) = Append(Given(j), copying)

LogIInv == LogTypes /\ PoolConserved /\ Copies

\* Messages in the writer's hand.
AtWriter == IF writer = "wait" THEN 0 ELSE 1

\* What one logger takes or gives changes the number of holders by one.
LEMMA HoldingCount ==
  ASSUME LogTypes
  PROVE  /\ IsFiniteSet(Holding) /\ Cardinality(Holding) \in Nat
         /\ \A l \in Holding : Cardinality(Holding) = Cardinality(Holding \ {l}) + 1
         /\ \A l \in Loggers \ Holding : Cardinality(Holding \cup {l}) = Cardinality(Holding) + 1
<1>1. IsFiniteSet(Holding)
  BY LogAssumption, FS_Subset DEF Holding
<1> QED
  BY <1>1, FS_CardinalityType, FS_AddElement, FS_RemoveElement

\* All messages are free at first, and all sinks have nothing.
LEMMA LogStart == Init => LogIInv
<1> SUFFICES ASSUME Init PROVE LogIInv
  OBVIOUS
<1> USE LogAssumption DEF Init
<1>1. LogTypes
  BY DEF LogTypes, Sinks
<1>2. PoolConserved
  <2>1. Holding = {}
    BY DEF Holding
  <2> QED
    BY <2>1, FS_EmptySet DEF PoolConserved
<1>3. Copies
  BY DEF Copies, Copied, Given, Sinks
<1> QED
  BY <1>1, <1>2, <1>3 DEF LogIInv

\* The loggers and the writer pass the messages around.
LEMMA PoolKept ==
  ASSUME LogTypes, PoolConserved, LoggerNext \/ WriterNext
  PROVE  LogTypes' /\ PoolConserved'
<1> USE LogAssumption
<1>0. /\ NumMessages \in Nat /\ MaxLogs \in Nat /\ TeeCap \in Nat
      /\ free + Len(messages) + Cardinality(Holding) + AtWriter = NumMessages
      /\ Cardinality(Holding) \in Nat /\ Len(messages) \in Nat /\ free \in Nat
      /\ messages \in Seq(Int) /\ hand \in [Loggers -> 0 .. MaxLogs]
  BY HoldingCount, SMTT(30) DEF LogTypes, PoolConserved, AtWriter
<1>1. ASSUME NEW l \in Loggers, TakeMsg(l) PROVE LogTypes' /\ PoolConserved'
  <2>1. LogTypes'
    <3>0. /\ made' \in 0 .. MaxLogs /\ free \in 0 .. NumMessages
      BY <1>0, <1>1 DEF TakeMsg, LogTypes
    <3>1. hand' \in [Loggers -> 0 .. MaxLogs] /\ made' \in 0 .. MaxLogs /\ free' \in 0 .. NumMessages
      <4>1. CASE UNCHANGED <<free, hand>>
        BY <1>0, <3>0, <4>1
      <4>2. CASE free > 0 /\ free' = free - 1 /\ hand' = [hand EXCEPT ![l] = made']
        BY <1>0, <3>0, <4>2
      <4> QED
        BY <1>1, <4>1, <4>2 DEF TakeMsg
    <3>2. UNCHANGED <<messages, writer, writing, syslogs, tee, outVars>>
      BY <1>1 DEF TakeMsg
    <3> QED
      BY <3>1, <3>2 DEF LogTypes, outVars
  <2>2. CASE free = 0
    <3>1. UNCHANGED <<free, hand, messages, writer>>
      BY <1>1, <2>2 DEF TakeMsg
    <3>2. Holding' = Holding
      BY <3>1 DEF Holding
    <3> QED
      BY <2>1, <3>1, <3>2 DEF PoolConserved
  <2>3. CASE free > 0
    <3>1. /\ free' = free - 1 /\ UNCHANGED <<messages, writer>> /\ hand[l] = 0
          /\ hand' = [hand EXCEPT ![l] = made + 1] /\ made \in Nat
      BY <1>1, <2>3 DEF TakeMsg, LogTypes
    <3>2. Holding' = Holding \cup {l} /\ l \notin Holding
      BY <1>0, <3>1 DEF Holding
    <3>3. Cardinality(Holding') = Cardinality(Holding) + 1
      BY <3>2, HoldingCount
    <3>4. free' + Len(messages') + Cardinality(Holding') + AtWriter = NumMessages
      BY <1>0, <3>1, <3>3 DEF AtWriter
    <3> QED
      BY <2>1, <3>1, <3>4 DEF PoolConserved, AtWriter
  <2> QED
    BY <1>0, <2>1, <2>2, <2>3 DEF PoolConserved
<1>2. ASSUME NEW l \in Loggers, QueueMsg(l) PROVE LogTypes' /\ PoolConserved'
  <2>1. hand[l] # 0 /\ hand' = [hand EXCEPT ![l] = 0] /\ UNCHANGED <<writer, writing, teeVars, outVars>>
    BY <1>2 DEF QueueMsg
  <2>2. Holding' = Holding \ {l} /\ l \in Holding
    BY <1>0, <2>1 DEF Holding
  <2>3. Cardinality(Holding) = Cardinality(Holding') + 1 /\ Cardinality(Holding') \in Nat
    <3>1. Cardinality(Holding) = Cardinality(Holding \ {l}) + 1 /\ IsFiniteSet(Holding)
      BY <2>2, HoldingCount
    <3>2. Cardinality(Holding \ {l}) \in Nat
      BY <3>1, FS_RemoveElement, FS_CardinalityType
    <3> QED
      BY <2>2, <3>1, <3>2
  <2>4. /\ messages' \in Seq(Int) /\ free' \in Nat
        /\ free' + Len(messages') = free + Len(messages) + 1
    <3>1. free < NumMessages /\ Len(messages) < NumMessages
      BY <1>0, <2>3 DEF AtWriter
    <3>2. CASE FreeMsg /\ UNCHANGED messages
      BY <1>0, <3>1, <3>2 DEF FreeMsg
    <3>3. CASE messages' = Append(messages, hand[l]) /\ UNCHANGED free
      BY <1>0, <3>3
    <3> QED
      BY <1>2, <3>1, <3>2, <3>3 DEF QueueMsg
  <2>5. free' + Len(messages') + Cardinality(Holding') + AtWriter = NumMessages
        /\ free' \in 0 .. NumMessages
    <3>1. AtWriter \in Nat /\ Len(messages') \in Nat
      BY <2>4 DEF AtWriter
    <3> DEFINE a == AtWriter
               m == Len(messages)
               n == Len(messages')
               c == Cardinality(Holding)
               d == Cardinality(Holding')
    <3> HIDE DEF a, m, n, c, d
    <3>2. /\ free + m + c + a = NumMessages /\ c = d + 1 /\ free' + n = free + m + 1
          /\ free \in Nat /\ free' \in Nat /\ {a, m, n, c, d, NumMessages} \subseteq Nat
      BY <1>0, <2>3, <2>4, <3>1 DEF a, m, n, c, d
    <3>3. free' + n + d + a = NumMessages /\ free' \in 0 .. NumMessages
      BY <3>2
    <3> QED
      BY <3>3 DEF a, n, d
  <2>6. LogTypes'
    <3>1. hand' \in [Loggers -> 0 .. MaxLogs]
      BY <1>0, <2>1
    <3> QED
      BY <2>1, <2>4, <2>5, <3>1 DEF LogTypes, teeVars, outVars
  <2> QED
    BY <2>1, <2>5, <2>6 DEF PoolConserved, AtWriter
<1>3. CASE WriterTake
  <2>1. /\ messages # <<>> /\ messages' = Tail(messages) /\ writing' = Head(messages)
        /\ writer = "wait" /\ writer' \in {"tee", "free"} /\ UNCHANGED <<free, hand, teeVars, outVars>>
    BY <1>3 DEF WriterTake
  <2>2. messages' \in Seq(Int) /\ Len(messages') = Len(messages) - 1 /\ writing' \in Int
    BY <1>0, <2>1
  <2>3. LogTypes'
    BY <2>1, <2>2 DEF LogTypes, teeVars, outVars
  <2>4. Holding' = Holding
    BY <2>1 DEF Holding
  <2> QED
    BY <1>0, <2>1, <2>2, <2>3, <2>4 DEF PoolConserved, AtWriter
<1>4. CASE PrintTee
  <2>1. LogTypes'
    BY <1>0, <1>4, SMTT(30) DEF PrintTee, OfferTee, LogTypes, outVars
  <2>2. Holding' = Holding
    BY <1>4 DEF PrintTee, Holding
  <2> QED
    BY <1>4, <2>1, <2>2 DEF PrintTee, PoolConserved
<1>5. CASE WriterFree
  <2>1. /\ writer = "free" /\ writer' = "wait" /\ writing' = 0 /\ UNCHANGED <<hand, messages, teeVars, outVars>>
        /\ free' = free + 1 /\ free' \in 0 .. NumMessages
    BY <1>0, <1>5 DEF WriterFree, FreeMsg, AtWriter
  <2>2. LogTypes'
    BY <2>1 DEF LogTypes, teeVars, outVars
  <2>3. Holding' = Holding
    BY <2>1 DEF Holding
  <2> QED
    BY <1>0, <2>1, <2>2, <2>3 DEF PoolConserved, AtWriter
<1> QED
  BY <1>1, <1>2, <1>3, <1>4, <1>5 DEF LoggerNext, WriterNext


\* Concatenation of queues of logs is associative.
LEMMA Assoc ==
  ASSUME NEW s \in Seq(Int), NEW t \in Seq(Int), NEW u \in Seq(Int)
  PROVE  (s \o t) \o u = s \o (t \o u)
BY ConcatAssociative

\* Laws of the three queues that Given puts together.
LEMMA QueueLaws ==
  ASSUME NEW s \in Seq(Int), NEW b \in Seq(Int), NEW c \in Seq(Int)
  PROVE  /\ s \o b \o c \in Seq(Int)
         /\ \A x \in Int : s \o b \o Append(c, x) = Append(s \o b \o c, x)
         /\ (s \o b) \o <<>> \o c = s \o b \o c
         /\ c # <<>> => s \o Append(b, Head(c)) \o Tail(c) = s \o b \o c
<1>1. s \o b \in Seq(Int) /\ s \o b \o c \in Seq(Int)
  BY ConcatProperties
<1>2. ASSUME NEW x \in Int PROVE s \o b \o Append(c, x) = Append(s \o b \o c, x)
  <2>1. Append(c, x) = c \o <<x>> /\ Append(s \o b \o c, x) = (s \o b \o c) \o <<x>> /\ <<x>> \in Seq(Int)
    BY <1>1, AppendIsConcat
  <2> QED
    BY <1>1, <2>1, Assoc, SMTT(30)
<1>3. (s \o b) \o <<>> = s \o b
  BY <1>1, ConcatEmptySeq
<1>4. ASSUME c # <<>> PROVE s \o Append(b, Head(c)) \o Tail(c) = s \o b \o c
  <2>1. Head(c) \in Int /\ Tail(c) \in Seq(Int) /\ <<Head(c)>> \in Seq(Int)
    BY <1>4
  <2>2. PICK h \in Seq(Int), t \in Seq(Int) : h = <<Head(c)>> /\ t = Tail(c)
    BY <2>1
  <2>3. c = h \o t
    <3>1. h \o t \in Seq(Int) /\ Len(h \o t) = Len(c)
      BY <1>4, <2>1, <2>2
    <3>2. \A i \in 1 .. Len(c) : (h \o t)[i] = c[i]
      BY <1>4, <2>1, <2>2
    <3> QED
      BY <3>1, <3>2, SeqEqual
  <2>4. Append(b, Head(c)) = b \o h
    BY <2>1, <2>2, AppendIsConcat
  <2>5. (s \o (b \o h)) \o t = (s \o b) \o (h \o t)
    <3>1. (s \o b) \o h = s \o (b \o h)
      BY Assoc, SMTT(30)
    <3>2. s \o b \in Seq(Int)
      OBVIOUS
    <3>3. ((s \o b) \o h) \o t = (s \o b) \o (h \o t)
      BY <3>2, Assoc
    <3> QED
      BY <3>1, <3>3
  <2> QED
    BY <2>2, <2>3, <2>4, <2>5
<1> QED
  BY <1>1, <1>2, <1>3, <1>4

\* Steps that give no sink anything keep what the sinks were given.
LEMMA SameGiven ==
  ASSUME Copies, \A i \in Sinks : Given(i)' = Given(i), UNCHANGED <<split, copying>>
  PROVE  Copies'
BY DEF Copies, Copied

\* The splitter copies a log to one sink after the other.
LEMMA SplitKept ==
  ASSUME LogTypes, Copies, SplitNext
  PROVE  LogTypes' /\ Copies'
<1> USE LogAssumption
<1>0. /\ NumSinks \in Nat \ {0} /\ SinkCap \in Nat /\ TeeCap \in Nat
      /\ chan \in [Sinks -> Seq(Int)] /\ batch \in [Sinks -> Seq(Int)] /\ sent \in [Sinks -> Seq(Int)]
  BY DEF LogTypes
<1>1. CASE SplitTake
  <2>1. LogTypes'
    BY <1>0, <1>1 DEF SplitTake, LogTypes, poolVars
  <2>2. \A i \in Sinks : Given(i)' = Given(i)
    BY <1>1 DEF SplitTake, Given
  <2>3. \A i \in Sinks : ~Copied(i) /\ ~Copied(i)'
    BY <1>1 DEF SplitTake, Copied, Sinks
  <2> QED
    BY <2>1, <2>2, <2>3 DEF Copies
<1>2. CASE SplitDone
  <2>1. LogTypes'
    BY <1>0, <1>2 DEF SplitDone, LogTypes, poolVars, teeVars
  <2>2. \A i \in Sinks : Given(i)' = Given(i)
    BY <1>2 DEF SplitDone, Given
  <2>3. \A i \in Sinks : ~Copied(i) /\ ~Copied(i)'
    BY <1>0, <1>2 DEF SplitDone, Copied, Sinks
  <2> QED
    BY <2>1, <2>2, <2>3 DEF Copies
<1>3. CASE SplitCopy
  <2>0. split \in Sinks /\ copying \in Int /\ UNCHANGED <<poolVars, teeVars, batch, sent, watching>>
    BY <1>3 DEF SplitCopy, LogTypes, Sinks
  <2>1. /\ chan' = [chan EXCEPT ![split] = Append(chan[split], copying)]
        /\ Len(chan[split]) < SinkCap
        /\ split' = IF split = NumSinks THEN 0 ELSE split + 1
        /\ copying' \in Int /\ (split # NumSinks => copying' = copying)
    BY <1>3, <2>0 DEF SplitCopy
  <2>2. LogTypes'
    <3>1. chan' \in [Sinks -> Seq(Int)] /\ \A i \in Sinks : Len(chan'[i]) <= SinkCap
      BY <1>0, <2>0, <2>1, SMTT(30) DEF LogTypes
    <3>2. split' \in -1 .. NumSinks
      BY <1>0, <2>0, <2>1 DEF Sinks
    <3> QED
      BY <2>0, <2>1, <3>1, <3>2 DEF LogTypes, poolVars, teeVars
  <2>3. ASSUME NEW i \in Sinks
        PROVE  Given(i)' = IF i = split THEN Append(Given(i), copying) ELSE Given(i)
    <3>1. Given(i)' = sent[i] \o batch[i] \o chan'[i]
      BY <2>0 DEF Given
    <3>2. CASE i = split
      <4>1. chan'[i] = Append(chan[i], copying)
        BY <1>0, <2>1, <3>2
      <4>2. sent[i] \o batch[i] \o Append(chan[i], copying) = Append(sent[i] \o batch[i] \o chan[i], copying)
        <5>1. sent[i] \in Seq(Int) /\ batch[i] \in Seq(Int) /\ chan[i] \in Seq(Int) /\ copying \in Int
          BY <1>0, <2>0
        <5>2. \A x \in Int :
                sent[i] \o batch[i] \o Append(chan[i], x) = Append(sent[i] \o batch[i] \o chan[i], x)
          BY <5>1, QueueLaws, ZenonT(30)
        <5> QED
          BY <5>1, <5>2, Zenon
      <4> QED
        BY <3>1, <3>2, <4>1, <4>2 DEF Given
    <3>3. CASE i # split
      BY <1>0, <2>1, <3>1, <3>3 DEF Given
    <3> QED
      BY <3>2, <3>3
  <2>4. Copies'
    <3>1. CASE split = NumSinks
      <4>1. split' = 0 /\ \A i \in Sinks : ~Copied(i)' /\ (Copied(i) <=> i # split) /\ i \in Int
        BY <1>0, <2>0, <2>1, <3>1 DEF Copied, Sinks
      <4> QED
        BY <2>0, <2>3, <4>1 DEF Copies
    <3>2. CASE split # NumSinks
      <4>1. /\ split' = split + 1 /\ copying' = copying /\ ~Copied(split)
            /\ \A i \in Sinks : Copied(i)' <=> (Copied(i) \/ i = split)
        BY <1>0, <2>0, <2>1, <3>2, SMTT(30) DEF Copied, Sinks
      <4> QED
        BY <2>0, <2>3, <4>1 DEF Copies
    <3> QED
      BY <3>1, <3>2
  <2> QED
    BY <2>2, <2>4
<1> QED
  BY <1>1, <1>2, <1>3 DEF SplitNext


\* A sink moves its logs from one queue to the next.
LEMMA SinkKept ==
  ASSUME LogTypes, Copies, SinkNext
  PROVE  LogTypes' /\ Copies'
<1>0. /\ SinkCap \in Nat
      /\ chan \in [Sinks -> Seq(Int)] /\ batch \in [Sinks -> Seq(Int)] /\ sent \in [Sinks -> Seq(Int)]
  BY LogAssumption DEF LogTypes
<1>1. ASSUME NEW i \in Sinks, WatchLog(i) PROVE LogTypes' /\ Copies'
  <2>0. /\ chan[i] # <<>> /\ UNCHANGED <<poolVars, teeVars, split, copying, sent, watching>>
        /\ batch' = [batch EXCEPT ![i] = Append(batch[i], Head(chan[i]))]
        /\ chan' = [chan EXCEPT ![i] = Tail(chan[i])]
    BY <1>1 DEF WatchLog
  <2>1. /\ Head(chan[i]) \in Int /\ Tail(chan[i]) \in Seq(Int) /\ Len(Tail(chan[i])) <= SinkCap
    BY <1>0, <2>0 DEF LogTypes
  <2>2. LogTypes'
    <3>1. /\ chan' \in [Sinks -> Seq(Int)] /\ batch' \in [Sinks -> Seq(Int)]
          /\ \A j \in Sinks : Len(chan'[j]) <= SinkCap
      BY <1>0, <2>0, <2>1 DEF LogTypes
    <3> QED
      BY <2>0, <3>1 DEF LogTypes, poolVars, teeVars
  <2>3. ASSUME NEW j \in Sinks PROVE Given(j)' = Given(j)
    <3>1. Given(j)' = sent[j] \o batch'[j] \o chan'[j]
      BY <2>0 DEF Given
    <3>2. CASE j = i
      <4>1. batch'[j] = Append(batch[j], Head(chan[j])) /\ chan'[j] = Tail(chan[j])
        BY <1>0, <2>0, <3>2
      <4>2. sent[j] \o Append(batch[j], Head(chan[j])) \o Tail(chan[j]) = sent[j] \o batch[j] \o chan[j]
        <5>1. sent[j] \in Seq(Int) /\ batch[j] \in Seq(Int) /\ chan[j] \in Seq(Int) /\ chan[j] # <<>>
          BY <1>0, <2>0, <3>2
        <5> QED
          BY <5>1, QueueLaws, Zenon
      <4> QED
        BY <3>1, <4>1, <4>2 DEF Given
    <3>3. CASE j # i
      BY <1>0, <2>0, <3>1, <3>3 DEF Given
    <3> QED
      BY <3>2, <3>3
  <2> QED
    BY <2>0, <2>2, <2>3, SameGiven
<1>2. ASSUME NEW i \in Sinks, SendLogBatch(i) PROVE LogTypes' /\ Copies'
  <2>0. /\ UNCHANGED <<poolVars, teeVars, split, copying, chan, watching>>
        /\ sent' = [sent EXCEPT ![i] = sent[i] \o batch[i]]
        /\ batch' = [batch EXCEPT ![i] = <<>>]
    BY <1>2 DEF SendLogBatch
  <2>1. sent[i] \o batch[i] \in Seq(Int)
    BY <1>0
  <2>2. LogTypes'
    <3>1. sent' \in [Sinks -> Seq(Int)] /\ batch' \in [Sinks -> Seq(Int)]
      BY <1>0, <2>0, <2>1
    <3> QED
      BY <2>0, <3>1 DEF LogTypes, poolVars, teeVars
  <2>3. ASSUME NEW j \in Sinks PROVE Given(j)' = Given(j)
    <3>1. Given(j)' = sent'[j] \o batch'[j] \o chan[j]
      BY <2>0 DEF Given
    <3>2. CASE j = i
      <4>1. sent'[j] = sent[j] \o batch[j] /\ batch'[j] = <<>>
        BY <1>0, <2>0, <3>2
      <4>2. (sent[j] \o batch[j]) \o <<>> \o chan[j] = sent[j] \o batch[j] \o chan[j]
        BY <1>0, QueueLaws
      <4> QED
        BY <3>1, <4>1, <4>2 DEF Given
    <3>3. CASE j # i
      BY <1>0, <2>0, <3>1, <3>3 DEF Given
    <3> QED
      BY <3>2, <3>3
  <2> QED
    BY <2>0, <2>2, <2>3, SameGiven
<1>3. ASSUME NEW i \in Sinks, WatchDone(i) PROVE LogTypes' /\ Copies'
  <2>1. LogTypes'
    BY <1>3 DEF WatchDone, LogTypes, poolVars, teeVars
  <2>2. \A j \in Sinks : Given(j)' = Given(j)
    BY <1>3 DEF WatchDone, Given
  <2> QED
    BY <1>3, <2>1, <2>2, SameGiven DEF WatchDone
<1> QED
  BY <1>1, <1>2, <1>3 DEF SinkNext

\* Steps beside the pool, and steps beside the sinks.
LEMMA PoolFrame == PoolConserved /\ UNCHANGED poolVars => PoolConserved'
BY DEF PoolConserved, poolVars, Holding

LEMMA OutFrame == ASSUME Copies, UNCHANGED outVars PROVE Copies'
<1>1. \A i \in Sinks : Given(i)' = Given(i)
  BY DEF outVars, Given
<1> QED
  BY <1>1, SameGiven DEF outVars

\* One step of the log path.
LEMMA LogStep == LogIInv /\ [Next]_vars => LogIInv'
<1> SUFFICES ASSUME LogIInv, [Next]_vars PROVE LogIInv'
  OBVIOUS
<1>0. LogTypes /\ PoolConserved /\ Copies
  BY DEF LogIInv
<1>1. CASE LoggerNext \/ WriterNext
  <2>1. UNCHANGED outVars
    BY <1>1 DEF LoggerNext, WriterNext, TakeMsg, QueueMsg, WriterTake, PrintTee, WriterFree
  <2> QED
    BY <1>0, <1>1, <2>1, PoolKept, OutFrame DEF LogIInv
<1>2. CASE SplitNext
  <2>1. UNCHANGED poolVars
    BY <1>2 DEF SplitNext, SplitTake, SplitCopy, SplitDone
  <2> QED
    BY <1>0, <1>2, <2>1, SplitKept, PoolFrame DEF LogIInv
<1>3. CASE SinkNext
  <2>1. UNCHANGED poolVars
    BY <1>3 DEF SinkNext, WatchLog, SendLogBatch, WatchDone
  <2> QED
    BY <1>0, <1>3, <2>1, SinkKept, PoolFrame DEF LogIInv
<1>4. CASE Syslog
  <2>1. LogTypes'
    <3>1. syslogs' \in 0 .. MaxSyslogs /\ MaxLogs + syslogs' \in Int
      BY <1>0, <1>4, LogAssumption DEF Syslog, LogTypes
    <3>2. tee' \in Seq(Int) /\ Len(tee') <= TeeCap
      BY <1>0, <1>4, <3>1, LogAssumption DEF Syslog, OfferTee, LogTypes
    <3>3. UNCHANGED <<poolVars, made, outVars>>
      BY <1>4 DEF Syslog
    <3> QED
      BY <1>0, <3>1, <3>2, <3>3 DEF LogTypes, poolVars, outVars
  <2> QED
    BY <1>0, <1>4, <2>1, PoolFrame, OutFrame DEF Syslog, LogIInv
<1>5. CASE Cancel \/ UNCHANGED vars
  <2>1. UNCHANGED <<poolVars, teeVars, outVars>>
    BY <1>5 DEF Cancel, vars
  <2>2. LogTypes'
    BY <1>0, <2>1 DEF LogTypes, poolVars, teeVars, outVars
  <2> QED
    BY <1>0, <2>1, <2>2, PoolFrame, OutFrame DEF LogIInv
<1> QED
  BY <1>1, <1>2, <1>3, <1>4, <1>5 DEF Next

\* A sink that lacks the log that is being copied has a prefix of the others.
LEMMA LogImplies == LogIInv => LogInv
<1> SUFFICES ASSUME LogIInv PROVE LogInv
  OBVIOUS
<1>0. LogTypes /\ PoolConserved /\ Copies
  BY DEF LogIInv
<1>1. TypeOK
  <2>1. free \in Nat /\ Len(messages) \in Nat /\ Cardinality(Holding) \in Nat
    BY <1>0, HoldingCount, LogAssumption DEF LogTypes
  <2>2. Len(messages) <= NumMessages
    BY <1>0, <2>1, LogAssumption DEF PoolConserved
  <2> QED
    BY <1>0, <2>2 DEF LogTypes, TypeOK
<1>2. SameLogsEverywhere
  <2> SUFFICES ASSUME NEW i \in Sinks, NEW j \in Sinks, i < j
               PROVE  IsPrefix(Given(j), Given(i)) /\ Len(Given(i)) <= Len(Given(j)) + 1
    BY DEF SameLogsEverywhere
  <2>1. Given(j) \in Seq(Int) /\ copying \in Int
    BY <1>0, QueueLaws DEF LogTypes, Given
  <2>2. CASE Given(i) = Given(j)
    BY <2>1, <2>2 DEF IsPrefix
  <2>3. CASE Given(i) = Append(Given(j), copying)
    <3> DEFINE g == Given(j)
               a == Append(g, copying)
    <3>1. a \in Seq(Int) /\ Len(a) = Len(g) + 1 /\ Len(g) \in Nat /\ \A k \in 1 .. Len(g) : a[k] = g[k]
      BY <2>1
    <3>2. SubSeq(g, 1, Len(g)) = SubSeq(a, 1, Len(g))
      <4>1. /\ SubSeq(a, 1, Len(g)) \in Seq(Int) /\ Len(SubSeq(a, 1, Len(g))) = Len(g)
            /\ \A k \in 1 .. Len(g) : SubSeq(a, 1, Len(g))[k] = a[k]
        BY <3>1
      <4>2. SubSeq(g, 1, Len(g)) = g
        BY <2>1
      <4> QED
        BY <2>1, <3>1, <4>1, <4>2, SeqEqual
    <3> QED
      BY <2>3, <3>1, <3>2 DEF IsPrefix
  <2>4. ~(Copied(j) /\ ~Copied(i))
    BY <1>0, LogAssumption DEF Copied, LogTypes, Sinks
  <2> QED
    BY <1>0, <2>2, <2>3, <2>4 DEF Copies
<1> QED
  BY <1>0, <1>1, <1>2 DEF LogInv

\* For any number of loggers and sinks and any capacities: the structs of the
\* message pool add up, so neither channel of the logger overflows, and every
\* sink is given the same logs in the same order.
THEOREM LogsAreShared == ServicesSpec => []LogInv
BY LogStart, LogStep, LogImplies, EachAlone, PTL DEF ServicesSpec

-----------------------------------------------------------------------------
(* KentikApi.                                                              *)

\* Types of what the refreshers work with.
RefreshTypes ==
  /\ version \in 1 .. MaxVersion /\ up \in {"boot", "up", "failed"} /\ mux \in Refreshers \cup {NoOne}
  /\ apiPc \in [Refreshers -> {"idle", "waiting", "tests", "agents", "devices", "sites"}]
  /\ apiGen \in [Refreshers -> Nat] /\ apiRead \in [Refreshers -> Seq(Nat)]
  /\ tests \in Seq(Nat) /\ devs \in Seq(Nat) /\ {testsOf, devsOf, begun} \subseteq Nat
  /\ Len(tests) \in {0, NumCreds} /\ Len(devs) \in {0, NumCreds}

\* Only the holder of the mutex is past it; its refresh is the latest, and the
\* tables it has yet to publish are older.
Past == {"tests", "agents", "devices", "sites"}
Guarded ==
  /\ \A t \in Refreshers : apiPc[t] \in Past <=> mux = t
  /\ \A t \in Refreshers :
       /\ apiPc[t] \in Past => apiGen[t] = begun
       /\ apiPc[t] \in {"tests", "agents"} => testsOf < begun
       /\ apiPc[t] = "devices" => testsOf = begun /\ devsOf < begun
  /\ devsOf <= testsOf /\ testsOf <= begun

\* What has been read is as new as the table it will replace, and as the
\* tests that the devices go with.
Reads(t) ==
  /\ apiPc[t] \in {"idle", "waiting"} => apiRead[t] = <<>>
  /\ apiPc[t] \in {"tests", "devices"} => Len(apiRead[t]) < NumCreds
  /\ apiPc[t] = "agents" => Len(apiRead[t]) <= NumCreds
  /\ apiPc[t] \in {"tests", "agents", "devices"} =>
       \A i \in 1 .. Len(apiRead[t]) :
         apiRead[t][i] <= version /\ \A j \in 1 .. Len(tests) : tests[j] <= apiRead[t][i]
  /\ apiPc[t] = "devices" =>
       \A i \in 1 .. Len(apiRead[t]), j \in 1 .. Len(devs) : devs[j] <= apiRead[t][i]
AllReads ==
  /\ \A t \in Refreshers : Reads(t)
  /\ \A j \in 1 .. Len(tests) : tests[j] <= version
  /\ \A j \in 1 .. Len(devs) : devs[j] <= version
  /\ devsOf = testsOf => \A i \in 1 .. Len(tests), j \in 1 .. Len(devs) : tests[i] <= devs[j]

\* Refreshes are numbered within the bound.
Waiting == {t \in Refreshers : apiPc[t] = "waiting"}
Work == lookups \in Nat /\ begun + Cardinality(Waiting) + lookups <= MaxWork

\* Types of the lazy loads.
LoadTypes ==
  /\ asked \in [Kinds -> [Gens -> BOOLEAN]] /\ started \in [Kinds -> [Gens -> Nat]]
  /\ held \in [Callers -> Nat] /\ looking \in [Callers -> {<<>>} \cup (Kinds \X Gens \X BOOLEAN)]
  /\ loads \subseteq [by : Callers, kind : Kinds, gen : Gens, cred : 1 .. NumCreds]

\* A caller sees devices that have been published, and a load is started only
\* for a flag that was read before any load of that device set it.
Seers(k, g) == {c \in Callers : looking[c] = <<k, g, FALSE>>}
Lazy ==
  /\ devs # <<>> => devsOf >= 1
  /\ \A c \in Callers : held[c] <= devsOf /\ (looking[c] # <<>> => looking[c][2] <= devsOf)
  /\ \A l \in loads : l.gen <= devsOf
  /\ \A k \in Kinds, g \in Gens :
       /\ (g > devsOf \/ ~asked[k][g]) => started[k][g] = 0
       /\ started[k][g] + Cardinality(Seers(k, g)) <= Cardinality(Callers)

ApiIInv == RefreshTypes /\ Guarded /\ AllReads /\ Work /\ LoadTypes /\ Lazy

\* There are finitely many refreshers.
LEMMA WaitingFinite == IsFiniteSet(Waiting) /\ Cardinality(Waiting) \in Nat
<1>1. IsFiniteSet({"boot", "timer"}) /\ IsFiniteSet({"boot"}) /\ IsFiniteSet({"timer"})
  <2>1. IsFiniteSet({"boot"}) /\ IsFiniteSet({"timer"})
    BY FS_Singleton
  <2>2. {"boot", "timer"} = {"boot"} \cup {"timer"}
    OBVIOUS
  <2> QED
    BY <2>1, <2>2, FS_Union
<1>2. IsFiniteSet(Refreshers)
  BY <1>1, FS_Union, ApiAssumption DEF Refreshers
<1>3. Waiting \subseteq Refreshers
  BY DEF Waiting
<1> QED
  BY <1>2, <1>3, FS_Subset, FS_CardinalityType

\* Before the first refresh there are no tables.
LEMMA ApiStart == ApiInit => ApiIInv
<1> SUFFICES ASSUME ApiInit PROVE ApiIInv
  OBVIOUS
<1> USE ApiAssumption DEF ApiInit, Refreshers
<1>1. RefreshTypes
  BY DEF RefreshTypes
<1>2. Guarded
  BY DEF Guarded, Past
<1>3. AllReads
  BY DEF AllReads, Reads
<1>4. Work
  <2>1. Waiting = {"boot"}
    BY DEF Waiting
  <2>2. Cardinality(Waiting) = 1
    BY <2>1, FS_Singleton, Zenon
  <2> QED
    BY <2>2 DEF Work
<1>5. LoadTypes
  BY DEF LoadTypes, Gens
<1>6. Lazy
  <2>1. \A k \in Kinds, g \in Gens : Seers(k, g) = {}
    BY DEF Seers
  <2>2. Cardinality({}) = 0 /\ Cardinality(Callers) \in Nat
    BY FS_EmptySet, FS_CardinalityType, Zenon
  <2>3. \A k \in Kinds, g \in Gens : started[k][g] = 0 /\ Cardinality(Seers(k, g)) = 0
    BY <2>1, <2>2
  <2>4. devs = <<>> /\ devsOf = 0 /\ loads = {} /\ \A c \in Callers : held[c] = 0 /\ looking[c] = <<>>
    BY Zenon
  <2> HIDE DEF ApiInit
  <2> QED
    BY <2>2, <2>3, <2>4 DEF Lazy
<1> QED
  BY <1>1, <1>2, <1>3, <1>4, <1>5, <1>6 DEF ApiIInv

\* One more or one less waits for the mutex, or as many as before.
LEMMA WaitingCount ==
  ASSUME apiPc \in [Refreshers -> {"idle", "waiting", "tests", "agents", "devices", "sites"}],
         NEW t \in Refreshers, NEW p, apiPc' = [apiPc EXCEPT ![t] = p]
  PROVE  /\ Cardinality(Waiting) \in Nat /\ Cardinality(Waiting') \in Nat
         /\ p = "waiting" => Cardinality(Waiting') <= Cardinality(Waiting) + 1
         /\ p # "waiting" => Cardinality(Waiting') <= Cardinality(Waiting)
         /\ apiPc[t] = "waiting" /\ p # "waiting" => Cardinality(Waiting') = Cardinality(Waiting) - 1
<1>1. IsFiniteSet(Waiting)
  BY WaitingFinite
<1>2. CASE p = "waiting"
  <2>1. Waiting' = Waiting \cup {t}
    BY <1>2 DEF Waiting
  <2>2. /\ IsFiniteSet(Waiting \cup {t}) /\ Cardinality(Waiting) \in Nat
        /\ \/ Cardinality(Waiting \cup {t}) = Cardinality(Waiting)
           \/ Cardinality(Waiting \cup {t}) = Cardinality(Waiting) + 1
    BY <1>1, FS_AddElement, FS_CardinalityType
  <2> QED
    BY <1>2, <2>1, <2>2
<1>3. CASE p # "waiting"
  <2>1. Waiting' = Waiting \ {t} /\ (apiPc[t] = "waiting" => t \in Waiting)
    BY <1>3 DEF Waiting
  <2> QED
    BY <1>1, <1>3, <2>1, FS_RemoveElement, FS_CardinalityType
<1> QED
  BY <1>2, <1>3


\* The replies are versions.
LEMMA ReplyValues ==
  RefreshTypes =>
    /\ \A t \in Refreshers : /\ apiRead[t] \in Seq(Nat) /\ Len(apiRead[t]) \in Nat
                             /\ \A i \in 1 .. Len(apiRead[t]) : apiRead[t][i] \in Nat
    /\ \A i \in 1 .. Len(tests) : tests[i] \in Nat
    /\ \A i \in 1 .. Len(devs) : devs[i] \in Nat
    /\ version \in Nat /\ begun \in Nat /\ testsOf \in Nat /\ devsOf \in Nat
<1> SUFFICES ASSUME RefreshTypes
             PROVE  /\ \A t \in Refreshers : /\ apiRead[t] \in Seq(Nat) /\ Len(apiRead[t]) \in Nat
                                             /\ \A i \in 1 .. Len(apiRead[t]) : apiRead[t][i] \in Nat
                    /\ \A i \in 1 .. Len(tests) : tests[i] \in Nat
                    /\ \A i \in 1 .. Len(devs) : devs[i] \in Nat
                    /\ version \in Nat /\ begun \in Nat /\ testsOf \in Nat /\ devsOf \in Nat
  OBVIOUS
<1>1. \A s \in Seq(Nat) : Len(s) \in Nat /\ \A i \in 1 .. Len(s) : s[i] \in Nat
  OBVIOUS
<1>2. (\A t \in Refreshers : apiRead[t] \in Seq(Nat)) /\ tests \in Seq(Nat) /\ devs \in Seq(Nat)
  BY DEF RefreshTypes
<1>3. version \in Nat /\ begun \in Nat /\ testsOf \in Nat /\ devsOf \in Nat
  BY ApiAssumption DEF RefreshTypes
<1> QED
  BY <1>1, <1>2, <1>3, Zenon

\* All but the bound on the work and the lazy loads.
RefreshInv == RefreshTypes /\ Guarded /\ AllReads

\* A refresher asks, takes the mutex, reads and returns; a lookup and the
\* server's changes leave the refreshers alone.
LEMMA RefreshKept == ASSUME RefreshInv, ApiNext PROVE RefreshInv'
<1> USE ApiAssumption
<1>0. RefreshTypes /\ Guarded /\ AllReads
  BY DEF RefreshInv
<1>1. CASE /\ UNCHANGED <<up, mux, apiPc, apiGen, apiRead, tableVars, begun>>
           /\ version' \in 1 .. MaxVersion /\ version <= version'
  <2>1. RefreshTypes'
    BY <1>0, <1>1 DEF RefreshTypes, tableVars
  <2>a. Guarded'
    BY <1>0, <1>1 DEF Guarded, Past, tableVars
  <2>2. AllReads'
    <3>1. /\ \A t \in Refreshers : \A i \in 1 .. Len(apiRead[t]) : apiRead[t][i] \in Nat
          /\ \A j \in 1 .. Len(tests) : tests[j] \in Nat
          /\ \A j \in 1 .. Len(devs) : devs[j] \in Nat
          /\ version \in Nat /\ version' \in Nat /\ version <= version'
      BY <1>0, <1>1, ReplyValues
    <3>2. UNCHANGED <<apiPc, apiRead, tests, devs, testsOf, devsOf>>
      BY <1>1 DEF tableVars
    <3>3. \A t \in Refreshers : Reads(t)'
      BY <1>0, <3>1, <3>2 DEF AllReads, Reads
    <3> QED
      BY <1>0, <3>1, <3>2, <3>3 DEF AllReads
  <2> QED
    BY <2>1, <2>a, <2>2 DEF RefreshInv
<1>2. ASSUME NEW t \in Refreshers, Ask(t) PROVE RefreshInv'
  <2> USE <1>0, <1>2 DEF Ask, tableVars
  <2>1. RefreshTypes'
    BY DEF RefreshTypes
  <2>2. Guarded'
    BY DEF RefreshTypes, Guarded, Past
  <2>3. AllReads'
    BY DEF RefreshTypes, AllReads, Reads
  <2> QED
    BY <2>1, <2>2, <2>3 DEF RefreshInv
<1>3. ASSUME NEW t \in Refreshers, EnterRefresh(t) PROVE RefreshInv'
  <2> USE <1>0, <1>3 DEF EnterRefresh, tableVars
  <2>1. RefreshTypes'
    BY DEF RefreshTypes
  <2>2. Guarded'
    BY DEF RefreshTypes, Guarded, Past, Refreshers
  <2>3. AllReads'
    BY DEF RefreshTypes, AllReads, Reads
  <2> QED
    BY <2>1, <2>2, <2>3 DEF RefreshInv
<1>4. ASSUME NEW t \in Refreshers, ListTests(t) PROVE RefreshInv'
  <2> USE <1>0, <1>4 DEF ListTests, tableVars
  <2>0. apiRead[t] \in Seq(Nat) /\ version \in Nat /\ apiRead \in [Refreshers -> Seq(Nat)]
    BY DEF RefreshTypes
  <2>a. /\ Append(apiRead[t], version) \in Seq(Nat) /\ Len(Append(apiRead[t], version)) = Len(apiRead[t]) + 1
        /\ \A i \in 1 .. Len(apiRead[t]) : Append(apiRead[t], version)[i] = apiRead[t][i]
        /\ Append(apiRead[t], version)[Len(apiRead[t]) + 1] = version /\ Len(apiRead[t]) \in Nat
    BY <2>0
  <2>1. RefreshTypes'
    BY <2>a DEF RefreshTypes
  <2>2. Guarded'
    BY DEF RefreshTypes, Guarded, Past
  <2>3. AllReads'
    <3>1. apiRead'[t] = Append(apiRead[t], version) /\ apiPc'[t] = "agents"
      BY <2>0 DEF RefreshTypes
    <3>2. Len(apiRead[t]) < NumCreds /\ \A j \in 1 .. Len(tests) : tests[j] <= version
      BY DEF AllReads, Reads
    <3>3. \A i \in 1 .. Len(apiRead[t]) :
            apiRead[t][i] <= version /\ \A j \in 1 .. Len(tests) : tests[j] <= apiRead[t][i]
      BY DEF AllReads, Reads
    <3>4. Reads(t)'
      <4> HIDE <1>0, <1>4 DEF ListTests
      <4>1. \A i \in 1 .. Len(apiRead'[t]) : i \in 1 .. Len(apiRead[t]) \/ i = Len(apiRead[t]) + 1
        BY <2>a, <3>1
      <4>2. version' = version /\ tests' = tests
        BY <1>4 DEF ListTests
      <4>3. Len(apiRead'[t]) <= NumCreds
        BY <2>a, <3>1, <3>2
      <4>4. \A i \in 1 .. Len(apiRead'[t]) :
              apiRead'[t][i] <= version /\ \A j \in 1 .. Len(tests) : tests[j] <= apiRead'[t][i]
        BY <2>0, <2>a, <3>1, <3>2, <3>3, <4>1
      <4> QED
        BY <3>1, <4>2, <4>3, <4>4 DEF Reads
    <3>5. \A u \in Refreshers \ {t} : Reads(u)'
      BY DEF Reads, RefreshTypes, AllReads
    <3> QED
      BY <3>4, <3>5 DEF AllReads
  <2> QED
    BY <2>1, <2>2, <2>3 DEF RefreshInv
<1>5. ASSUME NEW t \in Refreshers, ListAgents(t) PROVE RefreshInv'
  <2> USE <1>0, <1>5 DEF ListAgents
  <2>0. /\ apiRead[t] \in Seq(Nat) /\ Len(apiRead[t]) \in Nat /\ version \in Nat
        /\ \A i \in 1 .. Len(apiRead[t]) : apiRead[t][i] \in Nat
        /\ \A i \in 1 .. Len(tests) : tests[i] \in Nat
        /\ begun \in Nat /\ testsOf \in Nat /\ devsOf \in Nat
    BY <1>0, ReplyValues
  <2>1. RefreshTypes'
    BY SMTT(30) DEF RefreshTypes
  <2>2. Guarded'
    <3>1. apiGen[t] = begun /\ devsOf <= testsOf /\ testsOf < begun /\ mux = t
      BY DEF Guarded, Past
    <3> QED
      BY <2>0, <3>1 DEF RefreshTypes, Guarded, Past
  <2>3. AllReads'
    <3>1. Reads(t) /\ apiPc[t] = "agents" /\ Len(apiRead[t]) <= NumCreds /\ apiGen[t] = begun /\ devsOf < begun
      BY <2>0 DEF AllReads, Reads, Guarded, Past
    <3>2. CASE Len(apiRead[t]) = NumCreds
      <4>1. /\ tests' = apiRead[t] /\ testsOf' = begun /\ UNCHANGED <<version, devs, devsOf>>
            /\ apiPc' = [apiPc EXCEPT ![t] = "devices"] /\ apiRead' = [apiRead EXCEPT ![t] = <<>>]
        BY <3>1, <3>2
      <4>2. \A u \in Refreshers \ {t} : apiPc[u] \notin Past
        BY DEF Guarded, Past
      <4>3. \A u \in Refreshers : Reads(u)'
        <5>1. \A u \in Refreshers \ {t} : Reads(u)'
          <6> HIDE <1>5
          <6> QED
            BY <4>1, <4>2 DEF Reads, RefreshTypes, AllReads, Past
        <5>2. Reads(t)'
          <6>1. apiPc'[t] = "devices" /\ apiRead'[t] = <<>>
            BY <4>1 DEF RefreshTypes
          <6> HIDE <1>0, <1>5
          <6> QED
            BY <6>1 DEF Reads
        <5> QED
          BY <5>1, <5>2
      <4> HIDE <1>5 DEF ListAgents
      <4> QED
        <5>1. \A j \in 1 .. Len(tests') : tests'[j] <= version'
          BY <3>1, <4>1 DEF Reads
        <5>2. devsOf' # testsOf' /\ \A j \in 1 .. Len(devs') : devs'[j] <= version'
          BY <2>0, <3>1, <4>1 DEF AllReads
        <5> QED
          BY <4>3, <5>1, <5>2 DEF AllReads
    <3>3. CASE Len(apiRead[t]) # NumCreds
      <4>1. /\ UNCHANGED <<tests, testsOf, version, devs, devsOf>>
            /\ apiPc' = [apiPc EXCEPT ![t] = "tests"] /\ apiRead' = apiRead
        BY <3>3 DEF RefreshTypes
      <4>3. \A u \in Refreshers : Reads(u)'
        BY <4>1, <2>0, <3>1, <3>3 DEF Reads, RefreshTypes, AllReads
      <4> QED
        BY <4>1, <4>3 DEF AllReads
    <3> QED
      BY <3>2, <3>3
  <2> QED
    BY <2>1, <2>2, <2>3 DEF RefreshInv
<1>6. ASSUME NEW t \in Refreshers, NEW full, ListDevices(t, full) PROVE RefreshInv'
  <2> DEFINE longer == Append(apiRead[t], version)
  <2> USE <1>0
  <2>0. /\ apiRead[t] \in Seq(Nat) /\ Len(apiRead[t]) \in Nat /\ version \in Nat
        /\ \A i \in 1 .. Len(apiRead[t]) : apiRead[t][i] \in Nat
        /\ \A i \in 1 .. Len(tests) : tests[i] \in Nat
        /\ \A i \in 1 .. Len(devs) : devs[i] \in Nat
        /\ begun \in Nat /\ testsOf \in Nat /\ devsOf \in Nat /\ apiPc[t] = "devices"
    BY <1>0, <1>6, ReplyValues DEF ListDevices
  <2>a. /\ longer \in Seq(Nat) /\ Len(longer) = Len(apiRead[t]) + 1
        /\ \A i \in 1 .. Len(apiRead[t]) : longer[i] = apiRead[t][i]
        /\ longer[Len(apiRead[t]) + 1] = version
    BY <2>0
  <2>b. /\ apiGen[t] = begun /\ testsOf = begun /\ devsOf < begun /\ mux = t
        /\ \A u \in Refreshers \ {t} : apiPc[u] \notin Past
    BY <2>0 DEF Guarded, Past
  <2>c. /\ \A i \in 1 .. Len(longer) : longer[i] \in Nat /\ longer[i] <= version
        /\ \A i \in 1 .. Len(longer) : \A j \in 1 .. Len(tests) : tests[j] <= longer[i]
        /\ \A i \in 1 .. Len(longer) : \A j \in 1 .. Len(devs) : devs[j] <= longer[i]
    <3>1. \A i \in 1 .. Len(longer) : i \in 1 .. Len(apiRead[t]) \/ i = Len(apiRead[t]) + 1
      BY <2>0, <2>a
    <3> HIDE DEF longer
    <3>2. /\ \A i \in 1 .. Len(apiRead[t]) :
               /\ apiRead[t][i] <= version /\ \A j \in 1 .. Len(tests) : tests[j] <= apiRead[t][i]
               /\ \A j \in 1 .. Len(devs) : devs[j] <= apiRead[t][i]
          /\ \A j \in 1 .. Len(tests) : tests[j] <= version
          /\ \A j \in 1 .. Len(devs) : devs[j] <= version
      BY <2>0 DEF AllReads, Reads
    <3> SUFFICES ASSUME NEW i \in 1 .. Len(longer)
                 PROVE  /\ longer[i] \in Nat /\ longer[i] <= version
                        /\ \A j \in 1 .. Len(tests) : tests[j] <= longer[i]
                        /\ \A j \in 1 .. Len(devs) : devs[j] <= longer[i]
      OBVIOUS
    <3> HIDE <1>0
    <3>3. CASE i \in 1 .. Len(apiRead[t])
      BY <2>0, <2>a, <3>2, <3>3
    <3>4. CASE i = Len(apiRead[t]) + 1
      BY <2>0, <2>a, <3>2, <3>4
    <3> QED
      BY <3>1, <3>3, <3>4
  <2>d. /\ UNCHANGED <<version, up, mux, apiGen, tests, testsOf, begun>>
        /\ \/ /\ Len(longer) = NumCreds
              /\ apiPc' = [apiPc EXCEPT ![t] = "sites"] /\ apiRead' = [apiRead EXCEPT ![t] = <<>>]
              /\ devs' = longer /\ devsOf' = apiGen[t]
           \/ /\ Len(longer) # NumCreds
              /\ apiPc' = [apiPc EXCEPT ![t] = "devices"] /\ apiRead' = [apiRead EXCEPT ![t] = longer]
              /\ devs' = devs /\ devsOf' = devsOf
    BY <1>6 DEF ListDevices
  <2>e. Len(apiRead[t]) < NumCreds
    BY <2>0 DEF AllReads, Reads
  <2> HIDE DEF longer
  <2>1. RefreshTypes'
    <3>1. devsOf' \in Nat /\ devs' \in Seq(Nat) /\ Len(devs') \in {0, NumCreds}
      <4>1. CASE devs' = devs /\ devsOf' = devsOf
        BY <1>0, <2>0, <4>1 DEF RefreshTypes
      <4>2. CASE devs' = longer /\ devsOf' = apiGen[t] /\ Len(longer) = NumCreds
        BY <2>0, <2>a, <2>b, <4>2
      <4> QED
        BY <2>d, <4>1, <4>2
    <3>2. apiRead' \in [Refreshers -> Seq(Nat)]
      <4>1. apiRead \in [Refreshers -> Seq(Nat)] /\ longer \in Seq(Nat) /\ <<>> \in Seq(Nat)
        BY <1>0, <2>a DEF RefreshTypes
      <4>2. apiRead' = [apiRead EXCEPT ![t] = <<>>] \/ apiRead' = [apiRead EXCEPT ![t] = longer]
        BY <2>d
      <4> HIDE <1>0
      <4> QED
        BY <4>1, <4>2
    <3>3. apiPc' \in [Refreshers -> {"idle", "waiting", "tests", "agents", "devices", "sites"}]
      BY <2>d DEF RefreshTypes
    <3> QED
      BY <2>d, <3>1, <3>2, <3>3 DEF RefreshTypes
  <2>2. Guarded'
    BY <2>0, <2>b, <2>d DEF RefreshTypes, Guarded, Past
  <2>3. AllReads'
    <3>1. \A u \in Refreshers \ {t} : Reads(u)'
      BY <2>b, <2>d DEF Reads, RefreshTypes, AllReads, Past
    <3>2. Reads(t)'
      <4>1. CASE Len(longer) = NumCreds
        BY <2>d, <4>1 DEF Reads, RefreshTypes
      <4>2. CASE Len(longer) # NumCreds
        <5>1. apiPc'[t] = "devices" /\ apiRead'[t] = longer /\ UNCHANGED <<version, devs, tests>>
          BY <2>d, <4>2 DEF RefreshTypes
        <5>2. Len(longer) < NumCreds
          BY <2>0, <2>a, <2>e, <4>2, ApiAssumption
        <5> HIDE <1>0
        <5> QED
          BY <2>c, <5>1, <5>2 DEF Reads
      <4> QED
        BY <4>1, <4>2
    <3> QED
      BY <2>0, <2>b, <2>c, <2>d, <3>1, <3>2 DEF AllReads
  <2> QED
    BY <2>1, <2>2, <2>3 DEF RefreshInv
<1>7. ASSUME NEW t \in Refreshers, NEW ok, Return(t, ok), apiPc[t] \in Past, UNCHANGED <<version, tableVars, begun>>
      PROVE  RefreshInv'
  <2> USE <1>0, <1>7 DEF Return, tableVars, Past
  <2>1. RefreshTypes'
    BY DEF RefreshTypes
  <2>2. Guarded'
    BY DEF RefreshTypes, Guarded, Refreshers
  <2>3. AllReads'
    BY DEF RefreshTypes, AllReads, Reads
  <2> QED
    BY <2>1, <2>2, <2>3 DEF RefreshInv
<1>8. ASSUME NEW t \in Refreshers, ListSites(t) PROVE RefreshInv'
  <2>1. CASE Return(t, TRUE)
    BY <1>7, <1>8, <2>1 DEF ListSites, Past
  <2>2. CASE ~Return(t, TRUE)
    <3> USE <1>0, <1>8, <2>2 DEF ListSites, tableVars
    <3>1. RefreshTypes'
      <4>1. Append(apiRead[t], version) \in Seq(Nat)
        BY ReplyValues
      <4> QED
        BY <4>1 DEF RefreshTypes
    <3>2. Guarded'
      BY DEF Guarded, Past
    <3>3. AllReads'
      BY DEF RefreshTypes, AllReads, Reads
    <3> QED
      BY <3>1, <3>2, <3>3 DEF RefreshInv
  <2> QED
    BY <2>1, <2>2
<1>9. ASSUME NEW t \in Refreshers, Unimplemented(t) \/ CallFails(t) PROVE RefreshInv'
  BY <1>7, <1>9 DEF Unimplemented, CallFails, Past
<1>10. CASE \E t \in Refreshers : RefreshStep(t)
  BY <1>3, <1>4, <1>5, <1>6, <1>8, <1>9, <1>10 DEF RefreshStep
<1>11. CASE CacheTick \/ \E t \in Demands : UpdateTests(t)
  BY <1>2, <1>11 DEF CacheTick, UpdateTests, Refreshers
<1>12. CASE ServerChanges \/ MinutePasses
  BY <1>0, <1>1, <1>12 DEF ServerChanges, MinutePasses, RefreshTypes
<1>13. CASE \/ \E c \in Callers : GetDevice(c) \/ GetInterface(c) \/ SetFlag(c)
            \/ \E l \in loads : LoadReply(l) \/ LoadFails(l) \/ LoadUnimplemented(l)
  <2>1. UNCHANGED <<up, mux, apiPc, apiGen, apiRead, tableVars, begun, version>>
    BY <1>13 DEF GetDevice, GetInterface, SetFlag, LoadReply, LoadFails, LoadUnimplemented
  <2> QED
    BY <1>0, <1>1, <2>1 DEF RefreshTypes
<1> QED
  BY <1>10, <1>11, <1>12, <1>13 DEF ApiNext


\* The bound on the work counts the refreshes that wait.
LEMMA WorkKept == ASSUME RefreshTypes, Guarded, Work, ApiNext PROVE Work'
<1>0. Cardinality(Waiting) \in Nat /\ begun \in Nat /\ lookups \in Nat /\ MaxWork \in Nat
  BY WaitingFinite, ApiAssumption DEF RefreshTypes, Work
<1>1. CASE UNCHANGED <<apiPc, begun, lookups>>
  BY <1>1 DEF Work, Waiting
<1>2. ASSUME NEW t \in Refreshers, Ask(t) PROVE Work'
  <2>1. begun + Cardinality(Waiting) + lookups < MaxWork
    BY <1>2 DEF Ask, MoreWork, Waiting
  <2>2. Cardinality(Waiting') \in Nat /\ Cardinality(Waiting') <= Cardinality(Waiting) + 1
    BY <1>2, WaitingCount DEF RefreshTypes, Ask
  <2> QED
    BY <1>0, <1>2, <2>1, <2>2 DEF Work, Ask, loadVars
<1>3. ASSUME NEW t \in Refreshers, EnterRefresh(t) PROVE Work'
  <2>a. /\ apiPc[t] = "waiting" /\ apiPc' = [apiPc EXCEPT ![t] = "tests"]
        /\ apiPc \in [Refreshers -> {"idle", "waiting", "tests", "agents", "devices", "sites"}]
    BY <1>3 DEF EnterRefresh, RefreshTypes
  <2>1. Cardinality(Waiting') \in Nat /\ Cardinality(Waiting') = Cardinality(Waiting) - 1
    <3>1. "tests" # "waiting"
      OBVIOUS
    <3> QED
      BY <2>a, <3>1, WaitingCount, Zenon
  <2> QED
    BY <1>0, <1>3, <2>1 DEF Work, EnterRefresh, loadVars
<1>4. ASSUME NEW t \in Refreshers, NEW p, p # "waiting", apiPc' = [apiPc EXCEPT ![t] = p], UNCHANGED <<begun, lookups>>
      PROVE  Work'
  <2>1. Cardinality(Waiting') \in Nat /\ Cardinality(Waiting') <= Cardinality(Waiting)
    BY <1>4, WaitingCount DEF RefreshTypes
  <2> QED
    BY <1>0, <1>4, <2>1 DEF Work
<1>5. CASE \E t \in Refreshers : RefreshStep(t)
  <2> PICK t \in Refreshers : RefreshStep(t)
    BY <1>5
  <2>1. CASE ListTests(t)
    BY <1>4, <2>1 DEF ListTests, loadVars
  <2>2. CASE ListAgents(t)
    <3>1. \/ apiPc' = [apiPc EXCEPT ![t] = "devices"]
          \/ apiPc' = [apiPc EXCEPT ![t] = "tests"]
      BY <2>2 DEF ListAgents
    <3> QED
      BY <1>4, <2>2, <3>1 DEF ListAgents, loadVars
  <2>3. CASE \E full \in {{}, Kinds} : ListDevices(t, full)
    BY <1>4, <2>3 DEF ListDevices
  <2>4. CASE ListSites(t)
    BY <1>1, <1>4, <2>4 DEF ListSites, Return, loadVars
  <2>5. CASE Unimplemented(t) \/ CallFails(t)
    BY <1>4, <2>5 DEF Unimplemented, CallFails, Return, loadVars
  <2> QED
    BY <1>3, <2>1, <2>2, <2>3, <2>4, <2>5 DEF RefreshStep
<1>6. CASE CacheTick \/ \E t \in Demands : UpdateTests(t)
  BY <1>2, <1>6 DEF CacheTick, UpdateTests, Refreshers
<1>7. ASSUME NEW c, Lookup(c), UNCHANGED <<apiPc, begun>> PROVE Work'
  BY <1>0, <1>7 DEF Lookup, MoreWork, Work, Waiting
<1>8. CASE \E c \in Callers : GetDevice(c) \/ GetInterface(c) \/ SetFlag(c)
  BY <1>1, <1>7, <1>8 DEF GetDevice, GetInterface, SetFlag
<1>9. CASE ServerChanges \/ MinutePasses \/ \E l \in loads : LoadReply(l) \/ LoadFails(l) \/ LoadUnimplemented(l)
  BY <1>1, <1>9 DEF ServerChanges, MinutePasses, LoadReply, LoadFails, LoadUnimplemented, loadVars
<1> QED
  BY <1>5, <1>6, <1>8, <1>9 DEF ApiNext


\* At most every caller has seen the flag unset.
LEMMA SeersFinite ==
  \A k, g : /\ IsFiniteSet(Seers(k, g)) /\ Cardinality(Seers(k, g)) \in Nat
            /\ Cardinality(Seers(k, g)) <= Cardinality(Callers) /\ Cardinality(Callers) \in Nat
<1> TAKE k, g
<1>1. Seers(k, g) \subseteq Callers /\ IsFiniteSet(Callers)
  BY ApiAssumption DEF Seers
<1> QED
  BY <1>1, FS_Subset, FS_CardinalityType

\* A step that starts no load.
LEMMA LazyFrame ==
  ASSUME LoadTypes, Lazy, devsOf \in Nat, devsOf' \in Nat, devsOf <= devsOf',
         devs' = devs \/ devsOf' >= 1, held' = held, looking' = looking,
         \A l \in loads' : \E m \in loads : l.gen = m.gen,
         started' = started,
         \A k \in Kinds, g \in Gens : ~asked'[k][g] => ~asked[k][g] \/ started[k][g] = 0
  PROVE  Lazy'
<1>1. \A k, g : Seers(k, g)' = Seers(k, g)
  BY DEF Seers
<1>2. (devs # <<>> => devsOf >= 1)'
  BY DEF Lazy
<1>3. (\A c \in Callers : held[c] <= devsOf /\ (looking[c] # <<>> => looking[c][2] <= devsOf))'
  <2> SUFFICES ASSUME NEW c \in Callers
               PROVE  held[c] <= devsOf' /\ (looking[c] # <<>> => looking[c][2] <= devsOf')
    OBVIOUS
  <2>1. held[c] \in Nat /\ held[c] <= devsOf
    BY DEF LoadTypes, Lazy
  <2>2. looking[c] # <<>> => looking[c][2] \in Nat /\ looking[c][2] <= devsOf
    BY ApiAssumption DEF LoadTypes, Lazy, Gens
  <2> QED
    BY <2>1, <2>2
<1>4. (\A l \in loads : l.gen <= devsOf)'
  <2> SUFFICES ASSUME NEW l \in loads' PROVE l.gen <= devsOf'
    OBVIOUS
  <2>1. PICK m \in loads : l.gen = m.gen
    OBVIOUS
  <2>2. m.gen \in Nat /\ m.gen <= devsOf
    BY ApiAssumption DEF LoadTypes, Lazy, Gens
  <2> QED
    BY <2>1, <2>2
<1>5. (\A k \in Kinds, g \in Gens : (g > devsOf \/ ~asked[k][g]) => started[k][g] = 0)'
  <2> SUFFICES ASSUME NEW k \in Kinds, NEW g \in Gens, g > devsOf' \/ ~asked'[k][g] PROVE started[k][g] = 0
    OBVIOUS
  <2>1. CASE g > devsOf'
    <3>1. g > devsOf
      BY <2>1, ApiAssumption DEF Gens
    <3> QED
      BY <3>1 DEF Lazy
  <2>2. CASE ~asked'[k][g]
    BY <2>2, Zenon DEF Lazy
  <2> QED
    BY <2>1, <2>2
<1>6. (\A k \in Kinds, g \in Gens : started[k][g] + Cardinality(Seers(k, g)) <= Cardinality(Callers))'
  BY <1>1 DEF Lazy
<1> QED
  BY <1>2, <1>3, <1>4, <1>5, <1>6 DEF Lazy


\* A caller that finds the flag unset counts before it starts its load.
LEMMA LazyKept == ASSUME ApiIInv, ApiNext PROVE LoadTypes' /\ Lazy'
<1>0. /\ RefreshTypes /\ Guarded /\ AllReads /\ Work /\ LoadTypes /\ Lazy
      /\ devsOf \in Nat /\ begun \in Nat /\ MaxWork \in Nat /\ devsOf <= begun /\ begun <= MaxWork
  <2>1. RefreshTypes /\ Guarded /\ AllReads /\ Work /\ LoadTypes /\ Lazy
    BY DEF ApiIInv
  <2>2. /\ devsOf \in Nat /\ begun \in Nat /\ testsOf \in Nat /\ MaxWork \in Nat /\ lookups \in Nat
        /\ Cardinality(Waiting) \in Nat
    BY <2>1, ReplyValues, WaitingFinite, ApiAssumption DEF Work
  <2>3. devsOf <= testsOf /\ testsOf <= begun /\ begun + Cardinality(Waiting) + lookups <= MaxWork
    BY <2>1 DEF Guarded, Work
  <2> QED
    BY <2>1, <2>2, <2>3
<1>1. CASE UNCHANGED <<devs, devsOf, loadVars>>
  <2>1. LoadTypes'
    BY <1>0, <1>1 DEF LoadTypes, loadVars
  <2> QED
    BY <1>0, <1>1, <2>1, LazyFrame DEF loadVars
<1>2. ASSUME NEW t \in Refreshers, NEW full \in {{}, Kinds}, ListDevices(t, full) PROVE LoadTypes' /\ Lazy'
  <2> DEFINE n == apiGen[t]
  <2>1. n = begun /\ devsOf < begun /\ n \in Nat /\ n >= 1
    BY <1>0, <1>2 DEF ListDevices, Guarded, Past
  <2>2. /\ devsOf' = n \/ (devsOf' = devsOf /\ devs' = devs)
        /\ asked' = [k \in Kinds |-> [asked[k] EXCEPT ![n] = k \in full]]
        /\ UNCHANGED <<held, looking, loads, started>>
    BY <1>2 DEF ListDevices
  <2> HIDE DEF n
  <2>3. LoadTypes'
    <3>1. asked' \in [Kinds -> [Gens -> BOOLEAN]]
      <4>1. \A k \in Kinds : asked[k] \in [Gens -> BOOLEAN] /\ (k \in full) \in BOOLEAN
        BY <1>0 DEF LoadTypes
      <4> QED
        BY <2>2, <4>1, Zenon
    <3> QED
      BY <1>0, <2>2, <3>1 DEF LoadTypes
  <2>4. \A k \in Kinds, g \in Gens : ~asked'[k][g] => ~asked[k][g] \/ started[k][g] = 0
    <3> SUFFICES ASSUME NEW k \in Kinds, NEW g \in Gens, ~asked'[k][g] PROVE ~asked[k][g] \/ started[k][g] = 0
      OBVIOUS
    <3>1. CASE g = n
      BY <1>0, <2>1, <3>1 DEF Lazy
    <3>2. CASE g # n
      <4>1. asked[k] \in [Gens -> BOOLEAN]
        BY <1>0 DEF LoadTypes
      <4>2. asked'[k][g] = asked[k][g]
        BY <2>2, <3>2, <4>1, Zenon
      <4> QED
        BY <4>2
    <3> QED
      BY <3>1, <3>2
  <2>5. devsOf' \in Nat /\ devsOf <= devsOf' /\ (devs' = devs \/ devsOf' >= 1)
    BY <1>0, <2>1, <2>2
  <2> QED
    BY <1>0, <2>2, <2>3, <2>4, <2>5, LazyFrame
<1>3. ASSUME NEW c \in Callers, NEW k \in Kinds, NEW g \in Gens, g <= devsOf, looking[c] = <<>>,
             looking' = [looking EXCEPT ![c] = <<k, g, asked[k][g]>>],
             held' = held \/ held' = [held EXCEPT ![c] = devsOf],
             UNCHANGED <<devs, devsOf, asked, loads, started>>
      PROVE  LoadTypes' /\ Lazy'
  <2>1. asked[k][g] \in BOOLEAN /\ <<k, g, asked[k][g]>> \in Kinds \X Gens \X BOOLEAN
    BY <1>0 DEF LoadTypes
  <2>2. LoadTypes'
    <3>1. looking' \in [Callers -> {<<>>} \cup (Kinds \X Gens \X BOOLEAN)] /\ held' \in [Callers -> Nat]
      BY <1>0, <1>3, <2>1 DEF LoadTypes
    <3> QED
      BY <1>0, <1>3, <3>1 DEF LoadTypes
  <2>3. (\A d \in Callers : held[d] <= devsOf /\ (looking[d] # <<>> => looking[d][2] <= devsOf))'
    <3> SUFFICES ASSUME NEW d \in Callers
                 PROVE  held'[d] <= devsOf /\ (looking'[d] # <<>> => looking'[d][2] <= devsOf)
      BY <1>3
    <3>1. CASE d = c
      <4>1. looking'[c] = <<k, g, asked[k][g]>> /\ (held'[c] = held[c] \/ held'[c] = devsOf)
        BY <1>0, <1>3 DEF LoadTypes
      <4> QED
        BY <1>0, <1>3, <3>1, <4>1 DEF Lazy
    <3>2. CASE d # c
      BY <1>0, <1>3, <3>2 DEF LoadTypes, Lazy
    <3> QED
      BY <3>1, <3>2
  <2>4. (\A j \in Kinds, h \in Gens : started[j][h] + Cardinality(Seers(j, h)) <= Cardinality(Callers))'
    <3> SUFFICES ASSUME NEW j \in Kinds, NEW h \in Gens
                 PROVE  started[j][h] + Cardinality(Seers(j, h)') <= Cardinality(Callers)
      BY <1>3
    <3>1. started[j][h] \in Nat
      BY <1>0 DEF LoadTypes
    <3>2. CASE ~asked[j][h]
      <4>1. started[j][h] = 0
        BY <1>0, <3>2 DEF Lazy
      <4>2. Cardinality(Seers(j, h)') \in Nat /\ Cardinality(Seers(j, h)') <= Cardinality(Callers)
        <5>1. Seers(j, h)' \subseteq Callers /\ IsFiniteSet(Callers)
          BY ApiAssumption DEF Seers
        <5> QED
          BY <5>1, FS_Subset, FS_CardinalityType
      <4> QED
        BY <4>1, <4>2
    <3>3. CASE asked[j][h]
      <4>1. Seers(j, h)' = Seers(j, h)
        <5> SUFFICES ASSUME NEW d \in Callers PROVE (looking'[d] = <<j, h, FALSE>>) <=> (looking[d] = <<j, h, FALSE>>)
          BY DEF Seers
        <5>1. CASE d # c
          BY <1>0, <1>3, <5>1 DEF LoadTypes
        <5>2. CASE d = c
          <6>1. looking'[c] = <<k, g, asked[k][g]>> /\ looking[c] = <<>>
            BY <1>0, <1>3 DEF LoadTypes
          <6>2. <<>> # <<j, h, FALSE>>
            OBVIOUS
          <6>3. <<k, g, asked[k][g]>> # <<j, h, FALSE>>
            BY <3>3
          <6> QED
            BY <5>2, <6>1, <6>2, <6>3
        <5> QED
          BY <5>1, <5>2
      <4> QED
        BY <1>0, <4>1 DEF Lazy
    <3> QED
      BY <3>2, <3>3
  <2>5. (\A j \in Kinds, h \in Gens : (h > devsOf \/ ~asked[j][h]) => started[j][h] = 0)' /\ (devs # <<>> => devsOf >= 1)'
        /\ (\A l \in loads : l.gen <= devsOf)'
    BY <1>0, <1>3 DEF Lazy
  <2> QED
    BY <2>2, <2>3, <2>4, <2>5 DEF Lazy
<1>4. ASSUME NEW c \in Callers, GetDevice(c) PROVE LoadTypes' /\ Lazy'
  <2>1. devsOf \in Gens /\ devsOf >= 1
    BY <1>0, <1>4 DEF GetDevice, Lazy, Gens
  <2>2. CASE "customs" \in Kinds
    <3>1. devsOf <= devsOf
      BY <1>0
    <3>2. /\ looking[c] = <<>> /\ looking' = [looking EXCEPT ![c] = <<"customs", devsOf, asked["customs"][devsOf]>>]
          /\ held' = [held EXCEPT ![c] = devsOf] /\ UNCHANGED <<devs, devsOf, asked, loads, started>>
      BY <1>4, <2>2 DEF GetDevice, Lookup, ReadFlag, tableVars
    <3> QED
      BY <1>3, <2>1, <2>2, <3>1, <3>2
  <2>3. CASE "customs" \notin Kinds
    <3>1. held' = [held EXCEPT ![c] = devsOf] /\ UNCHANGED <<devs, devsOf, asked, loads, started, looking>>
      BY <1>4, <2>3 DEF GetDevice, tableVars
    <3>2. LoadTypes'
      BY <1>0, <3>1 DEF LoadTypes
    <3>3. (\A d \in Callers : held[d] <= devsOf)'
      BY <1>0, <3>1 DEF LoadTypes, Lazy
    <3>4. \A k, g : Seers(k, g)' = Seers(k, g)
      BY <3>1 DEF Seers
    <3> QED
      BY <1>0, <3>1, <3>2, <3>3, <3>4 DEF Lazy
  <2> QED
    BY <2>2, <2>3
<1>5. ASSUME NEW c \in Callers, GetInterface(c) PROVE LoadTypes' /\ Lazy'
  <2>1. held[c] \in Gens /\ held[c] <= devsOf
    BY <1>0, <1>5 DEF GetInterface, Lazy, LoadTypes, Gens
  <2>2. /\ "interfaces" \in Kinds /\ looking[c] = <<>> /\ held' = held
        /\ looking' = [looking EXCEPT ![c] = <<"interfaces", held[c], asked["interfaces"][held[c]]>>]
        /\ UNCHANGED <<devs, devsOf, asked, loads, started>>
    BY <1>5 DEF GetInterface, Lookup, ReadFlag, tableVars
  <2> QED
    BY <1>3, <2>1, <2>2
<1>6. ASSUME NEW c \in Callers, SetFlag(c) PROVE LoadTypes' /\ Lazy'
  <2>1. PICK k \in Kinds, g \in Gens, saw \in BOOLEAN : looking[c] = <<k, g, saw>>
    BY <1>0, <1>6 DEF SetFlag, LoadTypes
  <2> DEFINE new == [by |-> c, kind |-> k, gen |-> g, cred |-> 1]
  <2>2. /\ asked' = [asked EXCEPT ![k][g] = TRUE] /\ looking' = [looking EXCEPT ![c] = <<>>]
        /\ loads' = (IF saw THEN loads ELSE loads \cup {new})
        /\ started' = [started EXCEPT ![k][g] = @ + IF saw THEN 0 ELSE 1]
        /\ UNCHANGED <<devs, devsOf, held>>
    BY <1>6, <2>1 DEF SetFlag, tableVars
  <2>a. /\ started \in [Kinds -> [Gens -> Nat]] /\ asked \in [Kinds -> [Gens -> BOOLEAN]]
        /\ looking \in [Callers -> {<<>>} \cup (Kinds \X Gens \X BOOLEAN)] /\ g \in Nat /\ g <= devsOf
        /\ new \in [by : Callers, kind : Kinds, gen : Gens, cred : 1 .. NumCreds] /\ new.gen = g
    BY <1>0, <2>1, ApiAssumption, SMTT(30) DEF LoadTypes, Lazy, Gens
  <2> HIDE DEF new
  <2>b. /\ \A j \in Kinds, h \in Gens : <<j, h>> # <<k, g>> => asked'[j][h] = asked[j][h] /\ started'[j][h] = started[j][h]
        /\ asked'[k][g] = TRUE /\ started'[k][g] = started[k][g] + (IF saw THEN 0 ELSE 1)
        /\ started' \in [Kinds -> [Gens -> Nat]]
    <3>1. /\ \A j \in Kinds, h \in Gens : <<j, h>> # <<k, g>> => asked'[j][h] = asked[j][h]
          /\ asked'[k][g] = TRUE
      BY <2>2, <2>a, Zenon
    <3>2. PICK n \in Nat : n = IF saw THEN 0 ELSE 1
      OBVIOUS
    <3>3. started' = [started EXCEPT ![k][g] = started[k][g] + n] /\ started[k][g] + n \in Nat
      BY <2>2, <2>a, <3>2
    <3>4. /\ \A j \in Kinds, h \in Gens : <<j, h>> # <<k, g>> => started'[j][h] = started[j][h]
          /\ started'[k][g] = started[k][g] + n /\ started' \in [Kinds -> [Gens -> Nat]]
      BY <2>a, <3>3
    <3> QED
      BY <3>1, <3>2, <3>4
  <2>3. LoadTypes'
    <3>1. asked' \in [Kinds -> [Gens -> BOOLEAN]]
      BY <2>2, <2>a
    <3>2. looking' \in [Callers -> {<<>>} \cup (Kinds \X Gens \X BOOLEAN)]
      BY <2>2, <2>a
    <3>3. loads' \subseteq [by : Callers, kind : Kinds, gen : Gens, cred : 1 .. NumCreds]
      BY <1>0, <2>2, <2>a DEF LoadTypes
    <3> QED
      BY <1>0, <2>2, <2>b, <3>1, <3>2, <3>3 DEF LoadTypes
  <2>4. (\A j \in Kinds, h \in Gens : (h > devsOf \/ ~asked[j][h]) => started[j][h] = 0)'
    <3> SUFFICES ASSUME NEW j \in Kinds, NEW h \in Gens, h > devsOf \/ ~asked'[j][h] PROVE started'[j][h] = 0
      BY <2>2
    <3>1. CASE j = k /\ h = g
      BY <1>0, <2>a, <2>b, <3>1
    <3>2. CASE <<j, h>> # <<k, g>>
      BY <1>0, <2>b, <3>2 DEF Lazy
    <3> QED
      BY <3>1, <3>2
  <2>5. (\A j \in Kinds, h \in Gens : started[j][h] + Cardinality(Seers(j, h)) <= Cardinality(Callers))'
    <3> SUFFICES ASSUME NEW j \in Kinds, NEW h \in Gens
                 PROVE  started'[j][h] + Cardinality(Seers(j, h)') <= Cardinality(Callers)
      OBVIOUS
    <3>1. /\ Cardinality(Seers(j, h)) \in Nat /\ Cardinality(Callers) \in Nat /\ IsFiniteSet(Seers(j, h))
          /\ started[j][h] \in Nat /\ started[j][h] + Cardinality(Seers(j, h)) <= Cardinality(Callers)
      BY <1>0, <2>a, SeersFinite DEF Lazy
    <3>2. Seers(j, h)' = Seers(j, h) \ {c}
      BY <2>2, <2>a DEF Seers
    <3>3. CASE <<j, h, FALSE>> = <<k, g, saw>>
      <4>1. c \in Seers(j, h)
        BY <2>1, <3>3 DEF Seers
      <4>2. Cardinality(Seers(j, h)') = Cardinality(Seers(j, h)) - 1
        BY <3>1, <3>2, <4>1, FS_RemoveElement, ZenonT(30)
      <4> QED
        BY <2>b, <3>1, <3>3, <4>2
    <3>4. CASE <<j, h, FALSE>> # <<k, g, saw>>
      <4>1. Seers(j, h)' = Seers(j, h)
        BY <2>1, <3>2, <3>4 DEF Seers
      <4>2. started'[j][h] = started[j][h]
        <5>1. CASE <<j, h>> # <<k, g>>
          BY <2>b, <5>1
        <5>2. CASE j = k /\ h = g
          <6>1. saw = TRUE
            BY <3>4, <5>2
          <6> QED
            BY <2>b, <3>1, <5>2, <6>1
        <5> QED
          BY <5>1, <5>2
      <4> QED
        BY <3>1, <4>1, <4>2
    <3> QED
      BY <3>3, <3>4
  <2>6. (\A d \in Callers : held[d] <= devsOf /\ (looking[d] # <<>> => looking[d][2] <= devsOf))'
    BY <1>0, <2>2, <2>a DEF Lazy
  <2>7. (\A l \in loads : l.gen <= devsOf)' /\ (devs # <<>> => devsOf >= 1)'
    BY <1>0, <2>2, <2>a DEF Lazy
  <2> QED
    BY <2>3, <2>4, <2>5, <2>6, <2>7 DEF Lazy
<1>7. ASSUME NEW l \in loads, LoadReply(l) \/ LoadFails(l) \/ LoadUnimplemented(l) PROVE LoadTypes' /\ Lazy'
  <2>0. l \in [by : Callers, kind : Kinds, gen : Gens, cred : 1 .. NumCreds]
    BY <1>0 DEF LoadTypes
  <2>1. UNCHANGED <<devs, devsOf, held, looking, started>>
    BY <1>7 DEF LoadReply, LoadFails, LoadUnimplemented, tableVars
  <2>2. /\ \A m \in loads' : \E n \in loads : m.gen = n.gen
        /\ loads' \subseteq [by : Callers, kind : Kinds, gen : Gens, cred : 1 .. NumCreds]
    <3>1. \A m \in loads' : m \in loads \/ (l.cred < NumCreds /\ m = [l EXCEPT !.cred = @ + 1])
      BY <1>7 DEF LoadReply, LoadFails, LoadUnimplemented
    <3>2. /\ [l EXCEPT !.cred = @ + 1].gen = l.gen
          /\ l.cred < NumCreds => [l EXCEPT !.cred = @ + 1] \in [by : Callers, kind : Kinds, gen : Gens, cred : 1 .. NumCreds]
      BY <2>0, ApiAssumption
    <3> QED
      BY <1>0, <3>1, <3>2 DEF LoadTypes
  <2>3. /\ asked' \in [Kinds -> [Gens -> BOOLEAN]]
        /\ \A k \in Kinds, g \in Gens : ~asked'[k][g] => ~asked[k][g]
    <3>1. asked \in [Kinds -> [Gens -> BOOLEAN]] /\ l.kind \in Kinds /\ l.gen \in Gens
      BY <1>0, <2>0 DEF LoadTypes
    <3>2. CASE asked' = asked
      BY <3>1, <3>2
    <3>3. CASE asked' = [asked EXCEPT ![l.kind][l.gen] = TRUE]
      BY <3>1, <3>3
    <3>4. CASE LoadReply(l) /\ l.kind # "customs"
      <4>1. asked' = asked
        BY <3>1, <3>4 DEF LoadReply
      <4> QED
        BY <3>2, <4>1
    <3> QED
      BY <1>7, <3>2, <3>3, <3>4 DEF LoadReply, LoadFails, LoadUnimplemented
  <2>4. LoadTypes'
    BY <1>0, <2>1, <2>2, <2>3 DEF LoadTypes
  <2> QED
    BY <1>0, <2>1, <2>2, <2>3, <2>4, LazyFrame
<1>8. CASE \E t \in Refreshers : RefreshStep(t)
  <2>1. ASSUME NEW t \in Refreshers, \/ EnterRefresh(t) \/ ListTests(t) \/ ListAgents(t) \/ ListSites(t)
                                     \/ Unimplemented(t) \/ CallFails(t)
        PROVE  LoadTypes' /\ Lazy'
    BY <1>1, <2>1 DEF EnterRefresh, ListTests, ListAgents, ListSites, Unimplemented, CallFails, tableVars
  <2> QED
    BY <1>2, <1>8, <2>1 DEF RefreshStep
<1>9. CASE ServerChanges \/ MinutePasses \/ CacheTick \/ \E t \in Demands : UpdateTests(t)
  BY <1>1, <1>9 DEF ServerChanges, MinutePasses, CacheTick, UpdateTests, Ask, tableVars
<1> QED
  BY <1>4, <1>5, <1>6, <1>7, <1>8, <1>9 DEF ApiNext

\* The tables, the refreshers and the loads, step by step.
LEMMA ApiStep == ApiIInv /\ [ApiNext]_apiVars => ApiIInv'
<1> SUFFICES ASSUME ApiIInv, [ApiNext]_apiVars PROVE ApiIInv'
  OBVIOUS
<1>1. CASE ApiNext
  BY <1>1, RefreshKept, WorkKept, LazyKept DEF ApiIInv, RefreshInv
<1>2. CASE UNCHANGED apiVars
  <2>1. RefreshTypes' /\ Guarded' /\ LoadTypes'
    BY <1>2 DEF ApiIInv, RefreshTypes, Guarded, LoadTypes, apiVars, tableVars, loadVars
  <2>2. AllReads'
    BY <1>2 DEF ApiIInv, AllReads, Reads, apiVars, tableVars
  <2>3. Work' /\ Lazy'
    BY <1>2 DEF ApiIInv, Work, Waiting, Lazy, Seers, apiVars, tableVars, loadVars
  <2> QED
    BY <2>1, <2>2, <2>3 DEF ApiIInv
<1> QED
  BY <1>1, <1>2

\* What is read of the inductive invariant.
LEMMA ApiImplies == ApiIInv => ApiInv
<1> SUFFICES ASSUME ApiIInv PROVE ApiInv
  OBVIOUS
<1>0. RefreshTypes /\ Guarded /\ AllReads /\ LoadTypes /\ Lazy
  BY DEF ApiIInv
<1>1. ApiTypeOK
  <2>1. \A l \in loads : l.gen \in 1 .. devsOf /\ l.cred \in 1 .. NumCreds
    BY <1>0, ReplyValues, ApiAssumption DEF LoadTypes, Lazy, Gens
  <2> QED
    BY <1>0, <2>1 DEF ApiTypeOK, RefreshTypes
<1>2. TablesInOrder
  <2>1. DOMAIN tests = 1 .. Len(tests) /\ DOMAIN devs = 1 .. Len(devs)
    BY <1>0 DEF RefreshTypes
  <2> QED
    BY <1>0, <2>1 DEF TablesInOrder, Guarded, AllReads
<1>3. LoadsBounded
  <2> SUFFICES ASSUME NEW k \in Kinds, NEW g \in Gens PROVE started[k][g] <= Cardinality(Callers)
    BY DEF LoadsBounded
  <2>1. started[k][g] \in Nat /\ started[k][g] + Cardinality(Seers(k, g)) <= Cardinality(Callers)
    BY <1>0 DEF LoadTypes, Lazy
  <2> QED
    BY <2>1, SeersFinite
<1> QED
  BY <1>1, <1>2, <1>3 DEF ApiInv

\* For any credentials, demands and callers: the API's tables keep their types
\* and their order, and no device is loaded by more callers than there are.
THEOREM ApiTablesAreSound == ServicesSpec => []ApiInv
<1>1. ApiInit /\ [][ApiNext]_apiVars => []ApiIInv
  BY ApiStart, ApiStep, PTL
<1> QED
  BY <1>1, ApiImplies, EachAlone, PTL DEF ServicesSpec

\* A table is replaced only by replies that are as new.
THEOREM TablesNeverGoBack == ServicesSpec => TablesForward
<1> DEFINE Forward == /\ \A i \in DOMAIN tests : tests[i] <= tests'[i]
                      /\ \A i \in DOMAIN devs : devs[i] <= devs'[i]
<1>1. ApiIInv /\ [ApiNext]_apiVars => [Forward]_tableVars
  <2> SUFFICES ASSUME ApiIInv, ApiNext, ~UNCHANGED tableVars PROVE Forward
    BY DEF apiVars
  <2>0. RefreshTypes /\ AllReads
    BY DEF ApiIInv
  <2>1. /\ DOMAIN tests = 1 .. Len(tests) /\ DOMAIN devs = 1 .. Len(devs)
        /\ \A i \in 1 .. Len(tests) : tests[i] \in Nat
        /\ \A i \in 1 .. Len(devs) : devs[i] \in Nat
    <3>1. DOMAIN tests = 1 .. Len(tests) /\ DOMAIN devs = 1 .. Len(devs)
      BY <2>0 DEF RefreshTypes
    <3> QED
      BY <2>0, <3>1, ReplyValues
  <2>a. Len(tests) \in {0, NumCreds} /\ Len(devs) \in {0, NumCreds} /\ NumCreds \in Nat
    BY <2>0, ApiAssumption DEF RefreshTypes
  <2>2. PICK t \in Refreshers : ListAgents(t) \/ \E full \in {{}, Kinds} : ListDevices(t, full)
    BY DEF ApiNext, RefreshStep, ServerChanges, MinutePasses, CacheTick, UpdateTests, Ask, EnterRefresh, ListTests,
           ListSites, Unimplemented, CallFails, GetDevice, GetInterface, SetFlag, LoadReply, LoadFails,
           LoadUnimplemented, tableVars
  <2>3. CASE ListAgents(t)
    <3>1. devs' = devs /\ (tests' = tests \/ (tests' = apiRead[t] /\ Len(apiRead[t]) = NumCreds))
      BY <2>3 DEF ListAgents
    <3>2. \A i \in 1 .. Len(apiRead[t]) : \A j \in 1 .. Len(tests) : tests[j] <= apiRead[t][i]
      BY <2>0, <2>3 DEF AllReads, Reads, ListAgents
    <3>3. Len(apiRead[t]) = NumCreds => \A i \in 1 .. Len(tests) : i \in 1 .. Len(apiRead[t])
      BY <2>a
    <3>4. \A i \in DOMAIN tests : tests[i] <= tests'[i]
      BY <2>1, <3>1, <3>2, <3>3
    <3> QED
      BY <2>1, <3>1, <3>4
  <2>4. CASE \E full \in {{}, Kinds} : ListDevices(t, full)
    <3> DEFINE longer == Append(apiRead[t], version)
    <3>1. tests' = tests /\ (devs' = devs \/ (devs' = longer /\ Len(longer) = NumCreds))
      BY <2>4 DEF ListDevices
    <3>2. /\ apiRead[t] \in Seq(Nat) /\ Len(apiRead[t]) \in Nat /\ version \in Nat
      BY <2>0, ReplyValues
    <3>3. /\ Len(longer) = Len(apiRead[t]) + 1 /\ \A i \in 1 .. Len(apiRead[t]) : longer[i] = apiRead[t][i]
          /\ longer[Len(apiRead[t]) + 1] = version
      BY <3>2
    <3>4. /\ \A i \in 1 .. Len(apiRead[t]) : \A j \in 1 .. Len(devs) : devs[j] <= apiRead[t][i]
          /\ \A j \in 1 .. Len(devs) : devs[j] <= version
      BY <2>0, <2>4 DEF AllReads, Reads, ListDevices
    <3> HIDE DEF longer
    <3>5. \A i \in 1 .. Len(longer) : i \in 1 .. Len(apiRead[t]) \/ i = Len(apiRead[t]) + 1
      BY <3>2, <3>3
    <3>6. \A i \in 1 .. Len(longer) : \A j \in 1 .. Len(devs) : devs[j] <= longer[i]
      BY <3>3, <3>4, <3>5
    <3>7. Len(longer) = NumCreds => \A i \in 1 .. Len(devs) : i \in 1 .. Len(longer)
      BY <2>a
    <3>8. \A i \in 1 .. Len(devs) : devs[i] <= devs'[i]
      BY <2>1, <3>1, <3>6, <3>7
    <3>9. \A i \in 1 .. Len(tests) : tests[i] <= tests'[i]
      BY <2>1, <3>1
    <3> QED
      BY <2>1, <3>8, <3>9
  <2> QED
    BY <2>2, <2>3, <2>4
<1>2. ApiInit /\ [][ApiNext]_apiVars => []ApiIInv
  BY ApiStart, ApiStep, PTL
<1>3. TablesForward <=> [][Forward]_tableVars
  BY DEF TablesForward
<1> HIDE DEF Forward
<1> QED
  BY <1>1, <1>2, <1>3, EachAlone, PTL DEF ServicesSpec

-----------------------------------------------------------------------------
(* MerakiEvents.                                                           *)

\* What the world and the download look like.
EventTypes ==
  /\ EventsTypeOK /\ now \in Nat /\ happened \subseteq EventNets \X (1 .. now) /\ toAsk \subseteq EventNets

\* Behind the token, and in the networks a download is done with, every event
\* is logged or excused.
Handled(e) == e \in evLogged \cup excused
Downloaded ==
  /\ asking # NoNet => \A e \in happened : e[1] = asking /\ e[2] <= token => Handled(e)
  /\ phase = "download" => \A e \in happened : e[1] \notin toAsk => Handled(e)

EventsIInv == EventTypes /\ NoEventSkipped /\ Downloaded

\* Nothing has happened.
LEMMA EventsStart == EventsInit => EventsIInv
BY EventsAssumption DEF EventsInit, EventsIInv, EventTypes, EventsTypeOK, NoEventSkipped, Downloaded

\* What is logged or excused stays so, while time and the mark stay.
LEMMA EventsKept ==
  ASSUME EventsIInv, EventsNext
  PROVE  EventsIInv'
<1> USE EventsAssumption
<1>0. /\ EventTypes /\ NoEventSkipped /\ Downloaded /\ now \in Nat
      /\ \A e \in happened : e[1] \in EventNets /\ e[2] \in Nat /\ e[2] <= now /\ e = <<e[1], e[2]>>
      /\ mark \in Nat /\ endAt \in Nat /\ token \in Nat /\ mark <= now /\ endAt <= now /\ token <= now
  <2>1. EventTypes /\ NoEventSkipped /\ Downloaded
    BY DEF EventsIInv
  <2> QED
    BY <2>1 DEF EventTypes, EventsTypeOK
<1> USE DEF downloadVars, worldVars
<1>1. ASSUME NEW n \in EventNets, Happens(n) PROVE EventsIInv'
  <2>1. EventTypes'
    BY <1>0, <1>1 DEF Happens, EventTypes, EventsTypeOK
  <2> PICK new : new = <<n, now + 1>>
    OBVIOUS
  <2>2. /\ \A e \in happened' : e \in happened \/ e = new
        /\ \A e : Handled(e) => Handled(e)' 
    BY <1>1 DEF Happens, Handled
  <2>3. NoEventSkipped'
    BY <1>0, <1>1, <2>2 DEF Happens, NoEventSkipped, Handled
  <2>4. Downloaded'
    <3>1. phase = "download" /\ n \notin toAsk => Handled(new)'
      BY <1>1 DEF Happens, Handled
    <3> QED
      BY <1>0, <1>1, <2>2, <3>1 DEF Happens, Downloaded, EventTypes, EventsTypeOK
  <2> QED
    BY <2>1, <2>3, <2>4 DEF EventsIInv
<1>2. ASSUME NEW n \in EventNets, AskNetwork(n) PROVE EventsIInv'
  <2>1. EventTypes'
    BY <1>0, <1>2 DEF AskNetwork, EventTypes, EventsTypeOK
  <2>2. NoEventSkipped'
    BY <1>0, <1>2 DEF AskNetwork, NoEventSkipped
  <2>3. Downloaded'
    BY <1>0, <1>2 DEF AskNetwork, NoEventSkipped, Downloaded, Handled
  <2> QED
    BY <2>1, <2>2, <2>3 DEF EventsIInv
<1>3. ASSUME NEW S, S \subseteq Due, Requested, UNCHANGED <<phase, mark, now, happened>>,
             evLogged' \cup excused' = evLogged \cup excused \cup ({asking} \X S)
      PROVE  /\ NoEventSkipped' /\ (\A e \in happened : Handled(e) => Handled(e)')
             /\ \A e \in happened : e[1] = asking /\ e[2] \in S => Handled(e)'
  <2>1. \A e \in happened : Handled(e) => Handled(e)'
    BY <1>3 DEF Handled
  <2>2. \A e \in happened : e[1] = asking /\ e[2] \in S => Handled(e)'
    BY <1>0, <1>3 DEF Handled
  <2> QED
    BY <1>0, <1>3, <2>1, <2>2 DEF NoEventSkipped, Handled
<1>4. ASSUME NEW t \in 0 .. now, PageAndLink(t) PROVE EventsIInv'
  <2> DEFINE page == {s \in Due : s <= t}
  <2>1. /\ evLogged' = evLogged \cup ({asking} \X page) /\ token' = t /\ t \in Due /\ Requested
        /\ UNCHANGED <<phase, mark, endAt, toAsk, asking, retries, evLines, now, happened, excused>>
    BY <1>4 DEF PageAndLink
  <2>2. EventTypes'
    <3>1. evLogged' \subseteq happened
      BY <1>0, <2>1 DEF EventTypes, EventsTypeOK, Due
    <3> QED
      BY <1>0, <2>1, <3>1 DEF EventTypes, EventsTypeOK
  <2>3. /\ NoEventSkipped' /\ (\A e \in happened : Handled(e) => Handled(e)')
        /\ \A e \in happened : e[1] = asking /\ e[2] \in page => Handled(e)'
    <3>1. page \subseteq Due
      OBVIOUS
    <3>2. evLogged' \cup excused' = evLogged \cup excused \cup ({asking} \X page)
      BY <2>1
    <3> HIDE DEF page
    <3> QED
      BY <1>3, <2>1, <3>1, <3>2
  <2>4. \A e \in happened : e[1] = asking /\ e[2] <= t => e[2] <= token \/ e[2] \in page
    BY <1>0 DEF Due
  <2> HIDE DEF page
  <2>5. Downloaded'
    BY <1>0, <2>1, <2>3, <2>4 DEF Downloaded
  <2> QED
    BY <2>2, <2>3, <2>5 DEF EventsIInv
<1>5. ASSUME NEW e \in 0 .. now, NEW S, NetworkDone(e), Requested, S = Due,
             evLogged' \cup excused' = evLogged \cup excused \cup ({asking} \X S),
             evLogged' \subseteq happened, UNCHANGED <<phase, mark, now, happened, retries, evLines>>
      PROVE  EventsIInv'
  <2>1. EventTypes'
    BY <1>0, <1>5 DEF EventTypes, EventsTypeOK, NetworkDone
  <2>2. /\ NoEventSkipped' /\ (\A x \in happened : Handled(x) => Handled(x)')
        /\ \A x \in happened : x[1] = asking /\ x[2] \in S => Handled(x)'
    BY <1>3, <1>5
  <2>3. \A x \in happened : x[1] = asking => x[2] <= token \/ x[2] \in S
    BY <1>0, <1>5 DEF Due, EventTypes
  <2>4. Downloaded'
    BY <1>0, <1>5, <2>2, <2>3 DEF Downloaded, NetworkDone, Requested
  <2> QED
    BY <2>1, <2>2, <2>4 DEF EventsIInv
<1>6. ASSUME NEW e \in 0 .. now, LastPage(e) PROVE EventsIInv'
  <2>1. evLogged' \subseteq happened
    BY <1>0, <1>6 DEF LastPage, EventTypes, EventsTypeOK, Due
  <2>2. evLogged' \cup excused' = evLogged \cup excused \cup ({asking} \X Due)
    BY <1>6 DEF LastPage
  <2> QED
    BY <1>5, <1>6, <2>1, <2>2 DEF LastPage
<1>7. CASE EventsRefused
  <2>1. evLogged' \subseteq happened /\ token \in 0 .. now
    BY <1>0, <1>7 DEF EventsRefused, EventTypes, EventsTypeOK
  <2>2. evLogged' \cup excused' = evLogged \cup excused \cup ({asking} \X Due)
    BY <1>7 DEF EventsRefused
  <2> QED
    BY <1>5, <1>7, <2>1, <2>2 DEF EventsRefused
<1>8. CASE \/ EventsBusy \/ EventsFail \/ PushEvent \/ ReadEvent \/ HourPasses \/ CancelEvents
           \/ StartDownload \/ EventsDone
  <2> USE DEF EventsBusy, EventsFail, PushEvent, ReadEvent, HourPasses, CancelEvents, StartDownload, EventsDone
  <2>1. EventTypes'
    BY <1>0, <1>8 DEF EventTypes, EventsTypeOK
  <2>2. NoEventSkipped'
    BY <1>0, <1>8 DEF NoEventSkipped
  <2>3. Downloaded'
    BY <1>0, <1>8 DEF Downloaded, Handled, EventTypes, EventsTypeOK
  <2> QED
    BY <2>1, <2>2, <2>3 DEF EventsIInv
<1>9. CASE DownloadDone
  <2> USE DEF DownloadDone
  <2>1. EventTypes'
    BY <1>0, <1>9 DEF EventTypes, EventsTypeOK
  <2>2. NoEventSkipped' /\ Downloaded'
    BY <1>0, <1>9 DEF Downloaded, Handled, NoEventSkipped
  <2> QED
    BY <2>1, <2>2 DEF EventsIInv
<1> QED
  BY <1>1, <1>2, <1>4, <1>6, <1>7, <1>8, <1>9 DEF EventsNext, EventStep

\* Steps, and the others' steps.
LEMMA EventsStep == EventsIInv /\ [EventsNext]_eventVars => EventsIInv'
<1>1. EventsIInv /\ UNCHANGED eventVars => EventsIInv'
  BY DEF EventsIInv, EventTypes, EventsTypeOK, NoEventSkipped, Downloaded, Handled, eventVars, downloadVars, worldVars
<1> QED
  BY <1>1, EventsKept

-----------------------------------------------------------------------------
(* MerakiPoll.                                                             *)

\* Types of what the goroutines of the client work with.
Units == Orgs \cup Nets
PollTypes ==
  /\ PollTypeOK /\ on \in Configs /\ todo \subseteq DOMAIN CallOrder
  /\ at[Poller] \in (Stages \ {"limits"}) \cup {"boot", "select", "send", "done"}
  /\ \A b \in Builders : at[b] \in {"none", "limits"}
  /\ left \in [Fetchers -> SUBSET Units] /\ unit \in [Fetchers -> Units \cup {NoUnit}]
  /\ tries \in [Fetchers -> Nat] /\ asks \in [Fetchers -> Nat] /\ toLog \in [Fetchers -> {0, 1}]
  /\ DOMAIN got = Fetchers /\ (\A f \in Fetchers : IsABag(got[f])) /\ DOMAIN refused = Fetchers

\* The stages of a call that are over when it is in stage s, and the call of a stage.
Before(s) ==
  CASE s = "usage" -> {"uplinks"} [] s = "latency" -> {"uplinks", "usage"} [] s = "info" -> {"status"} [] OTHER -> {}
CallOf(s) == CASE s \in {"usage", "latency"} -> "uplinks" [] s = "info" -> "status" [] OTHER -> s

\* A stage has all pages of a unit, or has left it out.
Complete(f, s, u) ==
  \/ PagesIn(got[f], s, u) = PagesOf(s, u)
  \/ <<s, u>> \in refused[f] /\ s \in SkipsOn400 /\ PagesIn(got[f], s, u) < PagesOf(s, u)

\* The units a stage is about.
Scope(f, s) == IF s = "networks" THEN {o \in Orgs : PagesIn(got[f], "networks", o) > 0} ELSE Tracked(s)

\* A unit that a stage has not come to has no page, the one it asks for not all of them,
\* and the others, and those of the stages before, are complete.
InStage(f) ==
  at[f] \in Stages =>
    /\ left[f] \subseteq IF at[f] = "networks" THEN Orgs ELSE Tracked(at[f])
    /\ \A u \in left[f] : u # unit[f] => PagesIn(got[f], at[f], u) = 0
    /\ \A u \in Scope(f, at[f]) \ left[f] : Complete(f, at[f], u)
    /\ \A s \in Before(at[f]) : \A u \in Tracked(s) : Complete(f, s, u)
    /\ \A x \in DOMAIN got[f] : x[1] \in Before(at[f]) \cup {at[f]}
    /\ unit[f] # NoUnit =>
         /\ PagesIn(got[f], at[f], unit[f]) < PagesOf(at[f], unit[f]) /\ tries[f] <= Budget(at[f])
         /\ at[f] # "usage" => asks[f] = PagesIn(got[f], at[f], unit[f]) + tries[f]

\* Out of a stage there is no unit, and before the next call there are no pages.
OutOfStage(f) ==
  at[f] \notin Stages => /\ left[f] = {} /\ unit[f] = NoUnit
                         /\ at[f] \in {"boot", "select", "none"} => got[f] = EmptyBag

Local(f) == InStage(f) /\ OutOfStage(f)

\* A stage belongs to the call that is being made; before the first one nothing is tracked.
OnCall ==
  /\ at[Poller] \in Stages \ {"networks"} => call = CallOf(at[Poller])
  /\ at[Poller] \in {"usage", "latency"} => "usage" \in on
  /\ at[Poller] \in {"boot", "networks"} =>
       tracked = {} /\ ~infoOk /\ ~bwOk /\ \A b \in Builders : at[b] = "none"

PollIInv ==
  /\ PollTypes /\ (\A f \in Fetchers : Local(f)) /\ OnCall /\ WholeResults /\ ListsWhole

\* Numbers of pages and of retries.
LEMMA Numbers ==
  /\ \A s, u : u \in Units => PagesOf(s, u) \in Nat /\ PagesOf(s, u) > 0
  /\ \A s : Budget(s) \in Nat
<1>1. \A s, u : u \in Units => PagesOf(s, u) \in Nat /\ PagesOf(s, u) > 0
  BY MerakiAssumption DEF PagesOf, Units
<1>2. \A s : Budget(s) \in Nat
  BY MerakiAssumption DEF Budget
<1> QED
  BY <1>1, <1>2

\* The pages in a bag.
LEMMA NoPages ==
  IsABag(EmptyBag) /\ DOMAIN EmptyBag = {} /\ \A s, u : PagesIn(EmptyBag, s, u) = 0
BY DEF EmptyBag, SetToBag, IsABag, PagesIn, BagIn, BagToSet

\* How many pages of a unit are there is a number.
LEMMA PagesCount == \A b, s, u : IsABag(b) => PagesIn(b, s, u) \in Nat
BY DEF IsABag, PagesIn, BagIn, BagToSet

\* One more page of one unit.
Plus(b, s, u) == b (+) SetToBag({<<s, u>>})
PageAdded(b, c, s, u) ==
  /\ IsABag(c) /\ DOMAIN c = DOMAIN b \cup {<<s, u>>} /\ PagesIn(c, s, u) = PagesIn(b, s, u) + 1
  /\ \A r, v : <<r, v>> # <<s, u>> => PagesIn(c, r, v) = PagesIn(b, r, v)
LEMMA OnePage == \A b, s, u : IsABag(b) => PageAdded(b, Plus(b, s, u), s, u)
<1> TAKE b, s, u
<1> HAVE IsABag(b)
<1> PICK c : c = Plus(b, s, u)
  OBVIOUS
<1> DEFINE x == <<s, u>>
<1> HIDE DEF x
<1>1. c = [e \in DOMAIN b \cup {x} |-> (IF e \in DOMAIN b THEN b[e] ELSE 0) + (IF e \in {x} THEN 1 ELSE 0)]
  <2>1. DOMAIN SetToBag({x}) = {x} /\ \A e \in {x} : SetToBag({x})[e] = 1
    BY DEF SetToBag
  <2>2. c = [e \in DOMAIN b \cup {x} |-> (IF e \in DOMAIN b THEN b[e] ELSE 0)
                                         + (IF e \in {x} THEN SetToBag({x})[e] ELSE 0)]
    BY <2>1 DEF (+), x, Plus
  <2> QED
    BY <2>1, <2>2
<1>2. \A e \in DOMAIN b : b[e] \in Nat /\ b[e] > 0
  BY DEF IsABag
<1>3. DOMAIN c = DOMAIN b \cup {x} /\ \A e \in DOMAIN c : c[e] = (IF e \in DOMAIN b THEN b[e] ELSE 0) + (IF e = x THEN 1 ELSE 0)
  BY <1>1
<1>4. \A e \in DOMAIN c : c[e] \in Nat /\ c[e] > 0
  BY <1>2, <1>3
<1>5. IsABag(c)
  <2>1. c = [e \in DOMAIN c |-> c[e]]
    BY <1>1
  <2> QED
    BY <1>4, <2>1 DEF IsABag
<1>6. /\ PagesIn(c, s, u) = PagesIn(b, s, u) + 1
      /\ \A r, v : <<r, v>> # <<s, u>> => PagesIn(c, r, v) = PagesIn(b, r, v)
  <2> DEFINE n(a, e) == IF e \in DOMAIN a THEN a[e] ELSE 0
  <2>1. \A a, r, v : PagesIn(a, r, v) = n(a, <<r, v>>)
    BY DEF PagesIn, BagIn, BagToSet
  <2>2. n(c, x) = n(b, x) + 1
    BY <1>2, <1>3
  <2>3. \A e : e # x => n(c, e) = n(b, e)
    <3> SUFFICES ASSUME NEW e, e # x PROVE n(c, e) = n(b, e)
      OBVIOUS
    <3>1. CASE e \in DOMAIN b
      BY <1>2, <1>3, <3>1
    <3>2. CASE e \notin DOMAIN b
      BY <1>3, <3>2
    <3> QED
      BY <3>1, <3>2
  <2> HIDE DEF n
  <2> QED
    BY <2>1, <2>2, <2>3 DEF x
<1> QED
  BY <1>3, <1>5, <1>6 DEF x, PageAdded

\* No page of a stage that the bag does not know.
LEMMA OtherStage ==
  ASSUME NEW b, NEW S, NEW s, s \notin S, \A x \in DOMAIN b : x[1] \in S PROVE \A u : PagesIn(b, s, u) = 0
BY DEF PagesIn, BagIn, BagToSet

\* What a step does not touch.
LEMMA LocalFrame ==
  ASSUME NEW f \in Fetchers, Local(f), UNCHANGED <<on, tracked>>, at'[f] = at[f], left'[f] = left[f],
         unit'[f] = unit[f], tries'[f] = tries[f], asks'[f] = asks[f], got'[f] = got[f], refused'[f] = refused[f]
  PROVE  Local(f)'
<1>1. \A s : Tracked(s)' = Tracked(s) /\ Budget(s)' = Budget(s) /\ Scope(f, s)' = Scope(f, s)
  BY DEF Tracked, Budget, Scope
<1>2. \A s, u : Complete(f, s, u)' <=> Complete(f, s, u)
  BY DEF Complete
<1> QED
  BY <1>1, <1>2 DEF Local, InStage, OutOfStage

\* The beginning of a stage, with none of its pages there.
LEMMA LocalBegins ==
  ASSUME NEW f \in Fetchers, NEW s \in Stages \ {"networks"}, at'[f] = s, left'[f] = Tracked(s)', unit'[f] = NoUnit,
         \A r \in Before(s) : \A u \in Tracked(r)' : Complete(f, r, u)',
         \A x \in DOMAIN got'[f] : x[1] \in Before(s)
  PROVE  Local(f)'
<1>1. s \notin Before(s)
  BY DEF Before, Stages
<1>2. \A u : PagesIn(got'[f], s, u) = 0
  BY <1>1, OtherStage
<1>3. Scope(f, s)' = Tracked(s)'
  BY DEF Scope
<1> QED
  BY <1>2, <1>3 DEF Local, InStage, OutOfStage

\* The calls are stages, and none of them goes on from another stage.
LEMMA CallsAreStages ==
  \A i \in DOMAIN CallOrder : /\ CallOrder[i] \in Stages \ {"networks", "limits"} /\ Before(CallOrder[i]) = {}
                              /\ CallOf(CallOrder[i]) = CallOrder[i] /\ CallOrder[i] \notin {"usage", "latency"}
<1>1. \A i \in DOMAIN CallOrder :
        CallOrder[i] \in {"changes", "status", "clients", "uplinks", "vpn", "attr", "security"}
  BY DEF CallOrder
<1>2. \A c \in {"changes", "status", "clients", "uplinks", "vpn", "attr", "security"} :
        /\ c \in Stages \ {"networks", "limits"} /\ Before(c) = {} /\ CallOf(c) = c /\ c \notin {"usage", "latency"}
  BY DEF Stages, Before, CallOf
<1> QED
  BY <1>1, <1>2

\* Some call is the first.
LEMMA FirstCall ==
  ASSUME NEW S \in SUBSET DOMAIN CallOrder, S # {}
  PROVE  (CHOOSE i \in S : \A j \in S : i <= j) \in S
<1>1. DOMAIN CallOrder = 1 .. 7
  BY DEF CallOrder
<1>2. \E i \in S : \A j \in S : i <= j
  <2>1. CASE 1 \in S
    BY <1>1, <2>1
  <2>2. CASE 1 \notin S /\ 2 \in S
    BY <1>1, <2>2
  <2>3. CASE 1 \notin S /\ 2 \notin S /\ 3 \in S
    BY <1>1, <2>3
  <2>4. CASE 1 \notin S /\ 2 \notin S /\ 3 \notin S /\ 4 \in S
    BY <1>1, <2>4
  <2>5. CASE 1 \notin S /\ 2 \notin S /\ 3 \notin S /\ 4 \notin S /\ 5 \in S
    BY <1>1, <2>5
  <2>6. CASE 1 \notin S /\ 2 \notin S /\ 3 \notin S /\ 4 \notin S /\ 5 \notin S /\ 6 \in S
    BY <1>1, <2>6
  <2>7. CASE S \subseteq {7}
    BY <1>1, <2>7
  <2> QED
    BY <1>1, <2>1, <2>2, <2>3, <2>4, <2>5, <2>6, <2>7
<1> QED
  BY <1>2

\* The agent starts without a client.
LEMMA PollStart == MerakiInit => PollIInv
<1> SUFFICES ASSUME MerakiInit PROVE PollIInv
  OBVIOUS
<1> USE MerakiAssumption DEF MerakiInit
<1>1. PollTypes
  <2>1. PollTypeOK
    BY DEF PollTypeOK, Fetchers, Stages
  <2>2. at[Poller] = "boot" /\ \A b \in Builders : at[b] = "none"
    BY DEF Fetchers
  <2>3. \A f \in Fetchers : IsABag(got[f])
    BY NoPages, Zenon
  <2> QED
    BY <2>1, <2>2, <2>3 DEF PollTypes
<1>2. \A f \in Fetchers : Local(f)
  BY DEF Local, InStage, OutOfStage, Stages
<1>3. OnCall /\ WholeResults /\ ListsWhole
  <2>1. at[Poller] = "boot" /\ \A b \in Builders : at[b] = "none"
    BY DEF Fetchers
  <2>2. tracked = {} /\ ~infoOk /\ ~bwOk
    BY Zenon
  <2>3. Tracked("limits") = {}
    BY <2>2 DEF Tracked, PerNetwork
  <2> HIDE DEF MerakiInit
  <2> QED
    BY <2>1, <2>2, <2>3 DEF OnCall, WholeResults, ListsWhole, Stages
<1> QED
  BY <1>1, <1>2, <1>3 DEF PollIInv

\* Run goes on to another place and has no unit there; the goroutines in the
\* background are where they were.
OthersStay ==
  \A b \in Builders : /\ at'[b] = at[b] /\ left'[b] = left[b] /\ unit'[b] = unit[b] /\ tries'[b] = tries[b]
                      /\ asks'[b] = asks[b] /\ got'[b] = got[b] /\ refused'[b] = refused[b]
LEMMA PollerMoves ==
  ASSUME PollIInv, NEW p \in (Stages \ {"limits"}) \cup {"boot", "select", "send", "done"},
         at' = [at EXCEPT ![Poller] = p], left' \in [Fetchers -> SUBSET Units], unit' \in [Fetchers -> Units \cup {NoUnit}],
         tries' \in [Fetchers -> Nat], asks' \in [Fetchers -> Nat], toLog' \in [Fetchers -> {0, 1}],
         unit'[Poller] # NoUnit => unit'[Poller] \in left'[Poller],
         DOMAIN got' = Fetchers, IsABag(got'[Poller]), DOMAIN refused' = Fetchers, todo' \subseteq DOMAIN CallOrder,
         jchf' \in 0 .. JchfRoom, lines' \in 0 .. LogRoom, UNCHANGED <<on, tracked>>, OthersStay,
         Local(Poller)', OnCall', WholeResults', ListsWhole'
  PROVE  PollIInv'
<1>0. PollTypes /\ \A f \in Fetchers : Local(f)
  BY DEF PollIInv
<1>1. Fetchers = {Poller} \cup Builders /\ Poller \notin Builders
  BY MerakiAssumption DEF Fetchers
<1>2. \A f \in Fetchers : Local(f)'
  <2> SUFFICES ASSUME NEW b \in Builders PROVE Local(b)'
    BY <1>1
  <2> QED
    BY <1>0, <1>1, LocalFrame DEF OthersStay
<1>3. PollTypes'
  <2>1. /\ at' \in [Fetchers -> Stages \cup {"boot", "select", "send", "done", "none"}] /\ at'[Poller] = p
        /\ \A b \in Builders : at'[b] \in {"none", "limits"}
    BY <1>0, <1>1 DEF PollTypes, PollTypeOK
  <2>2. \A f \in Fetchers : unit'[f] # NoUnit => unit'[f] \in left'[f]
    BY <1>0, <1>1 DEF PollTypes, PollTypeOK, OthersStay
  <2>3. \A f \in Fetchers : IsABag(got'[f])
    BY <1>0, <1>1 DEF PollTypes, OthersStay
  <2>4. PollTypeOK'
    BY <1>0, <2>1, <2>2 DEF PollTypes, PollTypeOK
  <2> QED
    BY <1>0, <2>1, <2>3, <2>4 DEF PollTypes
<1> QED
  BY <1>2, <1>3 DEF PollIInv

\* The call returns, and the next one begins.
LEMMA NextCallKept ==
  ASSUME PollIInv, NextCall, at[Poller] \notin {"boot", "networks"}, UNCHANGED <<on, clientVars, cacheVars, tries, toLog>>,
         asks' = asks \/ asks' = [asks EXCEPT ![Poller] = @ + 1], jchf' \in 0 .. JchfRoom, lines' \in 0 .. LogRoom
  PROVE  PollIInv'
<1>0. PollTypes /\ ListsWhole /\ Fetchers = {Poller} \cup Builders /\ Poller \notin Builders
  BY MerakiAssumption DEF PollIInv, Fetchers
<1>a. UNCHANGED <<on, tracked, known, infoOk, info, bwOk, bw, bwRefused>>
  BY DEF clientVars, cacheVars
<1>1. ListsWhole'
  BY <1>0, <1>a DEF ListsWhole, Tracked
<1>2. /\ tries' \in [Fetchers -> Nat] /\ asks' \in [Fetchers -> Nat] /\ toLog' \in [Fetchers -> {0, 1}]
      /\ \A b \in Builders : tries'[b] = tries[b] /\ asks'[b] = asks[b]
  BY <1>0 DEF PollTypes
<1>3. /\ DOMAIN got' = Fetchers /\ got'[Poller] = EmptyBag /\ IsABag(got'[Poller]) /\ DOMAIN refused' = Fetchers
      /\ \A b \in Builders : got'[b] = got[b] /\ refused'[b] = refused[b]
  BY <1>0, NoPages DEF PollTypes, NextCall
<1>4. CASE todo = {}
  <2>1. /\ at' = [at EXCEPT ![Poller] = "select"] /\ todo' = todo
        /\ left' = [left EXCEPT ![Poller] = {}] /\ unit' = [unit EXCEPT ![Poller] = NoUnit]
    BY <1>4 DEF NextCall
  <2>2. /\ left' \in [Fetchers -> SUBSET Units] /\ unit' \in [Fetchers -> Units \cup {NoUnit}]
        /\ left'[Poller] = {} /\ unit'[Poller] = NoUnit /\ at'[Poller] = "select"
        /\ \A b \in Builders : at'[b] = at[b] /\ left'[b] = left[b] /\ unit'[b] = unit[b]
    BY <1>0, <2>1 DEF PollTypes, PollTypeOK
  <2>3. Local(Poller)' /\ OnCall' /\ WholeResults'
    BY <1>3, <2>2 DEF Local, InStage, OutOfStage, OnCall, WholeResults, Stages
  <2> QED
    BY <1>0, <1>a, <1>1, <1>2, <1>3, <2>1, <2>2, <2>3, PollerMoves DEF OthersStay, PollTypes
<1>5. CASE todo # {}
  <2> PICK first : first = CHOOSE i \in todo : \A j \in todo : i <= j
    OBVIOUS
  <2> PICK s : s = CallOrder[first]
    OBVIOUS
  <2>1. first \in todo /\ todo \subseteq DOMAIN CallOrder
    BY <1>0, <1>5, FirstCall DEF PollTypes
  <2>2. /\ at' = [at EXCEPT ![Poller] = s] /\ todo' = todo \ {first} /\ call' = s
        /\ left' = [left EXCEPT ![Poller] = Tracked(s)] /\ unit' = [unit EXCEPT ![Poller] = NoUnit]
    BY <1>5 DEF NextCall, BeginCall, BeginStage
  <2>3. s \in Stages \ {"networks", "limits"} /\ Before(s) = {} /\ CallOf(s) = s /\ s \notin {"usage", "latency"}
    BY <2>1, CallsAreStages
  <2>4. Tracked(s) \subseteq Units /\ Tracked(s)' = Tracked(s)
    BY <1>0, <1>a DEF Tracked, Units, PollTypes, PollTypeOK
  <2>5. /\ left' \in [Fetchers -> SUBSET Units] /\ unit' \in [Fetchers -> Units \cup {NoUnit}]
        /\ left'[Poller] = Tracked(s) /\ unit'[Poller] = NoUnit /\ at'[Poller] = s
        /\ \A b \in Builders : at'[b] = at[b] /\ left'[b] = left[b] /\ unit'[b] = unit[b]
    BY <1>0, <2>2, <2>4 DEF PollTypes, PollTypeOK
  <2>6. Local(Poller)'
    BY <1>0, <1>3, <2>3, <2>4, <2>5, NoPages, LocalBegins
  <2>7. OnCall' /\ WholeResults'
    BY <2>2, <2>3, <2>5 DEF OnCall, WholeResults, Stages
  <2> QED
    BY <1>0, <1>a, <1>1, <1>2, <1>3, <2>1, <2>2, <2>3, <2>5, <2>6, <2>7, PollerMoves DEF OthersStay
<1> QED
  BY <1>4, <1>5

\* At the end of a stage everything it is about is complete.
LEMMA StageOver ==
  ASSUME PollIInv, NEW s \in Stages \ {"networks"}, StageEnds(s)
  PROVE  /\ \A r \in Before(s) \cup {s} : \A u \in Tracked(r) : Complete(Poller, r, u)
         /\ \A x \in DOMAIN got[Poller] : x[1] \in Before(s) \cup {s}
         /\ call = CallOf(s) /\ (s \in {"usage", "latency"} => "usage" \in on)
<1>1. InStage(Poller) /\ at[Poller] = s /\ left[Poller] = {} /\ OnCall
  BY DEF PollIInv, Local, StageEnds, Fetchers
<1>2. Scope(Poller, s) = Tracked(s)
  BY DEF Scope
<1>3. /\ \A u \in Tracked(s) : Complete(Poller, s, u)
      /\ \A r \in Before(s) : \A u \in Tracked(r) : Complete(Poller, r, u)
      /\ \A x \in DOMAIN got[Poller] : x[1] \in Before(s) \cup {s}
  BY <1>1, <1>2 DEF InStage
<1> QED
  BY <1>1, <1>3 DEF OnCall

\* What has been fetched is parsed.
LEMMA ParseKept ==
  ASSUME PollIInv, NEW s \in Stages \ {"networks"}, StageEnds(s), StagesOf(call) \subseteq Before(s) \cup {s},
         Parse, UNCHANGED <<on, tries, asks, toLog, tracked, jchf, lines>>, ListsWhole'
  PROVE  PollIInv'
<1>0. PollTypes /\ Fetchers = {Poller} \cup Builders /\ Poller \notin Builders
  BY MerakiAssumption DEF PollIInv, Fetchers
<1>1. at' = [at EXCEPT ![Poller] = "send"] /\ UNCHANGED <<left, unit, todo, call, got, refused>>
  BY DEF Parse, runVars
<1>2. /\ left[Poller] = {} /\ unit[Poller] = NoUnit /\ at'[Poller] = "send"
      /\ \A b \in Builders : at'[b] = at[b]
  BY <1>0, <1>1 DEF StageEnds, PollTypes, PollTypeOK
<1>3. Local(Poller)' /\ OnCall'
  BY <1>1, <1>2 DEF Local, InStage, OutOfStage, OnCall, Stages
<1>4. WholeResults'
  <2>1. \A r \in StagesOf(call) : \A u \in Tracked(r) : Complete(Poller, r, u)
    BY StageOver
  <2>2. StagesOf(call)' = StagesOf(call) /\ \A r : Tracked(r)' = Tracked(r)
    BY <1>1 DEF StagesOf, Tracked
  <2>3. \A r, u : Complete(Poller, r, u)' <=> Complete(Poller, r, u)
    BY <1>1 DEF Complete
  <2> QED
    BY <2>1, <2>2, <2>3 DEF WholeResults, Complete
<1> QED
  BY <1>0, <1>1, <1>2, <1>3, <1>4, PollerMoves DEF PollTypes, PollTypeOK, OthersStay

\* The next stage of the call begins.
LEMMA GoesOn ==
  ASSUME PollIInv, NEW s \in Stages \ {"networks"}, NEW t \in Stages \ {"networks", "limits"}, StageEnds(s),
         Before(t) = Before(s) \cup {s}, CallOf(t) = CallOf(s), t \in {"usage", "latency"} => "usage" \in on,
         BeginStage(Poller, t),
         UNCHANGED <<on, runVars, tries, asks, toLog, got, refused, clientVars, cacheVars, chanVars>>
  PROVE  PollIInv'
<1>0. PollTypes /\ ListsWhole /\ Fetchers = {Poller} \cup Builders /\ Poller \notin Builders
  BY MerakiAssumption DEF PollIInv, Fetchers
<1>1. /\ at' = [at EXCEPT ![Poller] = t] /\ left' = [left EXCEPT ![Poller] = Tracked(t)]
      /\ unit' = [unit EXCEPT ![Poller] = NoUnit]
      /\ UNCHANGED <<on, todo, call, tries, asks, toLog, got, refused, tracked, known, infoOk, info, bwOk, bw, bwRefused,
                     jchf, lines>>
  BY DEF BeginStage, runVars, clientVars, cacheVars, chanVars
<1>2. Tracked(t) \subseteq Units /\ \A r : Tracked(r)' = Tracked(r)
  BY <1>0, <1>1 DEF Tracked, Units, PollTypes, PollTypeOK
<1>3. /\ left' \in [Fetchers -> SUBSET Units] /\ unit' \in [Fetchers -> Units \cup {NoUnit}]
      /\ left'[Poller] = Tracked(t) /\ unit'[Poller] = NoUnit /\ at'[Poller] = t
      /\ \A b \in Builders : at'[b] = at[b] /\ left'[b] = left[b] /\ unit'[b] = unit[b]
  BY <1>0, <1>1, <1>2 DEF PollTypes, PollTypeOK
<1>4. Local(Poller)'
  <2>1. /\ \A r \in Before(t) : \A u \in Tracked(r) : Complete(Poller, r, u)
        /\ \A x \in DOMAIN got[Poller] : x[1] \in Before(t)
    BY StageOver
  <2>2. \A r, u : Complete(Poller, r, u)' <=> Complete(Poller, r, u)
    BY <1>1 DEF Complete
  <2> QED
    BY <1>0, <1>1, <1>2, <1>3, <2>1, <2>2, LocalBegins
<1>5. OnCall' /\ WholeResults' /\ ListsWhole'
  <2>1. call = CallOf(t)
    BY StageOver
  <2>2. OnCall'
    BY <1>1, <1>3, <2>1 DEF OnCall, Stages
  <2>3. WholeResults' 
    BY <1>3 DEF WholeResults, Stages
  <2>4. ListsWhole'
    BY <1>0, <1>1, <1>2 DEF ListsWhole
  <2> QED
    BY <2>2, <2>3, <2>4
<1>6. /\ tries' \in [Fetchers -> Nat] /\ asks' \in [Fetchers -> Nat] /\ toLog' \in [Fetchers -> {0, 1}]
      /\ DOMAIN got' = Fetchers /\ IsABag(got'[Poller]) /\ DOMAIN refused' = Fetchers /\ todo' \subseteq DOMAIN CallOrder
      /\ jchf' \in 0 .. JchfRoom /\ lines' \in 0 .. LogRoom
  BY <1>0, <1>1 DEF PollTypes, PollTypeOK
<1>7. OthersStay
  BY <1>1, <1>3 DEF OthersStay
<1> QED
  BY <1>1, <1>3, <1>4, <1>5, <1>6, <1>7, PollerMoves

\* A goroutine asks for a unit and gets a page of it, an answer to ask again, or leaves it out.
Keeps == UNCHANGED <<on, at, runVars, clientVars, cacheVars>>
LEMMA FetcherWorks ==
  ASSUME PollIInv, NEW f \in Fetchers, at[f] \in Stages, Keeps,
         left' \in [Fetchers -> SUBSET Units], unit' \in [Fetchers -> Units \cup {NoUnit}],
         tries' \in [Fetchers -> Nat], asks' \in [Fetchers -> Nat], toLog' \in [Fetchers -> {0, 1}],
         unit'[f] # NoUnit => unit'[f] \in left'[f],
         DOMAIN got' = Fetchers, IsABag(got'[f]), DOMAIN refused' = Fetchers,
         jchf' \in 0 .. JchfRoom, lines' \in 0 .. LogRoom,
         \A g \in Fetchers \ {f} : /\ left'[g] = left[g] /\ unit'[g] = unit[g] /\ tries'[g] = tries[g]
                                   /\ asks'[g] = asks[g] /\ got'[g] = got[g] /\ refused'[g] = refused[g],
         InStage(f)'
  PROVE  PollIInv'
<1>0. PollTypes /\ (\A g \in Fetchers : Local(g)) /\ OnCall /\ WholeResults /\ ListsWhole
  BY DEF PollIInv
<1>1. UNCHANGED <<on, at, todo, call, tracked, known, infoOk, info, bwOk, bw, bwRefused>>
  BY DEF Keeps, runVars, clientVars, cacheVars
<1>2. \A g \in Fetchers : Local(g)'
  <2>1. Local(f)'
    BY <1>1 DEF Local, OutOfStage
  <2>2. ASSUME NEW g \in Fetchers \ {f} PROVE Local(g)'
    BY <1>0, <1>1, LocalFrame
  <2> QED
    BY <2>1, <2>2
<1>3. PollTypes'
  <2>1. \A g \in Fetchers : (unit'[g] # NoUnit => unit'[g] \in left'[g]) /\ IsABag(got'[g])
    BY <1>0 DEF PollTypes, PollTypeOK
  <2>2. PollTypeOK'
    BY <1>0, <1>1, <2>1 DEF PollTypes, PollTypeOK
  <2> QED
    BY <1>0, <1>1, <2>1, <2>2 DEF PollTypes
<1>4. WholeResults'
  <2>1. CASE at[Poller] = "send"
    <3>1. Poller \in Fetchers \ {f}
      BY <2>1 DEF Fetchers, Stages
    <3>2. got'[Poller] = got[Poller] /\ refused'[Poller] = refused[Poller]
      BY <3>1
    <3> QED
      BY <1>0, <1>1, <3>2 DEF WholeResults, StagesOf, Tracked
  <2>2. CASE at[Poller] # "send"
    BY <1>1, <2>2 DEF WholeResults
  <2> QED
    BY <2>1, <2>2
<1>5. OnCall' /\ ListsWhole'
  BY <1>0, <1>1 DEF OnCall, ListsWhole, Tracked
<1> QED
  BY <1>2, <1>3, <1>4, <1>5 DEF PollIInv

\* The channels, the clock and the age of what is kept.
LEMMA QuietKept ==
  ASSUME PollIInv, UNCHANGED <<on, at, runVars, left, unit, tries, asks, got, refused, clientVars, info, bw, bwRefused>>,
         toLog' \in [Fetchers -> {0, 1}], jchf' \in 0 .. JchfRoom, lines' \in 0 .. LogRoom,
         infoOk' => infoOk, bwOk' => bwOk
  PROVE  PollIInv'
<1>0. PollTypes /\ (\A f \in Fetchers : Local(f)) /\ OnCall /\ WholeResults /\ ListsWhole
  BY DEF PollIInv
<1>1. UNCHANGED <<on, at, todo, call, left, unit, tries, asks, got, refused, tracked, known, info, bw, bwRefused>>
  BY DEF runVars, clientVars
<1>2. PollTypes'
  BY <1>0, <1>1 DEF PollTypes, PollTypeOK
<1>3. \A f \in Fetchers : Local(f)'
  BY <1>0, <1>1, LocalFrame
<1>4. OnCall' /\ WholeResults'
  BY <1>0, <1>1 DEF OnCall, WholeResults, StagesOf, Tracked
<1>5. ListsWhole'
  BY <1>0, <1>1 DEF ListsWhole, Tracked
<1> QED
  BY <1>2, <1>3, <1>4, <1>5 DEF PollIInv

\* A goroutine in the background ends.
LEMMA BuilderEnds ==
  ASSUME PollIInv, NEW b \in Builders, at' = [at EXCEPT ![b] = "none"], left' = [left EXCEPT ![b] = {}],
         unit' = [unit EXCEPT ![b] = NoUnit], got' = [got EXCEPT ![b] = EmptyBag], refused' = [refused EXCEPT ![b] = {}],
         asks' = asks \/ asks' = [asks EXCEPT ![b] = @ + 1],
         UNCHANGED <<on, todo, call, tries, toLog, tracked, known, infoOk, info, jchf, lines>>,
         OnCall', ListsWhole'
  PROVE  PollIInv'
<1>0. /\ PollTypes /\ (\A f \in Fetchers : Local(f)) /\ WholeResults
      /\ b \in Fetchers /\ Poller \in Fetchers /\ Poller # b
  BY MerakiAssumption DEF PollIInv, Fetchers
<1>1. /\ at' \in [Fetchers -> Stages \cup {"boot", "select", "send", "done", "none"}]
      /\ left' \in [Fetchers -> SUBSET Units] /\ unit' \in [Fetchers -> Units \cup {NoUnit}] /\ asks' \in [Fetchers -> Nat]
      /\ DOMAIN got' = Fetchers /\ DOMAIN refused' = Fetchers
      /\ at'[b] = "none" /\ left'[b] = {} /\ unit'[b] = NoUnit /\ got'[b] = EmptyBag
      /\ \A f \in Fetchers \ {b} : /\ at'[f] = at[f] /\ left'[f] = left[f] /\ unit'[f] = unit[f] /\ asks'[f] = asks[f]
                                   /\ got'[f] = got[f] /\ refused'[f] = refused[f]
  BY <1>0 DEF PollTypes, PollTypeOK
<1>2. PollTypes'
  <2>1. \A f \in Fetchers : (unit'[f] # NoUnit => unit'[f] \in left'[f]) /\ IsABag(got'[f])
    BY <1>0, <1>1, NoPages DEF PollTypes, PollTypeOK
  <2>2. PollTypeOK'
    BY <1>0, <1>1, <2>1 DEF PollTypes, PollTypeOK
  <2>3. at'[Poller] = at[Poller] /\ \A c \in Builders : at'[c] \in {"none", "limits"}
    BY <1>0, <1>1 DEF PollTypes, Fetchers
  <2> QED
    BY <1>0, <1>1, <2>1, <2>2, <2>3 DEF PollTypes
<1>3. \A f \in Fetchers : Local(f)'
  <2>1. Local(b)'
    BY <1>1 DEF Local, InStage, OutOfStage, Stages
  <2>2. ASSUME NEW f \in Fetchers \ {b} PROVE Local(f)'
    BY <1>0, <1>1, LocalFrame
  <2> QED
    BY <2>1, <2>2
<1>4. WholeResults'
  <2>1. Poller \in Fetchers \ {b}
    BY <1>0
  <2>2. at'[Poller] = at[Poller] /\ got'[Poller] = got[Poller] /\ refused'[Poller] = refused[Poller]
    BY <1>1, <2>1
  <2> QED
    BY <1>0, <2>2 DEF WholeResults, StagesOf, Tracked
<1> QED
  BY <1>2, <1>3, <1>4 DEF PollIInv

\* Requests and their answers, in any stage.
LEMMA FetchKept ==
  ASSUME PollIInv, NEW f \in Fetchers
  PROVE  /\ \A u : TakeUnit(f, u) => PollIInv'
         /\ (GotPage(f) => PollIInv') /\ (AskAgain(f) => PollIInv') /\ (PushLine(f) => PollIInv')
         /\ (Refused(f) \/ RequestFails(f) => PollIInv')
<1> PICK s, w : s = at[f] /\ w = unit[f]
  OBVIOUS
<1> PICK n : n = PagesIn(got[f], s, w)
  OBVIOUS
<1>0. /\ PollTypes /\ InStage(f) /\ OutOfStage(f) /\ DOMAIN got = Fetchers /\ IsABag(got[f]) /\ DOMAIN refused = Fetchers
      /\ left \in [Fetchers -> SUBSET Units] /\ unit \in [Fetchers -> Units \cup {NoUnit}]
      /\ tries \in [Fetchers -> Nat] /\ asks \in [Fetchers -> Nat] /\ toLog \in [Fetchers -> {0, 1}]
      /\ jchf \in 0 .. JchfRoom /\ lines \in 0 .. LogRoom /\ (w # NoUnit => w \in left[f])
  BY DEF PollIInv, Local, PollTypes, PollTypeOK
<1>1. w # NoUnit => /\ s \in Stages /\ w \in Units /\ n \in Nat /\ PagesOf(s, w) \in Nat /\ n < PagesOf(s, w)
                    /\ tries[f] <= Budget(s) /\ Budget(s) \in Nat /\ (s # "usage" => asks[f] = n + tries[f])
  <2>1. w # NoUnit => s \in Stages /\ w \in Units
    BY <1>0 DEF OutOfStage
  <2> QED
    BY <1>0, <2>1, Numbers, PagesCount DEF InStage
<1>2. ASSUME NEW u, TakeUnit(f, u) PROVE PollIInv'
  <2>1. /\ s \in Stages /\ u \in left[f] /\ w = NoUnit /\ unit' = [unit EXCEPT ![f] = u]
        /\ tries' = [tries EXCEPT ![f] = 0] /\ asks' = [asks EXCEPT ![f] = 0]
        /\ UNCHANGED <<left, toLog, got, refused, jchf, lines>> /\ Keeps
    BY <1>2 DEF TakeUnit, Keeps, chanVars
  <2>2. u \in Units /\ u # NoUnit
    BY <1>0, <2>1, MerakiAssumption DEF Units
  <2>3. /\ unit' \in [Fetchers -> Units \cup {NoUnit}] /\ unit'[f] = u /\ tries'[f] = 0 /\ asks'[f] = 0
        /\ tries' \in [Fetchers -> Nat] /\ asks' \in [Fetchers -> Nat]
        /\ \A g \in Fetchers \ {f} : unit'[g] = unit[g] /\ tries'[g] = tries[g] /\ asks'[g] = asks[g]
    BY <1>0, <2>1, <2>2
  <2>4. InStage(f)'
    <3>1. UNCHANGED <<on, at, tracked>>
      BY <2>1 DEF Keeps, clientVars
    <3>2. \A r : Tracked(r)' = Tracked(r) /\ Budget(r)' = Budget(r) /\ Scope(f, r)' = Scope(f, r)
      BY <2>1, <3>1 DEF Tracked, Budget, Scope
    <3>3. \A r, v : Complete(f, r, v)' <=> Complete(f, r, v)
      BY <2>1 DEF Complete
    <3>4. PagesIn(got[f], s, u) = 0 /\ PagesOf(s, u) > 0 /\ Budget(s) \in Nat
      BY <1>0, <2>1, <2>2, Numbers DEF InStage
    <3>5. \A v \in left[f] : PagesIn(got[f], s, v) = 0
      BY <1>0, <2>1, MerakiAssumption DEF InStage, Units
    <3>6. UNCHANGED <<left, got>>
      BY <2>1
    <3> QED
      BY <1>0, <2>1, <2>3, <3>1, <3>2, <3>3, <3>4, <3>5, <3>6 DEF InStage
  <2> QED
    BY <1>0, <2>1, <2>2, <2>3, <2>4, FetcherWorks
<1>3. ASSUME AskAgain(f) PROVE PollIInv'
  <2>1. /\ w # NoUnit /\ tries[f] < Budget(s) /\ tries' = [tries EXCEPT ![f] = @ + 1] /\ asks' = [asks EXCEPT ![f] = @ + 1]
        /\ UNCHANGED <<left, unit, toLog, got, refused, jchf, lines>> /\ Keeps
    BY <1>3 DEF AskAgain, Asking, Keeps, chanVars
  <2>2. /\ tries'[f] = tries[f] + 1 /\ asks'[f] = asks[f] + 1
        /\ tries' \in [Fetchers -> Nat] /\ asks' \in [Fetchers -> Nat]
        /\ \A g \in Fetchers \ {f} : tries'[g] = tries[g] /\ asks'[g] = asks[g]
    BY <1>0, <2>1
  <2>3. InStage(f)'
    <3>1. UNCHANGED <<on, at, tracked>>
      BY <2>1 DEF Keeps, clientVars
    <3>2. \A r : Tracked(r)' = Tracked(r) /\ Budget(r)' = Budget(r) /\ Scope(f, r)' = Scope(f, r)
      BY <2>1, <3>1 DEF Tracked, Budget, Scope
    <3>3. \A r, v : Complete(f, r, v)' <=> Complete(f, r, v)
      BY <2>1 DEF Complete
    <3>4. tries[f] \in Nat /\ tries[f] + 1 <= Budget(s) /\ (s # "usage" => asks[f] + 1 = n + (tries[f] + 1))
      BY <1>0, <1>1, <2>1
    <3> QED
      BY <1>0, <2>1, <2>2, <3>1, <3>2, <3>3, <3>4 DEF InStage
  <2> QED
    BY <1>0, <1>1, <2>1, <2>2, <2>3, FetcherWorks
<1>4. ASSUME PushLine(f) PROVE PollIInv'
  <2>1. toLog' \in [Fetchers -> {0, 1}] /\ lines' \in 0 .. LogRoom
    BY <1>0, <1>4, MerakiAssumption DEF PushLine
  <2> QED
    BY <1>0, <1>4, <2>1, QuietKept DEF PushLine, cacheVars
<1>5. ASSUME GotPage(f) PROVE PollIInv'
  <2> PICK b : b = got[f] (+) SetToBag({<<s, w>>})
    OBVIOUS
  <2>1. /\ w # NoUnit /\ asks' = [asks EXCEPT ![f] = @ + 1] /\ got' = [got EXCEPT ![f] = b]
        /\ toLog' = [toLog EXCEPT ![f] = IF s = "security" THEN 1 ELSE 0]
        /\ \/ /\ n + 1 = PagesOf(s, w)
              /\ unit' = [unit EXCEPT ![f] = NoUnit] /\ left' = [left EXCEPT ![f] = @ \ {w}]
           \/ /\ n + 1 # PagesOf(s, w) /\ unit' = unit /\ left' = left
        /\ UNCHANGED <<tries, refused, jchf, lines>> /\ Keeps
    BY <1>5 DEF GotPage, Asking, Keeps, chanVars
  <2>2. /\ IsABag(b) /\ DOMAIN b = DOMAIN got[f] \cup {<<s, w>>} /\ PagesIn(b, s, w) = n + 1
        /\ \A r, v : <<r, v>> # <<s, w>> => PagesIn(b, r, v) = PagesIn(got[f], r, v)
    <3>1. IsABag(got[f])
      BY <1>0
    <3>2. b = Plus(got[f], s, w)
      BY DEF Plus
    <3>3. PageAdded(got[f], b, s, w)
      BY <3>1, <3>2, OnePage
    <3> QED
      BY <3>3 DEF PageAdded
  <2>3. /\ got'[f] = b /\ DOMAIN got' = Fetchers /\ asks'[f] = asks[f] + 1 /\ asks' \in [Fetchers -> Nat]
        /\ toLog' \in [Fetchers -> {0, 1}]
        /\ \A g \in Fetchers \ {f} : got'[g] = got[g] /\ asks'[g] = asks[g]
    BY <1>0, <2>1
  <2>4. /\ left' \in [Fetchers -> SUBSET Units] /\ unit' \in [Fetchers -> Units \cup {NoUnit}]
        /\ \A g \in Fetchers \ {f} : left'[g] = left[g] /\ unit'[g] = unit[g]
        /\ \/ n + 1 = PagesOf(s, w) /\ unit'[f] = NoUnit /\ left'[f] = left[f] \ {w}
           \/ n + 1 # PagesOf(s, w) /\ unit'[f] = w /\ left'[f] = left[f]
    BY <1>0, <2>1
  <2>5. InStage(f)'
    <3>1. UNCHANGED <<on, at, tracked, refused, tries>>
      BY <2>1 DEF Keeps, clientVars
    <3>2. \A r : Tracked(r)' = Tracked(r) /\ Budget(r)' = Budget(r)
      BY <3>1 DEF Tracked, Budget
    <3>3. \A r, v : <<r, v>> # <<s, w>> => (Complete(f, r, v)' <=> Complete(f, r, v))
      BY <2>2, <2>3, <3>1 DEF Complete
    <3>4. n + 1 = PagesOf(s, w) => Complete(f, s, w)'
      BY <2>2, <2>3 DEF Complete
    <3>5. s \notin Before(s)
      BY DEF Before
    <3>6. \A u \in Scope(f, s)' : u = w \/ u \in Scope(f, s)
      BY <2>2, <2>3, <3>1, <3>2 DEF Scope
    <3>7. s \in Stages
      BY <1>1, <2>1
    <3>8. left'[f] \subseteq left[f] /\ \A u \in left'[f] : u # unit'[f] => u \in left[f] /\ u # w
      BY <1>0, <2>1, <2>4
    <3>9. /\ left'[f] \subseteq (IF s = "networks" THEN Orgs ELSE Tracked(s)')
          /\ \A u \in left'[f] : u # unit'[f] => PagesIn(got'[f], s, u) = 0
      <4>1. /\ left[f] \subseteq (IF s = "networks" THEN Orgs ELSE Tracked(s))
            /\ \A u \in left[f] : u # w => PagesIn(got[f], s, u) = 0
        BY <1>0, <3>7 DEF InStage
      <4>2. \A u : u # w => PagesIn(got'[f], s, u) = PagesIn(got[f], s, u)
        BY <2>2, <2>3
      <4> QED
        BY <3>2, <3>8, <4>1, <4>2
    <3>10. \A u \in Scope(f, s)' \ left'[f] : Complete(f, s, u)'
      <4> SUFFICES ASSUME NEW u \in Scope(f, s)', u \notin left'[f] PROVE Complete(f, s, u)'
        OBVIOUS
      <4>1. CASE u = w
        BY <1>0, <2>1, <2>4, <3>4, <4>1
      <4>2. CASE u # w
        <5>1. u \in Scope(f, s) /\ u \notin left[f]
          BY <2>4, <3>6, <4>2
        <5> QED
          BY <1>0, <3>3, <3>7, <4>2, <5>1 DEF InStage
      <4> QED
        BY <4>1, <4>2
    <3>11. \A r \in Before(s) : \A u \in Tracked(r)' : Complete(f, r, u)'
      BY <1>0, <3>2, <3>3, <3>5, <3>7 DEF InStage
    <3>12. \A x \in DOMAIN got'[f] : x[1] \in Before(s) \cup {s}
      BY <1>0, <2>2, <2>3, <3>7 DEF InStage
    <3>13. unit'[f] # NoUnit =>
             /\ PagesIn(got'[f], s, unit'[f]) < PagesOf(s, unit'[f]) /\ tries'[f] <= Budget(s)'
             /\ s # "usage" => asks'[f] = PagesIn(got'[f], s, unit'[f]) + tries'[f]
      <4>1. tries[f] \in Nat /\ asks[f] \in Nat
        BY <1>0
      <4> QED
        BY <1>1, <2>1, <2>2, <2>3, <2>4, <3>1, <3>2, <4>1
    <3> QED
      BY <3>1, <3>7, <3>9, <3>10, <3>11, <3>12, <3>13 DEF InStage
  <2>6. s \in Stages /\ (unit'[f] # NoUnit => unit'[f] \in left'[f])
    BY <1>0, <1>1, <2>1, <2>4
  <2>7. \A g \in Fetchers \ {f} : /\ left'[g] = left[g] /\ unit'[g] = unit[g] /\ tries'[g] = tries[g]
                                   /\ asks'[g] = asks[g] /\ got'[g] = got[g] /\ refused'[g] = refused[g]
    BY <2>1, <2>3, <2>4
  <2>8. tries' \in [Fetchers -> Nat] /\ jchf' \in 0 .. JchfRoom /\ lines' \in 0 .. LogRoom /\ DOMAIN refused' = Fetchers
        /\ Keeps /\ IsABag(got'[f])
    BY <1>0, <2>1, <2>2, <2>3
  <2> QED
    BY <2>3, <2>4, <2>5, <2>6, <2>7, <2>8, FetcherWorks
<1>6. ASSUME Refused(f) \/ RequestFails(f) PROVE PollIInv'
  <2>1. /\ w # NoUnit /\ asks' = [asks EXCEPT ![f] = @ + 1]
        /\ (SkipUnit(f) /\ s \in SkipsOn400) \/ (GiveUp(f) /\ s # "networks")
        /\ UNCHANGED <<on, tries, toLog, clientVars, cacheVars, chanVars>>
    BY <1>6 DEF Refused, RequestFails, Asking, SkipsOn400, SkipsOnError
  <2>2. CASE SkipUnit(f) /\ s \in SkipsOn400
    <3>1. /\ refused' = [refused EXCEPT ![f] = @ \cup {<<s, w>>}] /\ left' = [left EXCEPT ![f] = @ \ {w}]
          /\ unit' = [unit EXCEPT ![f] = NoUnit] /\ UNCHANGED <<at, runVars, got>>
      BY <2>2 DEF SkipUnit
    <3>2. /\ refused'[f] = refused[f] \cup {<<s, w>>} /\ left'[f] = left[f] \ {w} /\ unit'[f] = NoUnit
          /\ left' \in [Fetchers -> SUBSET Units] /\ unit' \in [Fetchers -> Units \cup {NoUnit}]
          /\ asks' \in [Fetchers -> Nat] /\ DOMAIN refused' = Fetchers
          /\ \A g \in Fetchers \ {f} : /\ left'[g] = left[g] /\ unit'[g] = unit[g] /\ tries'[g] = tries[g]
                                       /\ asks'[g] = asks[g] /\ got'[g] = got[g] /\ refused'[g] = refused[g]
      BY <1>0, <2>1, <3>1
    <3>3. UNCHANGED <<on, at, tracked, got>> /\ Keeps
      BY <2>1, <3>1 DEF Keeps, clientVars
    <3>4. \A r : Tracked(r)' = Tracked(r) /\ Scope(f, r)' = Scope(f, r)
      BY <3>3 DEF Tracked, Scope
    <3>5. \A r, v : Complete(f, r, v) => Complete(f, r, v)'
      BY <3>2, <3>3 DEF Complete
    <3>6. Complete(f, s, w)' /\ s \in Stages
      BY <1>1, <2>1, <2>2, <3>2, <3>3 DEF Complete
    <3>7. InStage(f)'
      <4>1. /\ left[f] \subseteq (IF s = "networks" THEN Orgs ELSE Tracked(s))
            /\ \A u \in left[f] : u # w => PagesIn(got[f], s, u) = 0
            /\ \A u \in Scope(f, s) \ left[f] : Complete(f, s, u)
            /\ \A r \in Before(s) : \A u \in Tracked(r) : Complete(f, r, u)
            /\ \A x \in DOMAIN got[f] : x[1] \in Before(s) \cup {s}
        BY <1>0, <3>6 DEF InStage
      <4>2. \A u \in Scope(f, s)' \ left'[f] : Complete(f, s, u)'
        BY <3>2, <3>4, <3>5, <3>6, <4>1
      <4> QED
        BY <3>2, <3>3, <3>4, <3>5, <4>1, <4>2 DEF InStage
    <3>8. tries' \in [Fetchers -> Nat] /\ toLog' \in [Fetchers -> {0, 1}] /\ jchf' \in 0 .. JchfRoom /\ lines' \in 0 .. LogRoom
          /\ IsABag(got'[f]) /\ DOMAIN got' = Fetchers
      BY <1>0, <2>1, <3>3 DEF chanVars
    <3> QED
      BY <3>2, <3>3, <3>6, <3>7, <3>8, FetcherWorks
  <2>3. CASE GiveUp(f) /\ s # "networks" /\ f = Poller
    <3>1. NextCall /\ at[Poller] \notin {"boot", "networks"}
      BY <1>1, <2>1, <2>3 DEF GiveUp, Stages
    <3> QED
      BY <1>0, <2>1, <2>3, <3>1, NextCallKept DEF chanVars
  <2>4. CASE GiveUp(f) /\ f # Poller
    <3>1. /\ at' = [at EXCEPT ![f] = "none"] /\ left' = [left EXCEPT ![f] = {}]
          /\ unit' = [unit EXCEPT ![f] = NoUnit] /\ got' = [got EXCEPT ![f] = EmptyBag]
          /\ refused' = [refused EXCEPT ![f] = {}] /\ UNCHANGED runVars
      BY <2>4 DEF GiveUp
    <3>2. UNCHANGED <<on, todo, call, tries, toLog, tracked, known, infoOk, info, bwOk, bw, bwRefused, jchf, lines>>
      BY <2>1, <3>1 DEF cacheVars, chanVars, clientVars, runVars
    <3>3. f \in Builders /\ f # Poller
      BY <2>4 DEF Fetchers
    <3>4. ListsWhole'
      BY <3>2 DEF PollIInv, ListsWhole, Tracked
    <3>5. OnCall'
      BY <1>0, <3>1, <3>2, <3>3 DEF PollIInv, OnCall, PollTypes, PollTypeOK, Fetchers
    <3> QED
      BY <2>1, <3>1, <3>2, <3>3, <3>4, <3>5, BuilderEnds
  <2> QED
    BY <2>1, <2>2, <2>3, <2>4
<1> QED
  BY <1>2, <1>3, <1>4, <1>5, <1>6

\* The stages whose pages make the result have been gone through when it is parsed.
LEMMA ResultStages ==
  ASSUME PollIInv, NEW s \in {"changes", "status", "info", "clients", "uplinks", "latency", "vpn", "attr"},
         StageEnds(s), s = "uplinks" => "usage" \notin on
  PROVE  s \in Stages \ {"networks"} /\ StagesOf(call) \subseteq Before(s) \cup {s}
<1>1. s \in Stages \ {"networks"}
  BY DEF Stages
<1>2. call = CallOf(s)
  BY <1>1, StageOver
<1> QED
  BY <1>1, <1>2 DEF StagesOf, CallOf, Before

\* What is kept for long stays whole when the device information and the limits are not replaced.
LEMMA ListsKept ==
  ASSUME PollIInv, UNCHANGED <<clientVars, info, bw, bwRefused>>, infoOk' => infoOk, bwOk' => bwOk PROVE ListsWhole'
<1>1. UNCHANGED <<tracked, known>>
  BY DEF clientVars
<1> QED
  BY <1>1 DEF PollIInv, ListsWhole, Tracked

\* The steps of Run that parse what a call has fetched.
LEMMA ParsesKept ==
  ASSUME PollIInv,
         \/ GetOrgChanges \/ GetNetworkClients \/ GetVpnStatus \/ GetNetworkAttr \/ InfoFromCache \/ InfoDone
         \/ LimitsFromCache
  PROVE  PollIInv'
<1>0. Poller \in Fetchers
  BY DEF Fetchers
<1>1. CASE GetOrgChanges \/ GetNetworkClients \/ GetVpnStatus \/ GetNetworkAttr
  <2>1. PICK s \in {"changes", "clients", "vpn", "attr"} : OneStage(s)
    BY <1>1 DEF GetOrgChanges, GetNetworkClients, GetVpnStatus, GetNetworkAttr
  <2>2. /\ StageEnds(s) /\ Parse
        /\ UNCHANGED <<on, tries, asks, toLog, tracked, clientVars, infoOk, info, bwOk, bw, bwRefused, jchf, lines>>
    BY <2>1 DEF OneStage, clientVars, cacheVars, chanVars
  <2>3. ListsWhole'
    BY <2>2, ListsKept
  <2>4. s \in Stages \ {"networks"} /\ StagesOf(call) \subseteq Before(s) \cup {s}
    BY <2>2, ResultStages
  <2> QED
    BY <2>2, <2>3, <2>4, ParseKept
<1>2. CASE InfoFromCache
  <2>2. /\ StageEnds("status") /\ Parse
        /\ UNCHANGED <<on, tries, asks, toLog, tracked, clientVars, infoOk, info, bwOk, bw, bwRefused, jchf, lines>>
    BY <1>2 DEF InfoFromCache, clientVars, cacheVars, chanVars
  <2>3. ListsWhole'
    BY <2>2, ListsKept
  <2>4. "status" \in Stages \ {"networks"} /\ StagesOf(call) \subseteq Before("status") \cup {"status"}
    BY <2>2, ResultStages
  <2> QED
    BY <2>2, <2>3, <2>4, ParseKept
<1>3. CASE InfoDone
  <2>2. /\ StageEnds("info") /\ Parse /\ info' = got[Poller]
        /\ UNCHANGED <<on, tries, asks, toLog, tracked, known, bwOk, bw, bwRefused, jchf, lines>>
    BY <1>3 DEF InfoDone, clientVars, chanVars
  <2>4. "info" \in Stages \ {"networks"} /\ StagesOf(call) \subseteq Before("info") \cup {"info"}
    BY <2>2, ResultStages
  <2>3. ListsWhole'
    <3>1. \A u \in Tracked("info") : Complete(Poller, "info", u)
      BY <2>2, <2>4, StageOver
    <3>2. Tracked("info") = tracked /\ \A u : PagesOf("info", u) = NumPages[u]
      BY DEF Tracked, PerNetwork, PagesOf, Paged
    <3>3. \A o \in tracked : PagesIn(info', "info", o) = NumPages[o]
      BY <2>2, <3>1, <3>2 DEF Complete, SkipsOn400
    <3>4. Tracked("limits")' = Tracked("limits") /\ ListsWhole
      BY <2>2 DEF Tracked, PollIInv
    <3> QED
      BY <2>2, <3>3, <3>4 DEF ListsWhole
  <2> QED
    BY <2>2, <2>3, <2>4, ParseKept
<1>4. CASE LimitsFromCache
  <2>1. PICK s \in {"uplinks", "latency"} : StageEnds(s) /\ (s = "uplinks" => "usage" \notin on)
    BY <1>4 DEF LimitsFromCache, UplinksKnown
  <2>2. /\ Parse
        /\ UNCHANGED <<on, tries, asks, toLog, tracked, clientVars, infoOk, info, bwOk, bw, bwRefused, jchf, lines>>
    BY <1>4 DEF LimitsFromCache, clientVars, cacheVars, chanVars
  <2>3. ListsWhole'
    BY <2>2, ListsKept
  <2>4. s \in Stages \ {"networks"} /\ StagesOf(call) \subseteq Before(s) \cup {s}
    BY <2>1, ResultStages
  <2> QED
    BY <2>1, <2>2, <2>3, <2>4, ParseKept
<1> QED
  BY <1>1, <1>2, <1>3, <1>4

\* The steps of Run that go on to another stage of the call or to the next call.
LEMMA StagesKept ==
  ASSUME PollIInv,
         \/ AskForInfo \/ AskForUsage \/ AskForLatency \/ SecurityDone \/ NoDevices \/ SendResult \/ EmptyResult
  PROVE  PollIInv'
<1>0. jchf \in 0 .. JchfRoom /\ lines \in 0 .. LogRoom /\ JchfRoom \in Nat
  BY MerakiAssumption DEF PollIInv, PollTypes, PollTypeOK
<1>1. CASE AskForInfo
  BY <1>1, GoesOn DEF AskForInfo, Stages, Before, CallOf
<1>2. CASE AskForUsage
  BY <1>2, GoesOn DEF AskForUsage, Stages, Before, CallOf
<1>3. CASE AskForLatency
  <2>1. "usage" \in on
    BY <1>3 DEF AskForLatency, StageEnds, PollIInv, OnCall
  <2> QED
    BY <1>3, <2>1, GoesOn DEF AskForLatency, Stages, Before, CallOf
<1>4. CASE SecurityDone
  BY <1>0, <1>4, NextCallKept DEF SecurityDone, StageEnds, chanVars
<1>5. CASE NoDevices
  BY <1>0, <1>5, NextCallKept DEF NoDevices, StageEnds, chanVars
<1>6. CASE SendResult
  <2>1. jchf' \in 0 .. JchfRoom /\ lines' \in 0 .. LogRoom
    BY <1>0, <1>6 DEF SendResult
  <2> QED
    BY <1>6, <2>1, NextCallKept DEF SendResult
<1>7. CASE EmptyResult
  BY <1>0, <1>7, NextCallKept DEF EmptyResult, chanVars
<1> QED
  BY <1>1, <1>2, <1>3, <1>4, <1>5, <1>6, <1>7

\* Run leaves a place that is no stage for another one.
LEMMA GoesElsewhere ==
  ASSUME PollIInv, at[Poller] \in {"boot", "select"}, at' = [at EXCEPT ![Poller] = "done"],
         UNCHANGED <<on, runVars, fetchVars, clientVars, cacheVars, chanVars>>
  PROVE  PollIInv'
<1>0. PollTypes /\ Local(Poller) /\ Fetchers = {Poller} \cup Builders /\ Poller \notin Builders
  BY MerakiAssumption DEF PollIInv, Fetchers
<1>1. UNCHANGED <<on, todo, call, left, unit, tries, asks, toLog, got, refused, tracked, infoOk, info, bwOk, bw, bwRefused,
                  jchf, lines>>
  BY DEF runVars, fetchVars, clientVars, cacheVars, chanVars
<1>2. at'[Poller] = "done" /\ \A b \in Builders : at'[b] = at[b]
  BY <1>0 DEF PollTypes, PollTypeOK
<1>3. Local(Poller)' /\ OnCall' /\ WholeResults'
  BY <1>0, <1>1, <1>2 DEF Local, InStage, OutOfStage, OnCall, WholeResults, Stages
<1>4. ListsWhole'
  BY <1>1, ListsKept
<1> QED
  BY <1>0, <1>1, <1>2, <1>3, <1>4, PollerMoves DEF PollTypes, PollTypeOK, OthersStay

\* NewMerakiClient begins with the organisations it has found.
LEMMA ListOrgsKept == ASSUME PollIInv, NEW S \in SUBSET Orgs, ListOrgs(S) PROVE PollIInv'
<1>0. /\ PollTypes /\ OutOfStage(Poller) /\ OnCall /\ Fetchers = {Poller} \cup Builders /\ Poller \notin Builders
  BY MerakiAssumption DEF PollIInv, Local, Fetchers
<1>1. /\ at[Poller] = "boot" /\ at' = [at EXCEPT ![Poller] = "networks"] /\ left' = [left EXCEPT ![Poller] = S]
      /\ UNCHANGED <<on, todo, call, unit, tries, asks, toLog, got, refused, tracked, clientVars, infoOk, info, bwOk, bw,
                     bwRefused, jchf, lines>>
  BY DEF ListOrgs, runVars, clientVars, cacheVars, chanVars
<1>2. /\ at'[Poller] = "networks" /\ left'[Poller] = S /\ unit'[Poller] = NoUnit /\ got'[Poller] = EmptyBag
      /\ left' \in [Fetchers -> SUBSET Units]
      /\ \A b \in Builders : at'[b] = at[b] /\ left'[b] = left[b]
  BY <1>0, <1>1 DEF PollTypes, PollTypeOK, Units, OutOfStage, Stages
<1>3. Local(Poller)'
  <2>1. \A u : PagesIn(got'[Poller], "networks", u) = 0
    BY <1>2, NoPages
  <2>2. Scope(Poller, "networks")' = {}
    BY <2>1 DEF Scope
  <2>3. DOMAIN got'[Poller] = {} /\ Before("networks") = {}
    BY <1>2, NoPages DEF Before
  <2> QED
    BY <1>2, <2>1, <2>2, <2>3 DEF Local, InStage, OutOfStage, Stages
<1>4. OnCall' /\ WholeResults'
  BY <1>0, <1>1, <1>2 DEF OnCall, WholeResults
<1>5. ListsWhole'
  BY <1>1, ListsKept
<1>6. "networks" \in Stages \ {"limits"}
  BY DEF Stages
<1> QED
  BY <1>0, <1>1, <1>2, <1>3, <1>4, <1>5, <1>6, PollerMoves DEF PollTypes, PollTypeOK, OthersStay

\* The client tracks organisations whose networks it has all.
LEMMA ClientReadyKept == ASSUME PollIInv, NEW S \in SUBSET Orgs, ClientReady(S) PROVE PollIInv'
<1>0. /\ PollTypes /\ (\A f \in Fetchers : Local(f)) /\ OnCall /\ Fetchers = {Poller} \cup Builders /\ Poller \notin Builders
  BY MerakiAssumption DEF PollIInv, Fetchers
<1>1. /\ at[Poller] = "networks" /\ left[Poller] = {} /\ unit[Poller] = NoUnit
      /\ \A o \in S : PagesIn(got[Poller], "networks", o) > 0 /\ <<"networks", o>> \notin refused[Poller]
      /\ tracked' = S /\ known' = got[Poller] /\ at' = [at EXCEPT ![Poller] = "select"]
      /\ got' = [got EXCEPT ![Poller] = EmptyBag] /\ refused' = [refused EXCEPT ![Poller] = {}]
      /\ UNCHANGED <<on, todo, call, left, unit, tries, asks, toLog, infoOk, info, bwOk, bw, bwRefused, jchf, lines>>
  BY DEF ClientReady, StageEnds, runVars, cacheVars, chanVars
<1>2. /\ at' \in [Fetchers -> Stages \cup {"boot", "select", "send", "done", "none"}] /\ at'[Poller] = "select"
      /\ got'[Poller] = EmptyBag /\ DOMAIN got' = Fetchers /\ DOMAIN refused' = Fetchers
      /\ \A b \in Builders : at'[b] = "none" /\ at[b] = "none" /\ got'[b] = got[b]
  BY <1>0, <1>1 DEF PollTypes, PollTypeOK, OnCall
<1>3. PollTypes'
  <2>1. \A f \in Fetchers : IsABag(got'[f])
    BY <1>0, <1>2, NoPages DEF PollTypes
  <2>2. PollTypeOK'
    BY <1>0, <1>1, <1>2 DEF PollTypes, PollTypeOK
  <2> QED
    BY <1>0, <1>1, <1>2, <2>1, <2>2 DEF PollTypes
<1>4. ASSUME NEW f \in Fetchers PROVE Local(f)'
  <2>1. CASE f = Poller
    BY <1>1, <1>2, <2>1 DEF Local, InStage, OutOfStage, Stages
  <2>2. CASE f \in Builders
    BY <1>0, <1>1, <1>2, <2>2 DEF Local, InStage, OutOfStage, Stages
  <2> QED
    BY <1>0, <2>1, <2>2
<1>5. OnCall' /\ WholeResults'
  BY <1>2 DEF OnCall, WholeResults, Stages
<1>6. ListsWhole'
  <2>1. ~infoOk' /\ ~bwOk'
    BY <1>0, <1>1 DEF OnCall
  <2>2. \A o \in S : Complete(Poller, "networks", o)
    BY <1>0, <1>1 DEF Local, InStage, Scope, Stages
  <2>3. \A o \in S : PagesIn(known', "networks", o) = NumPages[o]
    BY <1>1, <2>2 DEF Complete, PagesOf, Paged
  <2> QED
    BY <1>1, <2>1, <2>3 DEF ListsWhole
<1> QED
  BY <1>3, <1>4, <1>5, <1>6 DEF PollIInv

\* A poll begins with the first call that is configured.
LEMMA StartPollKept == ASSUME PollIInv, StartPoll PROVE PollIInv'
<1>0. /\ PollTypes /\ OutOfStage(Poller) /\ Fetchers = {Poller} \cup Builders /\ Poller \notin Builders
  BY MerakiAssumption DEF PollIInv, Local, Fetchers
<1> PICK calls : calls = {i \in DOMAIN CallOrder : CallOrder[i] \in on}
  OBVIOUS
<1> PICK first : first = CHOOSE i \in calls : \A j \in calls : i <= j
  OBVIOUS
<1> PICK s : s = CallOrder[first]
  OBVIOUS
<1>1. calls \subseteq DOMAIN CallOrder /\ calls # {}
  BY <1>0, MerakiAssumption DEF PollTypes
<1>2. first \in DOMAIN CallOrder
  BY <1>1, FirstCall
<1>3. /\ at[Poller] = "select" /\ at' = [at EXCEPT ![Poller] = s] /\ todo' = calls \ {first} /\ call' = s
      /\ left' = [left EXCEPT ![Poller] = Tracked(s)] /\ unit' = [unit EXCEPT ![Poller] = NoUnit]
      /\ UNCHANGED <<on, tries, asks, toLog, got, refused, tracked, clientVars, infoOk, info, bwOk, bw, bwRefused, jchf,
                     lines>>
  BY DEF StartPoll, BeginCall, BeginStage, clientVars, cacheVars, chanVars
<1>4. s \in Stages \ {"networks", "limits"} /\ Before(s) = {} /\ CallOf(s) = s /\ s \notin {"usage", "latency"}
  BY <1>2, CallsAreStages
<1>5. Tracked(s) \subseteq Units /\ Tracked(s)' = Tracked(s)
  BY <1>0, <1>3 DEF Tracked, Units, PollTypes, PollTypeOK
<1>6. /\ left' \in [Fetchers -> SUBSET Units] /\ unit' \in [Fetchers -> Units \cup {NoUnit}]
      /\ left'[Poller] = Tracked(s) /\ unit'[Poller] = NoUnit /\ at'[Poller] = s /\ got'[Poller] = EmptyBag
      /\ \A b \in Builders : at'[b] = at[b] /\ left'[b] = left[b] /\ unit'[b] = unit[b]
  BY <1>0, <1>3, <1>5 DEF PollTypes, PollTypeOK, OutOfStage, Stages
<1>7. Local(Poller)'
  BY <1>0, <1>4, <1>5, <1>6, NoPages, LocalBegins
<1>8. OnCall' /\ WholeResults'
  BY <1>3, <1>4, <1>6 DEF OnCall, WholeResults, Stages
<1>9. ListsWhole'
  BY <1>3, ListsKept
<1>10. OthersStay
  BY <1>3, <1>6 DEF OthersStay
<1>11. /\ tries' \in [Fetchers -> Nat] /\ asks' \in [Fetchers -> Nat] /\ toLog' \in [Fetchers -> {0, 1}]
       /\ DOMAIN got' = Fetchers /\ IsABag(got'[Poller]) /\ DOMAIN refused' = Fetchers /\ todo' \subseteq DOMAIN CallOrder
       /\ jchf' \in 0 .. JchfRoom /\ lines' \in 0 .. LogRoom
  BY <1>0, <1>1, <1>3 DEF PollTypes, PollTypeOK
<1> QED
  BY <1>3, <1>4, <1>6, <1>7, <1>8, <1>9, <1>10, <1>11, PollerMoves

\* getUplinkUsage asks again.
LEMMA UsageBusyKept == ASSUME PollIInv, UsageBusy PROVE PollIInv'
<1>0. PollTypes /\ InStage(Poller) /\ Poller \in Fetchers
  BY DEF PollIInv, Local, Fetchers
<1>1. /\ at[Poller] = "usage" /\ asks' = [asks EXCEPT ![Poller] = @ + 1]
      /\ UNCHANGED <<on, at, runVars, left, unit, tries, toLog, got, refused, tracked, clientVars, cacheVars, jchf, lines>>
  BY DEF UsageBusy, Asking, clientVars, chanVars
<1>2. asks' \in [Fetchers -> Nat] /\ \A g \in Fetchers \ {Poller} : asks'[g] = asks[g]
  BY <1>0, <1>1 DEF PollTypes
<1>3. InStage(Poller)'
  <2>1. \A s : Tracked(s)' = Tracked(s) /\ Budget(s)' = Budget(s) /\ Scope(Poller, s)' = Scope(Poller, s)
    BY <1>1 DEF Tracked, Budget, Scope
  <2>2. \A s, u : Complete(Poller, s, u)' <=> Complete(Poller, s, u)
    BY <1>1 DEF Complete
  <2> QED
    BY <1>0, <1>1, <2>1, <2>2 DEF InStage
<1> QED
  BY <1>0, <1>1, <1>2, <1>3, FetcherWorks DEF PollTypes, PollTypeOK, Keeps, Stages

\* The limits are asked for in the background while what is known is sent.
LEMMA BackgroundKept == ASSUME PollIInv, NEW b \in Builders, LimitsInBackground(b) PROVE PollIInv'
<1>0. /\ PollTypes /\ (\A f \in Fetchers : Local(f)) /\ Fetchers = {Poller} \cup Builders /\ Poller \notin Builders
  BY MerakiAssumption DEF PollIInv, Fetchers
<1>1. /\ at[b] = "none" /\ at' = [at EXCEPT ![Poller] = "send", ![b] = "limits"]
      /\ left' = [left EXCEPT ![b] = Tracked("limits")]
      /\ UNCHANGED <<on, todo, call, unit, tries, asks, toLog, got, refused, tracked, clientVars, infoOk, info, bwOk, bw,
                     bwRefused, jchf, lines>>
  BY DEF LimitsInBackground, runVars, clientVars, cacheVars, chanVars
<1>2. PICK s \in {"uplinks", "latency"} : StageEnds(s) /\ (s = "uplinks" => "usage" \notin on)
  BY DEF LimitsInBackground, UplinksKnown
<1>3. \A r : Tracked(r)' = Tracked(r)
  BY <1>1 DEF Tracked
<1>4. /\ at' \in [Fetchers -> Stages \cup {"boot", "select", "send", "done", "none"}]
      /\ left' \in [Fetchers -> SUBSET Units] /\ left'[b] = Tracked("limits")' /\ left'[Poller] = {} /\ unit'[Poller] = NoUnit
      /\ at'[Poller] = "send" /\ at'[b] = "limits" /\ unit'[b] = NoUnit /\ got'[b] = EmptyBag
      /\ \A f \in Fetchers \ {Poller, b} : at'[f] = at[f] /\ left'[f] = left[f]
  <2>1. Tracked("limits") \subseteq Units /\ "limits" \in Stages
    BY DEF Tracked, PerNetwork, Units, Stages
  <2>2. left[Poller] = {} /\ unit[Poller] = NoUnit
    BY <1>2 DEF StageEnds
  <2>3. unit[b] = NoUnit /\ got[b] = EmptyBag
    BY <1>0, <1>1 DEF Local, OutOfStage, Stages
  <2> QED
    BY <1>0, <1>1, <1>3, <2>1, <2>2, <2>3 DEF PollTypes, PollTypeOK
<1>5. PollTypes'
  <2>1. \A f \in Fetchers : unit'[f] # NoUnit => unit'[f] \in left'[f]
    BY <1>0, <1>1, <1>4 DEF PollTypes, PollTypeOK
  <2>2. PollTypeOK'
    BY <1>0, <1>1, <1>4, <2>1 DEF PollTypes, PollTypeOK
  <2>3. \A c \in Builders : at'[c] \in {"none", "limits"}
    BY <1>0, <1>4 DEF PollTypes
  <2> QED
    BY <1>0, <1>1, <1>4, <2>2, <2>3 DEF PollTypes
<1>6. ASSUME NEW f \in Fetchers PROVE Local(f)'
  <2>1. CASE f = Poller
    BY <1>4, <2>1 DEF Local, InStage, OutOfStage, Stages
  <2>2. CASE f = b
    <3>1. Before("limits") = {} /\ "limits" \in Stages \ {"networks"} /\ DOMAIN got'[b] = {}
      BY <1>4, NoPages DEF Before, Stages
    <3> QED
      BY <1>4, <2>2, <3>1, LocalBegins
  <2>3. CASE f \notin {Poller, b}
    BY <1>0, <1>1, <1>4, <2>3, LocalFrame
  <2> QED
    BY <2>1, <2>2, <2>3
<1>7. OnCall'
  BY <1>4 DEF OnCall, Stages
<1>8. WholeResults'
  <2>1. s \in Stages \ {"networks"} /\ StagesOf(call) \subseteq Before(s) \cup {s}
    BY <1>2, ResultStages
  <2>2. \A r \in StagesOf(call) : \A u \in Tracked(r) : Complete(Poller, r, u)
    BY <1>2, <2>1, StageOver
  <2>3. StagesOf(call)' = StagesOf(call)
    BY <1>1 DEF StagesOf
  <2>4. \A r, u : Complete(Poller, r, u)' <=> Complete(Poller, r, u)
    BY <1>1 DEF Complete
  <2> QED
    BY <1>3, <2>2, <2>3, <2>4 DEF WholeResults, Complete
<1>9. ListsWhole'
  BY <1>1, ListsKept
<1> QED
  BY <1>5, <1>6, <1>7, <1>8, <1>9 DEF PollIInv

\* The limits are all there, but for the networks that were refused.
LEMMA LimitsDoneKept == ASSUME PollIInv, NEW b \in Builders, LimitsDone(b) PROVE PollIInv'
<1>0. /\ PollTypes /\ Local(b) /\ OnCall /\ ListsWhole /\ b \in Fetchers /\ Poller \in Fetchers /\ Poller # b
  BY MerakiAssumption DEF PollIInv, Fetchers
<1>1. /\ at[b] = "limits" /\ left[b] = {} /\ unit[b] = NoUnit
      /\ bw' = got[b] /\ bwRefused' = {r[2] : r \in refused[b]} /\ bwOk' = TRUE
      /\ at' = [at EXCEPT ![b] = "none"] /\ got' = [got EXCEPT ![b] = EmptyBag] /\ refused' = [refused EXCEPT ![b] = {}]
      /\ UNCHANGED <<on, todo, call, left, unit, tries, asks, toLog, tracked, known, infoOk, info, jchf, lines>>
  BY DEF LimitsDone, runVars, clientVars, chanVars
<1>2. left' = [left EXCEPT ![b] = {}] /\ unit' = [unit EXCEPT ![b] = NoUnit]
  BY <1>0, <1>1 DEF PollTypes
<1>3. OnCall'
  <2>1. at[Poller] \notin {"boot", "networks"} /\ at'[Poller] = at[Poller]
    BY <1>0, <1>1 DEF OnCall, PollTypes, PollTypeOK
  <2> QED
    BY <1>0, <1>1, <2>1 DEF OnCall
<1>4. ListsWhole'
  <2>1. \A u \in Tracked("limits") : Complete(b, "limits", u)
    BY <1>0, <1>1 DEF Local, InStage, Scope, Stages
  <2>2. \A u : PagesOf("limits", u) = 1
    BY DEF PagesOf, Paged
  <2>3. \A u \in Tracked("limits") : u \in bwRefused' \/ PagesIn(bw', "limits", u) = 1
    <3> SUFFICES ASSUME NEW u \in Tracked("limits") PROVE u \in bwRefused' \/ PagesIn(bw', "limits", u) = 1
      OBVIOUS
    <3>1. CASE <<"limits", u>> \in refused[b]
      <4>1. <<"limits", u>>[2] = u
        OBVIOUS
      <4> QED
        BY <1>1, <3>1, <4>1, Zenon
    <3>2. CASE <<"limits", u>> \notin refused[b]
      BY <1>1, <2>1, <2>2, <3>2 DEF Complete
    <3> QED
      BY <3>1, <3>2
  <2>4. Tracked("limits")' = Tracked("limits")
    BY <1>1 DEF Tracked
  <2> QED
    BY <1>0, <1>1, <2>3, <2>4 DEF ListsWhole
<1> QED
  BY <1>1, <1>2, <1>3, <1>4, BuilderEnds

\* No step of the client, and nothing that happens to it, breaks the invariant.
LEMMA PollKept == PollIInv /\ [MerakiNext]_pollVars => PollIInv'
<1> SUFFICES ASSUME PollIInv, [MerakiNext]_pollVars PROVE PollIInv'
  OBVIOUS
<1>0. /\ jchf \in 0 .. JchfRoom /\ lines \in 0 .. LogRoom /\ JchfRoom \in Nat /\ LogRoom \in Nat
      /\ toLog \in [Fetchers -> {0, 1}]
  BY MerakiAssumption DEF PollIInv, PollTypes, PollTypeOK
<1>1. ASSUME NEW f \in Fetchers, FetchStep(f) PROVE PollIInv'
  BY <1>1, FetchKept DEF FetchStep
<1>2. ASSUME NEW S \in SUBSET Orgs, ClientReady(S) \/ ListOrgs(S) PROVE PollIInv'
  BY <1>2, ClientReadyKept, ListOrgsKept
<1>3. CASE StartPoll \/ UsageBusy
  BY <1>3, StartPollKept, UsageBusyKept
<1>4. CASE \/ GetOrgChanges \/ GetNetworkClients \/ GetVpnStatus \/ GetNetworkAttr \/ InfoFromCache \/ InfoDone
           \/ LimitsFromCache
  BY <1>4, ParsesKept
<1>5. CASE AskForInfo \/ AskForUsage \/ AskForLatency \/ SecurityDone \/ NoDevices \/ SendResult \/ EmptyResult
  BY <1>5, StagesKept
<1>6. ASSUME NEW b \in Builders, LimitsInBackground(b) \/ LimitsDone(b) PROVE PollIInv'
  BY <1>6, BackgroundKept, LimitsDoneKept
<1>7. CASE NoClient \/ PollDone
  BY <1>7, GoesElsewhere DEF NoClient, PollDone
<1>8. CASE ReadJchf \/ ReadLine
  <2>1. jchf' \in 0 .. JchfRoom /\ lines' \in 0 .. LogRoom
    BY <1>0, <1>8 DEF ReadJchf, ReadLine
  <2> QED
    BY <1>0, <1>8, <2>1, QuietKept DEF ReadJchf, ReadLine, fetchVars, cacheVars
<1>9. CASE PollTick \/ CancelPoll \/ DayPasses
  BY <1>0, <1>9, QuietKept DEF PollTick, CancelPoll, DayPasses, fetchVars, cacheVars, chanVars
<1>10. CASE UNCHANGED pollVars
  BY <1>0, <1>10, QuietKept DEF pollVars, fetchVars, cacheVars, chanVars
<1> QED
  BY <1>1, <1>2, <1>3, <1>4, <1>5, <1>6, <1>7, <1>8, <1>9, <1>10 DEF MerakiNext, PollStep

\* The invariant is about what the property says: the requests for a unit are
\* those for its pages and the retries.
LEMMA PollSafe == PollIInv => MerakiInv
<1> SUFFICES ASSUME PollIInv PROVE MerakiInv
  OBVIOUS
<1>1. ASSUME NEW f \in Fetchers, unit[f] # NoUnit, at[f] # "usage"
      PROVE  asks[f] < PagesOf(at[f], unit[f]) + Budget(at[f])
  <2>1. PollTypes /\ Local(f)
    BY DEF PollIInv
  <2>2. unit[f] \in Units /\ tries[f] \in Nat /\ IsABag(got[f]) /\ at[f] \in Stages
    BY <1>1, <2>1 DEF PollTypes, Local, OutOfStage
  <2>3. /\ PagesIn(got[f], at[f], unit[f]) < PagesOf(at[f], unit[f]) /\ tries[f] <= Budget(at[f])
        /\ asks[f] = PagesIn(got[f], at[f], unit[f]) + tries[f]
    BY <1>1, <2>1, <2>2 DEF Local, InStage
  <2>4. PagesIn(got[f], at[f], unit[f]) \in Nat /\ PagesOf(at[f], unit[f]) \in Nat /\ Budget(at[f]) \in Nat
    BY <2>2, Numbers, PagesCount
  <2> QED
    BY <2>2, <2>3, <2>4
<1>2. RetriesBounded
  BY <1>1 DEF RetriesBounded
<1> QED
  BY <1>2 DEF PollIInv, PollTypes, MerakiInv

\* The Meraki client loses no event of the time it has gone over, asks for a
\* unit no more often than its pages and its retries, and sends and keeps
\* nothing that is only a part: for any organisations, networks, numbers of
\* pages and limits, and whatever the API answers.
THEOREM MerakiIsSound == ServicesSpec => []MerakiClientInv
<1>1. EventsIInv /\ PollIInv => MerakiClientInv
  BY PollSafe DEF MerakiClientInv, EventsInv, EventsIInv, EventTypes
<1> QED
  BY <1>1, EventsStart, EventsStep, PollStart, PollKept, EachAlone, PTL DEF ServicesSpec

-----------------------------------------------------------------------------
(* Recursive functions.                                                    *)

\* A set of numbers has a least one: the order is well-founded.
LEMMA LeastNat ==
  ASSUME NEW T \in SUBSET Nat, T # {}
  PROVE  \E n \in T : \A m \in T : n <= m
<1>1. PICK n \in T : \A m \in T : ~(<<m, n>> \in OpToRel(<, Nat))
  BY NatLessThanWellFounded, WFMin, Zenon
<1>2. ASSUME NEW m \in T PROVE n <= m
  <2>1. ~(<<m, n>> \in OpToRel(<, Nat))
    BY <1>1
  <2> QED BY <2>1 DEF OpToRel
<1> QED BY <1>2

\* Induction up to a bound, with a set in the place of the predicate.
LEMMA InductTo ==
  ASSUME NEW n \in Nat, NEW S, 0 \in S, \A i \in 0 .. n - 1 : i \in S => i + 1 \in S
  PROVE  \A i \in 0 .. n : i \in S
<1> DEFINE T == {i \in 0 .. n : i \notin S}
<1> SUFFICES ASSUME T # {} PROVE FALSE
  OBVIOUS
<1>1. T \in SUBSET Nat
  OBVIOUS
<1>2. PICK i \in T : \A m \in T : i <= m
  BY <1>1, LeastNat
<1>3. i \in 1 .. n /\ i - 1 \in 0 .. n - 1 /\ i - 1 \notin T /\ i \notin S
  BY <1>1, <1>2
<1>4. i - 1 \in S /\ (i - 1) + 1 = i
  BY <1>3
<1> QED BY <1>3, <1>4

\* A function may be defined by a first value and a step from each value to the next.
Steps(step, n, X, z) == n \in Nat /\ z \in X /\ step \in [1 .. n -> [X -> X]]
Follows(f, step, n, X, z) == f \in [0 .. n -> X] /\ f[0] = z /\ \A i \in 1 .. n : f[i] = step[i][f[i - 1]]

LEMMA Recursion == ASSUME NEW step, NEW n, NEW X, NEW z, Steps(step, n, X, z) PROVE \E f : Follows(f, step, n, X, z)
<1> USE DEF Steps, Follows
<1> DEFINE Upto(f, m) == f \in [0 .. m -> X] /\ f[0] = z /\ \A i \in 1 .. m : f[i] = step[i][f[i - 1]]
           S == {m \in 0 .. n : \E f : Upto(f, m)}
<1>1. 0 \in S
  <2>1. Upto([i \in 0 .. 0 |-> z], 0)
    OBVIOUS
  <2> HIDE DEF Upto
  <2> QED BY <2>1
<1>2. ASSUME NEW m \in 0 .. n - 1, m \in S PROVE m + 1 \in S
  <2>1. PICK f : Upto(f, m)
    BY <1>2
  <2> DEFINE g == [i \in 0 .. (m + 1) |-> IF i <= m THEN f[i] ELSE step[m + 1][f[m]]]
  <2>2. m \in 0 .. m /\ m + 1 \in 1 .. n
    BY <1>2
  <2>3. f[m] \in X /\ step[m + 1] \in [X -> X]
    BY <2>1, <2>2
  <2>4. step[m + 1][f[m]] \in X
    BY <2>3
  <2>5. g \in [0 .. (m + 1) -> X]
    BY <2>1, <2>4
  <2>6. g[0] = z
    BY <2>1
  <2>7. ASSUME NEW i \in 1 .. (m + 1) PROVE g[i] = step[i][g[i - 1]]
    <3>1. CASE i <= m
      BY <2>1, <3>1
    <3>2. CASE i = m + 1
      BY <3>2
    <3> QED BY <3>1, <3>2
  <2>8. Upto(g, m + 1)
    BY <2>5, <2>6, <2>7
  <2> HIDE DEF Upto, g
  <2> QED BY <2>2, <2>8
<1> HIDE DEF S
<1>3. n \in S
  BY <1>1, <1>2, InductTo, n \in 0 .. n
<1>4. PICK f : Upto(f, n)
  BY <1>3 DEF S
<1> QED BY <1>4

\* A bounded set of numbers has a greatest one.
LEMMA Greatest ==
  ASSUME NEW n \in Nat, NEW T, T \subseteq 1 .. n, T # {}
  PROVE  \E i \in T : \A j \in T : j <= i
<1> DEFINE U == {n - i : i \in T}
<1>1. U \in SUBSET Nat /\ U # {}
  <2>1. ASSUME NEW i \in T PROVE n - i \in Nat
    <3>1. i \in 1 .. n
      OBVIOUS
    <3> QED BY <3>1
  <2> QED BY <2>1
<1>2. PICK u \in U : \A m \in U : u <= m
  <2> HIDE DEF U
  <2> QED BY <1>1, LeastNat
<1>3. PICK i \in T : u = n - i
  OBVIOUS
<1>4. ASSUME NEW j \in T PROVE j <= i
  <2>1. n - i <= n - j
    BY <1>2, <1>3
  <2> QED BY <2>1
<1> QED BY <1>4

-----------------------------------------------------------------------------
(* Profiles: what a profile extends.                                       *)

Numbered(e) == \A f \in FileSet : Len(e[f]) \in Nat /\ DOMAIN e[f] = 1 .. Len(e[f])

LEMMA FilesFinite == IsFiniteSet(FileSet) /\ Cardinality(FileSet) \in Nat
<1>1. Files \in Seq(FileSet) /\ \A f \in FileSet : \E i \in DOMAIN Files : Files[i] = f
  BY ProfilesAssumption DEF ProfilesAssumption, FileSet
<1>2. IsFiniteSet(FileSet)
  BY <1>1 DEF IsFiniteSet
<1> QED BY <1>2, FS_CardinalityType

LEMMA ExtendsNumbered == ASSUME NEW e \in ExtendsSets PROVE Numbered(e)
BY ProfilesAssumption DEF ProfilesAssumption, Numbered

\* The lists of names are lists, and a name leads to a file or to none.
Wired == extending \in ExtendsSets /\ \A n \in Names : byName[n] \in FileSet \cup {NoFile}

LEMMA DirectFiles == ASSUME Wired PROVE \A f \in FileSet : Direct(f) \subseteq FileSet
BY DEF Wired, Direct, Target

Onward(x) == x \cup UNION {Direct(g) : g \in x}
ClosedSet(C) == \A g \in C : Direct(g) \subseteq C
ReachDef(w, f) == w = [n \in 0 .. Cardinality(FileSet) |-> IF n = 0 THEN {f} ELSE Onward(w[n - 1])]

LEMMA ReachIs == ASSUME NEW f PROVE Reach(f) = (CHOOSE w : ReachDef(w, f))[Cardinality(FileSet)]
BY Zenon DEF Reach, ReachDef, Onward

\* Reach(f) is the least set that has f and is closed under Direct: a set of
\* files cannot grow more often than there are files.
LEMMA ReachLaw ==
  ASSUME NEW f \in FileSet, Wired
  PROVE  /\ f \in Reach(f) /\ Reach(f) \subseteq FileSet /\ ClosedSet(Reach(f))
         /\ \A C : f \in C /\ ClosedSet(C) => Reach(f) \subseteq C
<1> DEFINE n == Cardinality(FileSet)
           X == SUBSET FileSet
           step == [i \in 1 .. n |-> [x \in X |-> Onward(x)]]
<1>1. n \in Nat /\ {f} \in X
  BY FilesFinite
<1>2. ASSUME NEW x \in X PROVE Onward(x) \in X
  BY DirectFiles DEF Onward
<1>3. Steps(step, n, X, {f})
  BY <1>1, <1>2 DEF Steps
<1>4. PICK h : Follows(h, step, n, X, {f})
  <2> HIDE DEF n, X, step
  <2> QED BY <1>3, Recursion, Zenon
<1>5. h \in [0 .. n -> X] /\ h[0] = {f} /\ \A i \in 1 .. n : h[i] = step[i][h[i - 1]]
  BY <1>4 DEF Follows
<1>6. ASSUME NEW i \in 1 .. n PROVE h[i - 1] \in X /\ h[i] = Onward(h[i - 1])
  <2>1. i - 1 \in 0 .. n
    BY <1>1
  <2> QED BY <1>5, <2>1
<1>7. ReachDef(h, f)
  <2>1. ASSUME NEW i \in 0 .. n PROVE h[i] = IF i = 0 THEN {f} ELSE Onward(h[i - 1])
    BY <1>1, <1>5, <1>6
  <2>2. h = [i \in 0 .. n |-> h[i]]
    BY <1>5
  <2> HIDE DEF n
  <2>3. h = [i \in 0 .. n |-> IF i = 0 THEN {f} ELSE Onward(h[i - 1])]
    BY <2>1, <2>2, Zenon
  <2> QED BY <2>3 DEF ReachDef, n
<1> DEFINE w == CHOOSE v : ReachDef(v, f)
<1>8. ReachDef(w, f)
  BY <1>7, Zenon
<1>9. w[0] = {f} /\ \A i \in 1 .. n : w[i] = Onward(w[i - 1])
  <2>1. w = [i \in 0 .. n |-> IF i = 0 THEN {f} ELSE Onward(w[i - 1])]
    BY <1>8 DEF ReachDef
  <2> HIDE DEF w, n
  <2>2. \A i \in 0 .. n : w[i] = IF i = 0 THEN {f} ELSE Onward(w[i - 1])
    BY <2>1, Zenon
  <2>3. 0 \in 0 .. n /\ \A i \in 1 .. n : i \in 0 .. n /\ i # 0
    BY <1>1
  <2> QED BY <2>2, <2>3, Zenon
<1>10. Reach(f) = w[n]
  BY ReachIs
<1> HIDE DEF w, n, step
<1>11. \A i \in 0 .. n : i \in {j \in 0 .. n : f \in w[j] /\ w[j] \in X}
  <2> DEFINE S == {j \in 0 .. n : f \in w[j] /\ w[j] \in X}
  <2>1. 0 \in S
    BY <1>1, <1>9
  <2>2. ASSUME NEW i \in 0 .. n - 1, i \in S PROVE i + 1 \in S
    <3>1. i + 1 \in 1 .. n /\ (i + 1) - 1 = i
      BY <1>1
    <3>2. w[i + 1] = Onward(w[i])
      BY <1>9, <3>1
    <3>3. f \in Onward(w[i])
      BY <2>2 DEF Onward
    <3> QED BY <1>1, <1>2, <2>2, <3>1, <3>2, <3>3
  <2> HIDE DEF S
  <2>3. \A i \in 0 .. n : i \in S
    BY <1>1, <2>1, <2>2, InductTo
  <2> QED BY <2>3 DEF S
<1>12. n \in 0 .. n
  BY <1>1
<1>13. ASSUME NEW C, f \in C, ClosedSet(C) PROVE w[n] \subseteq C
  <2> DEFINE S == {j \in 0 .. n : w[j] \subseteq C}
  <2>1. 0 \in S
    BY <1>1, <1>9, <1>13
  <2>2. ASSUME NEW i \in 0 .. n - 1, i \in S PROVE i + 1 \in S
    <3>1. i + 1 \in 1 .. n /\ (i + 1) - 1 = i /\ i + 1 \in 0 .. n
      BY <1>1
    <3>2. w[i + 1] = Onward(w[i])
      BY <1>9, <3>1
    <3>3. Onward(w[i]) \subseteq C
      BY <1>13, <2>2 DEF Onward, ClosedSet
    <3> QED BY <3>1, <3>2, <3>3
  <2> HIDE DEF S
  <2>3. \A i \in 0 .. n : i \in S
    BY <1>1, <2>1, <2>2, InductTo
  <2> QED BY <1>12, <2>3 DEF S
<1>14. ClosedSet(w[n])
  <2> DEFINE Grown(j) == Cardinality(w[j]) >= j + 1
             S == {j \in 0 .. n : Grown(j) \/ ClosedSet(w[j])}
  <2>0. \A j \in 0 .. n : w[j] \in X /\ IsFiniteSet(w[j]) /\ Cardinality(w[j]) \in Nat /\ Cardinality(w[j]) <= n
    BY <1>11, FilesFinite, FS_Subset, FS_CardinalityType DEF n
  <2>1. 0 \in S
    <3>1. Cardinality(w[0]) = 1
      BY <1>9, FS_Singleton
    <3>2. Grown(0) /\ 0 \in 0 .. n
      BY <1>1, <3>1
    <3> QED BY <3>2
  <2>2. ASSUME NEW i \in 0 .. n - 1, i \in S PROVE i + 1 \in S
    <3>1. i + 1 \in 1 .. n /\ (i + 1) - 1 = i /\ i + 1 \in 0 .. n /\ i \in 0 .. n
      BY <1>1
    <3>2. w[i + 1] = Onward(w[i])
      BY <1>9, <3>1
    <3>3. CASE ClosedSet(w[i])
      <4>1. Onward(w[i]) = w[i]
        BY <3>3 DEF Onward, ClosedSet
      <4> QED BY <3>1, <3>2, <3>3, <4>1
    <3>4. CASE ~ClosedSet(w[i])
      <4>1. Grown(i)
        BY <2>2, <3>4
      <4>2. w[i] \subseteq w[i + 1] /\ w[i] # w[i + 1]
        BY <3>2, <3>4 DEF Onward, ClosedSet
      <4>3. Cardinality(w[i]) <= Cardinality(w[i + 1]) /\ Cardinality(w[i]) # Cardinality(w[i + 1])
        BY <2>0, <3>1, <4>2, FS_Subset
      <4>4. Grown(i + 1)
        <5> DEFINE a == Cardinality(w[i]) b == Cardinality(w[i + 1])
        <5>1. a \in Nat /\ b \in Nat /\ a <= b /\ a # b /\ a >= i + 1 /\ i \in Nat
          BY <2>0, <3>1, <4>1, <4>3
        <5> HIDE DEF a, b
        <5>2. b >= (i + 1) + 1
          BY ONLY <5>1
        <5> QED BY <5>2 DEF b
      <4> QED BY <3>1, <4>4
    <3> QED BY <3>3, <3>4
  <2> HIDE DEF S
  <2>3. \A i \in 0 .. n : i \in S
    BY <1>1, <2>1, <2>2, InductTo
  <2>4. Grown(n) \/ ClosedSet(w[n])
    BY <1>12, <2>3 DEF S
  <2> QED BY <1>1, <1>12, <2>0, <2>4
<1> QED BY <1>10, <1>11, <1>12, <1>13, <1>14

\* What follows from it.
LEMMA ReachFacts ==
  ASSUME Wired, NEW p \in FileSet, NEW ep \in Direct(p)
  PROVE  /\ ep \in FileSet /\ ep \in Reach(p) /\ Reach(ep) \subseteq Reach(p)
         /\ ~Cyclic(p) => ~Cyclic(ep) /\ p \notin Reach(ep)
<1>1. ep \in FileSet
  BY DirectFiles
<1>2. p \in Reach(p) /\ ClosedSet(Reach(p))
  BY ReachLaw
<1>3. ep \in Reach(p)
  BY <1>2 DEF ClosedSet
<1>4. Reach(ep) \subseteq Reach(p)
  BY <1>1, <1>2, <1>3, ReachLaw
<1> QED BY <1>1, <1>2, <1>3, <1>4 DEF Cyclic
-----------------------------------------------------------------------------
(* Profiles: the invariant.                                                *)

Own(f) == [of |-> f, ext |-> FALSE]
TableSet == [of : FileSet, ext : BOOLEAN]
FrameSet == [pro : FileSet, next : Nat]

ProfTypes ==
  /\ loading \in {"read", "extend", "validate", "ready", "prune", "done", "failed"}
  /\ extending \in ExtendsSets /\ unread \in Seq(FileSet)
  /\ byName \in [Names -> FileSet \cup {NoFile}] /\ profiles \in [Patterns -> FileSet \cup {NoFile}]
  /\ toRange \subseteq Patterns /\ \A p \in toRange : profiles[p] # NoFile
  /\ extended \in [FileSet -> BOOLEAN] /\ metrics \in [FileSet -> Seq(TableSet)] /\ stack \in Seq(FrameSet)
  /\ device \in Queries /\ found \in FileSet \cup {NoFile} /\ unpruned \subseteq DOMAIN mibs

\* A profile has its own table, then those of what it extends.
OwnFirst ==
  \A f \in FileSet : /\ Len(metrics[f]) >= 1 /\ metrics[f][1] = Own(f)
                     /\ \A i \in 2..Len(metrics[f]) : metrics[f][i].ext
                     /\ Tables(f) \subseteq Reach(f)

\* The first k - 1 of the names a profile extends have been merged into it, and
\* all that they reach where there is no cycle.
Has(f, t) == t \in Tables(f) /\ (~Cyclic(f) => Reach(t) \subseteq Tables(f))
Through(f, k) == \A j \in 1..(k - 1) : Target(extending[f][j]) # NoFile => Has(f, Target(extending[f][j]))

\* Each call of extend is at a name that leads to the profile of the next one,
\* which the profiles of all the calls below reach.
Calls ==
  /\ \A i \in 1..Len(stack) : /\ stack[i].next \in 1..(Len(extending[stack[i].pro]) + 1)
                              /\ Through(stack[i].pro, stack[i].next)
  /\ \A i, j \in 1..Len(stack) : i <= j => stack[j].pro \in Reach(stack[i].pro)
  /\ \A i \in 1..(Len(stack) - 1) : /\ stack[i].next <= Len(extending[stack[i].pro])
                                    /\ Target(extending[stack[i].pro][stack[i].next]) = stack[i + 1].pro

\* The call of extend for a profile is under way or has merged all.
OnStack(f) == \E i \in 1..Len(stack) : stack[i].pro = f
Entered ==
  loading # "failed" => \A f \in FileSet : extended[f] => OnStack(f) \/ Through(f, Len(extending[f]) + 1)

\* The range reaches every profile.
Ranged ==
  /\ loading = "read" => toRange = {} /\ \A f \in FileSet : ~extended[f] /\ metrics[f] = <<Own(f)>>
  /\ loading # "extend" => stack = <<>>
  /\ loading \notin {"read", "failed"} =>
       \A p \in Patterns : profiles[p] # NoFile => p \in toRange \/ extended[profiles[p]]
  /\ InUse => toRange = {}

LoadIInv == ProfTypes /\ OwnFirst /\ Calls /\ Entered /\ Ranged

LEMMA IsWired == ASSUME ProfTypes PROVE Wired
BY DEF ProfTypes, Wired

\* For the next state as well.
LeastClosed(f) == /\ f \in Reach(f) /\ ClosedSet(Reach(f))
                  /\ \A C : f \in C /\ ClosedSet(C) => Reach(f) \subseteq C

LEMMA ReachAll == Wired => \A f \in FileSet : LeastClosed(f)
BY ReachLaw DEF LeastClosed

LEMMA ReachAllNext == (Wired => \A f \in FileSet : LeastClosed(f))'
BY ReachAll, PTL

LEMMA ReachKept ==
  ASSUME Wired, UNCHANGED <<extending, byName>>
  PROVE  /\ \A n : Target(n)' = Target(n)
         /\ \A f \in FileSet : Direct(f)' = Direct(f) /\ Reach(f)' = Reach(f) /\ (Cyclic(f)' <=> Cyclic(f))
<1>1. \A n : Target(n)' = Target(n)
  BY DEF Target
<1>2. \A f : Direct(f)' = Direct(f)
  BY <1>1 DEF Direct
<1>3. Wired'
  BY DEF Wired
<1>4. (Wired => \A f \in FileSet : LeastClosed(f))'
  BY ReachAllNext
<1>5. ASSUME NEW f \in FileSet PROVE Reach(f)' = Reach(f)
  <2>1. /\ f \in Reach(f)' /\ (\A g \in Reach(f)' : Direct(g)' \subseteq Reach(f)')
        /\ \A C : f \in C /\ (\A g \in C : Direct(g)' \subseteq C) => Reach(f)' \subseteq C
    BY <1>3, <1>4 DEF LeastClosed, ClosedSet
  <2>2. /\ f \in Reach(f) /\ (\A g \in Reach(f) : Direct(g) \subseteq Reach(f))
        /\ \A C : f \in C /\ (\A g \in C : Direct(g) \subseteq C) => Reach(f) \subseteq C
    BY ReachAll DEF LeastClosed, ClosedSet
  <2>3. Reach(f)' \subseteq Reach(f)
    BY <1>2, <2>1, <2>2
  <2>4. Reach(f) \subseteq Reach(f)'
    BY <1>2, <2>1, <2>2
  <2> QED BY <2>3, <2>4
<1>6. ASSUME NEW f \in FileSet PROVE Cyclic(f)' <=> Cyclic(f)
  <2>1. Reach(f) \subseteq FileSet /\ \A g \in FileSet : Direct(g) \subseteq FileSet
    BY ReachLaw, DirectFiles
  <2> QED BY <1>2, <1>5, <2>1 DEF Cyclic
<1> QED BY <1>1, <1>2, <1>5, <1>6

\* The tables of another profile, marked.
Marked(s) == [i \in DOMAIN s |-> [s[i] EXCEPT !.ext = TRUE]]

LEMMA MarkedLaw ==
  ASSUME NEW s \in Seq(TableSet)
  PROVE  /\ Marked(s) \in Seq(TableSet) /\ Len(Marked(s)) = Len(s)
         /\ \A i \in 1 .. Len(s) : Marked(s)[i].of = s[i].of /\ Marked(s)[i].ext = TRUE
<1>1. Len(s) \in Nat /\ DOMAIN s = 1 .. Len(s)
  OBVIOUS
<1>2. ASSUME NEW i \in 1 .. Len(s) PROVE Marked(s)[i] \in TableSet /\ Marked(s)[i].of = s[i].of /\ Marked(s)[i].ext = TRUE
  <2>1. s[i] \in TableSet /\ Marked(s)[i] = [s[i] EXCEPT !.ext = TRUE]
    BY <1>1 DEF Marked
  <2> DEFINE r == s[i]
  <2>2. r \in [of : FileSet, ext : BOOLEAN] /\ Marked(s)[i] = [r EXCEPT !.ext = TRUE]
    BY <2>1 DEF TableSet
  <2> HIDE DEF r
  <2>3. [r EXCEPT !.ext = TRUE] \in [of : FileSet, ext : BOOLEAN] /\ [r EXCEPT !.ext = TRUE].of = r.of
        /\ [r EXCEPT !.ext = TRUE].ext = TRUE
    BY <2>2
  <2> QED BY <2>2, <2>3 DEF r, TableSet
<1>3. Marked(s) \in [1 .. Len(s) -> TableSet]
  <2>1. Marked(s) = [i \in 1 .. Len(s) |-> [s[i] EXCEPT !.ext = TRUE]]
    BY <1>1 DEF Marked
  <2>2. \A i \in 1 .. Len(s) : [s[i] EXCEPT !.ext = TRUE] \in TableSet
    BY <1>2, <2>1
  <2> QED BY <2>1, <2>2
<1>4. Marked(s) \in Seq(TableSet) /\ DOMAIN Marked(s) = 1 .. Len(s)
  <2> DEFINE M == Marked(s)
  <2> HIDE DEF M
  <2>1. M \in [1 .. Len(s) -> TableSet]
    BY <1>3 DEF M
  <2>2. M \in Seq(TableSet)
    BY <1>1, <2>1
  <2> QED BY <2>1, <2>2 DEF M
<1>5. Len(Marked(s)) = Len(s)
  <2> DEFINE M == Marked(s)
  <2> HIDE DEF M
  <2>1. M \in Seq(TableSet) /\ DOMAIN M = 1 .. Len(s)
    BY <1>4 DEF M
  <2>2. Len(M) \in Nat /\ DOMAIN M = 1 .. Len(M)
    BY <2>1
  <2>3. Len(M) = Len(s)
    BY <1>1, <2>1, <2>2
  <2> QED BY <2>3 DEF M
<1> QED BY <1>2, <1>4, <1>5

\* What a merge does.
LEMMA MergeLaw ==
  ASSUME Wired, metrics \in [FileSet -> Seq(TableSet)], OwnFirst, UNCHANGED <<extending, byName>>,
         NEW p \in FileSet, NEW ep \in Direct(p), Merge(p, ep)
  PROVE  /\ metrics' \in [FileSet -> Seq(TableSet)] /\ OwnFirst'
         /\ Tables(p)' = Tables(p) \cup Tables(ep) /\ \A f \in FileSet \ {p} : Tables(f)' = Tables(f)
<1>0. ep \in FileSet /\ ep \in Reach(p) /\ Reach(ep) \subseteq Reach(p)
  BY ReachFacts
<1> DEFINE m == metrics[p]
           marked == Marked(metrics[ep])
           new == m \o marked
<1>1. m \in Seq(TableSet) /\ metrics[ep] \in Seq(TableSet) /\ Len(m) \in Nat /\ Len(metrics[ep]) \in Nat
  BY <1>0
<1>2. /\ marked \in Seq(TableSet) /\ Len(marked) = Len(metrics[ep])
      /\ \A i \in 1 .. Len(metrics[ep]) : marked[i].of = metrics[ep][i].of /\ marked[i].ext = TRUE
  BY <1>1, MarkedLaw
<1>3. Len(marked) \in Nat
  BY <1>1, <1>2
<1>4. metrics' = [metrics EXCEPT ![p] = new]
  BY DEF Merge, Marked
<1> HIDE DEF marked, m
<1>5. new \in Seq(TableSet) /\ Len(new) = Len(m) + Len(marked)
      /\ (\A i \in 1 .. Len(m) : new[i] = m[i])
      /\ (\A i \in 1 .. Len(marked) : new[Len(m) + i] = marked[i])
  <2>1. new \in Seq(TableSet) /\ Len(new) = Len(m) + Len(marked)
        /\ \A i \in 1 .. (Len(m) + Len(marked)) : new[i] = IF i <= Len(m) THEN m[i] ELSE marked[i - Len(m)]
    BY <1>1, <1>2, ConcatProperties
  <2> DEFINE a == Len(m) b == Len(marked)
  <2>2. a \in Nat /\ b \in Nat /\ \A i \in 1 .. (a + b) : new[i] = IF i <= a THEN m[i] ELSE marked[i - a]
    BY <1>1, <1>3, <2>1
  <2> HIDE DEF a, b, new
  <2>3. ASSUME NEW i \in 1 .. a PROVE new[i] = m[i]
    BY <2>2
  <2>4. ASSUME NEW i \in 1 .. b PROVE new[a + i] = marked[i]
    <3>1. a + i \in 1 .. (a + b) /\ ~(a + i <= a) /\ (a + i) - a = i
      BY <2>2
    <3> QED BY <2>2, <3>1
  <2> QED BY <2>1, <2>3, <2>4 DEF a, b
<1>6. metrics' \in [FileSet -> Seq(TableSet)] /\ metrics'[p] = new /\ \A f \in FileSet \ {p} : metrics'[f] = metrics[f]
  BY <1>4, <1>5
<1> HIDE DEF new
<1>7. \A i \in 1 .. Len(new) : i \in 1 .. Len(m) \/ \E j \in 1 .. Len(marked) : i = Len(m) + j
  <2> DEFINE a == Len(m) b == Len(marked)
  <2>1. a \in Nat /\ b \in Nat /\ Len(new) = a + b
    BY <1>1, <1>3, <1>5
  <2> HIDE DEF a, b
  <2>2. ASSUME NEW i \in 1 .. a + b PROVE i \in 1 .. a \/ \E j \in 1 .. b : i = a + j
    <3>1. CASE i <= a
      BY <2>1, <3>1
    <3>2. CASE i > a
      <4>1. i - a \in 1 .. b /\ i = a + (i - a)
        BY <2>1, <3>2
      <4> QED BY <4>1
    <3> QED BY <2>1, <3>1, <3>2
  <2> QED BY <2>1, <2>2 DEF a, b
<1>8. \A f \in FileSet \ {p} : Tables(f)' = Tables(f)
  BY <1>6 DEF Tables
<1>9. Tables(p)' = Tables(p) \cup Tables(ep)
  <2>1. Tables(p)' = {new[i].of : i \in 1 .. Len(new)}
    <3>1. DOMAIN new = 1 .. Len(new)
      BY <1>5
    <3> QED BY <1>6, <3>1 DEF Tables
  <2>2. Tables(p) = {m[i].of : i \in 1 .. Len(m)} /\ Tables(ep) = {marked[i].of : i \in 1 .. Len(marked)}
    <3>1. DOMAIN m = 1 .. Len(m) /\ DOMAIN metrics[ep] = 1 .. Len(marked)
      BY <1>1, <1>2
    <3>2. Tables(p) = {m[i].of : i \in 1 .. Len(m)}
      BY <3>1 DEF Tables, m
    <3>3. Tables(ep) = {metrics[ep][i].of : i \in 1 .. Len(marked)}
      BY <3>1 DEF Tables
    <3> QED BY <1>2, <3>2, <3>3
  <2>3. \A i \in 1 .. Len(m) : i \in 1 .. Len(new)
    BY <1>1, <1>3, <1>5
  <2>4. \A j \in 1 .. Len(marked) : Len(m) + j \in 1 .. Len(new)
    BY <1>1, <1>3, <1>5
  <2>5. {new[i].of : i \in 1 .. Len(new)} \subseteq {m[i].of : i \in 1 .. Len(m)} \cup {marked[i].of : i \in 1 .. Len(marked)}
    <3> SUFFICES ASSUME NEW i \in 1 .. Len(new)
                 PROVE  new[i].of \in {m[k].of : k \in 1 .. Len(m)} \cup {marked[k].of : k \in 1 .. Len(marked)}
      OBVIOUS
    <3>1. CASE i \in 1 .. Len(m)
      BY <1>5, <3>1
    <3>2. ASSUME NEW j \in 1 .. Len(marked), i = Len(m) + j PROVE new[i].of \in {marked[k].of : k \in 1 .. Len(marked)}
      BY <1>5, <3>2
    <3> QED BY <1>7, <3>1, <3>2
  <2>6. {m[i].of : i \in 1 .. Len(m)} \subseteq {new[i].of : i \in 1 .. Len(new)}
    BY <1>5, <2>3
  <2>7. {marked[i].of : i \in 1 .. Len(marked)} \subseteq {new[i].of : i \in 1 .. Len(new)}
    BY <1>5, <2>4
  <2> QED BY <2>1, <2>2, <2>5, <2>6, <2>7
<1>10. ASSUME NEW f \in FileSet
       PROVE  /\ Len(metrics'[f]) >= 1 /\ metrics'[f][1] = Own(f) /\ Tables(f)' \subseteq Reach(f)'
              /\ \A i \in 2..Len(metrics'[f]) : metrics'[f][i].ext
  <2>1. Reach(f)' = Reach(f)
    BY ReachKept
  <2>2. CASE f # p
    BY <1>6, <1>8, <2>1, <2>2 DEF OwnFirst
  <2>3. CASE f = p
    <3>1. Len(m) >= 1 /\ m[1] = Own(p) /\ (\A i \in 2 .. Len(m) : m[i].ext) /\ Tables(p) \subseteq Reach(p)
          /\ Tables(ep) \subseteq Reach(ep)
      BY <1>0 DEF OwnFirst, m
    <3>2. Len(new) >= 1 /\ new[1] = Own(p)
      BY <1>1, <1>3, <1>5, <3>1
    <3>3. ASSUME NEW i \in 2 .. Len(new) PROVE new[i].ext
      <4>1. i \in 1 .. Len(new)
        BY <1>1, <1>3, <1>5
      <4>2. CASE i \in 1 .. Len(m)
        BY <1>1, <1>5, <3>1, <3>3, <4>2
      <4>3. ASSUME NEW j \in 1 .. Len(marked), i = Len(m) + j PROVE new[i].ext
        <5>1. marked[j].ext = TRUE /\ new[i] = marked[j]
          BY <1>2, <1>3, <1>5, <4>3
        <5> QED BY <5>1
      <4> QED BY <1>7, <4>1, <4>2, <4>3
    <3> QED BY <1>0, <1>6, <1>9, <2>1, <2>3, <3>1, <3>2, <3>3
  <2> QED BY <2>2, <2>3
<1> QED BY <1>6, <1>8, <1>9, <1>10 DEF OwnFirst

-----------------------------------------------------------------------------
(* Profiles: extend keeps the invariant.                                   *)

LEMMA Leads == ASSUME Wired PROVE \A n : Target(n) \in FileSet \cup {NoFile}
BY DEF Wired, Target

LEMMA ThroughGrows ==
  ASSUME Wired, UNCHANGED <<extending, byName>>, \A f \in FileSet : Tables(f) \subseteq Tables(f)'
  PROVE  \A f \in FileSet, k \in Nat : Through(f, k) => Through(f, k)'
<1> SUFFICES ASSUME NEW f \in FileSet, NEW k \in Nat, Through(f, k), NEW j \in 1 .. (k - 1),
                    Target(extending[f][j]) # NoFile
             PROVE  Has(f, Target(extending[f][j]))'
  BY ReachKept DEF Through
<1> DEFINE t == Target(extending[f][j])
<1>1. t \in FileSet /\ t' = t
  BY Leads, ReachKept
<1>2. Has(f, t)
  BY DEF Through
<1>3. Reach(t)' = Reach(t) /\ (Cyclic(f)' <=> Cyclic(f))
  BY <1>1, ReachKept
<1> HIDE DEF t
<1> QED BY <1>1, <1>2, <1>3 DEF Has, t

\* A profile that has gone through all its names has what it should.
LEMMA AllThrough ==
  ASSUME Wired, metrics \in [FileSet -> Seq(TableSet)], OwnFirst, NEW f \in FileSet,
         Through(f, Len(extending[f]) + 1)
  PROVE  Direct(f) \subseteq Tables(f) /\ (~Cyclic(f) => Tables(f) = Reach(f))
<1>1. Len(extending[f]) \in Nat /\ DOMAIN extending[f] = 1 .. Len(extending[f])
  BY ExtendsNumbered DEF Wired, Numbered
<1>2. \A t \in Direct(f) : Has(f, t)
  <2>1. \A j \in 1 .. Len(extending[f]) : j \in 1 .. ((Len(extending[f]) + 1) - 1)
    BY <1>1
  <2> QED BY <1>1, <2>1 DEF Direct, Through
<1>3. ASSUME ~Cyclic(f) PROVE Tables(f) = Reach(f)
  <2> DEFINE C == {f} \cup UNION {Reach(t) : t \in Direct(f)}
  <2>1. \A t \in Direct(f) : t \in FileSet /\ t \in Reach(t) /\ ClosedSet(Reach(t))
    BY DirectFiles, ReachLaw
  <2>2. ClosedSet(C)
    <3>1. Direct(f) \subseteq C
      BY <2>1
    <3>2. ASSUME NEW t \in Direct(f), NEW g \in Reach(t) PROVE Direct(g) \subseteq C
      BY <2>1 DEF ClosedSet
    <3> QED BY <3>1, <3>2 DEF ClosedSet
  <2>3. Reach(f) \subseteq C
    BY <2>2, ReachLaw
  <2>4. f \in Tables(f)
    <3>1. Len(metrics[f]) \in Nat /\ DOMAIN metrics[f] = 1 .. Len(metrics[f])
      OBVIOUS
    <3>2. 1 \in DOMAIN metrics[f] /\ metrics[f][1].of = f
      <4>1. Len(metrics[f]) >= 1 /\ metrics[f][1] = Own(f)
        BY DEF OwnFirst
      <4>2. Own(f).of = f
        BY DEF Own
      <4> QED BY <3>1, <4>1, <4>2
    <3> QED BY <3>2 DEF Tables
  <2>5. C \subseteq Tables(f)
    BY <1>2, <1>3, <2>4 DEF Has
  <2> QED BY <2>3, <2>5 DEF OwnFirst
<1> QED BY <1>2, <1>3 DEF Has

\* What a merge gives, where the profile it takes the tables from has them all
\* or is one that the other one is extended by.
LEMMA MergeHas ==
  ASSUME Wired, metrics \in [FileSet -> Seq(TableSet)], OwnFirst, UNCHANGED <<extending, byName>>,
         NEW p \in FileSet, NEW ep \in Direct(p), Merge(p, ep),
         Through(ep, Len(extending[ep]) + 1) \/ p \in Reach(ep)
  PROVE  Has(p, ep)'
<1>1. ep \in FileSet /\ (~Cyclic(p) => ~Cyclic(ep) /\ p \notin Reach(ep))
  BY ReachFacts
<1>2. Tables(p)' = Tables(p) \cup Tables(ep)
  BY MergeLaw
<1>3. Reach(ep)' = Reach(ep) /\ (Cyclic(p)' <=> Cyclic(p))
  BY <1>1, ReachKept
<1>4. ep \in Tables(ep)
  <2>1. Len(metrics[ep]) \in Nat /\ DOMAIN metrics[ep] = 1 .. Len(metrics[ep])
    BY <1>1
  <2>2. 1 \in DOMAIN metrics[ep] /\ metrics[ep][1].of = ep
    <3>1. Len(metrics[ep]) >= 1 /\ metrics[ep][1] = Own(ep)
      BY <1>1 DEF OwnFirst
    <3>2. Own(ep).of = ep
      BY DEF Own
    <3> QED BY <2>1, <3>1, <3>2
  <2> QED BY <2>2 DEF Tables
<1>5. ASSUME ~Cyclic(p) PROVE Reach(ep) = Tables(ep)
  BY <1>1, <1>5, AllThrough
<1> QED BY <1>2, <1>3, <1>4, <1>5 DEF Has

LEMMA AdvanceLaw ==
  ASSUME NEW st \in Seq(FrameSet), st # <<>>
  PROVE  /\ Advance(st) \in Seq(FrameSet) /\ Len(Advance(st)) = Len(st)
         /\ \A i \in 1 .. Len(st) : /\ Advance(st)[i].pro = st[i].pro
                                    /\ i # Len(st) => Advance(st)[i].next = st[i].next
         /\ Advance(st)[Len(st)].next = st[Len(st)].next + 1
<1> DEFINE n == Len(st)
           r == st[n]
           q == [r EXCEPT !.next = @ + 1]
<1>1. n \in Nat /\ n >= 1 /\ n \in 1 .. n /\ DOMAIN st = 1 .. n
  OBVIOUS
<1>2. r \in [pro : FileSet, next : Nat]
  <2>1. r \in FrameSet
    BY <1>1
  <2> QED BY <2>1 DEF FrameSet
<1>3. Advance(st) = [st EXCEPT ![n] = q]
  BY DEF Advance
<1> HIDE DEF n, r
<1>4. q \in [pro : FileSet, next : Nat] /\ q.pro = r.pro /\ q.next = r.next + 1
  BY <1>2
<1> HIDE DEF q
<1>5. [st EXCEPT ![n] = q] \in Seq(FrameSet) /\ Len([st EXCEPT ![n] = q]) = n
      /\ \A i \in 1 .. n : [st EXCEPT ![n] = q][i] = IF i = n THEN q ELSE st[i]
  <2>1. q \in FrameSet
    BY <1>4 DEF FrameSet
  <2> QED BY <1>1, <2>1, ExceptSeq DEF n
<1> QED BY <1>1, <1>3, <1>4, <1>5 DEF n, r

\* The call of the profile at m goes on to its next name.
LEMMA AdvanceKept ==
  ASSUME ProfTypes, Calls, UNCHANGED <<extending, byName>>, \A f \in FileSet : Tables(f) \subseteq Tables(f)',
         NEW m \in 1 .. Len(stack), NEW p, NEW k, NEW t, p = stack[m].pro, k = stack[m].next,
         k <= Len(extending[p]), t = Target(extending[p][k]), t = NoFile \/ Has(p, t)',
         stack' = Advance(SubSeq(stack, 1, m))
  PROVE  /\ Calls' /\ stack' \in Seq(FrameSet) /\ Len(stack') = m
         /\ \A i \in 1 .. m : stack'[i].pro = stack[i].pro
<1>1. Wired
  BY IsWired
<1> DEFINE st == SubSeq(stack, 1, m)
<1>2. st \in Seq(FrameSet) /\ Len(st) = m /\ (\A i \in 1 .. m : st[i] = stack[i]) /\ st # <<>> /\ m \in Nat /\ m >= 1
      /\ Len(stack) \in Nat
  <2>1. stack \in Seq(FrameSet) /\ Len(stack) \in Nat /\ m \in Nat /\ m >= 1 /\ m <= Len(stack)
    BY DEF ProfTypes
  <2>2. st \in Seq(FrameSet) /\ Len(st) = m /\ \A i \in 1 .. m : st[i] = stack[i]
    BY <2>1
  <2> HIDE DEF st
  <2> QED BY <2>1, <2>2
<1> HIDE DEF st
<1>3. /\ stack' \in Seq(FrameSet) /\ Len(stack') = m
      /\ \A i \in 1 .. m : stack'[i].pro = stack[i].pro /\ (i # m => stack'[i].next = stack[i].next)
      /\ stack'[m].next = k + 1
  <2>1. stack' = Advance(st)
    BY DEF st
  <2>2. m \in 1 .. m /\ st[m].next = k /\ Len(st) = m
    BY <1>2
  <2>3. /\ Advance(st) \in Seq(FrameSet) /\ Len(Advance(st)) = m
        /\ \A i \in 1 .. m : Advance(st)[i].pro = st[i].pro /\ (i # m => Advance(st)[i].next = st[i].next)
        /\ Advance(st)[m].next = st[m].next + 1
    BY <1>2, AdvanceLaw
  <2> QED BY <1>2, <2>1, <2>2, <2>3
<1>4. \A i \in 1 .. m : i \in 1 .. Len(stack) /\ stack[i].pro \in FileSet /\ stack[i].next \in Nat
  <2>1. \A i \in 1 .. m : i \in 1 .. Len(stack) /\ stack[i] \in FrameSet
    BY <1>2 DEF ProfTypes
  <2> QED BY <2>1 DEF FrameSet
<1>5. \A n : Target(n)' = Target(n)
  BY <1>1, ReachKept
<1>6. \A f \in FileSet : Reach(f)' = Reach(f)
  BY <1>1, ReachKept
<1>7. \A f \in FileSet, x \in Nat : Through(f, x) => Through(f, x)'
  BY <1>1, ThroughGrows
<1>8. m \in 1 .. m /\ p \in FileSet /\ k \in Nat /\ Len(extending[p]) \in Nat
  BY <1>1, <1>2, <1>4, ExtendsNumbered DEF Wired, Numbered
<1>9. ASSUME NEW i \in 1 .. m
      PROVE  /\ stack'[i].next \in 1 .. (Len(extending'[stack'[i].pro]) + 1)
             /\ Through(stack[i].pro, stack[i].next)'
  <2>1. stack[i].next \in 1 .. (Len(extending[stack[i].pro]) + 1) /\ Through(stack[i].pro, stack[i].next)
    BY <1>4 DEF Calls
  <2>2. Through(stack[i].pro, stack[i].next) => \A f, x : f = stack[i].pro /\ x = stack[i].next => Through(f, x)'
    BY <1>4, <1>7
  <2>3. CASE i # m
    BY <1>3, <2>1, <2>2, <2>3
  <2>4. CASE i = m
    <3>1. Through(p, k)'
      BY <2>1, <2>2, <2>4
    <3>2. k \in 1 .. (Len(extending[p]) + 1)
      BY <2>1, <2>4
    <3>3. k + 1 \in 1 .. (Len(extending[p]) + 1)
      BY <1>8, <3>2
    <3>4. Through(p, k + 1)'
      <4> SUFFICES ASSUME NEW j \in 1 .. ((k + 1) - 1), Target(extending[p][j])' # NoFile
                   PROVE  Has(p, Target(extending[p][j]))'
        BY DEF Through
      <4>1. CASE j = k
        <5>1. Target(extending[p][j])' = t
          BY <1>5, <4>1
        <5> QED BY <5>1
      <4>2. CASE j # k
        <5>1. j \in 1 .. (k - 1)
          BY <1>8, <4>2
        <5> QED BY <3>1, <5>1 DEF Through
      <4> QED BY <4>1, <4>2
    <3> QED BY <1>3, <2>4, <3>3, <3>4
  <2> QED BY <2>3, <2>4
<1>10. ASSUME NEW i \in 1 .. m, NEW j \in 1 .. m, i <= j PROVE stack'[j].pro \in Reach(stack[i].pro)'
  <2>1. stack[j].pro \in Reach(stack[i].pro)
    BY <1>4, <1>10 DEF Calls
  <2> QED BY <1>3, <1>4, <1>6, <2>1
<1>11. ASSUME NEW i \in 1 .. (m - 1)
       PROVE  /\ stack'[i].next <= Len(extending'[stack'[i].pro])
              /\ Target(extending[stack[i].pro][stack[i].next])' = stack'[i + 1].pro
  <2>1. i \in 1 .. (Len(stack) - 1) /\ i \in 1 .. m /\ i # m /\ i + 1 \in 1 .. m
    BY <1>2
  <2>2. stack[i].next <= Len(extending[stack[i].pro]) /\ Target(extending[stack[i].pro][stack[i].next]) = stack[i + 1].pro
    BY <2>1 DEF Calls
  <2> QED BY <1>3, <1>5, <2>1, <2>2
<1> QED BY <1>3, <1>9, <1>10, <1>11 DEF Calls

\* A profile is entered, by the range or by the call of one that extends it.
LEMMA EnterKept ==
  ASSUME ProfTypes, Calls, UNCHANGED <<extending, byName, metrics>>, NEW f \in FileSet,
         stack' = Append(stack, Frame(f)),
         stack # <<>> => /\ Top.next <= Len(extending[Top.pro]) /\ Target(extending[Top.pro][Top.next]) = f
  PROVE  /\ Calls' /\ stack' \in Seq(FrameSet) /\ Len(stack') = Len(stack) + 1
         /\ (\A i \in 1 .. Len(stack) : stack'[i] = stack[i]) /\ stack'[Len(stack) + 1].pro = f
<1>1. Wired
  BY IsWired
<1> DEFINE n == Len(stack)
<1>2. n \in Nat /\ stack \in Seq(FrameSet) /\ Frame(f) \in FrameSet /\ (stack # <<>> <=> n >= 1)
  BY DEF ProfTypes, Frame, FrameSet
<1>3. /\ stack' \in Seq(FrameSet) /\ Len(stack') = n + 1 /\ (\A i \in 1 .. n : stack'[i] = stack[i])
      /\ stack'[n + 1] = Frame(f)
  BY <1>2
<1> HIDE DEF n
<1>4. \A i \in 1 .. n : stack[i].pro \in FileSet /\ stack[i].next \in Nat
  <2>1. \A i \in 1 .. n : stack[i] \in FrameSet
    BY <1>2 DEF n
  <2> QED BY <2>1 DEF FrameSet
<1>5. /\ \A x : Target(x)' = Target(x)
      /\ \A g \in FileSet : Reach(g)' = Reach(g) /\ Direct(g)' = Direct(g)
  BY <1>1, ReachKept
<1>6. \A g \in FileSet, x \in Nat : Through(g, x) => Through(g, x)'
  <2>1. \A g \in FileSet : Tables(g) \subseteq Tables(g)'
    BY DEF Tables
  <2> QED BY <1>1, <2>1, ThroughGrows
<1>7. Frame(f).pro = f /\ Frame(f).next = 1 /\ Len(extending[f]) \in Nat
  BY <1>1, ExtendsNumbered DEF Frame, Wired, Numbered
<1>8. ASSUME NEW i \in 1 .. n + 1
      PROVE  /\ stack'[i].next \in 1 .. (Len(extending'[stack'[i].pro]) + 1)
             /\ Through(stack[i].pro, stack[i].next)'
  <2>1. CASE i # n + 1
    <3>1. i \in 1 .. n
      BY <1>2, <2>1
    <3>2. stack[i].next \in 1 .. (Len(extending[stack[i].pro]) + 1) /\ Through(stack[i].pro, stack[i].next)
      BY <3>1 DEF Calls, n
    <3> QED BY <1>3, <1>4, <1>6, <3>1, <3>2
  <2>2. CASE i = n + 1
    <3>1. 1 \in 1 .. (Len(extending[f]) + 1)
      BY <1>7
    <3>2. Through(f, 1)'
      BY DEF Through
    <3> QED BY <1>3, <1>7, <2>2, <3>1, <3>2
  <2> QED BY <2>1, <2>2
<1>9. ASSUME n >= 1 PROVE stack[n].next <= Len(extending[stack[n].pro]) /\ Target(extending[stack[n].pro][stack[n].next]) = f
  BY <1>2, <1>9 DEF n, Top
<1>10. ASSUME NEW i \in 1 .. n PROVE f \in Reach(stack[i].pro)
  <2>1. n >= 1 /\ n \in 1 .. n /\ i <= n
    BY <1>2
  <2>2. stack[n].pro \in Reach(stack[i].pro)
    BY <2>1 DEF Calls, n
  <2>3. f \in Direct(stack[n].pro)
    <3>1. Len(extending[stack[n].pro]) \in Nat /\ DOMAIN extending[stack[n].pro] = 1 .. Len(extending[stack[n].pro])
      BY <1>1, <1>4, <2>1, ExtendsNumbered DEF Wired, Numbered
    <3>2. stack[n].next \in 1 .. (Len(extending[stack[n].pro]) + 1)
      BY <2>1 DEF Calls, n
    <3>3. stack[n].next \in DOMAIN extending[stack[n].pro]
      BY <1>9, <2>1, <3>1, <3>2
    <3>4. f # NoFile
      BY ProfilesAssumption DEF ProfilesAssumption
    <3> QED BY <1>9, <2>1, <3>3, <3>4 DEF Direct
  <2>4. ClosedSet(Reach(stack[i].pro))
    BY <1>1, <1>4, ReachLaw
  <2> QED BY <2>2, <2>3, <2>4 DEF ClosedSet
<1>11. ASSUME NEW i \in 1 .. n + 1, NEW j \in 1 .. n + 1, i <= j PROVE stack'[j].pro \in Reach(stack[i].pro)'
  <2>1. CASE j # n + 1
    <3>1. i \in 1 .. n /\ j \in 1 .. n
      BY <1>2, <1>11, <2>1
    <3>2. stack[j].pro \in Reach(stack[i].pro)
      BY <1>11, <3>1 DEF Calls, n
    <3> QED BY <1>3, <1>4, <1>5, <3>1, <3>2
  <2>2. CASE j = n + 1 /\ i # n + 1
    <3>1. i \in 1 .. n
      BY <1>2, <2>2
    <3> QED BY <1>3, <1>4, <1>5, <1>7, <1>10, <2>2, <3>1
  <2>3. CASE j = n + 1 /\ i = n + 1
    <3>1. f \in Reach(f)
      BY <1>1, ReachLaw
    <3> QED BY <1>3, <1>5, <1>7, <2>3, <3>1
  <2> QED BY <2>1, <2>2, <2>3
<1>12. ASSUME NEW i \in 1 .. ((n + 1) - 1)
       PROVE  /\ stack'[i].next <= Len(extending'[stack'[i].pro])
              /\ Target(extending[stack[i].pro][stack[i].next])' = stack'[i + 1].pro
  <2>1. CASE i = n
    <3>1. n >= 1 /\ n \in 1 .. n
      BY <1>2, <2>1
    <3> QED BY <1>3, <1>5, <1>7, <1>9, <2>1, <3>1
  <2>2. CASE i # n
    <3>1. i \in 1 .. n - 1 /\ i \in 1 .. n /\ i + 1 \in 1 .. n
      BY <1>2, <2>2
    <3>2. stack[i].next <= Len(extending[stack[i].pro]) /\ Target(extending[stack[i].pro][stack[i].next]) = stack[i + 1].pro
      BY <3>1 DEF Calls, n
    <3> QED BY <1>3, <1>5, <3>1, <3>2
  <2> QED BY <2>1, <2>2
<1>13. Calls'
  BY <1>3, <1>8, <1>11, <1>12 DEF Calls
<1> QED BY <1>3, <1>7, <1>13 DEF n

\* Nothing that extend looks at changes.
LEMMA StillMerged ==
  ASSUME LoadIInv, UNCHANGED <<extending, byName, metrics, extended, stack>>, loading' # "failed" => loading # "failed"
  PROVE  OwnFirst' /\ Calls' /\ Entered'
<1>1. Wired
  BY IsWired DEF LoadIInv
<1>2. /\ \A n : Target(n)' = Target(n)
      /\ \A g \in FileSet : Reach(g)' = Reach(g)
  BY <1>1, ReachKept
<1>3. \A g \in FileSet : Tables(g)' = Tables(g)
  BY DEF Tables
<1>4. \A g \in FileSet, x \in Nat : Through(g, x) => Through(g, x)'
  BY <1>1, <1>3, ThroughGrows
<1>5. \A i \in 1 .. Len(stack) : stack[i].pro \in FileSet /\ stack[i].next \in Nat
  <2>1. \A i \in 1 .. Len(stack) : stack[i] \in FrameSet
    BY DEF LoadIInv, ProfTypes
  <2> QED BY <2>1 DEF FrameSet
<1>6. \A f \in FileSet : Len(extending[f]) + 1 \in Nat
  BY <1>1, ExtendsNumbered DEF Wired, Numbered
<1>7. OwnFirst'
  BY <1>2, <1>3 DEF LoadIInv, OwnFirst
<1>8. Calls'
  <2>1. \A i \in 1 .. Len(stack') : /\ stack'[i].next \in 1..(Len(extending'[stack'[i].pro]) + 1)
                                    /\ Through(stack[i].pro, stack[i].next)'
    BY <1>4, <1>5 DEF LoadIInv, Calls
  <2>2. \A i, j \in 1..Len(stack') : i <= j => stack'[j].pro \in Reach(stack[i].pro)'
    BY <1>2, <1>5 DEF LoadIInv, Calls
  <2>3. \A i \in 1..(Len(stack') - 1) : /\ stack'[i].next <= Len(extending'[stack'[i].pro])
                                        /\ Target(extending[stack[i].pro][stack[i].next])' = stack'[i + 1].pro
    BY <1>2 DEF LoadIInv, Calls
  <2> QED BY <2>1, <2>2, <2>3 DEF Calls
<1>9. Entered'
  BY <1>4, <1>6 DEF LoadIInv, Entered, OnStack
<1> QED BY <1>7, <1>8, <1>9

\* What the top of the stack is.
LEMMA TopIs ==
  ASSUME ProfTypes, stack # <<>>
  PROVE  /\ Len(stack) \in Nat /\ Len(stack) >= 1 /\ Len(stack) \in 1 .. Len(stack) /\ Top = stack[Len(stack)]
         /\ \A i \in 1 .. Len(stack) : stack[i].pro \in FileSet /\ stack[i].next \in Nat
         /\ \A f \in FileSet : Len(extending[f]) \in Nat /\ DOMAIN extending[f] = 1 .. Len(extending[f])
         /\ SubSeq(stack, 1, Len(stack)) = stack
<1>1. stack \in Seq(FrameSet) /\ \A i \in 1 .. Len(stack) : stack[i] \in FrameSet
  BY DEF ProfTypes
<1>2. Len(stack) \in Nat /\ Len(stack) >= 1 /\ Len(stack) \in 1 .. Len(stack)
  BY <1>1
<1>3. SubSeq(stack, 1, Len(stack)) = stack
  BY <1>1, <1>2
<1>4. \A f \in FileSet : Len(extending[f]) \in Nat /\ DOMAIN extending[f] = 1 .. Len(extending[f])
  BY IsWired, ExtendsNumbered DEF Wired, Numbered
<1> QED BY <1>1, <1>2, <1>3, <1>4 DEF FrameSet, Top

\* One that the top extends, and whose own extension has ended or is under way,
\* is merged.
LEMMA MergeKept ==
  ASSUME LoadIInv, loading = "extend", loading' = "extend", UNCHANGED <<extending, byName, extended>>,
         NEW m \in 1 .. Len(stack), NEW p, NEW ep, p = stack[m].pro, stack[m].next <= Len(extending[p]),
         ep = Target(extending[p][stack[m].next]), ep # NoFile, Merge(p, ep), stack' = Advance(SubSeq(stack, 1, m)),
         Through(ep, Len(extending[ep]) + 1) \/ \E i \in 1 .. m : stack[i].pro = ep,
         \A i \in (m + 1) .. Len(stack) : Through(stack[i].pro, Len(extending[stack[i].pro]) + 1)
  PROVE  /\ metrics' \in [FileSet -> Seq(TableSet)] /\ stack' \in Seq(FrameSet)
         /\ OwnFirst' /\ Calls' /\ Entered'
<1>0. ProfTypes /\ Wired /\ stack # <<>> /\ OwnFirst /\ Calls /\ metrics \in [FileSet -> Seq(TableSet)]
  BY IsWired DEF LoadIInv, ProfTypes
<1>1. /\ p \in FileSet /\ stack[m].next \in Nat /\ Len(stack) \in Nat
      /\ Len(extending[p]) \in Nat /\ DOMAIN extending[p] = 1 .. Len(extending[p])
      /\ \A f \in FileSet : Len(extending[f]) + 1 \in Nat
  BY <1>0, TopIs
<1>2. ep \in Direct(p) /\ ep \in FileSet
  <2>1. stack[m].next \in 1 .. (Len(extending[p]) + 1)
    BY <1>0 DEF Calls
  <2>2. stack[m].next \in DOMAIN extending[p]
    BY <1>1, <2>1
  <2>3. ep \in Direct(p)
    BY <2>2 DEF Direct
  <2> QED BY <1>0, <1>1, <2>3, DirectFiles
<1>3. /\ metrics' \in [FileSet -> Seq(TableSet)] /\ OwnFirst'
      /\ Tables(p)' = Tables(p) \cup Tables(ep) /\ \A f \in FileSet \ {p} : Tables(f)' = Tables(f)
  BY <1>0, <1>1, <1>2, MergeLaw
<1>4. Has(p, ep)'
  <2>1. ASSUME NEW i \in 1 .. m, stack[i].pro = ep PROVE p \in Reach(ep)
    <3>1. i \in 1 .. Len(stack) /\ i <= m
      BY <1>1
    <3> QED BY <1>0, <2>1, <3>1 DEF Calls
  <2> QED BY <1>0, <1>1, <1>2, <2>1, MergeHas
<1>5. \A f \in FileSet : Tables(f) \subseteq Tables(f)'
  BY <1>3
<1>6. /\ Calls' /\ stack' \in Seq(FrameSet) /\ Len(stack') = m
      /\ \A i \in 1 .. m : stack'[i].pro = stack[i].pro
  <2> DEFINE k == stack[m].next
  <2>1. k = stack[m].next /\ k <= Len(extending[p]) /\ ep = Target(extending[p][k])
    OBVIOUS
  <2> HIDE DEF k
  <2> QED BY <1>0, <1>4, <1>5, <2>1, AdvanceKept
<1>7. ASSUME NEW g \in FileSet, extended'[g] PROVE OnStack(g)' \/ Through(g, Len(extending[g]) + 1)'
  <2>1. \A x \in Nat : Through(g, x) => Through(g, x)'
    BY <1>0, <1>5, ThroughGrows
  <2>2. CASE Through(g, Len(extending[g]) + 1)
    BY <1>1, <2>1, <2>2
  <2>3. ASSUME NEW i \in 1 .. Len(stack), stack[i].pro = g PROVE OnStack(g)' \/ Through(g, Len(extending[g]) + 1)'
    <3>1. CASE i <= m
      BY <1>1, <1>6, <2>3, <3>1 DEF OnStack
    <3>2. CASE i > m
      <4>1. i \in (m + 1) .. Len(stack)
        BY <1>1, <3>2
      <4> QED BY <1>1, <2>1, <2>3, <4>1
    <3> QED BY <1>1, <3>1, <3>2
  <2> QED BY <1>7, <2>2, <2>3 DEF LoadIInv, Entered, OnStack
<1> QED BY <1>3, <1>6, <1>7 DEF Entered

\* A profile is entered.
LEMMA CallKept ==
  ASSUME LoadIInv, loading = "extend", UNCHANGED <<loading, extending, byName, metrics>>, NEW f \in FileSet, Enter(f),
         stack # <<>> => /\ Top.next <= Len(extending[Top.pro]) /\ Target(extending[Top.pro][Top.next]) = f
  PROVE  /\ extended' \in [FileSet -> BOOLEAN] /\ stack' \in Seq(FrameSet) /\ OwnFirst' /\ Calls' /\ Entered'
         /\ \A g \in FileSet : extended[g] \/ g = f => extended'[g]
<1>0. ProfTypes /\ Wired /\ Calls /\ extended \in [FileSet -> BOOLEAN] /\ Len(stack) \in Nat
  BY IsWired DEF LoadIInv, ProfTypes
<1>1. stack' = Append(stack, Frame(f)) /\ extended' = [extended EXCEPT ![f] = TRUE]
  BY DEF Enter
<1>2. /\ Calls' /\ stack' \in Seq(FrameSet) /\ Len(stack') = Len(stack) + 1
      /\ (\A i \in 1 .. Len(stack) : stack'[i] = stack[i]) /\ stack'[Len(stack) + 1].pro = f
  BY <1>0, <1>1, EnterKept
<1>3. extended' \in [FileSet -> BOOLEAN] /\ \A g \in FileSet : extended'[g] <=> (extended[g] \/ g = f)
  BY <1>0, <1>1
<1>4. /\ \A g \in FileSet : Reach(g)' = Reach(g)
      /\ \A g \in FileSet : Tables(g)' = Tables(g)
  BY <1>0, ReachKept DEF Tables
<1>5. OwnFirst'
  BY <1>4 DEF LoadIInv, OwnFirst
<1>6. ASSUME NEW g \in FileSet, extended'[g] PROVE OnStack(g)' \/ Through(g, Len(extending[g]) + 1)'
  <2>1. CASE g = f
    <3>1. Len(stack) + 1 \in 1 .. Len(stack')
      BY <1>0, <1>2
    <3> QED BY <1>2, <2>1, <3>1 DEF OnStack
  <2>2. CASE Through(g, Len(extending[g]) + 1)
    <3>1. Len(extending[g]) + 1 \in Nat
      BY <1>0, ExtendsNumbered DEF Wired, Numbered
    <3>2. \A x \in Nat : Through(g, x) => Through(g, x)'
      BY <1>0, <1>4, ThroughGrows
    <3> QED BY <2>2, <3>1, <3>2
  <2>3. ASSUME NEW i \in 1 .. Len(stack), stack[i].pro = g PROVE OnStack(g)'
    <3>1. i \in 1 .. Len(stack')
      BY <1>0, <1>2
    <3> QED BY <1>2, <2>3, <3>1 DEF OnStack
  <2> QED BY <1>3, <1>6, <2>1, <2>2, <2>3 DEF LoadIInv, Entered, OnStack
<1>7. Entered'
  BY <1>6 DEF Entered
<1> QED BY <1>2, <1>3, <1>5, <1>7

LEMMA LoadStart == ProfilesInit => LoadIInv
<1> SUFFICES ASSUME ProfilesInit PROVE LoadIInv
  OBVIOUS
<1> USE DEF ProfilesInit
<1>1. \A f \in FileSet : metrics[f] = <<Own(f)>>
  BY DEF Own
<1>2. ProfTypes
  <2>1. metrics \in [FileSet -> Seq(TableSet)]
    BY DEF TableSet
  <2>2. Files \in Seq(FileSet)
    BY ProfilesAssumption DEF ProfilesAssumption
  <2> QED BY <2>1, <2>2 DEF ProfTypes
<1>3. OwnFirst
  <2> SUFFICES ASSUME NEW f \in FileSet PROVE /\ Len(metrics[f]) >= 1 /\ metrics[f][1] = Own(f) /\ Tables(f) \subseteq Reach(f)
                                              /\ \A i \in 2..Len(metrics[f]) : metrics[f][i].ext
    BY DEF OwnFirst
  <2>1. Tables(f) = {f}
    BY <1>1 DEF Tables, Own
  <2>2. f \in Reach(f)
    BY <1>2, IsWired, ReachLaw
  <2> QED BY <1>1, <2>1, <2>2
<1>4. Calls /\ Entered
  BY DEF Calls, Entered
<1>5. Ranged
  BY <1>1 DEF Ranged, InUse
<1> QED BY <1>2, <1>3, <1>4, <1>5 DEF LoadIInv

LEMMA ReadKept == ASSUME LoadIInv, ReadBadFile \/ ReadYml \/ ReadXml PROVE LoadIInv'
<1>1. loading = "read" /\ unread # <<>> /\ unread \in Seq(FileSet) /\ stack = <<>>
  BY DEF ReadBadFile, ReadYml, ReadXml, LoadIInv, ProfTypes, Ranged
<1>2. Head(unread) \in FileSet /\ Tail(unread) \in Seq(FileSet) /\ NameOf[Head(unread)] \in Names
  BY <1>1 DEF Names
<1>3. /\ loading' \in {"read", "failed"} /\ unread' \in Seq(FileSet)
      /\ UNCHANGED <<extending, toRange, extended, metrics, stack, device, found, mibs, unpruned>>
  <2>1. CASE ReadBadFile
    <3>1. /\ IF validate THEN loading' = "failed" /\ unread' = <<>> ELSE unread' = Tail(unread) /\ UNCHANGED loading
          /\ UNCHANGED <<extending, toRange, extended, metrics, stack, device, found, mibs, unpruned>>
      BY <2>1 DEF ReadBadFile, useVars
    <3>2. CASE validate
      BY <3>1, <3>2
    <3>3. CASE ~validate
      BY <1>1, <1>2, <3>1, <3>3
    <3> QED BY <3>2, <3>3
  <2>2. CASE ReadYml
    BY <1>1, <1>2, <2>2 DEF ReadYml, useVars
  <2>3. CASE ReadXml
    BY <1>1, <1>2, <2>3 DEF ReadXml, useVars
  <2> QED BY <2>1, <2>2, <2>3
<1>4. byName' \in [Names -> FileSet \cup {NoFile}] /\ profiles' \in [Patterns -> FileSet \cup {NoFile}]
  <2>1. byName \in [Names -> FileSet \cup {NoFile}] /\ profiles \in [Patterns -> FileSet \cup {NoFile}]
    BY DEF LoadIInv, ProfTypes
  <2>2. CASE ReadBadFile
    BY <2>1, <2>2 DEF ReadBadFile
  <2>3. CASE ReadYml
    BY <1>2, <2>1, <2>3 DEF ReadYml
  <2>4. CASE ReadXml
    BY <1>2, <2>1, <2>4 DEF ReadXml
  <2> QED BY <2>2, <2>3, <2>4
<1>5. toRange = {} /\ \A f \in FileSet : ~extended[f] /\ metrics[f] = <<Own(f)>>
  BY <1>1 DEF LoadIInv, Ranged
<1>6. ProfTypes'
  BY <1>3, <1>4, <1>5 DEF LoadIInv, ProfTypes
<1>7. OwnFirst'
  <2> SUFFICES ASSUME NEW f \in FileSet
               PROVE  /\ Len(metrics'[f]) >= 1 /\ metrics'[f][1] = Own(f) /\ Tables(f)' \subseteq Reach(f)'
                      /\ \A i \in 2..Len(metrics'[f]) : metrics'[f][i].ext
    BY DEF OwnFirst
  <2>0. metrics'[f] = <<Own(f)>>
    BY <1>3, <1>5
  <2>1. Tables(f)' = {f}
    BY <2>0 DEF Tables, Own
  <2>2. Wired'
    BY <1>6 DEF ProfTypes, Wired
  <2>3. (Wired => \A g \in FileSet : LeastClosed(g))'
    BY ReachAllNext
  <2>4. f \in Reach(f)'
    BY <2>2, <2>3 DEF LeastClosed
  <2> QED BY <2>0, <2>1, <2>4
<1>8. Calls' /\ Entered'
  BY <1>1, <1>3, <1>5 DEF Calls, Entered
<1>9. Ranged'
  BY <1>1, <1>3, <1>5 DEF Ranged, InUse
<1> QED BY <1>6, <1>7, <1>8, <1>9 DEF LoadIInv

LEMMA RangeKept == ASSUME LoadIInv, NEW p \in Patterns, RangeProfiles(p) PROVE LoadIInv'
<1>1. /\ loading = "extend" /\ stack = <<>> /\ p \in toRange /\ toRange' = toRange \ {p}
      /\ UNCHANGED <<extending, unread, byName, profiles, metrics, device, found, mibs, unpruned>>
  BY DEF RangeProfiles, useVars
<1>2. profiles[p] \in FileSet /\ extended[profiles[p]] \in BOOLEAN
  BY <1>1 DEF LoadIInv, ProfTypes
<1>3. \A q \in Patterns : profiles[q] # NoFile => q \in toRange \/ extended[profiles[q]]
  BY <1>1 DEF LoadIInv, Ranged
<1>4. CASE extended[profiles[p]]
  <2>1. loading' = "validate" /\ UNCHANGED <<extended, stack>>
    BY <1>4 DEF RangeProfiles
  <2>2. OwnFirst' /\ Calls' /\ Entered'
    BY <1>1, <2>1, StillMerged
  <2>3. ProfTypes'
    BY <1>1, <2>1 DEF LoadIInv, ProfTypes
  <2>4. Ranged'
    BY <1>1, <1>3, <1>4, <2>1 DEF Ranged, InUse
  <2> QED BY <2>2, <2>3, <2>4 DEF LoadIInv
<1>5. CASE ~extended[profiles[p]]
  <2>1. Enter(profiles[p]) /\ UNCHANGED loading
    BY <1>5 DEF RangeProfiles
  <2> DEFINE f == profiles[p]
  <2>2. f \in FileSet /\ Enter(f)
    BY <1>2, <2>1
  <2>3. /\ extended' \in [FileSet -> BOOLEAN] /\ stack' \in Seq(FrameSet) /\ OwnFirst' /\ Calls' /\ Entered'
        /\ \A g \in FileSet : extended[g] \/ g = f => extended'[g]
    <3>1. \A g \in FileSet : g = profiles[p] =>
            /\ extended' \in [FileSet -> BOOLEAN] /\ stack' \in Seq(FrameSet) /\ OwnFirst' /\ Calls' /\ Entered'
            /\ \A h \in FileSet : extended[h] \/ h = g => extended'[h]
      <4> SUFFICES ASSUME NEW g \in FileSet, g = profiles[p]
                   PROVE  /\ extended' \in [FileSet -> BOOLEAN] /\ stack' \in Seq(FrameSet) /\ OwnFirst' /\ Calls' /\ Entered'
                          /\ \A h \in FileSet : extended[h] \/ h = g => extended'[h]
        OBVIOUS
      <4>1. Enter(g)
        BY <2>1 DEF Enter
      <4> QED BY <1>1, <2>1, <4>1, CallKept
    <3> QED BY <2>2, <3>1
  <2>4. ProfTypes'
    BY <1>1, <2>1, <2>3 DEF LoadIInv, ProfTypes
  <2>5. ASSUME NEW q \in Patterns, profiles'[q] # NoFile PROVE q \in toRange' \/ extended'[profiles'[q]]
    <3>1. profiles'[q] = profiles[q] /\ profiles[q] \in FileSet
      BY <1>1, <2>5 DEF LoadIInv, ProfTypes
    <3>2. CASE q = p
      BY <2>2, <2>3, <3>1, <3>2
    <3>3. CASE q # p
      <4>1. q \in toRange \/ extended[profiles[q]]
        BY <1>3, <3>1, <2>5
      <4> QED BY <1>1, <2>3, <3>1, <3>3, <4>1
    <3> QED BY <3>2, <3>3
  <2>6. Ranged'
    BY <1>1, <2>1, <2>5 DEF Ranged, InUse
  <2> QED BY <2>3, <2>4, <2>6 DEF LoadIInv
<1> QED BY <1>2, <1>4, <1>5

LEMMA ExtendKept == ASSUME LoadIInv, ExtendMissing \/ ExtendCall \/ ExtendMerge \/ ExtendReturn PROVE LoadIInv'
<1>0. ProfTypes /\ Wired /\ loading = "extend" /\ stack # <<>> /\ Calls
  BY IsWired DEF LoadIInv, ExtendMissing, ExtendCall, ExtendMerge, ExtendReturn, NameLeft, Calling
<1>1. UNCHANGED <<extending, unread, byName, profiles, toRange, device, found, mibs, unpruned>>
  BY DEF ExtendMissing, ExtendCall, ExtendMerge, ExtendReturn, useVars
<1> DEFINE n == Len(stack)
<1>2. /\ n \in Nat /\ n >= 1 /\ n \in 1 .. n /\ Top = stack[n] /\ SubSeq(stack, 1, n) = stack
      /\ \A i \in 1 .. n : stack[i].pro \in FileSet /\ stack[i].next \in Nat
      /\ \A f \in FileSet : Len(extending[f]) \in Nat /\ DOMAIN extending[f] = 1 .. Len(extending[f])
  BY <1>0, TopIs
<1>3. \A q \in Patterns : profiles[q] # NoFile => q \in toRange \/ extended[profiles[q]]
  BY <1>0 DEF LoadIInv, Ranged
<1>4. ASSUME /\ loading' \in {"extend", "validate", "failed"} /\ (loading' # "extend" => stack' = <<>>)
             /\ stack' \in Seq(FrameSet) /\ metrics' \in [FileSet -> Seq(TableSet)] /\ OwnFirst' /\ Calls' /\ Entered'
             /\ extended' \in [FileSet -> BOOLEAN] /\ \A g \in FileSet : extended[g] => extended'[g]
      PROVE  LoadIInv'
  <2>1. ProfTypes'
    BY <1>0, <1>1, <1>4 DEF ProfTypes
  <2>2. \A q \in Patterns : profiles[q] \in FileSet \cup {NoFile}
    BY <1>0 DEF ProfTypes
  <2>3. Ranged'
    BY <1>1, <1>3, <1>4, <2>2 DEF Ranged, InUse
  <2> QED BY <1>4, <2>1, <2>3 DEF LoadIInv
<1>5. extended \in [FileSet -> BOOLEAN] /\ metrics \in [FileSet -> Seq(TableSet)] /\ OwnFirst /\ stack \in Seq(FrameSet)
  BY DEF LoadIInv, ProfTypes
<1>6. CASE ExtendMissing
  <2>1. /\ Top.next <= Len(extending[Top.pro]) /\ Target(Wanted) = NoFile /\ UNCHANGED <<extended, metrics>>
        /\ IF validate THEN loading' = "failed" /\ stack' = <<>> ELSE stack' = Advance(stack) /\ UNCHANGED loading
    BY <1>6 DEF ExtendMissing, NameLeft
  <2>2. \A f \in FileSet : Tables(f)' = Tables(f) /\ Reach(f)' = Reach(f)
    BY <1>0, <1>1, <2>1, ReachKept DEF Tables
  <2>3. OwnFirst'
    BY <1>5, <2>1, <2>2 DEF OwnFirst
  <2>4. CASE validate
    <3>1. Calls' /\ Entered'
      BY <2>1, <2>4 DEF Calls, Entered
    <3> QED BY <1>4, <1>5, <2>1, <2>3, <2>4, <3>1
  <2>5. CASE ~validate
    <3> DEFINE p == stack[n].pro k == stack[n].next
    <3>1. \A x, y, t : x = stack[n].pro /\ y = stack[n].next /\ t = Target(extending[x][y]) =>
            /\ Calls' /\ stack' \in Seq(FrameSet) /\ Len(stack') = n /\ \A i \in 1 .. n : stack'[i].pro = stack[i].pro
      <4> SUFFICES ASSUME NEW x, NEW y, NEW t, x = stack[n].pro, y = stack[n].next, t = Target(extending[x][y])
                   PROVE  /\ Calls' /\ stack' \in Seq(FrameSet) /\ Len(stack') = n
                          /\ \A i \in 1 .. n : stack'[i].pro = stack[i].pro
        OBVIOUS
      <4>1. t = NoFile /\ y <= Len(extending[x])
        BY <1>2, <2>1 DEF Wanted
      <4>2. stack' = Advance(SubSeq(stack, 1, n))
        BY <1>2, <2>1, <2>5
      <4>3. \A f \in FileSet : Tables(f) \subseteq Tables(f)'
        BY <2>2
      <4>4. UNCHANGED <<extending, byName>>
        BY <1>1
      <4>5. n \in 1 .. Len(stack)
        BY <1>2
      <4> QED BY <1>0, <4>1, <4>2, <4>3, <4>4, <4>5, AdvanceKept
    <3>2. Calls' /\ stack' \in Seq(FrameSet) /\ Len(stack') = n /\ \A i \in 1 .. n : stack'[i].pro = stack[i].pro
      BY <3>1
    <3>3. Entered'
      <4>1. \A f \in FileSet, x \in Nat : Through(f, x) => Through(f, x)'
        BY <1>0, <1>1, <2>2, ThroughGrows
      <4>2. \A f \in FileSet : Len(extending[f]) + 1 \in Nat
        BY <1>2
      <4> QED BY <1>0, <1>1, <2>1, <3>2, <4>1, <4>2 DEF LoadIInv, Entered, OnStack
    <3> QED BY <1>0, <1>4, <1>5, <2>1, <2>3, <2>5, <3>2, <3>3
  <2> QED BY <2>4, <2>5
<1>7. CASE ExtendCall
  <2>1. /\ Top.next <= Len(extending[Top.pro]) /\ Target(Wanted) # NoFile /\ Enter(Target(Wanted))
        /\ UNCHANGED <<loading, metrics>>
    BY <1>7 DEF ExtendCall, NameLeft
  <2>2. \A f \in FileSet : f = Target(Wanted) =>
          /\ extended' \in [FileSet -> BOOLEAN] /\ stack' \in Seq(FrameSet) /\ OwnFirst' /\ Calls' /\ Entered'
          /\ \A g \in FileSet : extended[g] => extended'[g]
    <3> SUFFICES ASSUME NEW f \in FileSet, f = Target(Wanted)
                 PROVE  /\ extended' \in [FileSet -> BOOLEAN] /\ stack' \in Seq(FrameSet) /\ OwnFirst' /\ Calls' /\ Entered'
                        /\ \A g \in FileSet : extended[g] => extended'[g]
      OBVIOUS
    <3>1. Enter(f)
      BY <2>1 DEF Enter
    <3>2. Target(extending[Top.pro][Top.next]) = f
      BY DEF Wanted
    <3> QED BY <1>0, <1>1, <2>1, <3>1, <3>2, CallKept
  <2>3. Target(Wanted) \in FileSet
    BY <1>0, <2>1, Leads
  <2> QED BY <1>0, <1>4, <1>5, <2>1, <2>2, <2>3
<1>8. CASE ExtendMerge
  <2>1. /\ Top.next <= Len(extending[Top.pro]) /\ Target(Wanted) # NoFile /\ extended[Target(Wanted)]
        /\ Merge(Top.pro, Target(Wanted)) /\ stack' = Advance(stack) /\ UNCHANGED <<loading, extended>>
    BY <1>8 DEF ExtendMerge, NameLeft
  <2>2. \A p, ep : p = Top.pro /\ ep = Target(Wanted) =>
          /\ metrics' \in [FileSet -> Seq(TableSet)] /\ stack' \in Seq(FrameSet) /\ OwnFirst' /\ Calls' /\ Entered'
    <3> SUFFICES ASSUME NEW p, NEW ep, p = Top.pro, ep = Target(Wanted)
                 PROVE  /\ metrics' \in [FileSet -> Seq(TableSet)] /\ stack' \in Seq(FrameSet) /\ OwnFirst' /\ Calls' /\ Entered'
      OBVIOUS
    <3>1. p = stack[n].pro /\ stack[n].next <= Len(extending[p]) /\ ep = Target(extending[p][stack[n].next]) /\ ep # NoFile
      BY <1>2, <2>1 DEF Wanted
    <3>2. Merge(p, ep) /\ stack' = Advance(SubSeq(stack, 1, n))
      BY <1>2, <2>1 DEF Merge
    <3>3. ep \in FileSet /\ extended[ep]
      BY <1>0, <2>1, Leads
    <3>4. Through(ep, Len(extending[ep]) + 1) \/ \E i \in 1 .. n : stack[i].pro = ep
      BY <1>0, <3>3 DEF LoadIInv, Entered, OnStack
    <3>5. \A i \in (n + 1) .. Len(stack) : Through(stack[i].pro, Len(extending[stack[i].pro]) + 1)
      BY <1>2
    <3>6. loading' = "extend" /\ n \in 1 .. Len(stack) /\ UNCHANGED <<extending, byName, extended>>
      BY <1>0, <1>1, <1>2, <2>1
    <3> HIDE DEF n
    <3> QED BY <1>0, <3>1, <3>2, <3>4, <3>5, <3>6, MergeKept
  <2> QED BY <1>0, <1>4, <1>5, <2>1, <2>2
<1>9. CASE ExtendReturn
  <2>1. /\ ~(Top.next <= Len(extending[Top.pro])) /\ UNCHANGED extended
        /\ IF n = 1 THEN stack' = <<>> /\ loading' = "validate" /\ UNCHANGED metrics
           ELSE Merge(Below[Len(Below)].pro, Top.pro) /\ stack' = Advance(Below) /\ UNCHANGED loading
    BY <1>0, <1>9 DEF ExtendReturn, NameLeft, Calling
  <2>2. Through(stack[n].pro, Len(extending[stack[n].pro]) + 1)
    <3>1. stack[n].next \in 1 .. (Len(extending[stack[n].pro]) + 1) /\ Through(stack[n].pro, stack[n].next)
      BY <1>0, <1>2 DEF Calls
    <3>2. stack[n].next = Len(extending[stack[n].pro]) + 1
      BY <1>2, <2>1, <3>1
    <3> QED BY <3>1, <3>2
  <2>3. CASE n = 1
    <3>1. stack' = <<>> /\ loading' = "validate" /\ UNCHANGED metrics
      BY <2>1, <2>3
    <3>2. \A f \in FileSet : Tables(f)' = Tables(f) /\ Reach(f)' = Reach(f)
      BY <1>0, <1>1, <3>1, ReachKept DEF Tables
    <3>3. OwnFirst' /\ Calls'
      BY <1>5, <3>1, <3>2 DEF OwnFirst, Calls
    <3>4. \A f \in FileSet, x \in Nat : Through(f, x) => Through(f, x)'
      BY <1>0, <1>1, <3>2, ThroughGrows
    <3>5. ASSUME NEW f \in FileSet, extended'[f] PROVE Through(f, Len(extending[f]) + 1)'
      <4>1. OnStack(f) => f = stack[n].pro
        BY <2>3 DEF OnStack
      <4>2. Through(f, Len(extending[f]) + 1)
        BY <1>0, <2>1, <2>2, <3>5, <4>1 DEF LoadIInv, Entered
      <4>3. Len(extending[f]) + 1 \in Nat
        BY <1>2
      <4> QED BY <1>1, <3>4, <4>2, <4>3
    <3>6. Entered'
      BY <1>1, <3>5 DEF Entered
    <3> QED BY <1>4, <1>5, <2>1, <3>1, <3>3, <3>6
  <2>4. CASE n # 1
    <3> DEFINE m == n - 1
    <3>1. m \in 1 .. (n - 1) /\ m \in 1 .. n /\ m + 1 = n
      BY <1>2, <2>4
    <3>2. Below = SubSeq(stack, 1, m) /\ Len(Below) = m /\ Below[Len(Below)] = stack[m]
      BY <1>2, <1>5, <3>1 DEF Below
    <3>3. Merge(stack[m].pro, stack[n].pro) /\ stack' = Advance(SubSeq(stack, 1, m)) /\ loading' = "extend"
      BY <1>0, <1>2, <2>1, <2>4, <3>2
    <3>4. stack[m].next <= Len(extending[stack[m].pro]) /\ Target(extending[stack[m].pro][stack[m].next]) = stack[n].pro
      BY <1>0, <3>1 DEF Calls
    <3>5. \A p, ep : p = stack[m].pro /\ ep = stack[n].pro =>
            /\ metrics' \in [FileSet -> Seq(TableSet)] /\ stack' \in Seq(FrameSet) /\ OwnFirst' /\ Calls' /\ Entered'
      <4> SUFFICES ASSUME NEW p, NEW ep, p = stack[m].pro, ep = stack[n].pro
                   PROVE  /\ metrics' \in [FileSet -> Seq(TableSet)] /\ stack' \in Seq(FrameSet)
                          /\ OwnFirst' /\ Calls' /\ Entered'
        OBVIOUS
      <4>1. stack[m].next <= Len(extending[p]) /\ ep = Target(extending[p][stack[m].next]) /\ ep # NoFile
        BY <1>2, <3>4, ProfilesAssumption DEF ProfilesAssumption
      <4>2. Merge(p, ep)
        BY <3>3 DEF Merge
      <4>3. Through(ep, Len(extending[ep]) + 1)
        BY <2>2
      <4>4. ASSUME NEW i \in (m + 1) .. Len(stack) PROVE Through(stack[i].pro, Len(extending[stack[i].pro]) + 1)
        <5>1. i = n
          BY <1>2, <3>1
        <5> QED BY <2>2, <5>1
      <4>5. m \in 1 .. Len(stack) /\ UNCHANGED <<extending, byName, extended>>
        BY <1>1, <2>1, <3>1
      <4>6. stack' = Advance(SubSeq(stack, 1, m)) /\ loading' = "extend"
        BY <3>3
      <4> HIDE DEF m, n
      <4> QED BY <1>0, <4>1, <4>2, <4>3, <4>4, <4>5, <4>6, MergeKept
    <3> QED BY <1>4, <1>5, <2>1, <3>3, <3>5
  <2> QED BY <2>3, <2>4
<1> QED BY <1>6, <1>7, <1>8, <1>9

LEMMA LoadKept == LoadIInv /\ [ProfilesNext]_profileVars => LoadIInv'
<1> SUFFICES ASSUME LoadIInv, [ProfilesNext]_profileVars PROVE LoadIInv'
  OBVIOUS
<1>1. ASSUME UNCHANGED <<extending, unread, byName, profiles, toRange, extended, metrics, stack, device>>,
             loading' \in {"extend", "ready", "prune", "done", "failed"} \/ UNCHANGED loading,
             loading' # "failed" => loading # "failed", found' \in FileSet \cup {NoFile}, unpruned' \subseteq DOMAIN mibs',
             Ranged'
      PROVE  LoadIInv'
  <2>1. ProfTypes'
    BY <1>1 DEF LoadIInv, ProfTypes
  <2>2. OwnFirst' /\ Calls' /\ Entered'
    BY <1>1, StillMerged
  <2> QED BY <1>1, <2>1, <2>2 DEF LoadIInv
<1>2. found \in FileSet \cup {NoFile} /\ unpruned \subseteq DOMAIN mibs
  BY DEF LoadIInv, ProfTypes
<1>3. CASE ReadBadFile \/ ReadYml \/ ReadXml
  BY <1>3, ReadKept
<1>4. CASE ReadAll
  <2>1. /\ loading = "read" /\ loading' = "extend" /\ toRange' = {p \in Patterns : profiles[p] # NoFile}
        /\ UNCHANGED <<extending, unread, byName, profiles, extended, metrics, stack, device, found, mibs, unpruned>>
    BY <1>4 DEF ReadAll, useVars
  <2>2. OwnFirst' /\ Calls' /\ Entered'
    BY <2>1, StillMerged
  <2>3. ProfTypes' /\ Ranged'
    BY <2>1 DEF LoadIInv, ProfTypes, Ranged, InUse
  <2> QED BY <2>2, <2>3 DEF LoadIInv
<1>5. ASSUME NEW p \in Patterns, RangeProfiles(p) PROVE LoadIInv'
  BY <1>5, RangeKept
<1>6. CASE ExtendMissing \/ ExtendCall \/ ExtendMerge \/ ExtendReturn
  BY <1>6, ExtendKept
<1>7. CASE Validate \/ Loaded
  <2>1. /\ UNCHANGED <<extending, unread, byName, profiles, toRange, extended, metrics, stack, device, found, mibs, unpruned>>
        /\ loading \in {"validate", "extend"} /\ stack = <<>> /\ loading' \in {"failed", "extend", "ready"}
        /\ loading' = "ready" => toRange = {}
    BY <1>7 DEF Validate, Loaded, loaderVars, useVars, LoadIInv, Ranged
  <2>2. Ranged'
    BY <2>1 DEF LoadIInv, Ranged, InUse
  <2> QED BY <1>1, <1>2, <2>1, <2>2
<1>8. ASSUME NEW f \in FileSet \cup {NoFile}, FindAndGet(f) PROVE LoadIInv'
  <2>1. /\ UNCHANGED <<extending, unread, byName, profiles, toRange, extended, metrics, stack, device>>
        /\ loading = "ready" /\ loading' \in {"prune", "done"} /\ found' = f
    BY <1>8 DEF FindAndGet, loaderVars
  <2>2. unpruned' \subseteq DOMAIN mibs'
    BY <1>2, <1>8 DEF FindAndGet
  <2>3. Ranged'
    BY <2>1 DEF LoadIInv, Ranged, InUse
  <2> QED BY <1>1, <2>1, <2>2, <2>3
<1>9. CASE (\E k \in DOMAIN mibs : PruneOne(k)) \/ PruneDone
  <2>1. /\ UNCHANGED <<extending, unread, byName, profiles, toRange, extended, metrics, stack, device, found, mibs>>
        /\ loading = "prune" /\ loading' \in {"prune", "done"} /\ unpruned' \subseteq unpruned
    BY <1>9 DEF PruneOne, PruneDone, loaderVars
  <2>2. Ranged'
    BY <2>1 DEF LoadIInv, Ranged, InUse
  <2> QED BY <1>1, <1>2, <2>1, <2>2
<1>10. CASE UNCHANGED profileVars
  <2>1. UNCHANGED <<extending, unread, byName, profiles, toRange, extended, metrics, stack, device, found, mibs, unpruned, loading>>
    BY <1>10 DEF profileVars, loaderVars, useVars
  <2>2. Ranged'
    BY <2>1 DEF LoadIInv, Ranged, InUse
  <2> QED BY <1>1, <1>2, <2>1, <2>2
<1> QED BY <1>3, <1>4, <1>5, <1>6, <1>7, <1>8, <1>9, <1>10 DEF ProfilesNext

LEMMA LoadSafe == LoadIInv => ProfilesTypeOK /\ MergedWhole
<1> SUFFICES ASSUME LoadIInv PROVE ProfilesTypeOK /\ MergedWhole
  OBVIOUS
<1>0. ProfTypes /\ Wired /\ metrics \in [FileSet -> Seq(TableSet)] /\ OwnFirst
  BY IsWired DEF LoadIInv, ProfTypes
<1>1. ProfilesTypeOK
  <2>1. DOMAIN stack = 1 .. Len(stack) /\ \A i \in 1 .. Len(stack) : stack[i] \in FrameSet
    BY <1>0 DEF ProfTypes
  <2>2. \A i \in DOMAIN stack : stack[i].pro \in FileSet /\ stack[i].next \in 1..(Len(extending[stack[i].pro]) + 1)
    BY <2>1 DEF FrameSet, LoadIInv, Calls
  <2> QED BY <1>0, <2>2 DEF ProfTypes, ProfilesTypeOK
<1>2. ASSUME InUse, NEW f \in FileSet, IsListed(f) PROVE Direct(f) \subseteq Tables(f) /\ (~Cyclic(f) => Tables(f) = Reach(f))
  <2>1. f # NoFile /\ loading \notin {"read", "failed", "extend"}
    BY <1>2, ProfilesAssumption DEF ProfilesAssumption, InUse
  <2>2. extended[f] /\ stack = <<>>
    BY <1>2, <2>1 DEF LoadIInv, Ranged, IsListed
  <2>3. Through(f, Len(extending[f]) + 1)
    BY <2>1, <2>2 DEF LoadIInv, Entered, OnStack
  <2> QED BY <1>0, <2>3, AllThrough
<1>3. MergedWhole
  BY <1>0, <1>2 DEF MergedWhole, OwnFirst, Own
<1> QED BY <1>1, <1>3

-----------------------------------------------------------------------------
(* Profiles: the profile of a device.                                      *)

WalkDef(way, s) ==
  way = [i \in 0 .. Len(s) |->
          IF i = 0 THEN NoFile ELSE IF At(Wild(s, i)) # NoFile THEN At(Wild(s, i)) ELSE way[i - 1]]

LEMMA WalkIs == ASSUME NEW s PROVE WalkUp(s) = (CHOOSE way : WalkDef(way, s))[Len(s)]
BY Zenon DEF WalkUp, WalkDef

\* The walk ends at the longest wildcard that has a profile.
NoneAfter(s, i, n) == \A j \in (i + 1) .. n : At(Wild(s, j)) = NoFile
Ends(s, n, f) ==
  \/ f = NoFile /\ NoneAfter(s, 0, n)
  \/ \E i \in 1 .. n : At(Wild(s, i)) # NoFile /\ f = At(Wild(s, i)) /\ NoneAfter(s, i, n)

LEMMA WalkLaw ==
  ASSUME NEW s \in Seq(Nat), profiles \in [Patterns -> FileSet \cup {NoFile}]
  PROVE  Ends(s, Len(s), WalkUp(s))
<1> DEFINE n == Len(s)
           X == FileSet \cup {NoFile}
           step == [i \in 1 .. n |-> [x \in X |-> IF At(Wild(s, i)) # NoFile THEN At(Wild(s, i)) ELSE x]]
<1>1. n \in Nat /\ NoFile \in X /\ \A i : At(Wild(s, i)) \in X
  BY DEF At
<1>2. Steps(step, n, X, NoFile)
  BY <1>1 DEF Steps
<1>3. PICK h : Follows(h, step, n, X, NoFile)
  <2> HIDE DEF n, X, step
  <2> QED BY <1>2, Recursion, Zenon
<1>4. h \in [0 .. n -> X] /\ h[0] = NoFile /\ \A i \in 1 .. n : h[i] = step[i][h[i - 1]]
  BY <1>3 DEF Follows
<1>5. ASSUME NEW i \in 1 .. n PROVE h[i] = IF At(Wild(s, i)) # NoFile THEN At(Wild(s, i)) ELSE h[i - 1]
  <2>1. i - 1 \in 0 .. n
    BY <1>1
  <2>2. h[i - 1] \in X
    BY <1>4, <2>1
  <2> QED BY <1>4, <2>2
<1>6. WalkDef(h, s)
  <2>1. ASSUME NEW i \in 0 .. n
        PROVE  h[i] = IF i = 0 THEN NoFile ELSE IF At(Wild(s, i)) # NoFile THEN At(Wild(s, i)) ELSE h[i - 1]
    <3>1. CASE i = 0
      BY <1>4, <3>1
    <3>2. CASE i # 0
      <4>1. i \in 1 .. n
        BY <1>1, <3>2
      <4> QED BY <1>5, <3>2, <4>1
    <3> QED BY <3>1, <3>2
  <2>2. h = [i \in 0 .. n |-> h[i]]
    BY <1>4
  <2> HIDE DEF n
  <2>3. h = [i \in 0 .. n |-> IF i = 0 THEN NoFile ELSE IF At(Wild(s, i)) # NoFile THEN At(Wild(s, i)) ELSE h[i - 1]]
    BY <2>1, <2>2, Zenon
  <2> QED BY <2>3 DEF WalkDef, n
<1> DEFINE w == CHOOSE way : WalkDef(way, s)
<1>7. WalkDef(w, s)
  BY <1>6, Zenon
<1>8. w[0] = NoFile /\ \A i \in 1 .. n : w[i] = IF At(Wild(s, i)) # NoFile THEN At(Wild(s, i)) ELSE w[i - 1]
  <2>1. w = [i \in 0 .. n |-> IF i = 0 THEN NoFile ELSE IF At(Wild(s, i)) # NoFile THEN At(Wild(s, i)) ELSE w[i - 1]]
    BY <1>7 DEF WalkDef
  <2> HIDE DEF w, n
  <2>2. \A i \in 0 .. n : w[i] = IF i = 0 THEN NoFile ELSE IF At(Wild(s, i)) # NoFile THEN At(Wild(s, i)) ELSE w[i - 1]
    BY <2>1, Zenon
  <2>3. 0 \in 0 .. n /\ \A i \in 1 .. n : i \in 0 .. n /\ i # 0
    BY <1>1
  <2> QED BY <2>2, <2>3, Zenon
<1>9. WalkUp(s) = w[n]
  BY WalkIs
<1> DEFINE S == {i \in 0 .. n : Ends(s, i, w[i])}
<1> HIDE DEF w, n, step, X
<1>10. 0 \in S
  BY <1>1, <1>8 DEF Ends, NoneAfter
<1>11. ASSUME NEW i \in 0 .. n - 1, i \in S PROVE i + 1 \in S
  <2>1. i + 1 \in 1 .. n /\ i + 1 \in 0 .. n /\ (i + 1) - 1 = i /\ i \in Nat
    BY <1>1
  <2>2. w[i + 1] = IF At(Wild(s, i + 1)) # NoFile THEN At(Wild(s, i + 1)) ELSE w[i]
    BY <1>8, <2>1
  <2>3. CASE At(Wild(s, i + 1)) # NoFile
    <3>1. NoneAfter(s, i + 1, i + 1) /\ i + 1 \in 1 .. (i + 1)
      BY <2>1 DEF NoneAfter
    <3> QED BY <2>1, <2>2, <2>3, <3>1 DEF Ends
  <2>4. CASE At(Wild(s, i + 1)) = NoFile
    <3>1. w[i + 1] = w[i]
      BY <2>2, <2>4
    <3>2. ASSUME NEW l \in 0 .. i, NoneAfter(s, l, i) PROVE NoneAfter(s, l, i + 1)
      <4> SUFFICES ASSUME NEW j \in (l + 1) .. (i + 1) PROVE At(Wild(s, j)) = NoFile
        BY DEF NoneAfter
      <4>1. j = i + 1 \/ j \in (l + 1) .. i
        BY <2>1
      <4> QED BY <2>4, <3>2, <4>1 DEF NoneAfter
    <3>3. CASE w[i] = NoFile /\ NoneAfter(s, 0, i)
      <4>1. 0 \in 0 .. i
        BY <2>1
      <4> QED BY <2>1, <3>1, <3>2, <3>3, <4>1 DEF Ends
    <3>4. ASSUME NEW l \in 1 .. i, At(Wild(s, l)) # NoFile, w[i] = At(Wild(s, l)), NoneAfter(s, l, i) PROVE i + 1 \in S
      <4>1. l \in 0 .. i /\ l \in 1 .. (i + 1)
        BY <2>1
      <4>2. NoneAfter(s, l, i + 1)
        BY <3>2, <3>4, <4>1
      <4> QED BY <2>1, <3>1, <3>4, <4>1, <4>2 DEF Ends
    <3>5. Ends(s, i, w[i])
      BY <1>11
    <3> QED BY <3>3, <3>4, <3>5 DEF Ends
  <2> QED BY <2>3, <2>4
<1> HIDE DEF S
<1>12. \A i \in 0 .. n : i \in S
  BY <1>1, <1>10, <1>11, InductTo
<1>13. n \in S
  BY <1>1, <1>12
<1> QED BY <1>9, <1>13 DEF S, n

\* The patterns that cover a device, and the most specific of them.
Covering(s) == {p \in Patterns : profiles[p] # NoFile /\ Covers(p, s)}
Bests(s) == {p \in Covering(s) : \A o \in Covering(s) : Len(o.path) < Len(p.path) \/ (Len(o.path) = Len(p.path)
                                                          /\ (o.wild \/ ~p.wild))}
Specific == IF Covering(device.sysid) = {} THEN found = NoFile
            ELSE \E p \in Bests(device.sysid) : found \in CheckMatch(profiles[p])

LEMMA SpecificIs == MostSpecific <=> ((InUse /\ loading # "ready" /\ device.force = NoName) => Specific)
BY Zenon DEF MostSpecific, Specific, Bests, Covering

LEMMA SpecificIsNext == (MostSpecific <=> ((InUse /\ loading # "ready" /\ device.force = NoName) => Specific))'
BY SpecificIs, PTL

\* Every pattern that covers a device is its id or one of the walk.
LEMMA CoveringLaw ==
  ASSUME NEW s \in Seq(Nat), NEW p \in Covering(s)
  PROVE  /\ Len(p.path) \in Nat /\ Len(p.path) <= Len(s) /\ p.wild \in BOOLEAN
         /\ ~p.wild => p = Exact(s)
         /\ p.wild => p = Wild(s, Len(p.path)) /\ Len(p.path) \in 1 .. Len(s)
         /\ At(p) # NoFile
<1>1. p \in [path : Seq(Nat), wild : BOOLEAN] /\ p \in Patterns /\ profiles[p] # NoFile /\ Covers(p, s)
  BY ProfilesAssumption DEF ProfilesAssumption, Covering
<1>2. p.path \in Seq(Nat) /\ p.wild \in BOOLEAN /\ p = [path |-> p.path, wild |-> p.wild]
  BY <1>1
<1>3. Len(p.path) \in Nat /\ Len(s) \in Nat /\ Len(p.path) <= Len(s) /\ SubSeq(s, 1, Len(p.path)) = p.path
  BY <1>1, <1>2 DEF Covers
<1>4. ASSUME ~p.wild PROVE p = Exact(s)
  <2>1. Len(p.path) = Len(s)
    BY <1>1, <1>4 DEF Covers
  <2>2. SubSeq(s, 1, Len(s)) = s
    OBVIOUS
  <2>3. p.wild = FALSE
    BY <1>2, <1>4
  <2> QED BY <1>2, <1>3, <2>1, <2>2, <2>3 DEF Exact
<1>5. ASSUME p.wild PROVE p = Wild(s, Len(p.path)) /\ Len(p.path) \in 1 .. Len(s)
  <2>1. p.path # <<>>
    BY <1>1, <1>5 DEF Covers
  <2>2. Len(p.path) >= 1
    BY <1>2, <1>3, <2>1
  <2>3. p.wild = TRUE
    BY <1>2, <1>5
  <2> QED BY <1>2, <1>3, <2>2, <2>3 DEF Wild
<1> QED BY <1>1, <1>2, <1>3, <1>4, <1>5 DEF At

LEMMA WildCovers ==
  ASSUME NEW s \in Seq(Nat), NEW i \in 1 .. Len(s), At(Wild(s, i)) # NoFile
  PROVE  Wild(s, i) \in Covering(s) /\ Len(Wild(s, i).path) = i /\ Wild(s, i).wild = TRUE /\ profiles[Wild(s, i)] = At(Wild(s, i))
<1>1. Wild(s, i).path = SubSeq(s, 1, i) /\ Wild(s, i).wild = TRUE
  BY DEF Wild
<1>2. Len(s) \in Nat /\ SubSeq(s, 1, i) \in Seq(Nat) /\ Len(SubSeq(s, 1, i)) = i /\ SubSeq(s, 1, i) # <<>> /\ i <= Len(s)
  OBVIOUS
<1>3. Wild(s, i) \in Patterns /\ profiles[Wild(s, i)] = At(Wild(s, i))
  BY DEF At
<1>4. Covers(Wild(s, i), s)
  BY <1>1, <1>2 DEF Covers
<1> QED BY <1>1, <1>2, <1>3, <1>4 DEF Covering

LEMMA ExactCovers ==
  ASSUME NEW s \in Seq(Nat), At(Exact(s)) # NoFile
  PROVE  Exact(s) \in Covering(s) /\ Exact(s).path = s /\ Exact(s).wild = FALSE /\ profiles[Exact(s)] = At(Exact(s))
<1>1. Exact(s).path = s /\ Exact(s).wild = FALSE
  BY DEF Exact
<1>2. Len(s) \in Nat /\ SubSeq(s, 1, Len(s)) = s
  OBVIOUS
<1>3. Exact(s) \in Patterns /\ profiles[Exact(s)] = At(Exact(s))
  BY DEF At
<1>4. Covers(Exact(s), s)
  BY <1>1, <1>2 DEF Covers
<1> QED BY <1>1, <1>3, <1>4 DEF Covering

\* The profile that is listed is that of the most specific pattern.
LEMMA ListedLaw ==
  ASSUME NEW s \in Seq(Nat), profiles \in [Patterns -> FileSet \cup {NoFile}]
  PROVE  IF Covering(s) = {} THEN Listed(s) = NoFile
         ELSE Listed(s) # NoFile /\ \E p \in Bests(s) : profiles[p] = Listed(s)
<1>1. CASE At(Exact(s)) # NoFile
  <2>1. Exact(s) \in Covering(s) /\ Exact(s).path = s /\ Exact(s).wild = FALSE /\ profiles[Exact(s)] = At(Exact(s))
    BY <1>1, ExactCovers
  <2>2. Listed(s) = At(Exact(s))
    BY <1>1 DEF Listed
  <2>3. ASSUME NEW o \in Covering(s) PROVE Len(o.path) < Len(s) \/ Len(o.path) = Len(s)
    BY CoveringLaw
  <2>4. Exact(s) \in Bests(s)
    BY <2>1, <2>3 DEF Bests
  <2> QED BY <1>1, <2>1, <2>2, <2>4
<1>2. CASE At(Exact(s)) = NoFile
  <2>1. Listed(s) = WalkUp(s) /\ Ends(s, Len(s), WalkUp(s))
    BY <1>2, WalkLaw DEF Listed
  <2>2. ASSUME NEW o \in Covering(s)
        PROVE  o.wild /\ o = Wild(s, Len(o.path)) /\ Len(o.path) \in 1 .. Len(s) /\ At(Wild(s, Len(o.path))) # NoFile
    BY <1>2, CoveringLaw
  <2>3. Len(s) \in Nat
    OBVIOUS
  <2>4. CASE WalkUp(s) = NoFile /\ NoneAfter(s, 0, Len(s))
    <3>1. ASSUME NEW o \in Covering(s) PROVE FALSE
      <4>1. Len(o.path) \in (0 + 1) .. Len(s) /\ At(Wild(s, Len(o.path))) # NoFile
        BY <2>2
      <4> QED BY <2>4, <4>1 DEF NoneAfter
    <3>2. Covering(s) = {}
      BY <3>1
    <3> QED BY <2>1, <2>4, <3>2
  <2>5. ASSUME NEW i \in 1 .. Len(s), At(Wild(s, i)) # NoFile, WalkUp(s) = At(Wild(s, i)), NoneAfter(s, i, Len(s))
        PROVE  Covering(s) # {} /\ Listed(s) # NoFile /\ \E p \in Bests(s) : profiles[p] = Listed(s)
    <3> DEFINE p == Wild(s, i)
    <3>1. p \in Covering(s) /\ Len(p.path) = i /\ p.wild = TRUE /\ profiles[p] = At(p)
      BY <2>5, WildCovers
    <3> HIDE DEF p
    <3>2. ASSUME NEW o \in Covering(s) PROVE o.wild /\ (Len(o.path) < i \/ Len(o.path) = i)
      <4> DEFINE a == Len(o.path)
      <4>1. o.wild /\ a \in 1 .. Len(s) /\ At(Wild(s, a)) # NoFile
        BY <2>2
      <4>2. ~(a \in (i + 1) .. Len(s))
        BY <2>5, <4>1 DEF NoneAfter
      <4> HIDE DEF a
      <4>3. a < i \/ a = i
        BY <2>3, <4>1, <4>2
      <4> QED BY <4>1, <4>3 DEF a
    <3>3. p \in Bests(s)
      BY <3>1, <3>2 DEF Bests
    <3> QED BY <2>1, <2>5, <3>1, <3>3 DEF p
  <2> QED BY <2>1, <2>4, <2>5 DEF Ends
<1> QED BY <1>1, <1>2

\* So a device that is neither forced nor matched gets it.
LEMMA FoundLaw ==
  ASSUME ProfTypes, NEW f, f \in FindProfile(device), device.force = NoName
  PROVE  IF Covering(device.sysid) = {} THEN f = NoFile
         ELSE \E p \in Bests(device.sysid) : f \in CheckMatch(profiles[p])
<1>1. device.sysid \in Seq(Nat) /\ profiles \in [Patterns -> FileSet \cup {NoFile}]
  BY ProfilesAssumption DEF ProfilesAssumption, ProfTypes
<1>2. f \in IF Listed(device.sysid) = NoFile THEN {NoFile} ELSE CheckMatch(Listed(device.sysid))
  BY DEF FindProfile
<1> DEFINE s == device.sysid
<1>3. IF Covering(s) = {} THEN Listed(s) = NoFile
      ELSE Listed(s) # NoFile /\ \E p \in Bests(s) : profiles[p] = Listed(s)
  BY <1>1, ListedLaw
<1> HIDE DEF s
<1>4. CASE Covering(s) = {}
  BY <1>2, <1>3, <1>4 DEF s
<1>5. CASE Covering(s) # {}
  <2>1. PICK p \in Bests(s) : profiles[p] = Listed(s)
    BY <1>3, <1>5
  <2>2. f \in CheckMatch(Listed(s))
    BY <1>2, <1>3, <1>5 DEF s
  <2>3. f \in CheckMatch(profiles[p])
    BY <2>1, <2>2
  <2> QED BY <1>5, <2>3 DEF s
<1> QED BY <1>4, <1>5

\* What a device gets depends on the table of profiles only.
LEMMA TableKept ==
  ASSUME UNCHANGED profiles
  PROVE  (\A s : Covering(s)' = Covering(s) /\ Bests(s)' = Bests(s)) /\ \A f : CheckMatch(f)' = CheckMatch(f)
<1>1. \A n : Called(n)' = Called(n)
  BY DEF Called
<1>2. \A e : (Decides(e)' <=> Decides(e)) /\ Outcomes(e)' = Outcomes(e)
  BY <1>1 DEF Decides, Outcomes
<1>3. \A f : CheckMatch(f)' = CheckMatch(f)
  BY <1>2, Zenon DEF CheckMatch
<1>4. \A s : Covering(s)' = Covering(s)
  BY DEF Covering
<1>5. \A s : Bests(s)' = Bests(s)
  BY <1>4 DEF Bests
<1> QED BY <1>3, <1>4, <1>5

LEMMA SpecificKept == ASSUME UNCHANGED <<profiles, device, found>> PROVE Specific' <=> Specific
<1>1. (\A s : Covering(s)' = Covering(s) /\ Bests(s)' = Bests(s)) /\ \A f : CheckMatch(f)' = CheckMatch(f)
  BY TableKept
<1>2. CASE Covering(device.sysid) = {}
  BY <1>1, <1>2 DEF Specific
<1>3. CASE Covering(device.sysid) # {}
  BY <1>1, <1>3 DEF Specific
<1> QED BY <1>2, <1>3

-----------------------------------------------------------------------------
(* Profiles: what a device polls.                                          *)

OneSym == UNION {{SymbolsOf[f][i] : i \in DOMAIN SymbolsOf[f]} : f \in FileSet}
SymSet == [sym : OneSym, ext : BOOLEAN]
SymbolsOfTable(t) ==
  IF t.of \in Polled THEN [j \in DOMAIN Reached(t.of) |-> [sym |-> Reached(t.of)[j], ext |-> t.ext]] ELSE <<>>
SymbolsDef(all, f) ==
  all = [i \in 0 .. Len(metrics[f]) |-> IF i = 0 THEN <<>> ELSE all[i - 1] \o SymbolsOfTable(metrics[f][i])]

LEMMA SymbolsIs == ASSUME NEW f PROVE SymbolsIn(f) = (CHOOSE all : SymbolsDef(all, f))[Len(metrics[f])]
BY Zenon DEF SymbolsIn, SymbolsDef, SymbolsOfTable

LEMMA TableSymbols == ASSUME NEW t \in TableSet PROVE SymbolsOfTable(t) \in Seq(SymSet)
<1>1. t.of \in FileSet /\ t.ext \in BOOLEAN
  BY DEF TableSet
<1> DEFINE s == SymbolsOf[t.of]
           l == Reached(t.of)
           r == [j \in DOMAIN l |-> [sym |-> l[j], ext |-> t.ext]]
<1>a. s \in Seq({s[i] : i \in DOMAIN s}) /\ \A i \in DOMAIN s : s[i] \in OneSym
  BY <1>1, ProfilesAssumption DEF ProfilesAssumption, OneSym
<1>b. l = s \/ (s # <<>> /\ l = <<s[1]>>)
  BY Zenon DEF Reached
<1> HIDE DEF s
<1>c. s \in Seq(OneSym) /\ (s # <<>> => s[1] \in OneSym)
  BY <1>a
<1>2. l \in Seq(OneSym) /\ \A i \in DOMAIN l : l[i] \in OneSym
  <2>1. ASSUME NEW x \in OneSym PROVE <<x>> \in Seq(OneSym)
    OBVIOUS
  <2>2. ASSUME NEW q \in Seq(OneSym) PROVE \A i \in DOMAIN q : q[i] \in OneSym
    OBVIOUS
  <2>3. l \in Seq(OneSym)
    BY <1>b, <1>c, <2>1, Zenon
  <2> HIDE DEF l
  <2> QED BY <2>2, <2>3
<1> HIDE DEF l
<1>3. Len(l) \in Nat /\ DOMAIN l = 1 .. Len(l)
  BY <1>2
<1>4. r \in [1 .. Len(l) -> SymSet]
  BY <1>1, <1>2, <1>3 DEF SymSet
<1> HIDE DEF r
<1>5. r \in Seq(SymSet)
  BY <1>3, <1>4
<1>6. <<>> \in Seq(SymSet)
  OBVIOUS
<1> QED BY <1>5, <1>6 DEF SymbolsOfTable, r, l

LEMMA SymbolsLaw ==
  ASSUME metrics \in [FileSet -> Seq(TableSet)], NEW f \in FileSet
  PROVE  SymbolsIn(f) \in Seq(SymSet)
<1> DEFINE n == Len(metrics[f])
           X == Seq(SymSet)
           step == [i \in 1 .. n |-> [x \in X |-> x \o SymbolsOfTable(metrics[f][i])]]
<1>1. n \in Nat /\ <<>> \in X /\ \A i \in 1 .. n : SymbolsOfTable(metrics[f][i]) \in X
  BY TableSymbols
<1>2. Steps(step, n, X, <<>>)
  BY <1>1 DEF Steps
<1>3. PICK h : Follows(h, step, n, X, <<>>)
  <2> HIDE DEF n, X, step
  <2> QED BY <1>2, Recursion, Zenon
<1>4. h \in [0 .. n -> X] /\ h[0] = <<>> /\ \A i \in 1 .. n : h[i] = step[i][h[i - 1]]
  BY <1>3 DEF Follows
<1>5. ASSUME NEW i \in 1 .. n PROVE h[i] = h[i - 1] \o SymbolsOfTable(metrics[f][i])
  <2>1. i - 1 \in 0 .. n
    BY <1>1
  <2>2. h[i - 1] \in X
    BY <1>4, <2>1
  <2> QED BY <1>4, <2>2
<1>6. SymbolsDef(h, f)
  <2>1. ASSUME NEW i \in 0 .. n PROVE h[i] = IF i = 0 THEN <<>> ELSE h[i - 1] \o SymbolsOfTable(metrics[f][i])
    <3>1. CASE i = 0
      BY <1>4, <3>1
    <3>2. CASE i # 0
      <4>1. i \in 1 .. n
        BY <1>1, <3>2
      <4> QED BY <1>5, <3>2, <4>1
    <3> QED BY <3>1, <3>2
  <2>2. h = [i \in 0 .. n |-> h[i]]
    BY <1>4
  <2> HIDE DEF n
  <2>3. h = [i \in 0 .. n |-> IF i = 0 THEN <<>> ELSE h[i - 1] \o SymbolsOfTable(metrics[f][i])]
    BY <2>1, <2>2, Zenon
  <2> QED BY <2>3 DEF SymbolsDef, n
<1> DEFINE w == CHOOSE all : SymbolsDef(all, f)
<1>7. SymbolsDef(w, f)
  BY <1>6, Zenon
<1>8. w[0] = <<>> /\ \A i \in 1 .. n : w[i] = w[i - 1] \o SymbolsOfTable(metrics[f][i])
  <2>1. w = [i \in 0 .. n |-> IF i = 0 THEN <<>> ELSE w[i - 1] \o SymbolsOfTable(metrics[f][i])]
    BY <1>7 DEF SymbolsDef
  <2> HIDE DEF w, n
  <2>2. \A i \in 0 .. n : w[i] = IF i = 0 THEN <<>> ELSE w[i - 1] \o SymbolsOfTable(metrics[f][i])
    BY <2>1, Zenon
  <2>3. 0 \in 0 .. n /\ \A i \in 1 .. n : i \in 0 .. n /\ i # 0
    BY <1>1
  <2> QED BY <2>2, <2>3, Zenon
<1>9. SymbolsIn(f) = w[n]
  BY SymbolsIs
<1> DEFINE S == {i \in 0 .. n : w[i] \in Seq(SymSet)}
<1> HIDE DEF w, n, step
<1>10. 0 \in S
  <2>1. 0 \in 0 .. n /\ w[0] \in Seq(SymSet)
    BY <1>1, <1>8
  <2> QED BY <2>1
<1>11. ASSUME NEW i \in 0 .. n - 1, i \in S PROVE i + 1 \in S
  <2>1. i + 1 \in 1 .. n /\ i + 1 \in 0 .. n /\ (i + 1) - 1 = i
    BY <1>1
  <2>2. w[i + 1] = w[i] \o SymbolsOfTable(metrics[f][i + 1])
    BY <1>8, <2>1
  <2>3. w[i] \in Seq(SymSet) /\ SymbolsOfTable(metrics[f][i + 1]) \in Seq(SymSet)
    BY <1>1, <1>11, <2>1
  <2>4. w[i + 1] \in Seq(SymSet)
    BY <2>2, <2>3, ConcatProperties
  <2> QED BY <2>1, <2>4
<1> HIDE DEF S
<1>12. \A i \in 0 .. n : i \in S
  BY <1>1, <1>10, <1>11, InductTo
<1>13. n \in S
  BY <1>1, <1>12
<1> QED BY <1>9, <1>13 DEF S

\* The tables of object ids are typed.
Typed(m) == \A k \in DOMAIN m : m[k].ext \in BOOLEAN /\ OidLen[k[2]] \in Nat

\* The last of the symbols with a key.
NamedSyms(ss) == {i \in DOMAIN ss : ss[i].sym.name # NoName}
LastOf(ss, k) == CHOOSE i \in NamedSyms(ss) : Key(ss[i]) = k /\ \A j \in NamedSyms(ss) : Key(ss[j]) = k => j <= i

LEMMA CollectedIs ==
  ASSUME NEW ss
  PROVE  Collected(ss) = [k \in {Key(ss[i]) : i \in NamedSyms(ss)} |->
                            [name |-> ss[LastOf(ss, k)].sym.name, dup |-> ss[LastOf(ss, k)].sym.dup,
                             ext |-> ss[LastOf(ss, k)].ext, dur |-> PollDur(ss[LastOf(ss, k)])]]
BY Zenon DEF Collected, NamedSyms, LastOf

LEMMA CollectedLaw == ASSUME NEW ss \in Seq(SymSet) PROVE Typed(Collected(ss))
<1>1. Len(ss) \in Nat /\ DOMAIN ss = 1 .. Len(ss) /\ \A i \in DOMAIN ss : ss[i] \in SymSet
  OBVIOUS
<1>2. \A i \in NamedSyms(ss) : i \in DOMAIN ss /\ i \in Nat /\ i <= Len(ss) /\ ss[i].sym \in OneSym /\ ss[i].ext \in BOOLEAN
  BY <1>1 DEF NamedSyms, SymSet
<1> SUFFICES ASSUME NEW k \in DOMAIN Collected(ss)
             PROVE  Collected(ss)[k].ext \in BOOLEAN /\ OidLen[k[2]] \in Nat
  BY DEF Typed
<1>3. k \in {Key(ss[i]) : i \in NamedSyms(ss)} /\ Collected(ss)[k].ext = ss[LastOf(ss, k)].ext
  BY CollectedIs
<1>4. LastOf(ss, k) \in NamedSyms(ss)
  <2> DEFINE T == {i \in NamedSyms(ss) : Key(ss[i]) = k}
  <2>1. T \subseteq 1 .. Len(ss) /\ T # {}
    BY <1>1, <1>2, <1>3
  <2>2. PICK g \in T : \A j \in T : j <= g
    <3> HIDE DEF T
    <3> QED BY <1>1, <2>1, Greatest
  <2>3. g \in NamedSyms(ss) /\ Key(ss[g]) = k /\ \A j \in NamedSyms(ss) : Key(ss[j]) = k => j <= g
    BY <2>2
  <2> QED BY <2>3, Zenon DEF LastOf
<1>5. PICK i \in NamedSyms(ss) : k = Key(ss[i])
  BY <1>3
<1>6. k[2] = ss[i].sym.oid
  BY <1>5 DEF Key
<1>7. ASSUME NEW x \in OneSym PROVE OidLen[x.oid] \in Nat
  <2>1. PICK f \in FileSet : x \in {SymbolsOf[f][j] : j \in DOMAIN SymbolsOf[f]}
    BY DEF OneSym
  <2>2. PICK j \in DOMAIN SymbolsOf[f] : x = SymbolsOf[f][j]
    BY <2>1
  <2>3. OidLen[SymbolsOf[f][j].oid] \in Nat
    BY <2>2, ProfilesAssumption, Zenon DEF ProfilesAssumption
  <2> QED BY <2>2, <2>3
<1> QED BY <1>2, <1>3, <1>4, <1>6, <1>7

\* An object id is no better than another of its name.
Best(o, k) ==
  (mibs[o].ext => mibs[k].ext) /\ (mibs[o].ext = mibs[k].ext => OidLen[k[2]] <= OidLen[o[2]])

\* Each object id that prune has reached has one like it in its place.
Seen ==
  /\ \A n \in DOMAIN seenNames : seenNames[n] \in DOMAIN mibs /\ NameKey(seenNames[n]) = n
  /\ \A k \in DOMAIN mibs \ unpruned : NameKey(k) \in DOMAIN seenNames /\ Best(seenNames[NameKey(k)], k)

UseIInv ==
  /\ MostSpecific /\ PrunedBest /\ Typed(mibs) /\ Seen
  /\ loading # "done" => kept = NoKeys
  /\ loading \notin {"prune", "done"} => mibs = NoKeys /\ seenNames = NoKeys /\ unpruned = {}

LEMMA NothingSeen == ASSUME mibs = NoKeys, seenNames = NoKeys PROVE Typed(mibs) /\ Seen
BY DEF NoKeys, Typed, Seen

LEMMA UseStart == ProfilesInit => UseIInv
<1> SUFFICES ASSUME ProfilesInit PROVE UseIInv
  OBVIOUS
<1>1. loading = "read" /\ mibs = NoKeys /\ seenNames = NoKeys /\ unpruned = {} /\ kept = NoKeys
  BY DEF ProfilesInit
<1>2. MostSpecific /\ PrunedBest
  BY <1>1, SpecificIs DEF InUse, PrunedBest
<1> QED BY <1>1, <1>2, NothingSeen DEF UseIInv

LEMMA BestIsOrder ==
  ASSUME Typed(mibs)
  PROVE  /\ \A k \in DOMAIN mibs : Best(k, k)
         /\ \A k, o, l \in DOMAIN mibs : Best(l, o) /\ Best(o, k) => Best(l, k)
         /\ \A k, o \in DOMAIN mibs : IF Replaces(k, o) THEN Best(k, o) ELSE Best(o, k)
BY DEF Typed, Best, Replaces

LEMMA PruneKept == ASSUME UseIInv, LoadIInv, NEW k \in DOMAIN mibs, PruneOne(k) PROVE UseIInv'
<1> DEFINE n == NameKey(k)
<1>1. /\ loading = "prune" /\ k \in unpruned /\ unpruned' = unpruned \ {k}
      /\ seenNames' = [m \in DOMAIN seenNames \cup {n} |->
                         IF m # n THEN seenNames[m]
                         ELSE IF n \in DOMAIN seenNames /\ ~Replaces(k, seenNames[n]) THEN seenNames[n] ELSE k]
      /\ UNCHANGED <<loading, profiles, device, found, mibs, minTime, kept>>
  BY DEF PruneOne, loaderVars
<1>2. \A x : NameKey(x)' = NameKey(x)
  BY <1>1 DEF NameKey
<1>3. \A x, y : Best(x, y)' <=> Best(x, y)
  BY <1>1 DEF Best
<1>4. Typed(mibs) /\ Seen
  BY DEF UseIInv
<1> DEFINE x == seenNames'[n]
<1>5. /\ DOMAIN seenNames' = DOMAIN seenNames \cup {n} /\ \A m \in DOMAIN seenNames \ {n} : seenNames'[m] = seenNames[m]
      /\ x = IF n \in DOMAIN seenNames /\ ~Replaces(k, seenNames[n]) THEN seenNames[n] ELSE k
  BY <1>1
<1> HIDE DEF x, n
<1>6. /\ x \in DOMAIN mibs /\ NameKey(x) = n /\ Best(x, k)
      /\ n \in DOMAIN seenNames => Best(x, seenNames[n])
  <2>1. n \in DOMAIN seenNames => seenNames[n] \in DOMAIN mibs /\ NameKey(seenNames[n]) = n
    BY <1>4 DEF Seen
  <2>2. CASE n \in DOMAIN seenNames /\ ~Replaces(k, seenNames[n])
    BY <1>4, <1>5, <2>1, <2>2, BestIsOrder
  <2>3. CASE n \notin DOMAIN seenNames
    BY <1>4, <1>5, <2>3, BestIsOrder DEF n
  <2>4. CASE n \in DOMAIN seenNames /\ Replaces(k, seenNames[n])
    BY <1>4, <1>5, <2>1, <2>4, BestIsOrder DEF n
  <2> QED BY <2>2, <2>3, <2>4
<1>7. ASSUME NEW m \in DOMAIN seenNames' PROVE seenNames'[m] \in DOMAIN mibs' /\ NameKey(seenNames[m])' = m
  <2>1. CASE m = n
    BY <1>1, <1>2, <1>6, <2>1 DEF x
  <2>2. CASE m # n
    BY <1>1, <1>2, <1>4, <1>5, <2>2 DEF Seen
  <2> QED BY <2>1, <2>2
<1>8. ASSUME NEW y \in DOMAIN mibs' \ unpruned' PROVE NameKey(y)' \in DOMAIN seenNames' /\ Best(seenNames[NameKey(y)], y)'
  <2>1. y \in DOMAIN mibs /\ (y = k \/ y \notin unpruned) /\ NameKey(y)' = NameKey(y)
    BY <1>1, <1>2
  <2>2. CASE y = k
    <3>1. NameKey(y) = n
      BY <2>2 DEF n
    <3>2. Best(x, y)
      BY <1>6, <2>2
    <3> QED BY <1>3, <1>5, <2>1, <3>1, <3>2 DEF x
  <2>3. CASE y \notin unpruned
    <3>1. NameKey(y) \in DOMAIN seenNames /\ Best(seenNames[NameKey(y)], y) /\ seenNames[NameKey(y)] \in DOMAIN mibs
      BY <1>4, <2>1, <2>3 DEF Seen
    <3>2. CASE NameKey(y) = n
      <4>1. Best(x, y)
        BY <1>4, <1>6, <2>1, <3>1, <3>2, BestIsOrder
      <4> QED BY <1>3, <1>5, <2>1, <3>2, <4>1 DEF x
    <3>3. CASE NameKey(y) # n
      BY <1>3, <1>5, <2>1, <3>1, <3>3
    <3> QED BY <3>2, <3>3
  <2> QED BY <2>1, <2>2, <2>3
<1>9. Seen'
  BY <1>7, <1>8 DEF Seen
<1>10. MostSpecific'
  <2>1. Specific' <=> Specific
    BY <1>1, SpecificKept
  <2>2. (MostSpecific <=> ((InUse /\ loading # "ready" /\ device.force = NoName) => Specific))'
    BY SpecificIsNext
  <2> QED BY <1>1, <2>1, <2>2, SpecificIs DEF UseIInv, InUse
<1>11. PrunedBest' /\ Typed(mibs)'
  BY <1>1, <1>4 DEF PrunedBest, Typed
<1> QED BY <1>1, <1>9, <1>10, <1>11 DEF UseIInv

LEMMA PruneDoneKept == ASSUME UseIInv, LoadIInv, PruneDone PROVE UseIInv'
<1>1. /\ loading = "prune" /\ unpruned = {} /\ loading' = "done"
      /\ kept' = [k \in {x \in DOMAIN mibs : x \in KeepNames \/ mibs[x].dup} |->
                    IF mibs[k].dur = 0 /\ minTime # CounterTime THEN CounterTime - Adjust ELSE mibs[k].dur]
      /\ UNCHANGED <<profiles, device, found, mibs, minTime, unpruned, seenNames>>
  BY DEF PruneDone, loaderVars
<1>2. \A x : NameKey(x)' = NameKey(x)
  BY <1>1 DEF NameKey
<1>3. \A x, y : Best(x, y)' <=> Best(x, y)
  BY <1>1 DEF Best
<1>4. Typed(mibs) /\ Seen
  BY DEF UseIInv
<1>5. DOMAIN kept' = {x \in DOMAIN mibs : x \in KeepNames \/ mibs[x].dup}
  BY <1>1
<1>6. ASSUME NEW k \in DOMAIN mibs PROVE \E o \in DOMAIN kept' : NameKey(o) = NameKey(k) /\ Best(o, k)
  <2> DEFINE o == seenNames[NameKey(k)]
  <2>1. NameKey(k) \in DOMAIN seenNames /\ Best(o, k) /\ o \in DOMAIN mibs /\ NameKey(o) = NameKey(k)
    BY <1>1, <1>4 DEF Seen
  <2>2. o \in KeepNames
    BY <2>1 DEF KeepNames
  <2> HIDE DEF o
  <2> QED BY <1>5, <2>1, <2>2
<1>7. ASSUME NEW k \in DOMAIN kept', NEW o \in DOMAIN kept', NameKey(k) = NameKey(o), k # o PROVE mibs[k].dup \/ mibs[o].dup
  <2> SUFFICES ASSUME k \in KeepNames, o \in KeepNames PROVE FALSE
    BY <1>5, Zenon
  <2>1. PICK m \in DOMAIN seenNames : k = seenNames[m]
    BY DEF KeepNames
  <2>2. PICK l \in DOMAIN seenNames : o = seenNames[l]
    BY DEF KeepNames
  <2>3. NameKey(k) = m /\ NameKey(o) = l
    BY <1>4, <2>1, <2>2 DEF Seen
  <2> QED BY <1>7, <2>1, <2>2, <2>3
<1>8. ASSUME minTime # CounterTime, NEW k \in DOMAIN kept' PROVE kept'[k] # 0
  <2>1. CounterTime - Adjust # 0
    BY ProfilesAssumption DEF ProfilesAssumption
  <2>2. kept'[k] = IF mibs[k].dur = 0 /\ minTime # CounterTime THEN CounterTime - Adjust ELSE mibs[k].dur
    BY <1>1, <1>5, Zenon
  <2> QED BY <1>8, <2>1, <2>2
<1>9. PrunedBest'
  <2>1. \A k \in DOMAIN mibs' : \E o \in DOMAIN kept' :
          /\ NameKey(o)' = NameKey(k)' /\ (mibs'[o].ext => mibs'[k].ext)
          /\ mibs'[o].ext = mibs'[k].ext => OidLen[k[2]] <= OidLen[o[2]]
    BY <1>1, <1>2, <1>6 DEF Best
  <2>2. \A k, o \in DOMAIN kept' : NameKey(k)' = NameKey(o)' /\ k # o => mibs'[k].dup \/ mibs'[o].dup
    BY <1>1, <1>2, <1>7
  <2>3. minTime' # CounterTime => \A k \in DOMAIN kept' : kept'[k] # 0
    BY <1>1, <1>8
  <2> QED BY <2>1, <2>2, <2>3 DEF PrunedBest
<1>10. MostSpecific'
  <2>1. Specific' <=> Specific
    BY <1>1, SpecificKept
  <2>2. (MostSpecific <=> ((InUse /\ loading # "ready" /\ device.force = NoName) => Specific))'
    BY SpecificIsNext
  <2> QED BY <1>1, <2>1, <2>2, SpecificIs DEF UseIInv, InUse
<1>11. Typed(mibs)' /\ Seen'
  BY <1>1, <1>2, <1>3, <1>4 DEF Typed, Seen
<1> QED BY <1>1, <1>9, <1>10, <1>11 DEF UseIInv

LEMMA GetKept == ASSUME UseIInv, LoadIInv, NEW f \in FileSet \cup {NoFile}, FindAndGet(f) PROVE UseIInv'
<1>1. /\ loading = "ready" /\ f \in FindProfile(device) /\ found' = f /\ UNCHANGED <<profiles, metrics, device, seenNames, kept>>
      /\ IF f = NoFile THEN loading' = "done" /\ UNCHANGED <<mibs, minTime, unpruned>>
         ELSE /\ loading' = "prune" /\ mibs' = Collected(SymbolsIn(f)) /\ minTime' = MinCounterTime(SymbolsIn(f))
              /\ unpruned' = DOMAIN mibs'
  BY DEF FindAndGet, loaderVars
<1>2. mibs = NoKeys /\ seenNames = NoKeys /\ unpruned = {} /\ kept = NoKeys
  BY <1>1 DEF UseIInv
<1>3. MostSpecific'
  <2>1. (MostSpecific <=> ((InUse /\ loading # "ready" /\ device.force = NoName) => Specific))'
    BY SpecificIsNext
  <2>2. ASSUME device.force = NoName PROVE Specific'
    <3>1. IF Covering(device.sysid) = {} THEN f = NoFile
          ELSE \E p \in Bests(device.sysid) : f \in CheckMatch(profiles[p])
      BY <1>1, <2>2, FoundLaw DEF LoadIInv
    <3>2. (\A s : Covering(s)' = Covering(s) /\ Bests(s)' = Bests(s)) /\ \A g : CheckMatch(g)' = CheckMatch(g)
      BY <1>1, TableKept
    <3>3. CASE Covering(device.sysid) = {}
      BY <1>1, <3>1, <3>2, <3>3 DEF Specific
    <3>4. CASE Covering(device.sysid) # {}
      BY <1>1, <3>1, <3>2, <3>4 DEF Specific
    <3> QED BY <3>3, <3>4
  <2> QED BY <1>1, <2>1, <2>2
<1>4. CASE f = NoFile
  <2>1. loading' = "done" /\ UNCHANGED <<mibs, minTime, unpruned>>
    BY <1>1, <1>4
  <2>2. Typed(mibs)' /\ Seen'
    BY <1>1, <1>2, <2>1 DEF Typed, Seen, NoKeys
  <2>3. PrunedBest'
    BY <1>1, <1>2, <2>1 DEF PrunedBest, NoKeys
  <2> QED BY <1>3, <2>1, <2>2, <2>3 DEF UseIInv
<1>5. CASE f # NoFile
  <2>1. loading' = "prune" /\ mibs' = Collected(SymbolsIn(f)) /\ unpruned' = DOMAIN mibs'
    BY <1>1, <1>5
  <2>2. Typed(mibs)'
    <3>1. Typed(Collected(SymbolsIn(f)))
      BY <1>5, SymbolsLaw, CollectedLaw DEF LoadIInv, ProfTypes
    <3> QED BY <2>1, <3>1 DEF Typed
  <2>3. Seen'
    BY <1>1, <1>2, <2>1 DEF Seen, NoKeys
  <2>4. PrunedBest'
    BY <2>1 DEF PrunedBest
  <2> QED BY <1>1, <1>2, <1>3, <2>1, <2>2, <2>3, <2>4 DEF UseIInv
<1> QED BY <1>4, <1>5

LEMMA UseKept == UseIInv /\ LoadIInv /\ [ProfilesNext]_profileVars => UseIInv'
<1> SUFFICES ASSUME UseIInv, LoadIInv, [ProfilesNext]_profileVars PROVE UseIInv'
  OBVIOUS
<1>1. ASSUME UNCHANGED <<device, found, mibs, minTime, unpruned, seenNames, kept>>,
             loading \notin {"ready", "prune", "done"}, loading' \in {"read", "failed", "extend", "validate", "ready"}
      PROVE  UseIInv'
  <2>1. mibs' = NoKeys /\ seenNames' = NoKeys /\ unpruned' = {} /\ kept' = NoKeys
    BY <1>1 DEF UseIInv
  <2>2. (MostSpecific <=> ((InUse /\ loading # "ready" /\ device.force = NoName) => Specific))'
    BY SpecificIsNext
  <2>3. MostSpecific' /\ PrunedBest'
    BY <1>1, <2>2 DEF InUse, PrunedBest
  <2>4. Typed(mibs)' /\ Seen'
    BY <2>1 DEF Typed, Seen, NoKeys
  <2> QED BY <1>1, <2>1, <2>3, <2>4 DEF UseIInv
<1>2. CASE \/ ReadBadFile \/ ReadYml \/ ReadXml \/ ReadAll \/ (\E p \in Patterns : RangeProfiles(p))
           \/ ExtendMissing \/ ExtendCall \/ ExtendMerge \/ ExtendReturn \/ Validate \/ Loaded
  <2>1. UNCHANGED <<device, found, mibs, minTime, unpruned, seenNames, kept>>
    BY <1>2 DEF ReadBadFile, ReadYml, ReadXml, ReadAll, RangeProfiles, ExtendMissing, ExtendCall, ExtendMerge,
                ExtendReturn, Validate, Loaded, useVars
  <2>2. loading \in {"read", "extend", "validate"}
    BY <1>2 DEF ReadBadFile, ReadYml, ReadXml, ReadAll, RangeProfiles, ExtendMissing, ExtendCall, ExtendMerge,
                ExtendReturn, Validate, Loaded, NameLeft, Calling
  <2>3. loading' = loading \/ loading' \in {"read", "failed", "extend", "validate", "ready"}
    BY <1>2 DEF ReadBadFile, ReadYml, ReadXml, ReadAll, RangeProfiles, ExtendMissing, ExtendCall, ExtendMerge,
                ExtendReturn, Validate, Loaded
  <2> QED BY <1>1, <2>1, <2>2, <2>3
<1>3. ASSUME NEW f \in FileSet \cup {NoFile}, FindAndGet(f) PROVE UseIInv'
  BY <1>3, GetKept
<1>4. ASSUME NEW k \in DOMAIN mibs, PruneOne(k) PROVE UseIInv'
  BY <1>4, PruneKept
<1>5. CASE PruneDone
  BY <1>5, PruneDoneKept
<1>6. CASE UNCHANGED profileVars
  <2>1. UNCHANGED <<loading, profiles, device, found, mibs, minTime, unpruned, seenNames, kept>>
    BY <1>6 DEF profileVars, loaderVars, useVars
  <2>2. (MostSpecific <=> ((InUse /\ loading # "ready" /\ device.force = NoName) => Specific))'
    BY SpecificIsNext
  <2>3. MostSpecific'
    BY <2>1, <2>2, SpecificIs, SpecificKept DEF UseIInv, InUse
  <2>4. Typed(mibs)' /\ Seen' /\ PrunedBest'
    BY <2>1 DEF UseIInv, Typed, Seen, PrunedBest, Best, NameKey
  <2> QED BY <2>1, <2>3, <2>4 DEF UseIInv
<1> QED BY <1>2, <1>3, <1>4, <1>5, <1>6 DEF ProfilesNext

\* The invariant of the profiles.
ProfilesIInv == LoadIInv /\ UseIInv

LEMMA ProfilesSafe == ProfilesIInv => ProfilesInv
BY LoadSafe DEF ProfilesIInv, UseIInv, ProfilesInv

-----------------------------------------------------------------------------
(* Traps.                                                                  *)

LEMMA ListLaw == ASSUME NEW s, IsList(s) PROVE Len(s) \in Nat /\ DOMAIN s = 1 .. Len(s)
BY DEF IsList

\* The key the walk of KeyFor ends with is in the table, or none is.
Begins(oid, i) == [path |-> SubSeq(oid, 1, i), wild |-> TRUE]
KeyForDef(f, table, oid) ==
  f = [i \in 0 .. Len(oid) |->
         IF i = 0 THEN Missing ELSE IF Begins(oid, i) \in DOMAIN table THEN Begins(oid, i) ELSE f[i - 1]]

LEMMA KeyForIs ==
  ASSUME NEW table, NEW oid
  PROVE  KeyFor(table, oid) = IF [path |-> oid, wild |-> FALSE] \in DOMAIN table THEN [path |-> oid, wild |-> FALSE]
                              ELSE (CHOOSE f : KeyForDef(f, table, oid))[Len(oid)]
BY Zenon DEF KeyFor, KeyForDef, Begins

LEMMA KeyForLaw ==
  ASSUME NEW table, NEW oid \in Seq(Nat)
  PROVE  /\ KeyFor(table, oid) \in DOMAIN table \cup {Missing}
         /\ oid = <<>> => KeyFor(table, oid) = Missing
<1> DEFINE n == Len(oid)
           X == DOMAIN table \cup {Missing}
           step == [i \in 1 .. n |-> [x \in X |-> IF Begins(oid, i) \in DOMAIN table THEN Begins(oid, i) ELSE x]]
           cell == CHOOSE f : KeyForDef(f, table, oid)
<1>1. n \in Nat /\ Missing \in X /\ step \in [1 .. n -> [X -> X]]
  OBVIOUS
<1>a. PICK f : Follows(f, step, n, X, Missing)
  <2>1. Steps(step, n, X, Missing)
    BY <1>1 DEF Steps
  <2> HIDE DEF n, X, step
  <2> QED BY <2>1, Recursion, Zenon
<1>2. f \in [0 .. n -> X] /\ f[0] = Missing /\ \A i \in 1 .. n : f[i] = step[i][f[i - 1]]
  BY <1>a DEF Follows
<1>3. \A i \in 1 .. n : i - 1 \in 0 .. n /\ f[i - 1] \in X
  BY <1>1, <1>2
<1>4. KeyForDef(f, table, oid)
  <2>1. ASSUME NEW i \in 0 .. n
        PROVE  f[i] = IF i = 0 THEN Missing ELSE IF Begins(oid, i) \in DOMAIN table THEN Begins(oid, i) ELSE f[i - 1]
    <3>1. CASE i = 0
      BY <1>2, <3>1
    <3>2. CASE i # 0
      <4>1. i \in 1 .. n
        BY <1>1, <3>2
      <4>2. f[i] = step[i][f[i - 1]]
        BY <1>2, <4>1
      <4> QED BY <1>3, <3>2, <4>1, <4>2
    <3> QED BY <3>1, <3>2
  <2>2. f = [i \in 0 .. n |-> f[i]]
    BY <1>2
  <2> HIDE DEF step, X
  <2> QED BY <2>1, <2>2, Zenon DEF KeyForDef
<1>5. KeyForDef(cell, table, oid)
  BY <1>4, Zenon
<1> HIDE DEF cell
<1>6. cell[0] = Missing /\ \A i \in 1 .. n : cell[i] = IF Begins(oid, i) \in DOMAIN table THEN Begins(oid, i) ELSE cell[i - 1]
  BY <1>1, <1>5 DEF KeyForDef
<1>7. cell[n] \in X
  <2> DEFINE S == {i \in 0 .. n : cell[i] \in X}
  <2>1. 0 \in S
    BY <1>1, <1>6
  <2>2. ASSUME NEW i \in 0 .. n - 1, i \in S PROVE i + 1 \in S
    <3>1. i + 1 \in 1 .. n /\ (i + 1) - 1 = i
      BY <1>1
    <3> QED BY <1>6, <2>2, <3>1
  <2> HIDE DEF S
  <2>3. \A i \in 0 .. n : i \in S
    BY <1>1, <2>1, <2>2, InductTo
  <2> QED BY <1>1, <2>3 DEF S
<1>8. KeyFor(table, oid) = IF [path |-> oid, wild |-> FALSE] \in DOMAIN table THEN [path |-> oid, wild |-> FALSE] ELSE cell[n]
  BY KeyForIs, Zenon DEF cell
<1> QED BY <1>6, <1>7, <1>8 DEF Missing

\* ParsePart, by the kind of component.
Parsings(B) == [oid : Seq(Nat), next : Int, vars : SUBSET B, end : BOOLEAN]
Binding(v, pos, len) == [v |-> v, pos |-> pos, len |-> len]
Rebound(x, p, len) == {y \in x.vars : y.v # p.v} \cup {Binding(p.v, x.next + 1, len)}

LEMMA PartEnded == ASSUME NEW x, NEW p, x.end = TRUE PROVE ParsePart(x, p) = x
BY DEF ParsePart

LEMMA PartNumber ==
  ASSUME NEW B, NEW x \in Parsings(B), x.end = FALSE, NEW p, p.v = NoVar, p.n \in Nat
  PROVE  LET y == ParsePart(x, p) IN y \in Parsings(B) /\ y.next = x.next + 1 /\ y.vars = x.vars /\ y.end = FALSE
<1>1. ParsePart(x, p) = [x EXCEPT !.oid = Append(@, p.n), !.next = @ + 1]
  BY DEF ParsePart
<1>2. Append(x.oid, p.n) \in Seq(Nat) /\ x.next + 1 \in Int
  BY DEF Parsings
<1>3. ParsePart(x, p) = [oid |-> Append(x.oid, p.n), next |-> x.next + 1, vars |-> x.vars, end |-> x.end]
  BY <1>1 DEF Parsings
<1> QED BY <1>2, <1>3 DEF Parsings

LEMMA PartRest ==
  ASSUME NEW B, NEW x \in Parsings(B), x.end = FALSE, NEW p, p.v # NoVar, p.len = Rest,
         Binding(p.v, x.next + 1, 0) \in B
  PROVE  LET y == ParsePart(x, p) IN y \in Parsings(B) /\ y.vars = Rebound(x, p, 0) /\ y.end = TRUE
<1>1. ParsePart(x, p) = [x EXCEPT !.vars = Rebound(x, p, 0), !.end = TRUE]
  BY DEF ParsePart, Bind, Rebound, Binding
<1>2. Rebound(x, p, 0) \in SUBSET B
  BY DEF Rebound, Parsings
<1> QED BY <1>1, <1>2 DEF Parsings

LEMMA PartVariable ==
  ASSUME NEW B, NEW x \in Parsings(B), x.end = FALSE, NEW p, p.v # NoVar, p.len # Rest, p.len \in Int,
         Binding(p.v, x.next + 1, p.len) \in B
  PROVE  LET y == ParsePart(x, p)
         IN  y \in Parsings(B) /\ y.next = x.next + p.len /\ y.vars = Rebound(x, p, p.len) /\ y.end = FALSE
<1>1. ParsePart(x, p) = [x EXCEPT !.vars = Rebound(x, p, p.len), !.next = @ + p.len]
  BY DEF ParsePart, Bind, Rebound, Binding
<1>2. Rebound(x, p, p.len) \in SUBSET B /\ x.next + p.len \in Int
  BY DEF Rebound, Parsings
<1>3. ParsePart(x, p) = [oid |-> x.oid, next |-> x.next + p.len, vars |-> Rebound(x, p, p.len), end |-> x.end]
  BY <1>1 DEF Parsings
<1> QED BY <1>2, <1>3 DEF Parsings

ParseDef(f, parts) ==
  f = [i \in 0 .. Len(parts) |-> IF i = 0 THEN [oid |-> <<>>, next |-> 0, vars |-> {}, end |-> FALSE]
                                 ELSE ParsePart(f[i - 1], parts[i])]
WidthOf(p) == IF p.v = NoVar THEN 1 ELSE IF p.len = Rest THEN 0 ELSE p.len
WidthsDef(f, parts) == f = [i \in 0 .. Len(parts) |-> IF i = 0 THEN 0 ELSE f[i - 1] + WidthOf(parts[i])]

LEMMA ParseIs == ASSUME NEW parts PROVE ParseOid(parts) = (CHOOSE f : ParseDef(f, parts))[Len(parts)]
BY Zenon DEF ParseOid, ParseDef
LEMMA WidthsAre == ASSUME NEW parts PROVE Widths(parts) = CHOOSE f : WidthsDef(f, parts)
BY Zenon DEF Widths, WidthsDef, WidthOf

\* What is asked of the parts of an event.
PartsOK(parts) == IsList(parts) /\ \A i \in DOMAIN parts : parts[i].n \in Nat /\ parts[i].len \in Int \cup {Rest}

LEMMA WidthsLaw ==
  ASSUME NEW parts, PartsOK(parts)
  PROVE  /\ Widths(parts)[0] = 0 /\ \A i \in 0 .. Len(parts) : Widths(parts)[i] \in Int
         /\ \A i \in 1 .. Len(parts) : Widths(parts)[i] = Widths(parts)[i - 1] + WidthOf(parts[i])
<1> DEFINE n == Len(parts)
           step == [i \in 1 .. n |-> [x \in Int |-> x + WidthOf(parts[i])]]
           cell == CHOOSE f : WidthsDef(f, parts)
<1>1. n \in Nat /\ \A i \in 1 .. n : WidthOf(parts[i]) \in Int
  BY ListLaw DEF PartsOK, WidthOf
<1>2. step \in [1 .. n -> [Int -> Int]]
  BY <1>1
<1>a. PICK f : Follows(f, step, n, Int, 0)
  <2>1. Steps(step, n, Int, 0)
    BY <1>1, <1>2 DEF Steps
  <2> HIDE DEF n, step
  <2> QED BY <2>1, Recursion, Zenon
<1>3. f \in [0 .. n -> Int] /\ f[0] = 0 /\ \A i \in 1 .. n : f[i] = step[i][f[i - 1]]
  BY <1>a DEF Follows
<1>4. \A i \in 1 .. n : i - 1 \in 0 .. n /\ f[i - 1] \in Int
  BY <1>1, <1>3
<1>5. WidthsDef(f, parts)
  <2>1. ASSUME NEW i \in 0 .. n PROVE f[i] = IF i = 0 THEN 0 ELSE f[i - 1] + WidthOf(parts[i])
    <3>1. CASE i = 0
      BY <1>3, <3>1
    <3>2. CASE i # 0
      <4>1. i \in 1 .. n
        BY <1>1, <3>2
      <4>2. f[i] = step[i][f[i - 1]]
        BY <1>3, <4>1
      <4> QED BY <1>4, <3>2, <4>1, <4>2
    <3> QED BY <3>1, <3>2
  <2>2. f = [i \in 0 .. n |-> f[i]]
    BY <1>3
  <2> HIDE DEF step
  <2> QED BY <2>1, <2>2, Zenon DEF WidthsDef
<1>6. WidthsDef(cell, parts)
  BY <1>5, Zenon
<1>7. Widths(parts) = cell
  BY WidthsAre
<1> HIDE DEF cell
<1>8. cell[0] = 0 /\ \A i \in 1 .. n : cell[i] = cell[i - 1] + WidthOf(parts[i])
  BY <1>1, <1>6 DEF WidthsDef
<1> DEFINE S == {i \in 0 .. n : cell[i] \in Int}
<1>9. 0 \in S
  BY <1>1, <1>8
<1>10. ASSUME NEW i \in 0 .. n - 1, i \in S PROVE i + 1 \in S
  <2>1. i + 1 \in 1 .. n /\ (i + 1) - 1 = i
    BY <1>1
  <2> QED BY <1>1, <1>8, <1>10, <2>1
<1> HIDE DEF S
<1>11. \A i \in 0 .. n : i \in S
  BY <1>1, <1>9, <1>10, InductTo
<1> QED BY <1>7, <1>8, <1>11 DEF S

\* The variables among the first i parts, up to one of the rest, and where they begin.
TakesRest(p) == p.v # NoVar /\ p.len = Rest
Ended(parts, i) == \E r \in 1 .. i : TakesRest(parts[r])
Taken(parts, i) == {j \in 1 .. i : parts[j].v # NoVar /\ ~Ended(parts, j - 1)}
BindingOf(parts, j) ==
  Binding(parts[j].v, Widths(parts)[j - 1] + 1, IF parts[j].len = Rest THEN 0 ELSE parts[j].len)
Vars(parts, i) == {BindingOf(parts, j) : j \in Taken(parts, i)}

LEMMA ParseRuns ==
  ASSUME NEW parts, PartsOK(parts)
  PROVE  LET B == [v : {parts[i].v : i \in DOMAIN parts}, pos : Int, len : Int]
         IN  \E g : /\ g[0] = [oid |-> <<>>, next |-> 0, vars |-> {}, end |-> FALSE] /\ ParseOid(parts) = g[Len(parts)]
                   /\ \A i \in 1 .. Len(parts) : g[i] = ParsePart(g[i - 1], parts[i])
                   /\ \A j \in 0 .. Len(parts) : g[j] \in Parsings(B)
<1> DEFINE n == Len(parts)
           V == {parts[i].v : i \in DOMAIN parts}
           B == [v : V, pos : Int, len : Int]
           X == Parsings(B)
           z == [oid |-> <<>>, next |-> 0, vars |-> {}, end |-> FALSE]
           step == [i \in 1 .. n |-> [x \in X |-> ParsePart(x, parts[i])]]
           cell == CHOOSE f : ParseDef(f, parts)
<1>1. n \in Nat /\ DOMAIN parts = 1 .. n /\ z \in X
  BY ListLaw DEF PartsOK, Parsings
<1>2. ASSUME NEW i \in 1 .. n, NEW x \in X PROVE ParsePart(x, parts[i]) \in X
  <2> DEFINE p == parts[i]
  <2>1. p.v \in V /\ p.n \in Nat /\ p.len \in Int \cup {Rest}
    BY <1>1 DEF PartsOK
  <2>2. x.next \in Int /\ x.end \in BOOLEAN
    BY DEF Parsings
  <2> HIDE DEF p, V
  <2>3. \A k \in Int : Binding(p.v, x.next + 1, k) \in B
    BY <2>1, <2>2 DEF Binding
  <2> HIDE DEF B
  <2>4. CASE x.end = TRUE
    BY <2>4, PartEnded
  <2>5. CASE x.end = FALSE /\ p.v = NoVar
    BY <2>1, <2>5, PartNumber DEF p
  <2>6. CASE x.end = FALSE /\ p.v # NoVar /\ p.len = Rest
    <3>1. Binding(p.v, x.next + 1, 0) \in B
      BY <2>3
    <3>2. ParsePart(x, p) \in Parsings(B)
      BY <2>6, <3>1, PartRest
    <3> QED BY <3>2 DEF p
  <2>7. CASE x.end = FALSE /\ p.v # NoVar /\ p.len # Rest
    BY <2>1, <2>3, <2>7, PartVariable DEF p
  <2> QED BY <2>2, <2>4, <2>5, <2>6, <2>7
<1> HIDE DEF X
<1>3. step \in [1 .. n -> [X -> X]]
  BY <1>2
<1>a. PICK f : Follows(f, step, n, X, z)
  <2>1. Steps(step, n, X, z)
    BY <1>1, <1>3, Zenon DEF Steps
  <2> HIDE DEF n, step, z
  <2> QED BY <2>1, Recursion, Zenon
<1>4. f \in [0 .. n -> X] /\ f[0] = z /\ \A i \in 1 .. n : f[i] = step[i][f[i - 1]]
  <2> HIDE DEF step, z
  <2> QED BY <1>a DEF Follows
<1>5. \A i \in 1 .. n : i - 1 \in 0 .. n /\ f[i - 1] \in X
  BY <1>1, <1>4
<1>6. ParseDef(f, parts)
  <2>1. ASSUME NEW i \in 0 .. n PROVE f[i] = IF i = 0 THEN z ELSE ParsePart(f[i - 1], parts[i])
    <3>1. CASE i = 0
      BY <1>4, <3>1
    <3>2. CASE i # 0
      <4>1. i \in 1 .. n
        BY <1>1, <3>2
      <4>2. f[i] = step[i][f[i - 1]]
        BY <1>4, <4>1
      <4> QED BY <1>5, <3>2, <4>1, <4>2
    <3> QED BY <3>1, <3>2
  <2>2. f = [i \in 0 .. n |-> f[i]]
    BY <1>4
  <2> HIDE DEF step
  <2> QED BY <2>1, <2>2, Zenon DEF ParseDef
<1>7. ParseDef(cell, parts)
  BY <1>6, Zenon
<1>8. ParseOid(parts) = cell[n]
  BY ParseIs
<1> HIDE DEF cell
<1>9. \A i \in 0 .. n : cell[i] = IF i = 0 THEN z ELSE ParsePart(cell[i - 1], parts[i])
  <2>1. cell = [i \in 0 .. n |-> IF i = 0 THEN z ELSE ParsePart(cell[i - 1], parts[i])]
    BY <1>7, Zenon DEF ParseDef
  <2> HIDE DEF z
  <2> QED BY <2>1
<1>10. cell[0] = z /\ \A i \in 1 .. n : cell[i] = ParsePart(cell[i - 1], parts[i])
  <2> HIDE DEF z
  <2> QED BY <1>1, <1>9
<1>11. \A i \in 0 .. n : cell[i] \in X
  <2> DEFINE S == {i \in 0 .. n : cell[i] \in X}
  <2>1. 0 \in S
    BY <1>1, <1>10
  <2>2. ASSUME NEW i \in 0 .. n - 1, i \in S PROVE i + 1 \in S
    <3>1. i + 1 \in 1 .. n /\ (i + 1) - 1 = i
      BY <1>1
    <3> QED BY <1>2, <1>10, <2>2, <3>1
  <2> HIDE DEF S
  <2>3. \A i \in 0 .. n : i \in S
    BY <1>1, <2>1, <2>2, InductTo
  <2> QED BY <2>3 DEF S
<1> QED BY <1>8, <1>10, <1>11, Zenon DEF X

\* What the loop over the parts has found when it has reached the i-th: every variable
\* begins after the widths of the parts before it.
LEMMA ParseLaw ==
  ASSUME NEW parts, PartsOK(parts), Plain(parts)
  PROVE  ParseOid(parts).vars = Vars(parts, Len(parts))
<1> DEFINE n == Len(parts)
           W == Widths(parts)
           B == [v : {parts[i].v : i \in DOMAIN parts}, pos : Int, len : Int]
           Done(x, i) == /\ x.vars = Vars(parts, i) /\ (x.end = TRUE <=> Ended(parts, i))
                         /\ ~Ended(parts, i) => x.next = W[i]
<1>1. PICK g : /\ g[0] = [oid |-> <<>>, next |-> 0, vars |-> {}, end |-> FALSE] /\ ParseOid(parts) = g[n]
              /\ \A i \in 1 .. n : g[i] = ParsePart(g[i - 1], parts[i])
              /\ \A j \in 0 .. n : g[j] \in Parsings(B)
  BY ParseRuns, Zenon
<1>2. n \in Nat /\ DOMAIN parts = 1 .. n /\ W[0] = 0
  BY ListLaw, WidthsLaw DEF PartsOK
<1>3. \A i \in 1 .. n : W[i - 1] \in Int /\ W[i] = W[i - 1] + WidthOf(parts[i])
  BY <1>2, WidthsLaw
<1> HIDE DEF n, W
<1> DEFINE S == {i \in 0 .. n : Done(g[i], i)}
<1>4. 0 \in S
  <2>1. Vars(parts, 0) = {} /\ ~Ended(parts, 0)
    BY DEF Vars, Taken, Ended
  <2>2. g[0].vars = {} /\ g[0].end = FALSE /\ g[0].next = 0
    BY <1>1
  <2>3. Done(g[0], 0)
    BY <1>2, <2>1, <2>2
  <2> HIDE DEF Done
  <2> QED BY <1>2, <2>3
<1>5. ASSUME NEW i \in 0 .. n - 1, i \in S PROVE i + 1 \in S
  <2> DEFINE p == parts[i + 1]
             x == g[i]
             vs == Vars(parts, i)
             ws == Vars(parts, i + 1)
  <2>1. x.vars = vs /\ (x.end = TRUE <=> Ended(parts, i)) /\ (~Ended(parts, i) => x.next = W[i])
    BY <1>5
  <2>2. i + 1 \in 1 .. n /\ (i + 1) - 1 = i /\ i \in 0 .. n /\ i + 1 \in 0 .. n
    BY <1>2
  <2>3. g[i + 1] = ParsePart(x, p) /\ W[i] \in Int /\ W[i + 1] = W[i] + WidthOf(p) /\ x \in Parsings(B)
    BY <1>1, <1>3, <2>2
  <2>4. Ended(parts, i + 1) <=> Ended(parts, i) \/ TakesRest(p)
    BY <2>2 DEF Ended
  <2>5. Taken(parts, i + 1) = IF p.v # NoVar /\ ~Ended(parts, i) THEN Taken(parts, i) \cup {i + 1} ELSE Taken(parts, i)
    BY <2>2 DEF Taken
  <2>6. p.v # NoVar /\ ~Ended(parts, i) => ws = vs \cup {BindingOf(parts, i + 1)}
    BY <2>5 DEF Vars
  <2>7. ~(p.v # NoVar /\ ~Ended(parts, i)) => ws = vs
    BY <2>5 DEF Vars
  <2>8. p.v # NoVar => {y \in vs : y.v # p.v} = vs
    <3> SUFFICES ASSUME p.v # NoVar, NEW j \in Taken(parts, i) PROVE BindingOf(parts, j).v # p.v
      BY DEF Vars
    <3>1. j \in 1 .. i /\ j # i + 1 /\ j \in DOMAIN parts /\ i + 1 \in DOMAIN parts
      BY <1>2, <2>2 DEF Taken
    <3>2. parts[j].v # p.v
      BY <3>1 DEF Plain
    <3> QED BY <3>2 DEF BindingOf, Binding
  <2>a. p.v \in {parts[j].v : j \in DOMAIN parts} /\ p.n \in Nat /\ p.len \in Int \cup {Rest}
    BY <1>2, <2>2 DEF PartsOK
  <2>b. x.next \in Int /\ x.end \in BOOLEAN
    BY <2>3 DEF Parsings
  <2>c. \A k \in Int : Binding(p.v, x.next + 1, k) \in B
    <3> HIDE DEF p, x
    <3> QED BY <2>a, <2>b DEF Binding
  <2>d. BindingOf(parts, i + 1) = Binding(p.v, W[i] + 1, IF p.len = Rest THEN 0 ELSE p.len)
    BY <2>2 DEF BindingOf, W
  <2>h. Done(g[i + 1], i + 1) => i + 1 \in S
    BY <2>2
  <2> HIDE DEF p, S, vs, B, x
  <2>9. CASE Ended(parts, i)
    <3>1. g[i + 1] = x /\ Ended(parts, i + 1) /\ ws = vs
      BY <2>1, <2>3, <2>4, <2>7, <2>9, PartEnded
    <3> QED BY <2>1, <2>9, <2>h, <3>1
  <2>10. CASE ~Ended(parts, i) /\ p.v = NoVar
    <3>1. ~Ended(parts, i + 1) /\ ws = vs /\ x.end = FALSE
      BY <2>1, <2>4, <2>7, <2>10, <2>b DEF TakesRest
    <3>n. LET y == ParsePart(x, p) IN y.next = x.next + 1 /\ y.vars = x.vars /\ y.end = FALSE
      BY <2>3, <2>10, <2>a, <3>1, PartNumber
    <3>2. g[i + 1].next = x.next + 1 /\ g[i + 1].vars = vs /\ g[i + 1].end = FALSE
      BY <2>1, <2>3, <3>n
    <3>3. g[i + 1].next = W[i + 1]
      BY <2>1, <2>3, <2>10, <3>2 DEF WidthOf
    <3> QED BY <2>h, <3>1, <3>2, <3>3
  <2>11. CASE ~Ended(parts, i) /\ p.v # NoVar /\ p.len = Rest
    <3>1. Ended(parts, i + 1) /\ x.end = FALSE
      BY <2>1, <2>4, <2>11, <2>b DEF TakesRest
    <3>2. ws = Rebound(x, p, 0)
      BY <2>1, <2>6, <2>8, <2>11, <2>d DEF Rebound
    <3>n. Binding(p.v, x.next + 1, 0) \in B
      BY <2>c
    <3>3. g[i + 1].vars = Rebound(x, p, 0) /\ g[i + 1].end = TRUE
      <4>1. LET y == ParsePart(x, p) IN y.vars = Rebound(x, p, 0) /\ y.end = TRUE
        BY <2>3, <2>11, <3>1, <3>n, PartRest
      <4> QED BY <2>3, <4>1
    <3> QED BY <2>h, <3>1, <3>2, <3>3
  <2>12. CASE ~Ended(parts, i) /\ p.v # NoVar /\ p.len # Rest
    <3>1. ~Ended(parts, i + 1) /\ x.end = FALSE /\ p.len \in Int
      BY <2>1, <2>4, <2>12, <2>a, <2>b DEF TakesRest
    <3>2. ws = Rebound(x, p, p.len)
      BY <2>1, <2>6, <2>8, <2>12, <2>d DEF Rebound
    <3>3. g[i + 1].next = x.next + p.len /\ g[i + 1].vars = Rebound(x, p, p.len) /\ g[i + 1].end = FALSE
      <4>1. Binding(p.v, x.next + 1, p.len) \in B
        BY <2>c, <3>1
      <4>2. LET y == ParsePart(x, p) IN y.next = x.next + p.len /\ y.vars = Rebound(x, p, p.len) /\ y.end = FALSE
        BY <2>3, <2>12, <3>1, <4>1, PartVariable
      <4> QED BY <2>3, <4>2
    <3>4. g[i + 1].next = W[i + 1]
      BY <2>1, <2>3, <2>12, <3>3 DEF WidthOf
    <3> QED BY <2>h, <3>1, <3>2, <3>3, <3>4
  <2> QED BY <2>9, <2>10, <2>11, <2>12
<1> HIDE DEF S
<1>6. n \in S
  BY <1>2, <1>4, <1>5, InductTo, n \in 0 .. n
<1> QED BY <1>1, <1>6 DEF S, n

\* In a plain definition no width is negative.
LEMMA WidthsPlain ==
  ASSUME NEW parts, PartsOK(parts), Plain(parts)
  PROVE  \A i \in 0 .. Len(parts) : Widths(parts)[i] \in Nat
<1> DEFINE n == Len(parts)
           W == Widths(parts)
           S == {i \in 0 .. n : W[i] \in Nat}
<1>1. n \in Nat /\ DOMAIN parts = 1 .. n
  BY ListLaw DEF PartsOK
<1>2. W[0] = 0 /\ \A i \in 1 .. n : W[i] = W[i - 1] + WidthOf(parts[i])
  BY WidthsLaw
<1> HIDE DEF W
<1>3. 0 \in S
  BY <1>1, <1>2
<1>4. ASSUME NEW i \in 0 .. n - 1, i \in S PROVE i + 1 \in S
  <2>1. i + 1 \in 1 .. n /\ (i + 1) - 1 = i
    BY <1>1
  <2>2. WidthOf(parts[i + 1]) \in Nat
    BY <1>1, <2>1 DEF Plain, PartsOK, WidthOf
  <2> QED BY <1>2, <1>4, <2>1, <2>2
<1> HIDE DEF S
<1>5. \A i \in 0 .. n : i \in S
  BY <1>1, <1>3, <1>4, InductTo
<1> QED BY <1>5 DEF S, W

LEMMA SubSeqTail ==
  ASSUME NEW oid \in Seq(Nat), oid # <<>>, NEW a \in Nat \ {0}, NEW b \in Int, b <= Len(oid) - 1
  PROVE  SubSeq(oid, a + 1, b + 1) = SubSeq(Tail(oid), a, b)
<1>1. Tail(oid) \in Seq(Nat) /\ Len(Tail(oid)) = Len(oid) - 1 /\ \A i \in 1 .. Len(oid) - 1 : Tail(oid)[i] = oid[i + 1]
  OBVIOUS
<1> DEFINE u == SubSeq(oid, a + 1, b + 1)
           t == SubSeq(Tail(oid), a, b)
           k == b - a + 1
<1>2. /\ u \in Seq(Nat) /\ Len(u) = IF a <= b THEN k ELSE 0
      /\ \A i \in 1 .. k : u[i] = oid[(a + 1) + i - 1]
  <2>1. \A i \in a + 1 .. b + 1 : oid[i] \in Nat
    OBVIOUS
  <2>2. a + 1 \in Int /\ b + 1 \in Int /\ (b + 1) - (a + 1) + 1 = k /\ (a + 1 <= b + 1 <=> a <= b)
    OBVIOUS
  <2> QED BY <2>1, <2>2, SubSeqProperties
<1>3. /\ t \in Seq(Nat) /\ Len(t) = IF a <= b THEN k ELSE 0
      /\ \A i \in 1 .. k : t[i] = Tail(oid)[a + i - 1]
  <2>1. \A i \in a .. b : Tail(oid)[i] \in Nat
    BY <1>1
  <2> QED BY <2>1, SubSeqProperties
<1> HIDE DEF u, t
<1>4. ASSUME NEW i \in 1 .. k PROVE u[i] = t[i]
  <2>1. a + i - 1 \in 1 .. Len(oid) - 1 /\ (a + i - 1) + 1 = (a + 1) + i - 1
    OBVIOUS
  <2> QED BY <1>1, <1>2, <1>3, <2>1
<1>5. Len(u) = Len(t) /\ \A i \in 1 .. Len(u) : u[i] = t[i]
  <2>1. k \in Int /\ (a <= b => k \in Nat)
    OBVIOUS
  <2> HIDE DEF k
  <2>2. CASE a <= b
    BY <1>2, <1>3, <1>4, <2>1, <2>2
  <2>3. CASE ~(a <= b)
    BY <1>2, <1>3, <2>3
  <2> QED BY <2>2, <2>3
<1>6. u = t
  BY <1>2, <1>3, <1>5, SeqEqual
<1> QED BY <1>6 DEF u, t

\* What Values gives a variable is what stands in its place.
InPlace(mib, oid, i, first, end) ==
  LET parts == mib.event.parts
  IN  /\ oid \in Seq(Nat) /\ oid # <<>> /\ PartsOK(parts) /\ Plain(parts) /\ mib.vars = ParseOid(parts).vars
      /\ i \in Taken(parts, Len(parts)) /\ first = Widths(parts)[i - 1] + 1
      /\ end = IF parts[i].len = Rest THEN Len(oid) - 1 ELSE first + parts[i].len - 1
      /\ first <= Len(oid) /\ end <= Len(oid) - 1
HasValue(mib, oid, i, first, end) ==
  LET v == mib.event.parts[i].v
  IN  v \in DOMAIN Values(mib, oid) /\ Values(mib, oid)[v] = SubSeq(Tail(oid), first, end)

LEMMA ValuesLaw ==
  ASSUME NEW mib, NEW oid, NEW i, NEW first, NEW end, InPlace(mib, oid, i, first, end)
  PROVE  HasValue(mib, oid, i, first, end)
<1> DEFINE parts == mib.event.parts
           n == Len(parts)
           p == parts[i]
           w == Widths(parts)[i - 1]
           x == BindingOf(parts, i)
           fits == {y \in mib.vars : Len(oid) >= y.pos + y.len}
<1>0. /\ oid \in Seq(Nat) /\ oid # <<>> /\ PartsOK(parts) /\ Plain(parts) /\ mib.vars = ParseOid(parts).vars
      /\ i \in Taken(parts, n) /\ first = w + 1
      /\ end = IF p.len = Rest THEN Len(oid) - 1 ELSE first + p.len - 1
      /\ first <= Len(oid) /\ end <= Len(oid) - 1
  BY DEF InPlace
<1>1. n \in Nat /\ DOMAIN parts = 1 .. n /\ i \in 1 .. n /\ p.v # NoVar
  BY <1>0, ListLaw DEF PartsOK, Taken
<1>2. w \in Nat /\ (p.len = Rest \/ p.len \in Nat \ {0})
  <2>1. i - 1 \in 0 .. n
    BY <1>1
  <2>2. w \in Nat
    BY <1>0, <2>1, WidthsPlain
  <2>3. p.len = Rest \/ p.len > 0
    BY <1>0, <1>1 DEF Plain
  <2>4. p.len \in Int \cup {Rest}
    BY <1>0, <1>1 DEF PartsOK
  <2> HIDE DEF p, w
  <2> QED BY <2>2, <2>3, <2>4
<1>3. mib.vars = Vars(parts, n)
  BY <1>0, ParseLaw
<1>4. x = Binding(p.v, w + 1, IF p.len = Rest THEN 0 ELSE p.len)
  BY DEF BindingOf
<1>5. w + 1 <= Len(oid) /\ end <= Len(oid) - 1 /\ first = w + 1 /\ end = IF p.len = Rest THEN Len(oid) - 1 ELSE (w + 1) + p.len - 1
  BY <1>0, <1>2
<1>6. x.v = p.v /\ x.pos = w + 1 /\ x.len = IF p.len = Rest THEN 0 ELSE p.len
  BY <1>4 DEF Binding
<1>7. \A y \in mib.vars : y.v = p.v => y = x
  <2> SUFFICES ASSUME NEW j \in Taken(parts, n), BindingOf(parts, j).v = p.v PROVE BindingOf(parts, j) = x
    BY <1>3 DEF Vars
  <2>1. parts[j].v = p.v /\ j \in DOMAIN parts
    BY <1>1 DEF BindingOf, Binding, Taken
  <2>2. j = i
    BY <1>0, <1>1, <2>1 DEF Plain
  <2> QED BY <2>2
<1>8. x \in mib.vars
  BY <1>0, <1>3 DEF Vars
<1>9. TrapsAssumption
  BY TrapsAssumption
<1> HIDE DEF parts, n, p, w, x
<1>10. x \in fits
  BY <1>2, <1>5, <1>6, <1>8
<1>11. (CHOOSE y \in fits : y.v = p.v) = x
  BY <1>6, <1>7, <1>10
<1> DEFINE span(y) == SubSeq(oid, y.pos + 1, IF y.len = 0 THEN Len(oid) ELSE y.pos + y.len)
           val(v) == span(CHOOSE y \in fits : y.v = v)
<1>12. Values(mib, oid) = [v \in {y.v : y \in fits} |-> val(v)]
  BY Zenon DEF Values
<1>13. p.v \in {y.v : y \in fits}
  BY <1>6, <1>10
<1>14. val(p.v) = SubSeq(oid, x.pos + 1, IF x.len = 0 THEN Len(oid) ELSE x.pos + x.len)
  <2>1. val(p.v) = span(x)
    <3> HIDE DEF span, fits
    <3> QED BY <1>11, Zenon
  <2> QED BY <2>1, Zenon
<1>15. x.pos + 1 = (w + 1) + 1 /\ (IF x.len = 0 THEN Len(oid) ELSE x.pos + x.len) = end + 1 /\ end \in Int
  <2>1. Rest \notin Int
    BY <1>9 DEF TrapsAssumption
  <2>2. CASE p.len = Rest
    BY <1>2, <1>5, <1>6, <2>2
  <2>3. CASE p.len # Rest /\ p.len \in Nat \ {0}
    <3>1. x.len = p.len /\ x.len # 0 /\ x.pos = w + 1 /\ end = (w + 1) + p.len - 1
      BY <1>5, <1>6, <2>3
    <3> HIDE DEF p, w, x
    <3>2. Len(oid) \in Nat
      BY <1>0
    <3> QED BY ONLY <1>2, <2>3, <3>1, <3>2
  <2> QED BY <1>2, <2>2, <2>3
<1> HIDE DEF fits, val, span
<1>16. Values(mib, oid)[p.v] = SubSeq(oid, (w + 1) + 1, end + 1) /\ p.v \in DOMAIN Values(mib, oid)
  BY <1>12, <1>13, <1>14, <1>15
<1>17. SubSeq(oid, (w + 1) + 1, end + 1) = SubSeq(Tail(oid), w + 1, end)
  <2>1. w + 1 \in Nat \ {0}
    BY <1>2
  <2> QED BY <1>0, <1>5, <1>15, <2>1, SubSeqTail
<1> QED BY <1>5, <1>16, <1>17 DEF p, parts, HasValue

\* Every entry of trapMibs was made from an event.
IsEvent(e) == \E d \in DOMAIN TrapDefs : \E i \in DOMAIN TrapDefs[d].events : e = TrapDefs[d].events[i]
IsMib(m) == m.vars = ParseOid(m.event.parts).vars /\ IsEvent(m.event)
MibsMade == \A k \in DOMAIN trapMibs : IsMib(trapMibs[k])
EventNames == UNION {{TrapDefs[d].events[i].name : i \in DOMAIN TrapDefs[d].events} : d \in DOMAIN TrapDefs}

\* Of the first k variables all that can be read are written.
AllWritten(vs, k, written) ==
  \A i \in DOMAIN vs : i <= k /\ vs[i].read => \E j \in DOMAIN written : written[j][1] = vs[i].oid

\* How far handle has got: what it has looked up, and what it has passed over.
Known == \E i \in DOMAIN packet.trapOids : GetTrap(packet.trapOids[i]) # NoTrap
Handling ==
  /\ parsed \in 0 .. Len(TrapDefs) /\ (stage # "listen" \/ passedOn # Empty => parsed = Len(TrapDefs))
  /\ packet \in Packets \cup {NoPacket} /\ named \in Seq(Seq(Nat) \X (EventNames \cup {NoTrap}))
  /\ stage = "trap" => passed <= Len(packet.trapOids) /\ named = <<>>
  /\ stage = "vars" => passed <= Len(packet.vars) /\ Len(named) <= passed
  /\ stage = "send" => passed = Len(packet.vars) /\ (Dropping => foundTrap)
  /\ stage # "listen" /\ foundTrap => Known
  /\ stage \in {"vars", "send"} =>
       IF Dropping THEN \A i \in DOMAIN named : named[i][2] # NoTrap ELSE AllWritten(packet.vars, passed, named)

TrapsIInv == TrapsTypeOK /\ MibsMade /\ Handling /\ VariablesBound /\ OnlyDefined

LEMMA TrapsStart == TrapsInit => TrapsIInv
<1> SUFFICES ASSUME TrapsInit PROVE TrapsIInv
  OBVIOUS
<1>1. DOMAIN trapMibs = {}
  BY DEF TrapsInit, Empty
<1>2. Len(TrapDefs) \in Nat
  BY TrapsAssumption, ListLaw DEF TrapsAssumption
<1>3. TrapsTypeOK
  <2>1. packet.trapOids = <<>> /\ packet.vars = <<>> /\ named = <<>> /\ passed = 0
    BY DEF TrapsInit, NoPacket
  <2>2. passed \in 0 .. (Len(packet.trapOids) + Len(packet.vars)) /\ Len(named) <= Len(packet.vars)
    BY <2>1
  <2>3. TrapRoom \in Nat /\ MaxTraps \in Nat
    BY TrapsAssumption DEF TrapsAssumption
  <2>4. stage = "listen" /\ foundTrap \in BOOLEAN /\ trapQueue = 0 /\ received = 0
    BY Zenon DEF TrapsInit
  <2>5. trapQueue \in 0 .. TrapRoom /\ received \in 0 .. MaxTraps
    BY <2>3, <2>4
  <2> QED BY <2>2, <2>4, <2>5, Zenon DEF TrapsTypeOK
<1>4. MibsMade
  BY <1>1 DEF MibsMade
<1>5. Handling
  BY <1>2 DEF TrapsInit, Handling
<1>6. VariablesBound /\ OnlyDefined
  BY DEF TrapsInit, VariablesBound, OnlyDefined
<1> QED BY <1>3, <1>4, <1>5, <1>6 DEF TrapsIInv

LEMMA PacketLaw ==
  ASSUME NEW p \in Packets \cup {NoPacket}
  PROVE  /\ Len(p.trapOids) \in Nat /\ DOMAIN p.trapOids = 1 .. Len(p.trapOids)
         /\ p.vars \in Seq([oid : Seq(Nat), read : BOOLEAN])
<1>1. CASE p \in Packets
  <2>1. IsList(p.trapOids) /\ p.vars \in Seq([oid : Seq(Nat), read : BOOLEAN])
    BY <1>1, TrapsAssumption DEF TrapsAssumption
  <2> QED BY <2>1, ListLaw
<1>2. CASE p = NoPacket
  BY <1>2 DEF NoPacket
<1> QED BY <1>1, <1>2

LEMMA EventLaw ==
  ASSUME NEW e, IsEvent(e)
  PROVE  e.name \in EventNames /\ e.name # NoTrap /\ PartsOK(e.parts)
BY TrapsAssumption DEF TrapsAssumption, IsEvent, EventNames, PartsOK

LEMMA LoadTrapKept == ASSUME TrapsIInv, LoadTrap PROVE TrapsIInv'
<1> DEFINE d == TrapDefs[parsed']
           keys == {EventKey(d.events[i]) : i \in DOMAIN d.events}
           Choice(k) == CHOOSE i \in DOMAIN d.events :
                          EventKey(d.events[i]) = k
                          /\ \A j \in DOMAIN d.events : EventKey(d.events[j]) = k => j <= i
<1>1. parsed \in 0 .. Len(TrapDefs) /\ parsed' = parsed + 1 /\ parsed < Len(TrapDefs) /\ stage = "listen" /\ passedOn = Empty
  BY DEF TrapsIInv, Handling, LoadTrap
<1>2. Len(TrapDefs) \in Nat /\ DOMAIN TrapDefs = 1 .. Len(TrapDefs)
  BY TrapsAssumption, ListLaw DEF TrapsAssumption
<1>3. parsed' \in DOMAIN TrapDefs
  BY <1>1, <1>2
<1>4. Len(d.events) \in Nat /\ DOMAIN d.events = 1 .. Len(d.events)
  BY <1>3, TrapsAssumption, ListLaw DEF TrapsAssumption
<1>5. trapMibs' = [k \in DOMAIN trapMibs \cup keys |-> IF k \in keys THEN EventMib(d, d.events[Choice(k)]) ELSE trapMibs[k]]
  BY Zenon DEF LoadTrap
<1>6. ASSUME NEW k \in keys PROVE Choice(k) \in DOMAIN d.events
  <2> DEFINE T == {i \in DOMAIN d.events : EventKey(d.events[i]) = k}
  <2>1. T \subseteq 1 .. Len(d.events) /\ T # {}
    BY <1>4
  <2>2. PICK i \in T : \A j \in T : j <= i
    <3> HIDE DEF T
    <3> QED BY <1>4, <2>1, Greatest
  <2>3. \E l \in DOMAIN d.events : EventKey(d.events[l]) = k /\ \A j \in DOMAIN d.events : EventKey(d.events[j]) = k => j <= l
    BY <2>2
  <2> QED BY <2>3, Zenon
<1>7. ASSUME NEW k \in keys PROVE IsMib(EventMib(d, d.events[Choice(k)]))
  <2> DEFINE e == d.events[Choice(k)]
  <2>1. IsEvent(e)
    BY <1>3, <1>6 DEF IsEvent
  <2> HIDE DEF e
  <2> QED BY <2>1 DEF IsMib, EventMib, e
<1> HIDE DEF keys, Choice, d
<1>8. MibsMade'
  BY <1>5, <1>7 DEF TrapsIInv, MibsMade
<1>9. UNCHANGED <<stage, handleVars, trapQueue, received, passedOn>>
  BY DEF LoadTrap
<1>10. TrapsTypeOK' /\ VariablesBound'
  BY <1>9 DEF TrapsIInv, TrapsTypeOK, VariablesBound, handleVars
<1>11. Handling'
  BY <1>1, <1>2, <1>9 DEF TrapsIInv, Handling, handleVars
<1>12. OnlyDefined'
  BY <1>1, <1>9 DEF OnlyDefined
<1> QED BY <1>8, <1>10, <1>11, <1>12 DEF TrapsIInv

LEMMA VariableKept == ASSUME TrapsIInv, Variable PROVE TrapsIInv'
<1> DEFINE var == packet.vars[passed + 1]
           oid == var.oid
           k == KeyFor(trapMibs, oid)
           name == IF k = Missing THEN NoTrap ELSE trapMibs[k].event.name
<1>0. /\ stage = "vars" /\ passed < Len(packet.vars) /\ passed' = passed + 1
      /\ UNCHANGED <<parsed, trapMibs, traps, stage, packet, trap, foundTrap, trapQueue, received, passedOn>>
  BY DEF Variable
<1>1. IF k = Missing /\ Dropping
        THEN UNCHANGED <<named, attrs, last>>
        ELSE /\ named' = IF var.read THEN Append(named, <<oid, name>>) ELSE named
             /\ attrs' = Over(AttrsFor(oid), attrs)
             /\ last' = IF k = Missing THEN Empty ELSE [oid |-> oid, mib |-> trapMibs[k], wild |-> k.wild]
  BY Zenon DEF Variable
<1>2. /\ packet \in Packets \cup {NoPacket} /\ passed \in Nat /\ Len(named) <= passed
      /\ named \in Seq(Seq(Nat) \X (EventNames \cup {NoTrap}))
      /\ IF Dropping THEN \A i \in DOMAIN named : named[i][2] # NoTrap ELSE AllWritten(packet.vars, passed, named)
  BY <1>0, PacketLaw DEF TrapsIInv, Handling, TrapsTypeOK
<1>3. /\ packet.vars \in Seq([oid : Seq(Nat), read : BOOLEAN]) /\ var \in [oid : Seq(Nat), read : BOOLEAN]
      /\ Len(packet.trapOids) \in Nat
  <2> DEFINE vs == packet.vars
             V == [oid : Seq(Nat), read : BOOLEAN]
  <2>1. vs \in Seq(V) /\ Len(packet.trapOids) \in Nat /\ passed \in Nat /\ passed < Len(vs)
    BY <1>0, <1>2, PacketLaw
  <2> HIDE DEF vs, V
  <2>2. vs[passed + 1] \in V
    BY <2>1
  <2> QED BY <2>1, <2>2 DEF vs, V
<1> HIDE DEF var
<1>3a. oid \in Seq(Nat)
  BY <1>3
<1> HIDE DEF oid
<1>3b. ASSUME NEW w, w \in Seq(Seq(Nat) \X (EventNames \cup {NoTrap})),
              \A j \in DOMAIN named : j \in DOMAIN w /\ w[j] = named[j],
              var.read => \E j \in DOMAIN w : w[j][1] = oid, AllWritten(packet.vars, passed, named)
       PROVE  AllWritten(packet.vars, passed + 1, w)
  <2> SUFFICES ASSUME NEW i \in DOMAIN packet.vars, i <= passed + 1, packet.vars[i].read
               PROVE  \E j \in DOMAIN w : w[j][1] = packet.vars[i].oid
    BY DEF AllWritten
  <2>1. i <= passed \/ i = passed + 1
    BY <1>2, <1>3
  <2>2. CASE i <= passed
    <3>1. \E j \in DOMAIN named : named[j][1] = packet.vars[i].oid
      BY <1>3b, <2>2 DEF AllWritten
    <3> QED BY <1>3b, <3>1, Zenon
  <2>3. CASE i = passed + 1
    BY <1>3b, <2>3 DEF var, oid
  <2> QED BY <2>1, <2>2, <2>3
<1>4. k \in DOMAIN trapMibs \cup {Missing} /\ (oid = <<>> => k = Missing)
  BY <1>3a, KeyForLaw
<1>5. k # Missing => IsMib(trapMibs[k]) /\ name \in EventNames /\ name # NoTrap
  <2>1. k # Missing => IsMib(trapMibs[k])
    BY <1>4 DEF TrapsIInv, MibsMade
  <2> HIDE DEF k
  <2> QED BY <2>1, EventLaw DEF IsMib
<1> HIDE DEF name, k
<1>6. name \in EventNames \cup {NoTrap} /\ (k = Missing => name = NoTrap)
  BY <1>5 DEF name
<1>7. UNCHANGED Dropping /\ UNCHANGED Known
  BY <1>0 DEF Dropping, Known, GetTrap
<1>t. ASSUME Len(named') \in Nat, Len(named') <= passed' PROVE TrapsTypeOK'
  <2>1. Len(packet.vars) \in Nat
    BY <1>3
  <2>2. passed' \in 0 .. (Len(packet.trapOids) + Len(packet.vars)) /\ Len(named') <= Len(packet.vars)
    <3> DEFINE a == Len(packet.trapOids)
               b == Len(packet.vars)
    <3> HIDE DEF a, b
    <3>1. a \in Nat /\ b \in Nat /\ passed < b
      BY <1>0, <1>3, <2>1 DEF a, b
    <3>2. passed + 1 \in 0 .. (a + b) /\ Len(named') <= b
      BY <1>0, <1>2, <1>t, <3>1
    <3> QED BY <1>0, <3>2 DEF a, b
  <2> QED BY <1>0, <2>2 DEF TrapsIInv, TrapsTypeOK
<1>8. Handling' /\ TrapsTypeOK'
  <2>1. CASE k = Missing /\ Dropping
    <3>1. UNCHANGED named
      BY <1>1, <2>1
    <3>2. TrapsTypeOK'
      BY <1>0, <1>2, <1>t, <3>1
    <3> QED BY <1>0, <1>2, <1>3, <1>7, <2>1, <3>1, <3>2 DEF Handling, TrapsIInv
  <2>a. CASE ~(k = Missing /\ Dropping) /\ ~var.read
    <3>1. UNCHANGED named
      BY <1>1, <2>a, Zenon
    <3>2. TrapsTypeOK'
      BY <1>0, <1>2, <1>t, <3>1
    <3>3. IF Dropping' THEN \A i \in DOMAIN named' : named'[i][2] # NoTrap ELSE AllWritten(packet.vars, passed + 1, named')
      BY <1>2, <1>3b, <1>7, <2>a, <3>1
    <3>4. packet' = packet /\ passed' = passed + 1 /\ stage' = "vars" /\ passed + 1 <= Len(packet.vars) /\ Len(named') <= passed + 1
      BY <1>0, <1>2, <1>3, <3>1
    <3> QED BY <1>0, <1>2, <1>7, <3>1, <3>2, <3>3, <3>4 DEF Handling, TrapsIInv
  <2>2. CASE ~(k = Missing /\ Dropping) /\ var.read
    <3> DEFINE x == <<oid, name>>
               N == Seq(Nat) \X (EventNames \cup {NoTrap})
    <3>1. x \in N /\ (Dropping => x[2] # NoTrap)
      BY <1>3a, <1>5, <1>6, <2>2
    <3>2. named' = Append(named, x) /\ x[1] = oid
      BY <1>1, <2>2
    <3> HIDE DEF x, N
    <3>3. named \in Seq(N)
      BY <1>2 DEF N
    <3>4. /\ named' \in Seq(N) /\ Len(named') = Len(named) + 1 /\ Len(named) \in Nat
          /\ \A i \in DOMAIN named' : named'[i] = x \/ (i \in DOMAIN named /\ named'[i] = named[i])
          /\ \A i \in DOMAIN named : i \in DOMAIN named' /\ named'[i] = named[i]
          /\ \E i \in DOMAIN named' : named'[i] = x
      <4>1. Len(named) \in Nat /\ DOMAIN named = 1 .. Len(named) /\ named' \in Seq(N) /\ Len(named') = Len(named) + 1
            /\ DOMAIN named' = 1 .. (Len(named) + 1)
        BY <3>1, <3>2, <3>3
      <4>2. named'[Len(named) + 1] = x /\ \A i \in DOMAIN named : named'[i] = named[i]
        BY <3>1, <3>2, <3>3
      <4> QED BY <4>1, <4>2
    <3>5. IF Dropping' THEN \A i \in DOMAIN named' : named'[i][2] # NoTrap ELSE AllWritten(packet.vars, passed + 1, named')
      <4>1. CASE Dropping
        BY <1>2, <1>7, <3>1, <3>4, <4>1
      <4>2. CASE ~Dropping
        <5>1. AllWritten(packet.vars, passed, named) /\ named' \in Seq(Seq(Nat) \X (EventNames \cup {NoTrap}))
          BY <1>2, <3>4, <4>2 DEF N
        <5>2. \E j \in DOMAIN named' : named'[j][1] = oid
          BY <3>2, <3>4, Zenon
        <5>3. AllWritten(packet.vars, passed + 1, named')
          BY <1>3b, <3>4, <5>1, <5>2, Zenon
        <5> QED BY <1>7, <4>2, <5>3
      <4> QED BY <4>1, <4>2
    <3>6. TrapsTypeOK'
      BY <1>0, <1>2, <1>t, <3>4
    <3> QED BY <1>0, <1>2, <1>3, <1>7, <3>4, <3>5, <3>6 DEF Handling, TrapsIInv, N
  <2> QED BY <2>1, <2>a, <2>2
<1>9. VariablesBound'
  <2>1. CASE k = Missing /\ Dropping
    BY <1>1, <2>1 DEF TrapsIInv, VariablesBound
  <2>2. CASE k = Missing /\ ~Dropping
    BY <1>1, <2>2 DEF VariablesBound
  <2>3. CASE k # Missing
    <3> DEFINE mib == trapMibs[k]
               parts == mib.event.parts
               ids == Tail(oid)
               first(i) == Widths(parts)[i - 1] + 1
               rest == {i \in DOMAIN parts : parts[i].v # NoVar /\ parts[i].len = Rest}
    <3>1. IsMib(mib) /\ PartsOK(parts) /\ oid # <<>>
      BY <1>4, <1>5, <2>3, EventLaw DEF IsMib
    <3>2. last' = [oid |-> oid, mib |-> mib, wild |-> k.wild] /\ attrs' = Over(AttrsFor(oid), attrs)
      BY <1>1, <2>3
    <3>3. Len(parts) \in Nat /\ DOMAIN parts = 1 .. Len(parts) /\ Len(ids) = Len(oid) - 1
      BY <1>3a, <3>1, ListLaw DEF PartsOK
    <3>4. ASSUME Plain(parts), k.wild, NEW i \in {j \in DOMAIN parts : parts[j].v # NoVar /\ \A r \in rest : j <= r},
                 NEW end, end = IF i \in rest THEN Len(ids) ELSE first(i) + parts[i].len - 1,
                 first(i) <= Len(ids) + 1 /\ end <= Len(ids)
          PROVE  attrs'[parts[i].v] = SubSeq(ids, first(i), end)
      <4>1. i \in Taken(parts, Len(parts))
        BY <3>3 DEF Taken, Ended, TakesRest
      <4>2. end = IF parts[i].len = Rest THEN Len(oid) - 1 ELSE first(i) + parts[i].len - 1
        BY <3>3, <3>4
      <4>3. first(i) <= Len(oid) /\ end <= Len(oid) - 1
        <5>1. i - 1 \in 0 .. Len(parts)
          BY <3>3
        <5>2. first(i) \in Int
          BY <3>1, <5>1, WidthsLaw
        <5>3. first(i) <= Len(ids) + 1 /\ end <= Len(ids) /\ Len(oid) \in Nat
          BY <1>3a, <3>4
        <5> DEFINE a == first(i)
        <5> HIDE DEF a, ids
        <5>4. a <= Len(oid) /\ end <= Len(oid) - 1
          BY <3>3, <5>2, <5>3 DEF a
        <5> QED BY <5>4 DEF a
      <4>4. parts[i].v \in DOMAIN Values(mib, oid) /\ Values(mib, oid)[parts[i].v] = SubSeq(ids, first(i), end)
        <5> DEFINE a == first(i)
        <5>1. /\ mib.vars = ParseOid(parts).vars /\ a = Widths(parts)[i - 1] + 1 /\ a <= Len(oid) /\ Plain(parts)
              /\ end = IF parts[i].len = Rest THEN Len(oid) - 1 ELSE a + parts[i].len - 1
          BY <3>1, <3>4, <4>2, <4>3 DEF IsMib
        <5> HIDE DEF a, mib
        <5>2. InPlace(mib, oid, i, a, end)
          BY <1>3a, <3>1, <4>1, <4>3, <5>1 DEF InPlace
        <5>3. HasValue(mib, oid, i, a, end)
          BY <5>2, ValuesLaw
        <5> QED BY <5>3 DEF a, HasValue
      <4>5. AttrsFor(oid) = Over(Values(mib, oid), mib.xattr)
        BY <2>3, <3>4 DEF AttrsFor, k
      <4> QED BY <3>2, <4>4, <4>5 DEF Over
    <3>5. last'.mib = mib /\ last'.oid = oid /\ last'.wild = k.wild
      BY <3>2
    <3> HIDE DEF mib
    <3> QED BY <3>4, <3>5, Zenon DEF VariablesBound
  <2> QED BY <2>1, <2>2, <2>3
<1>10. OnlyDefined' /\ MibsMade'
  BY <1>0 DEF TrapsIInv, OnlyDefined, MibsMade, GetTrap
<1> QED BY <1>8, <1>9, <1>10 DEF TrapsIInv

\* No step of the listener or of the load breaks the invariant.
LEMMA TrapsStep == TrapsIInv /\ [TrapsNext]_trapVars => TrapsIInv'
<1> SUFFICES ASSUME TrapsIInv, [TrapsNext]_trapVars PROVE TrapsIInv'
  OBVIOUS
<1>1. /\ Len(TrapDefs) \in Nat /\ TrapRoom \in Nat /\ MaxTraps \in Nat
  BY TrapsAssumption, ListLaw DEF TrapsAssumption
<1>2. /\ packet \in Packets \cup {NoPacket} /\ passed \in Nat /\ trapQueue \in 0 .. TrapRoom /\ received \in 0 .. MaxTraps
      /\ foundTrap \in BOOLEAN /\ Len(named) <= Len(packet.vars)
      /\ named \in Seq(Seq(Nat) \X (EventNames \cup {NoTrap})) /\ stage \in {"listen", "trap", "vars", "send"}
  BY PacketLaw DEF TrapsIInv, TrapsTypeOK, Handling
<1>3. /\ Len(packet.trapOids) \in Nat /\ DOMAIN packet.trapOids = 1 .. Len(packet.trapOids)
      /\ Len(packet.vars) \in Nat /\ Len(named) \in Nat
  BY <1>2, PacketLaw
<1>u. ASSUME UNCHANGED <<trapMibs, traps, passedOn>> PROVE MibsMade' /\ OnlyDefined'
  BY <1>u DEF TrapsIInv, MibsMade, OnlyDefined, GetTrap
<1>v. ASSUME UNCHANGED <<attrs, last>> PROVE VariablesBound'
  BY <1>v DEF TrapsIInv, VariablesBound
<1>4. CASE LoadTrap
  BY <1>4, LoadTrapKept
<1>5. CASE Variable
  BY <1>5, VariableKept
<1>6. CASE LoadNoTraps
  <2>1. parsed' = Len(TrapDefs) /\ UNCHANGED <<trapMibs, traps, stage, handleVars, trapQueue, received, passedOn>>
    BY <1>6 DEF LoadNoTraps
  <2>2. UNCHANGED Dropping /\ UNCHANGED Known
    BY <2>1 DEF Dropping, Known, GetTrap, handleVars
  <2>3. Handling'
    BY <1>1, <2>1, <2>2 DEF TrapsIInv, Handling, handleVars
  <2>4. TrapsTypeOK'
    BY <2>1 DEF TrapsIInv, TrapsTypeOK, handleVars
  <2> QED BY <1>u, <1>v, <2>1, <2>3, <2>4 DEF TrapsIInv, handleVars
<1>7. ASSUME NEW p \in Packets, Receive(p) PROVE TrapsIInv'
  <2>1. /\ parsed = Len(TrapDefs) /\ received < MaxTraps /\ received' = received + 1 /\ stage' = "trap" /\ packet' = p
        /\ passed' = 0 /\ foundTrap' = FALSE /\ named' = <<>> /\ last' = Empty
        /\ UNCHANGED <<parsed, trapMibs, traps, trapQueue, passedOn>>
    BY <1>7 DEF Receive
  <2>2. Len(p.trapOids) \in Nat /\ Len(p.vars) \in Nat
    BY PacketLaw
  <2>3. received' \in 0 .. MaxTraps /\ passed' \in 0 .. (Len(p.trapOids) + Len(p.vars)) /\ Len(named') <= Len(p.vars)
    <3>1. received' \in 0 .. MaxTraps /\ Len(named') <= Len(p.vars)
      BY <1>1, <1>2, <2>1, <2>2
    <3> DEFINE a == Len(p.trapOids) b == Len(p.vars)
    <3>2. a \in Nat /\ b \in Nat /\ passed' = 0
      BY <2>1, <2>2
    <3> HIDE DEF a, b
    <3>3. passed' \in 0 .. (a + b)
      BY ONLY <3>2
    <3> QED BY <3>1, <3>3 DEF a, b
  <2>4. TrapsTypeOK'
    BY <1>2, <2>1, <2>3 DEF TrapsTypeOK
  <2>5. Handling'
    BY <1>1, <2>1, <2>2 DEF Handling
  <2> QED BY <1>u, <2>1, <2>4, <2>5 DEF TrapsIInv, VariablesBound
<1>8. CASE LookUpTrap
  <2>1. /\ stage = "trap" /\ passed < Len(packet.trapOids) /\ passed' = passed + 1
        /\ trap' = GetTrap(packet.trapOids[passed + 1]) /\ foundTrap' = (foundTrap \/ trap' # NoTrap)
        /\ UNCHANGED <<parsed, trapMibs, traps, stage, packet, named, attrs, last, trapQueue, received, passedOn>>
    BY <1>8 DEF LookUpTrap
  <2>2. passed + 1 \in DOMAIN packet.trapOids /\ passed' \in 0 .. (Len(packet.trapOids) + Len(packet.vars))
        /\ passed' <= Len(packet.trapOids)
    <3> DEFINE a == Len(packet.trapOids) b == Len(packet.vars)
    <3>1. a \in Nat /\ b \in Nat /\ passed \in Nat /\ passed < a /\ passed' = passed + 1 /\ DOMAIN packet.trapOids = 1 .. a
      BY <1>2, <1>3, <2>1
    <3> HIDE DEF a, b
    <3>2. passed + 1 \in 1 .. a /\ passed' \in 0 .. (a + b) /\ passed' <= a
      BY ONLY <3>1
    <3> QED BY <3>1, <3>2 DEF a, b
  <2>3. Known' <=> Known
    BY <2>1 DEF Known, GetTrap
  <2>4. foundTrap' => Known
    BY <2>1, <2>2 DEF TrapsIInv, Handling, Known
  <2>5. TrapsTypeOK'
    <3>1. foundTrap' \in BOOLEAN
      BY <2>1, Zenon
    <3> QED BY <1>2, <2>1, <2>2, <3>1 DEF TrapsTypeOK
  <2>6. Handling'
    BY <1>2, <2>1, <2>2, <2>3, <2>4 DEF TrapsIInv, Handling
  <2> QED BY <1>u, <1>v, <2>1, <2>5, <2>6 DEF TrapsIInv
<1>9. CASE TrapLookedUp
  <2>1. /\ stage = "trap" /\ stage' = "vars" /\ passed' = 0
        /\ UNCHANGED <<parsed, trapMibs, traps, packet, trap, foundTrap, named, attrs, last, trapQueue, received, passedOn>>
    BY <1>9 DEF TrapLookedUp
  <2>2. UNCHANGED Known /\ named = <<>>
    BY <2>1 DEF Known, GetTrap, TrapsIInv, Handling
  <2>3. passed' \in 0 .. (Len(packet.trapOids) + Len(packet.vars))
    <3> DEFINE a == Len(packet.trapOids) b == Len(packet.vars)
    <3>1. a \in Nat /\ b \in Nat /\ passed' = 0
      BY <1>3, <2>1
    <3> HIDE DEF a, b
    <3>2. passed' \in 0 .. (a + b)
      BY ONLY <3>1
    <3> QED BY <3>2 DEF a, b
  <2>4. TrapsTypeOK'
    BY <1>2, <2>1, <2>3 DEF TrapsTypeOK
  <2>a. AllWritten(packet.vars, 0, <<>>)
    <3>1. packet.vars \in Seq([oid : Seq(Nat), read : BOOLEAN])
      BY <1>2, PacketLaw
    <3>2. \A i \in DOMAIN packet.vars : ~(i <= 0)
      BY <3>1
    <3> QED BY <3>2 DEF AllWritten
  <2>5. Handling'
    BY <1>2, <1>3, <2>1, <2>2, <2>a DEF TrapsIInv, Handling
  <2> QED BY <1>u, <1>v, <2>1, <2>4, <2>5 DEF TrapsIInv
<1>10. CASE VariablesDone
  <2>1. /\ stage = "vars" /\ passed = Len(packet.vars) /\ stage' = IF Dropping /\ ~foundTrap THEN "listen" ELSE "send"
        /\ UNCHANGED <<parsed, trapMibs, traps, handleVars, trapQueue, received, passedOn>>
    BY <1>10 DEF VariablesDone
  <2>2. UNCHANGED Dropping /\ UNCHANGED Known
    BY <2>1 DEF Dropping, Known, GetTrap, handleVars
  <2>3. TrapsTypeOK'
    BY <2>1 DEF TrapsIInv, TrapsTypeOK, handleVars
  <2>4. Handling'
    BY <2>1, <2>2 DEF TrapsIInv, Handling, handleVars
  <2> QED BY <1>u, <1>v, <2>1, <2>3, <2>4 DEF TrapsIInv, handleVars
<1>11. CASE SendTrap
  <2>1. /\ stage = "send" /\ trapQueue < TrapRoom /\ trapQueue' = trapQueue + 1 /\ stage' = "listen"
        /\ passedOn' = [packet |-> packet, dropping |-> Dropping, named |-> named]
        /\ UNCHANGED <<parsed, trapMibs, traps, handleVars, received>>
    BY <1>11 DEF SendTrap
  <2>2. trapQueue' \in 0 .. TrapRoom
    BY <1>1, <1>2, <2>1
  <2>3. TrapsTypeOK'
    BY <2>1, <2>2 DEF TrapsIInv, TrapsTypeOK, handleVars
  <2>4. Handling'
    BY <2>1 DEF TrapsIInv, Handling, handleVars
  <2>5. OnlyDefined'
    <3>1. passedOn'.packet = packet /\ passedOn'.named = named /\ (passedOn'.dropping <=> Dropping)
      BY <2>1
    <3>2. IF Dropping THEN Known /\ \A i \in DOMAIN named : named[i][2] # NoTrap ELSE AllWritten(packet.vars, Len(packet.vars), named)
      BY <2>1 DEF TrapsIInv, Handling
    <3>3. traps' = traps
      BY <2>1
    <3>4. packet.vars \in Seq([oid : Seq(Nat), read : BOOLEAN])
      BY <1>2, PacketLaw
    <3>5. \A i \in DOMAIN packet.vars : i <= Len(packet.vars)
      BY <3>4
    <3>6. AllWritten(packet.vars, Len(packet.vars), named) =>
            \A i \in DOMAIN packet.vars : packet.vars[i].read => \E j \in DOMAIN named : named[j][1] = packet.vars[i].oid
      BY <3>5, Zenon DEF AllWritten
    <3> QED BY <3>1, <3>2, <3>3, <3>6 DEF OnlyDefined, Known, GetTrap
  <2>6. MibsMade'
    BY <2>1 DEF TrapsIInv, MibsMade
  <2> QED BY <1>v, <2>1, <2>3, <2>4, <2>5, <2>6 DEF TrapsIInv, handleVars
<1>12. CASE ReadTrap
  <2>1. /\ trapQueue > 0 /\ trapQueue' = trapQueue - 1
        /\ UNCHANGED <<parsed, trapMibs, traps, stage, handleVars, received, passedOn>>
    BY <1>12 DEF ReadTrap
  <2>2. trapQueue' \in 0 .. TrapRoom
    BY <1>1, <1>2, <2>1
  <2>3. UNCHANGED Dropping /\ UNCHANGED Known
    BY <2>1 DEF Dropping, Known, GetTrap, handleVars
  <2>4. TrapsTypeOK'
    BY <2>1, <2>2 DEF TrapsIInv, TrapsTypeOK, handleVars
  <2>5. Handling'
    BY <2>1, <2>3 DEF TrapsIInv, Handling, handleVars
  <2> QED BY <1>u, <1>v, <2>1, <2>4, <2>5 DEF TrapsIInv, handleVars
<1>13. CASE UNCHANGED trapVars
  <2>1. UNCHANGED Dropping /\ UNCHANGED Known
    BY <1>13 DEF Dropping, Known, GetTrap, trapVars, handleVars
  <2>2. TrapsTypeOK' /\ Handling'
    BY <1>13, <2>1 DEF TrapsIInv, TrapsTypeOK, Handling, trapVars, handleVars
  <2> QED BY <1>13, <1>u, <1>v, <2>2 DEF TrapsIInv, trapVars, handleVars
<1> QED BY <1>4, <1>5, <1>6, <1>7, <1>8, <1>9, <1>10, <1>11, <1>12, <1>13 DEF TrapsNext, TrapStep

LEMMA TrapsSafe == TrapsIInv => TrapsInv
BY DEF TrapsIInv, TrapsInv

-----------------------------------------------------------------------------
(* The MIB database.                                                       *)

\* The profiles are merged from what they extend whatever the order of the maps,
\* a device gets that of the most specific id and polls the best object id of
\* each name; the traps and variables passed on are those that are defined, with
\* the values the definitions name: for any files, definitions, devices and
\* packets.
THEOREM MibsAreSound == ServicesSpec => []MibsInv
<1>1. ProfilesIInv /\ TrapsIInv => MibsInv
  BY ProfilesSafe, TrapsSafe DEF MibsInv
<1>2. ProfilesInit => ProfilesIInv
  BY LoadStart, UseStart DEF ProfilesIInv
<1>3. ProfilesIInv /\ [ProfilesNext]_profileVars => ProfilesIInv'
  BY LoadKept, UseKept DEF ProfilesIInv
<1> QED
  BY <1>1, <1>2, <1>3, TrapsStart, TrapsStep, EachAlone, PTL DEF ServicesSpec
=============================================================================
