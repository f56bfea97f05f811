----------------------------- MODULE SnmpProofs -----------------------------
(***************************************************************************)
(* Proofs about SNMP discovery and supervision. DeviceMerge, for any       *)
(* addresses, names, engine ids, answers and starting configurations, for  *)
(* any number of threads and discoveries, and for every order in which     *)
(* addDevices visits its maps; SnmpGenerations, for every number of        *)
(* generations, of devices and of writes of the configuration file.        *)
(***************************************************************************)
EXTENDS DeviceMerge, SnmpGenerations, FiniteSetTheorems, TLAPS

\* Only a host that the current scan or loop knows is looked up.
Loops ==
  /\ phase = "add" => todo \subseteq DOMAIN found
  /\ phase \in {"dedup", "purge"} => todo \subseteq DOMAIN devs
  /\ phase = "add" => DOMAIN orig \subseteq DOMAIN devs /\ byEngine = {}
  /\ phase \in {"add", "dedup"} => purged = {}

\* A discovery works on the configuration it read, and answers at its end.
Reads ==
  /\ phase = "done" <=> verdict # "none"
  /\ phase = "scan" => devs = file
  /\ InMerge => orig = file

\* What an answer touched is fresh, and what none touched is as it was read.
Fresh ==
  InMerge => \A k \in DOMAIN devs :
    /\ k \in touched => devs[k].age = 0
    /\ (k \in DOMAIN orig /\ k \notin touched) => devs[k] = orig[k]

\* Half-way through the duplicate loop: of the devices it has visited no two
\* share an engine id, and byEngine holds just their ids.
Visited == DOMAIN devs \ todo
EnginesSoFar ==
  (phase = "dedup" /\ ~settings.noDedup) =>
    /\ \A k, l \in Visited :
         (k # l /\ devs[k].engine # NoEngine) => devs[k].engine # devs[l].engine
    /\ \A k \in Visited : devs[k].engine = NoEngine \/ devs[k].engine \in byEngine
    /\ byEngine \subseteq {devs[k].engine : k \in Visited}

\* The inductive invariant.
IInv == MergeInv /\ DevicesKept /\ Loops /\ Reads /\ Fresh /\ EnginesSoFar

-----------------------------------------------------------------------------
(* Configurations.                                                         *)

\* A configuration with one entry more, or with one replaced.
LEMMA WithConfig ==
  ASSUME NEW f, IsConfig(f), NEW k \in Keys, NEW d \in Devices
  PROVE  /\ IsConfig(With(f, k, d))
         /\ DOMAIN With(f, k, d) = DOMAIN f \cup {k}
         /\ With(f, k, d)[k] = d
         /\ \A l \in DOMAIN f \ {k} : With(f, k, d)[l] = f[l]
         /\ Cardinality(DOMAIN f) \in Nat
         /\ Cardinality(DOMAIN With(f, k, d)) =
              IF k \in DOMAIN f THEN Cardinality(DOMAIN f) ELSE Cardinality(DOMAIN f) + 1
<1>1. /\ DOMAIN With(f, k, d) = DOMAIN f \cup {k}
      /\ With(f, k, d)[k] = d
      /\ \A l \in DOMAIN f \ {k} : With(f, k, d)[l] = f[l]
  BY DEF With
<1>2. With(f, k, d) \in [DOMAIN f \cup {k} -> Devices]
  BY DEF With, IsConfig
<1>3. /\ IsFiniteSet(DOMAIN f) /\ IsFiniteSet(DOMAIN f \cup {k})
      /\ Cardinality(DOMAIN f) \in Nat
      /\ Cardinality(DOMAIN f \cup {k}) =
           IF k \in DOMAIN f THEN Cardinality(DOMAIN f) ELSE Cardinality(DOMAIN f) + 1
  BY FS_AddElement, FS_CardinalityType DEF IsConfig
<1> QED
  BY <1>1, <1>2, <1>3 DEF IsConfig

\* A configuration with one entry less.
LEMMA WithoutConfig ==
  ASSUME NEW f, IsConfig(f), NEW k \in DOMAIN f
  PROVE  /\ IsConfig(Without(f, k))
         /\ DOMAIN Without(f, k) = DOMAIN f \ {k}
         /\ \A l \in DOMAIN f \ {k} : Without(f, k)[l] = f[l]
         /\ Cardinality(DOMAIN f) \in Nat
         /\ Cardinality(DOMAIN Without(f, k)) = Cardinality(DOMAIN f) - 1
<1>1. /\ DOMAIN Without(f, k) = DOMAIN f \ {k}
      /\ \A l \in DOMAIN f \ {k} : Without(f, k)[l] = f[l]
  BY DEF Without, Restrict
<1>2. Without(f, k) \in [DOMAIN f \ {k} -> Devices]
  BY DEF Without, Restrict, IsConfig
<1>3. /\ IsFiniteSet(DOMAIN f \ {k}) /\ Cardinality(DOMAIN f) \in Nat
      /\ Cardinality(DOMAIN f \ {k}) = Cardinality(DOMAIN f) - 1
  BY FS_RemoveElement, FS_CardinalityType DEF IsConfig
<1> QED
  BY <1>1, <1>2, <1>3 DEF IsConfig

\* The empty configuration.
LEMMA EmptyConfig == IsConfig(Empty) /\ DOMAIN Empty = {}
BY FS_EmptySet DEF IsConfig, Empty

\* A device that has just been seen is not too old for any threshold.
LEMMA SeenIsYoung == ASSUME NEW d, d.age = 0, NEW n \in Int PROVE ~TooOld(d, n)
<1>1. n > 0 /\ PollDuration > 0 => n * PollDuration + TimeBuffer >= 0
  BY MergeAssumption
<1>2. 0 + TimeBuffer \in Int /\ n * PollDuration + TimeBuffer \in Int
  BY MergeAssumption
<1> QED
  BY <1>1, <1>2 DEF TooOld


-----------------------------------------------------------------------------
(* The scan.                                                               *)

\* The addresses that hold a token.
Running == {h \in Hosts : check[h] = "running"}

\* The agent starts idle, with the file as the user wrote it.
LEMMA InitInv == Init => IInv
<1> SUFFICES ASSUME Init PROVE IInv
  OBVIOUS
<1>1. TypeOK
  BY MergeAssumption, InputAssumption, EmptyConfig DEF Init, TypeOK, Empty
<1>2. TokensReturned
  <2>1. {h \in Hosts : check[h] = "running"} = {}
    BY DEF Init
  <2> QED
    BY <2>1, FS_EmptySet, MergeAssumption DEF Init, TokensReturned
<1>3. phase = "idle" /\ verdict = "none"
  BY DEF Init
<1> QED
  BY <1>1, <1>2, <1>3 DEF IInv, MergeInv, AddedIsNet, DevicesKept, AnswersKept, DiscoveredStay,
     EnginesUnique, OverrideHonoured, InMerge, Loops, Reads, Fresh, EnginesSoFar

\* The parts of the invariant that are about the devices.
OfDevices == AddedIsNet /\ DevicesKept /\ Loops /\ Reads /\ Fresh /\ EnginesSoFar

\* Tokens move between the channel and the goroutines.
LEMMA ScanSteps ==
  ASSUME IInv, NEW h \in Hosts,
         TakeToken(h) \/ HostFails(h) \/ \E ans \in Answers[h] : HostAnswers(h, ans)
  PROVE  IInv'
<1> USE MergeAssumption, InputAssumption
<1>0. TypeOK /\ TokensReturned /\ Reads
  BY DEF IInv, MergeInv
<1>1. /\ UNCHANGED <<file, phase, mergeVars, rounds, verdict>> /\ phase = "scan"
  BY DEF TakeToken, HostFails, HostAnswers
<1>2. OfDevices'
  <2>1. Reads' /\ (phase \notin {"add", "dedup", "purge", "save"})'
    BY <1>0, <1>1 DEF Reads, InMerge, mergeVars
  <2> QED
    BY <2>1 DEF OfDevices, AddedIsNet, DevicesKept, AnswersKept, DiscoveredStay, EnginesUnique,
       OverrideHonoured, InMerge, Loops, Fresh, EnginesSoFar
<1>3. IsFiniteSet(Running) /\ Cardinality(Running) \in Nat /\ ctl + Cardinality(Running) = Threads
      /\ check \in [Hosts -> {"none", "queued", "running", "done"}] /\ ctl \in 0 .. Threads
  <2>1. IsFiniteSet(Running)
    BY FS_Subset DEF Running
  <2> QED
    BY <1>0, <2>1, FS_CardinalityType DEF TokensReturned, TypeOK, Running
<1>4. /\ check' \in [Hosts -> {"none", "queued", "running", "done"}] /\ ctl' \in 0 .. Threads
      /\ TokensReturned'
  <2>1. CASE TakeToken(h)
    <3>1. check' = [check EXCEPT ![h] = "running"] /\ ctl' = ctl - 1 /\ ctl > 0 /\ h \notin Running
      BY <2>1 DEF TakeToken, Running
    <3>2. Running' = Running \cup {h}
      BY <1>3, <3>1 DEF Running
    <3>3. Cardinality(Running \cup {h}) = Cardinality(Running) + 1
      BY <1>3, <3>1, FS_AddElement
    <3>4. ctl' + Cardinality(Running') = Threads /\ ctl' \in 0 .. Threads
      BY <1>3, <3>1, <3>2, <3>3
    <3> QED
      BY <1>3, <3>1, <3>4 DEF TokensReturned, Running
  <2>2. CASE ~TakeToken(h)
    <3>1. check' = [check EXCEPT ![h] = "done"] /\ ctl' = ctl + 1 /\ h \in Running
      BY <2>2 DEF HostFails, HostAnswers, Running
    <3>2. Running' = Running \ {h}
      BY <1>3, <3>1 DEF Running
    <3>3. Cardinality(Running \ {h}) = Cardinality(Running) - 1
          /\ Cardinality(Running \ {h}) \in Nat
      BY <1>3, <3>1, FS_RemoveElement, FS_CardinalityType
    <3>4. ctl' + Cardinality(Running') = Threads /\ ctl' \in 0 .. Threads
      BY <1>3, <3>1, <3>2, <3>3
    <3> QED
      BY <1>3, <3>1, <3>4 DEF TokensReturned, Running
  <2> QED
    BY <2>1, <2>2
<1>5. /\ DOMAIN found' \subseteq Hosts
      /\ \A x \in DOMAIN found' : found'[x] \in Names \X (Engines \cup {NoEngine})
  <2>1. CASE UNCHANGED found
    BY <1>0, <2>1 DEF TypeOK
  <2>2. CASE \E ans \in Answers[h] : HostAnswers(h, ans)
    BY <1>0, <2>2 DEF TypeOK, HostAnswers, With
  <2> QED
    BY <2>1, <2>2 DEF TakeToken, HostFails
<1>6. TypeOK'
  BY <1>0, <1>1, <1>4, <1>5 DEF TypeOK, mergeVars
<1> QED
  BY <1>2, <1>4, <1>6 DEF IInv, MergeInv, OfDevices

\* A discovery begins: every token is there and the file has been read.
LEMMA DiscoverInv == ASSUME IInv, NEW up \in SUBSET Hosts, Discover(up) PROVE IInv'
<1> USE MergeAssumption, InputAssumption
<1>0. TypeOK
  BY DEF IInv, MergeInv
<1>1. TypeOK'
  BY <1>0 DEF TypeOK, Discover, Empty
<1>2. TokensReturned'
  <2>1. Running' = {} /\ ctl' = Threads
    BY DEF Discover, Running
  <2>2. ctl' + Cardinality(Running') = Threads
    BY <2>1, FS_EmptySet
  <2> QED
    BY <2>2 DEF TokensReturned, Running
<1>3. phase' = "scan" /\ Reads'
  BY DEF Discover, Reads, InMerge
<1>4. OfDevices'
  BY <1>3 DEF OfDevices, AddedIsNet, DevicesKept, AnswersKept, DiscoveredStay, EnginesUnique,
     OverrideHonoured, InMerge, Loops, Fresh, EnginesSoFar
<1> QED
  BY <1>1, <1>2, <1>4 DEF IInv, MergeInv, OfDevices

\* Steps that end a discovery, or between two of them.
LEMMA EndSteps ==
  ASSUME IInv, ScanFails \/ Save \/ SaveFails \/ Wait \/ \E k \in Keys : PurgeInvalid(k)
  PROVE  IInv'
<1> USE MergeAssumption, InputAssumption
<1>0. TypeOK /\ TokensReturned /\ Reads
  BY DEF IInv, MergeInv
<1>1. UNCHANGED <<scanVars, mergeVars, rounds>> /\ phase' = "done"
      /\ (verdict' \in {"reload", "same", "error"} \/ (phase = "done" /\ UNCHANGED verdict))
  BY DEF ScanFails, Save, SaveFails, Wait, PurgeInvalid
<1>2. IsConfig(file')
  <2>1. CASE Wait
    <3>1. /\ DOMAIN file' = DOMAIN file
          /\ \A k \in DOMAIN file : file'[k] = [file[k] EXCEPT !.age = IF @ < MaxAge THEN @ + 1 ELSE @]
      BY <2>1 DEF Wait
    <3>2. \A k \in DOMAIN file : file[k] \in Devices
      BY <1>0 DEF TypeOK, IsConfig
    <3>3. \A k \in DOMAIN file : file'[k] \in Devices
      BY <3>1, <3>2 DEF Devices
    <3>4. file' \in [DOMAIN file -> Devices]
      BY <2>1, <3>1, <3>3 DEF Wait
    <3> QED
      BY <1>0, <3>1, <3>4 DEF TypeOK, IsConfig
  <2>2. CASE ~Wait
    BY <1>0, <2>2 DEF ScanFails, Save, SaveFails, PurgeInvalid, TypeOK
  <2> QED
    BY <2>1, <2>2
<1>3. TypeOK'
  BY <1>0, <1>1, <1>2 DEF TypeOK, scanVars, mergeVars
<1>4. TokensReturned' /\ Reads'
  BY <1>0, <1>1 DEF TokensReturned, scanVars, Reads, InMerge
<1>5. OfDevices'
  BY <1>1, <1>4 DEF OfDevices, AddedIsNet, DevicesKept, AnswersKept, DiscoveredStay, EnginesUnique,
     OverrideHonoured, InMerge, Loops, Fresh, EnginesSoFar
<1> QED
  BY <1>3, <1>4, <1>5 DEF IInv, MergeInv, OfDevices


-----------------------------------------------------------------------------
(* addDevices.                                                             *)

\* The scan is over: nothing is merged yet.
LEMMA AddInv == ASSUME IInv, NEW s \in Settings, AddDevices(s) PROVE IInv'
<1> USE InputAssumption
<1>0. TypeOK /\ TokensReturned /\ Reads
  BY DEF IInv, MergeInv
<1>1. /\ phase = "scan" /\ phase' = "add" /\ UNCHANGED <<file, scanVars, devs, rounds, verdict>>
      /\ orig' = devs /\ todo' = DOMAIN found /\ added' = 0 /\ byEngine' = {} /\ removeNum' = 0
      /\ touched' = {} /\ dropped' = {} /\ purged' = {} /\ settings' = s
  BY DEF AddDevices, ScanOver
<1>2. TypeOK'
  <2>1. byIP' \subseteq Hosts
    BY <1>0 DEF AddDevices, TypeOK, IsConfig, Devices
  <2> QED
    BY <1>0, <1>1, <2>1 DEF TypeOK, scanVars
<1>3. TokensReturned' /\ Reads' /\ Loops' /\ Fresh' /\ EnginesSoFar'
  BY <1>0, <1>1 DEF TokensReturned, Reads, Loops, Fresh, EnginesSoFar, InMerge, scanVars
<1>4. AddedIsNet'
  BY <1>0, <1>1, FS_CardinalityType DEF AddedIsNet, TypeOK, IsConfig
<1>5. DevicesKept'
  BY <1>1 DEF DevicesKept, AnswersKept, DiscoveredStay, EnginesUnique, OverrideHonoured
<1> QED
  BY <1>2, <1>3, <1>4, <1>5 DEF IInv, MergeInv

\* The key an answer is merged under names the host, or is a bare name.
LEMMA MergeKeyIs ==
  ASSUME NEW h \in Hosts, found[h] \in Names \X (Engines \cup {NoEngine})
  PROVE  MergeKey(h) \in Keys /\ MergeKey(h)[2] \in {NoHost, h}
BY DEF MergeKey, Keys, Plain, Alt

\* What is merged is a device that has just been seen, at the host's address.
LEMMA MergedDevice ==
  ASSUME NEW h \in Hosts, found[h] \in Names \X (Engines \cup {NoEngine}), NEW old \in Devices
  PROVE  /\ NewDevice(h) \in Devices /\ NewDevice(h).age = 0 /\ NewDevice(h).ip = h
         /\ UpdateFrom(NewDevice(h), old) \in Devices
         /\ UpdateFrom(NewDevice(h), old).age = 0 /\ UpdateFrom(NewDevice(h), old).ip = h
BY MergeAssumption DEF NewDevice, UpdateFrom, Devices

\* One answer is merged: its entry is fresh and keeps its address if the key
\* names one, and the others are left alone.
LEMMA MergeEffect ==
  ASSUME TypeOK, Loops, NEW h \in Hosts, MergeOne(h), NEW k, k = MergeKey(h)
  PROVE  /\ k \in Keys /\ IsConfig(devs') /\ added' \in Int
         /\ DOMAIN devs' = DOMAIN devs \cup {k} /\ devs'[k].age = 0
         /\ \A l \in DOMAIN devs \ {k} : devs'[l] = devs[l]
         /\ (k \in DOMAIN devs /\ k[2] # NoHost /\ devs[k].ip = k[2]) => devs'[k].ip = k[2]
         /\ added' - Cardinality(DOMAIN devs') = added - Cardinality(DOMAIN devs)
         /\ Cardinality(DOMAIN devs) \in Nat /\ Cardinality(DOMAIN devs') \in Nat
<1>1. found[h] \in Names \X (Engines \cup {NoEngine}) /\ IsConfig(devs) /\ added \in Int
  BY DEF TypeOK, Loops, MergeOne
<1>2. k \in Keys /\ k[2] \in {NoHost, h}
  BY <1>1, MergeKeyIs
<1>3. /\ IsFiniteSet(DOMAIN devs) /\ Cardinality(DOMAIN devs) \in Nat
      /\ \A l \in DOMAIN devs : devs[l] \in Devices
  BY <1>1, FS_CardinalityType DEF IsConfig
<1>4. ASSUME NEW d \in Devices, d.age = 0, d.ip = h, devs' = With(devs, k, d),
             added' = IF k \in DOMAIN devs THEN added ELSE added + 1
      PROVE  /\ IsConfig(devs') /\ added' \in Int
             /\ DOMAIN devs' = DOMAIN devs \cup {k} /\ devs'[k].age = 0 /\ devs'[k].ip = h
             /\ \A l \in DOMAIN devs \ {k} : devs'[l] = devs[l]
             /\ added' - Cardinality(DOMAIN devs') = added - Cardinality(DOMAIN devs)
             /\ Cardinality(DOMAIN devs') \in Nat
  <2>1. /\ IsConfig(With(devs, k, d)) /\ DOMAIN With(devs, k, d) = DOMAIN devs \cup {k}
        /\ With(devs, k, d)[k] = d /\ \A l \in DOMAIN devs \ {k} : With(devs, k, d)[l] = devs[l]
        /\ Cardinality(DOMAIN With(devs, k, d)) =
             IF k \in DOMAIN devs THEN Cardinality(DOMAIN devs) ELSE Cardinality(DOMAIN devs) + 1
    <3>1. IsConfig(With(devs, k, d))
          /\ Cardinality(DOMAIN With(devs, k, d)) =
             IF k \in DOMAIN devs THEN Cardinality(DOMAIN devs) ELSE Cardinality(DOMAIN devs) + 1
      BY <1>1, <1>2, WithConfig
    <3>2. /\ DOMAIN With(devs, k, d) = DOMAIN devs \cup {k} /\ With(devs, k, d)[k] = d
          /\ \A l \in DOMAIN devs \ {k} : With(devs, k, d)[l] = devs[l]
      BY DEF With
    <3> QED
      BY <3>1, <3>2
  <2>2. /\ added' - Cardinality(DOMAIN devs') = added - Cardinality(DOMAIN devs)
        /\ added' \in Int /\ Cardinality(DOMAIN devs') \in Nat
    BY <1>1, <1>3, <1>4, <2>1
  <2> QED
    BY <1>4, <2>1, <2>2
<1>5. CASE k \notin DOMAIN devs
  <2>1. devs' = With(devs, k, NewDevice(h)) /\ added' = added + 1
    BY <1>5 DEF MergeOne
  <2>2. NewDevice(h) \in Devices /\ NewDevice(h).age = 0 /\ NewDevice(h).ip = h
    BY <1>1, MergeAssumption DEF NewDevice, Devices
  <2> QED
    BY <1>2, <1>3, <1>4, <1>5, <2>1, <2>2
<1>6. CASE k \in DOMAIN devs /\ settings.replace
  <2>1. devs' = With(devs, k, UpdateFrom(NewDevice(h), devs[k])) /\ added' = added
    BY <1>6 DEF MergeOne
  <2>2. /\ UpdateFrom(NewDevice(h), devs[k]) \in Devices
        /\ UpdateFrom(NewDevice(h), devs[k]).age = 0 /\ UpdateFrom(NewDevice(h), devs[k]).ip = h
    BY <1>1, <1>3, <1>6, MergedDevice
  <2> QED
    BY <1>2, <1>3, <1>4, <1>6, <2>1, <2>2
<1>7. CASE k \in DOMAIN devs /\ ~settings.replace
  <2>1. devs' = [devs EXCEPT ![k].age = 0] /\ added' = added
    BY <1>7 DEF MergeOne
  <2>2. devs \in [DOMAIN devs -> Devices]
    BY <1>1 DEF IsConfig
  <2>3. [devs[k] EXCEPT !.age = 0] \in Devices /\ [devs[k] EXCEPT !.age = 0].age = 0
        /\ [devs[k] EXCEPT !.age = 0].ip = devs[k].ip
    BY <1>3, <1>7, MergeAssumption DEF Devices
  <2>4. /\ devs' \in [DOMAIN devs -> Devices] /\ devs'[k] = [devs[k] EXCEPT !.age = 0]
        /\ \A l \in DOMAIN devs \ {k} : devs'[l] = devs[l]
    BY <1>7, <2>1, <2>2, <2>3
  <2>5. DOMAIN devs' = DOMAIN devs /\ DOMAIN devs \cup {k} = DOMAIN devs /\ IsConfig(devs')
    BY <1>1, <1>7, <2>4 DEF IsConfig
  <2> QED
    BY <1>1, <1>2, <1>3, <2>1, <2>3, <2>4, <2>5
<1> QED
  BY <1>5, <1>6, <1>7

\* One answer is merged.
LEMMA MergeOneInv == ASSUME IInv, NEW h \in Hosts, MergeOne(h) PROVE IInv'
<1> DEFINE k == MergeKey(h)
<1>0. TypeOK /\ TokensReturned /\ Loops /\ phase = "add" /\ InMerge /\ h \in todo
  BY DEF IInv, MergeInv, MergeOne, InMerge
<1>1. /\ UNCHANGED <<file, phase, scanVars, settings, byIP, byEngine, removeNum, orig,
                     dropped, purged, rounds, verdict>>
      /\ todo' = todo \ {h} /\ touched' = touched \cup {k} /\ InMerge'
  BY DEF MergeOne, InMerge
<1>2. /\ k \in Keys /\ IsConfig(devs') /\ added' \in Int
      /\ DOMAIN devs' = DOMAIN devs \cup {k} /\ devs'[k].age = 0
      /\ \A l \in DOMAIN devs \ {k} : devs'[l] = devs[l]
      /\ (k \in DOMAIN devs /\ k[2] # NoHost /\ devs[k].ip = k[2]) => devs'[k].ip = k[2]
      /\ added' - Cardinality(DOMAIN devs') = added - Cardinality(DOMAIN devs)
      /\ Cardinality(DOMAIN devs) \in Nat /\ Cardinality(DOMAIN devs') \in Nat
  BY <1>0, MergeEffect
<1> HIDE DEF k
<1>3. TypeOK' /\ TokensReturned'
  BY <1>0, <1>1, <1>2 DEF TypeOK, TokensReturned, scanVars
<1>4. Loops' /\ Reads' /\ EnginesSoFar'
  BY <1>0, <1>1, <1>2 DEF IInv, Loops, Reads, EnginesSoFar, InMerge, scanVars
<1>5. AddedIsNet'
  <2>1. added \in Int /\ added = Cardinality(DOMAIN devs) - Cardinality(DOMAIN orig)
        /\ Cardinality(DOMAIN orig) \in Nat
    BY <1>0, FS_CardinalityType DEF IInv, MergeInv, AddedIsNet, TypeOK, IsConfig
  <2>2. added' = Cardinality(DOMAIN devs') - Cardinality(DOMAIN orig)
    BY <1>2, <2>1
  <2> QED
    BY <1>1, <2>2 DEF AddedIsNet
<1>6. Fresh'
  BY <1>0, <1>1, <1>2 DEF IInv, Fresh, Loops
<1>7. AnswersKept'
  BY <1>0, <1>1, <1>2 DEF IInv, DevicesKept, AnswersKept
<1>8. DiscoveredStay'
  BY <1>0, <1>1, <1>2 DEF IInv, DevicesKept, DiscoveredStay
<1>9. EnginesUnique' /\ OverrideHonoured'
  BY <1>0, <1>1 DEF IInv, DevicesKept, EnginesUnique, OverrideHonoured, TooOld
<1> QED
  BY <1>3, <1>4, <1>5, <1>6, <1>7, <1>8, <1>9 DEF IInv, MergeInv, DevicesKept


\* The loop over the found devices is over, and the one over duplicates begins.
LEMMA StartDedupInv == ASSUME IInv, StartDedup PROVE IInv'
<1>1. /\ UNCHANGED <<file, scanVars, devs, settings, byIP, byEngine, removeNum, added, orig,
                     touched, dropped, purged, rounds, verdict>>
      /\ phase = "add" /\ phase' = "dedup" /\ todo' = DOMAIN devs /\ InMerge /\ InMerge'
  BY DEF StartDedup, InMerge
<1>2. TypeOK' /\ TokensReturned'
  BY <1>1 DEF IInv, MergeInv, TypeOK, TokensReturned, scanVars, IsConfig
<1>3. Loops' /\ Reads' /\ Fresh' /\ EnginesSoFar'
  BY <1>1 DEF IInv, Loops, Reads, Fresh, EnginesSoFar, Visited
<1>4. AddedIsNet' /\ DevicesKept'
  BY <1>1 DEF IInv, MergeInv, AddedIsNet, DevicesKept, AnswersKept, DiscoveredStay, EnginesUnique,
     OverrideHonoured, TooOld
<1> QED
  BY <1>2, <1>3, <1>4 DEF IInv, MergeInv

\* The duplicate loop is over: what held of the visited devices holds of all.
LEMMA StartPurgeInv == ASSUME IInv, StartPurge PROVE IInv'
<1>1. /\ UNCHANGED <<file, scanVars, devs, settings, byIP, byEngine, added, orig,
                     touched, dropped, purged, rounds, verdict>>
      /\ phase = "dedup" /\ phase' = "purge" /\ todo = {} /\ todo' = DOMAIN devs
      /\ removeNum' = settings.purge /\ InMerge /\ InMerge'
  BY DEF StartPurge, InMerge
<1>2. TypeOK' /\ TokensReturned'
  BY <1>1 DEF IInv, MergeInv, TypeOK, TokensReturned, scanVars, IsConfig, SettingValues
<1>3. Loops' /\ Reads' /\ Fresh' /\ EnginesSoFar'
  BY <1>1 DEF IInv, Loops, Reads, Fresh, EnginesSoFar
<1>4. EnginesUnique'
  <2>1. Visited = DOMAIN devs
    BY <1>1 DEF Visited
  <2> QED
    BY <1>1, <2>1 DEF IInv, EnginesSoFar, EnginesUnique
<1>5. AddedIsNet' /\ AnswersKept' /\ DiscoveredStay' /\ OverrideHonoured'
  BY <1>1 DEF IInv, MergeInv, AddedIsNet, DevicesKept, AnswersKept, DiscoveredStay,
     OverrideHonoured, TooOld
<1> QED
  BY <1>2, <1>3, <1>4, <1>5 DEF IInv, MergeInv, DevicesKept

\* The purge loop is over.
LEMMA FinishPurgeInv == ASSUME IInv, FinishPurge PROVE IInv'
<1>1. /\ UNCHANGED <<file, scanVars, mergeVars, rounds, verdict>>
      /\ phase = "purge" /\ phase' = "save" /\ InMerge /\ InMerge'
  BY DEF FinishPurge, InMerge
<1>2. TypeOK' /\ TokensReturned'
  BY <1>1 DEF IInv, MergeInv, TypeOK, TokensReturned, scanVars, mergeVars
<1>3. Loops' /\ Reads' /\ Fresh' /\ EnginesSoFar'
  BY <1>1 DEF IInv, Loops, Reads, Fresh, EnginesSoFar, mergeVars
<1>4. AddedIsNet' /\ DevicesKept'
  BY <1>1 DEF IInv, MergeInv, AddedIsNet, DevicesKept, AnswersKept, DiscoveredStay, EnginesUnique,
     OverrideHonoured, TooOld, mergeVars
<1> QED
  BY <1>2, <1>3, <1>4 DEF IInv, MergeInv

\* The duplicate loop or the purge loop takes an entry out.
LEMMA RemovalKeeps ==
  ASSUME IInv, InMerge, InMerge', NEW k \in DOMAIN devs, devs' = Without(devs, k),
         added' = added - 1, UNCHANGED orig
  PROVE  /\ IsConfig(devs') /\ added' \in Int /\ AddedIsNet'
         /\ DOMAIN devs' = DOMAIN devs \ {k}
         /\ \A l \in DOMAIN devs \ {k} : devs'[l] = devs[l]
<1>1. /\ IsConfig(devs) /\ added \in Int /\ Cardinality(DOMAIN orig) \in Nat
      /\ added = Cardinality(DOMAIN devs) - Cardinality(DOMAIN orig)
  BY FS_CardinalityType DEF IInv, MergeInv, AddedIsNet, TypeOK, IsConfig
<1>2. /\ IsConfig(devs') /\ DOMAIN devs' = DOMAIN devs \ {k}
      /\ \A l \in DOMAIN devs \ {k} : devs'[l] = devs[l]
      /\ Cardinality(DOMAIN devs) \in Nat
      /\ Cardinality(DOMAIN devs') = Cardinality(DOMAIN devs) - 1
  BY <1>1, WithoutConfig
<1>3. added' = Cardinality(DOMAIN devs') - Cardinality(DOMAIN orig')
  BY <1>1, <1>2
<1> QED
  BY <1>1, <1>2, <1>3 DEF AddedIsNet

\* One device of the duplicate loop.
LEMMA DedupInv == ASSUME IInv, NEW k \in Keys, DedupOne(k) PROVE IInv'
<1>0. TypeOK /\ TokensReturned /\ Loops /\ phase = "dedup" /\ InMerge /\ k \in todo /\ k \in DOMAIN devs
  BY DEF IInv, MergeInv, DedupOne, InMerge, Loops
<1>1. /\ UNCHANGED <<file, phase, scanVars, settings, byIP, removeNum, orig, touched, purged,
                     rounds, verdict>>
      /\ todo' = todo \ {k} /\ InMerge'
  BY <1>0 DEF DedupOne, InMerge
<1>2. CASE /\ ~settings.noDedup /\ devs[k].engine # NoEngine /\ devs[k].engine \in byEngine
           /\ devs' = Without(devs, k) /\ added' = added - 1 /\ dropped' = dropped \cup {k}
           /\ UNCHANGED byEngine
  <2>1. /\ IsConfig(devs') /\ added' \in Int /\ AddedIsNet'
        /\ DOMAIN devs' = DOMAIN devs \ {k}
        /\ \A l \in DOMAIN devs \ {k} : devs'[l] = devs[l]
    BY <1>0, <1>1, <1>2, RemovalKeeps
  <2>2. TypeOK' /\ TokensReturned'
    BY <1>0, <1>1, <1>2, <2>1 DEF TypeOK, TokensReturned, scanVars
  <2>3. Loops' /\ Reads' /\ Fresh'
    BY <1>0, <1>1, <1>2, <2>1 DEF IInv, Loops, Reads, Fresh
  <2>4. EnginesSoFar'
    <3>1. Visited' = Visited /\ \A l \in Visited : devs'[l] = devs[l]
      BY <1>0, <1>1, <2>1 DEF Visited
    <3> QED
      BY <1>0, <1>1, <1>2, <3>1 DEF IInv, EnginesSoFar
  <2>5. DevicesKept'
    BY <1>0, <1>1, <1>2, <2>1 DEF IInv, DevicesKept, AnswersKept, DiscoveredStay, EnginesUnique,
       OverrideHonoured, TooOld
  <2> QED
    BY <2>1, <2>2, <2>3, <2>4, <2>5 DEF IInv, MergeInv
<1>3. CASE /\ UNCHANGED <<devs, added, dropped>>
           /\ \/ (settings.noDedup \/ devs[k].engine = NoEngine) /\ UNCHANGED byEngine
              \/ /\ ~settings.noDedup /\ devs[k].engine # NoEngine /\ devs[k].engine \notin byEngine
                 /\ byEngine' = byEngine \cup {devs[k].engine}
  <2>1. TypeOK' /\ TokensReturned'
    BY <1>0, <1>1, <1>3 DEF TypeOK, TokensReturned, scanVars, IsConfig, Devices
  <2>2. Loops' /\ Reads' /\ Fresh'
    BY <1>0, <1>1, <1>3 DEF IInv, Loops, Reads, Fresh
  <2>3. EnginesSoFar'
    <3>1. Visited' = Visited \cup {k} /\ k \notin Visited
      BY <1>0, <1>1, <1>3 DEF Visited
    <3>2. NoEngine \notin byEngine
      BY <1>0, MergeAssumption DEF TypeOK
    <3> QED
      BY <1>0, <1>1, <1>3, <3>1, <3>2 DEF IInv, EnginesSoFar
  <2>4. AddedIsNet' /\ DevicesKept'
    BY <1>0, <1>1, <1>3 DEF IInv, MergeInv, AddedIsNet, DevicesKept, AnswersKept, DiscoveredStay,
       EnginesUnique, OverrideHonoured, TooOld
  <2> QED
    BY <2>1, <2>2, <2>3, <2>4 DEF IInv, MergeInv
<1> QED
  BY <1>2, <1>3 DEF DedupOne

\* One device of the purge loop: it is none that answered, and if it has a
\* number of its own, that is the number it is judged by.
LEMMA PurgeInv == ASSUME IInv, NEW k \in Keys, PurgeOne(k) PROVE IInv'
<1> DEFINE n == Threshold(k)
<1>0. TypeOK /\ TokensReturned /\ Loops /\ phase = "purge" /\ InMerge /\ k \in todo /\ k \in DOMAIN devs
  BY DEF IInv, MergeInv, PurgeOne, InMerge, Loops
<1>1. /\ UNCHANGED <<file, phase, scanVars, settings, byIP, byEngine, orig, touched, dropped,
                     rounds, verdict>>
      /\ todo' = todo \ {k} /\ removeNum' = n /\ InMerge'
  BY <1>0 DEF PurgeOne, InMerge
<1>2. n \in Int /\ (devs[k].purge # 0 => n = devs[k].purge)
  BY <1>0 DEF TypeOK, IsConfig, Devices, Threshold
<1>3. CASE /\ TooOld(devs[k], n)
           /\ devs' = Without(devs, k) /\ added' = added - 1 /\ purged' = purged \cup {k}
  <2>1. /\ IsConfig(devs') /\ added' \in Int /\ AddedIsNet'
        /\ DOMAIN devs' = DOMAIN devs \ {k}
        /\ \A l \in DOMAIN devs \ {k} : devs'[l] = devs[l]
    BY <1>0, <1>1, <1>3, RemovalKeeps
  <2>2. TypeOK' /\ TokensReturned'
    BY <1>0, <1>1, <1>2, <1>3, <2>1 DEF TypeOK, TokensReturned, scanVars
  <2>3. Loops' /\ Reads' /\ Fresh' /\ EnginesSoFar'
    BY <1>0, <1>1, <1>3, <2>1 DEF IInv, Loops, Reads, Fresh, EnginesSoFar
  <2>4. k \notin touched
    BY <1>0, <1>2, <1>3, SeenIsYoung DEF IInv, Fresh
  <2>5. AnswersKept' /\ DiscoveredStay'
    BY <1>0, <1>1, <1>3, <2>1, <2>4 DEF IInv, DevicesKept, AnswersKept, DiscoveredStay
  <2>6. EnginesUnique'
    BY <1>0, <1>1, <1>3, <2>1 DEF IInv, DevicesKept, EnginesUnique
  <2>7. OverrideHonoured'
    <3>1. (k \in DOMAIN orig /\ orig[k].purge # 0) => TooOld(orig[k], orig[k].purge)
      BY <1>0, <1>2, <1>3, <2>4 DEF IInv, Fresh
    <3>2. \A l \in purged \cap DOMAIN orig : orig[l].purge # 0 => TooOld(orig[l], orig[l].purge)
      BY <1>0 DEF IInv, DevicesKept, OverrideHonoured
    <3> QED
      BY <1>1, <1>3, <3>1, <3>2 DEF OverrideHonoured, TooOld
  <2> QED
    BY <2>1, <2>2, <2>3, <2>5, <2>6, <2>7 DEF IInv, MergeInv, DevicesKept
<1>4. CASE UNCHANGED <<devs, added, purged>>
  <2>1. TypeOK' /\ TokensReturned'
    BY <1>0, <1>1, <1>2, <1>4 DEF TypeOK, TokensReturned, scanVars
  <2>2. Loops' /\ Reads' /\ Fresh' /\ EnginesSoFar'
    BY <1>0, <1>1, <1>4 DEF IInv, Loops, Reads, Fresh, EnginesSoFar
  <2>3. AddedIsNet' /\ DevicesKept'
    BY <1>0, <1>1, <1>4 DEF IInv, MergeInv, AddedIsNet, DevicesKept, AnswersKept, DiscoveredStay,
       EnginesUnique, OverrideHonoured, TooOld
  <2> QED
    BY <2>1, <2>2, <2>3 DEF IInv, MergeInv
<1> QED
  BY <1>3, <1>4 DEF PurgeOne

-----------------------------------------------------------------------------
(* The theorems.                                                           *)

\* Every step keeps the invariant.
LEMMA Inductive == IInv /\ [Next]_vars => IInv'
<1> SUFFICES ASSUME IInv, [Next]_vars PROVE IInv'
  OBVIOUS
<1>1. CASE UNCHANGED vars
  <2>1. UNCHANGED <<file, phase, scanVars, mergeVars, rounds, verdict>>
    BY <1>1 DEF vars
  <2>2. TypeOK' /\ TokensReturned' /\ Loops' /\ Reads' /\ Fresh' /\ EnginesSoFar'
    BY <2>1 DEF IInv, MergeInv, TypeOK, TokensReturned, Loops, Reads, Fresh, EnginesSoFar, Visited,
       InMerge, scanVars, mergeVars
  <2>3. AddedIsNet' /\ DevicesKept'
    BY <2>1 DEF IInv, MergeInv, AddedIsNet, DevicesKept, AnswersKept, DiscoveredStay,
       EnginesUnique, OverrideHonoured, TooOld, InMerge, mergeVars
  <2> QED
    BY <2>2, <2>3 DEF IInv, MergeInv
<1>2. CASE Scan
  BY <1>2, DiscoverInv, ScanSteps DEF Scan
<1>3. CASE Merge
  BY <1>3, AddInv, MergeOneInv, StartDedupInv, DedupInv, StartPurgeInv, PurgeInv, FinishPurgeInv,
     EndSteps DEF Merge
<1>4. CASE ScanFails \/ SaveFails \/ Wait
  BY <1>4, EndSteps
<1> QED
  BY <1>1, <1>2, <1>3, <1>4 DEF Next

\* The invariant holds throughout.
LEMMA Invariance == Spec => []IInv
BY InitInv, Inductive, PTL DEF Spec

\* For every order of the map loops, the scan gives its tokens back and
\* stats.added is the net change of the number of devices.
THEOREM BooksBalance == Spec => []MergeInv
BY Invariance, PTL DEF IInv

\* For every order of the map loops, no discovery loses a device that
\* answered, another address's entry, or one within its own purge number, and
\* it leaves each engine id exactly once.
THEOREM NoDeviceLost == Spec => []DevicesKept
BY Invariance, PTL DEF IInv

\* One step of the merge is a step of Discovery, or none: only Save answers
\* with a verdict on a configuration, and added adds nothing to delta.
LEMMA StepRefines ==
  ASSUME IInv, IInv', [Next]_vars
  PROVE  [D!Begin \/ D!Merged \/ D!Failed]_<<DOMAIN file, verdict>>
<1>0. /\ IsConfig(file) /\ IsConfig(file') /\ Reads
      /\ DOMAIN file \in SUBSET Keys /\ DOMAIN file' \in SUBSET Keys
  BY DEF IInv, MergeInv, TypeOK, IsConfig
<1>1. CASE Save
  <2>1. /\ verdict = "none" /\ orig = file /\ file' = devs
        /\ added = Cardinality(DOMAIN devs) - Cardinality(DOMAIN orig)
        /\ Cardinality(DOMAIN devs) \in Nat /\ Cardinality(DOMAIN orig) \in Nat
    BY <1>0, <1>1, FS_CardinalityType DEF Save, Reads, InMerge, IInv, MergeInv, AddedIsNet, TypeOK,
       IsConfig
  <2>2. WantsReload(Cardinality(DOMAIN orig) - Cardinality(DOMAIN devs), added)
        <=> Cardinality(DOMAIN devs) # Cardinality(DOMAIN orig)
    BY <2>1 DEF WantsReload
  <2>3. verdict' = D!Verdict(DOMAIN file, DOMAIN file')
    <3>1. D!Verdict(DOMAIN file, DOMAIN file')
            = IF Cardinality(DOMAIN devs) # Cardinality(DOMAIN orig) THEN "reload" ELSE "same"
      BY <2>1 DEF D!Verdict, D!Cardinality, Cardinality
    <3> QED
      BY <1>1, <2>2, <3>1 DEF Save
  <2> QED
    BY <1>0, <2>1, <2>3 DEF D!Merged
<1>2. CASE ScanFails \/ SaveFails \/ \E k \in Keys : PurgeInvalid(k)
  <2>1. verdict = "none" /\ verdict' = "error"
    BY <1>0, <1>2 DEF ScanFails, ScanOver, SaveFails, PurgeInvalid, Reads
  <2> QED
    BY <1>0, <2>1 DEF D!Failed
<1>3. CASE Wait
  BY <1>3 DEF Wait
<1>4. CASE \E up \in SUBSET Hosts : Discover(up)
  BY <1>4 DEF Discover, D!Begin
<1>5. CASE UNCHANGED <<file, verdict>>
  BY <1>5
<1>6. CASE vars' = vars
  BY <1>5, <1>6 DEF vars
<1> QED
  BY <1>1, <1>2, <1>3, <1>4, <1>5, <1>6 DEF Next, Scan, Merge, TakeToken, HostFails, HostAnswers,
     AddDevices, MergeOne, StartDedup, DedupOne, StartPurge, PurgeOne, FinishPurge

\* For every order of the map loops: seen by RunDiscoOnTimer a discovery is one
\* of Discovery's, which asks for a restart exactly when the number of saved
\* devices differs from the number before.
THEOREM MergeRefinesDiscovery == Spec => ImplementsDiscovery
<1>1. Init => D!DInit
  BY InitInv DEF Init, D!DInit, IInv, MergeInv, TypeOK, IsConfig
<1>2. IInv /\ IInv' /\ [Next]_vars => [D!Begin \/ D!Merged \/ D!Failed]_<<DOMAIN file, verdict>>
  BY StepRefines
<1> QED
  BY <1>1, <1>2, Invariance, PTL DEF Spec, ImplementsDiscovery, D!DSpec

-----------------------------------------------------------------------------
(* The generations of polling.                                             *)

\* What the place of wrapSnmpPolling says about its generation.
Stages ==
  \A g \in Gens :
    /\ cancelled[g] => main[g] = "done"
    /\ main[g] \in {"wait", "done"} => launch[g] = {}
    /\ loaded[g] >= 0 => main[g] # "none"
    /\ wrote[g] <= version

\* The inductive invariant. SavedIsLoaded needs OneLiveGeneration: a generation
\* loads when every earlier one is cancelled, and wrote is frozen from then on.
GenIInv == GenTypeOK /\ OneLiveGeneration /\ SavedIsLoaded /\ Stages

\* The first generation is about to load.
LEMMA GenInitInv == GenInit => GenIInv
BY GenAssumption DEF GenInit, GenIInv, GenTypeOK, OneLiveGeneration, SavedIsLoaded, Stages, Gens

\* Steps that leave the generations and the version alone.
LEMMA Frame ==
  ASSUME GenIInv, UNCHANGED <<version, genVars, wrote>>
  PROVE  OneLiveGeneration' /\ SavedIsLoaded' /\ Stages'
BY DEF GenIInv, OneLiveGeneration, SavedIsLoaded, Stages, genVars

-----------------------------------------------------------------------------
(* Steps of a generation.                                                  *)

\* A generation that loads is the last one: what it reads is as new as any save.
LEMMA LoadInv == ASSUME GenIInv, NEW g \in Gens, Load(g) PROVE GenIInv'
<1> USE GenAssumption DEF Gens, fileVars, genVars, discoVars, Load
<1>1. GenTypeOK'
  BY SMTT(30) DEF GenIInv, GenTypeOK
<1>2. OneLiveGeneration'
  BY DEF GenIInv, GenTypeOK, OneLiveGeneration, Stages
<1>3. SavedIsLoaded'
  BY DEF GenIInv, GenTypeOK, OneLiveGeneration, SavedIsLoaded, Stages
<1>4. Stages'
  BY DEF GenIInv, GenTypeOK, Stages
<1> QED
  BY <1>1, <1>2, <1>3, <1>4 DEF GenIInv

\* Launching, or failing to.
LEMMA LaunchInv ==
  ASSUME GenIInv, NEW g \in Gens, LoadFails(g) \/ LaunchFails(g) \/ \E k \in DeviceKeys : LaunchSnmp(g, k)
  PROVE  GenIInv'
<1> USE GenAssumption DEF Gens, fileVars, genVars, discoVars, LoadFails, LaunchFails, LaunchSnmp
<1>1. GenTypeOK'
  <2>1. CASE LoadFails(g)
    BY <2>1 DEF GenIInv, GenTypeOK
  <2>2. CASE LaunchFails(g)
    BY <2>2 DEF GenIInv, GenTypeOK
  <2>3. ASSUME NEW k \in DeviceKeys, LaunchSnmp(g, k) PROVE GenTypeOK'
    BY <2>3, SMTT(30) DEF GenIInv, GenTypeOK
  <2> QED
    BY <2>1, <2>2, <2>3
<1>2. OneLiveGeneration'
  <2>1. CASE LoadFails(g)
    BY <2>1, SMTT(30) DEF GenIInv, GenTypeOK, OneLiveGeneration, Stages
  <2>2. CASE LaunchFails(g)
    BY <2>2, SMTT(30) DEF GenIInv, GenTypeOK, OneLiveGeneration, Stages
  <2>3. ASSUME NEW k \in DeviceKeys, LaunchSnmp(g, k) PROVE OneLiveGeneration'
    BY <2>3, SMTT(30) DEF GenIInv, GenTypeOK, OneLiveGeneration, Stages
  <2> QED
    BY <2>1, <2>2, <2>3
<1>3. SavedIsLoaded'
  BY DEF GenIInv, GenTypeOK, OneLiveGeneration, SavedIsLoaded, Stages
<1>4. Stages'
  <2>1. CASE LoadFails(g)
    BY <2>1, SMTT(30) DEF GenIInv, GenTypeOK, Stages
  <2>2. CASE LaunchFails(g)
    BY <2>2, SMTT(30) DEF GenIInv, GenTypeOK, Stages
  <2>3. ASSUME NEW k \in DeviceKeys, LaunchSnmp(g, k) PROVE Stages'
    BY <2>3, SMTT(30) DEF GenIInv, GenTypeOK, Stages
  <2> QED
    BY <2>1, <2>2, <2>3
<1> QED
  BY <1>1, <1>2, <1>3, <1>4 DEF GenIInv

\* The generation is in place and its discovery starts.
LEMMA SuperviseInv == ASSUME GenIInv, NEW g \in Gens, Supervise(g) PROVE GenIInv'
<1> USE GenAssumption DEF Gens, fileVars, genVars, discoVars, Supervise, RunOnStart
<1>1. GenTypeOK'
  BY DEF GenIInv, GenTypeOK
<1>2. OneLiveGeneration'
  BY DEF GenIInv, GenTypeOK, OneLiveGeneration, Stages
<1>3. SavedIsLoaded'
  BY DEF GenIInv, GenTypeOK, OneLiveGeneration, SavedIsLoaded, Stages
<1>4. Stages'
  BY DEF GenIInv, GenTypeOK, Stages
<1> QED
  BY <1>1, <1>2, <1>3, <1>4 DEF GenIInv

\* The generation hands over: no later one can have begun, as it was not done.
LEMMA RestartInv == ASSUME GenIInv, NEW g \in Gens, Restart(g) PROVE GenIInv'
<1> USE GenAssumption DEF Gens
<1>1. g + 1 \in Gens /\ g # g + 1
  BY DEF Restart
<1>2. /\ main' = [main EXCEPT ![g] = "done", ![g + 1] = "start"]
      /\ cancelled' = [cancelled EXCEPT ![g] = TRUE]
      /\ chan' = [chan EXCEPT ![g] = 0]
      /\ UNCHANGED <<conf, version, loaded, launch, polled, watch, disco, base, wrote, events>>
  BY DEF Restart, fileVars, discoVars
<1>3. main[g] = "wait" /\ launch[g] = {} /\ \A h \in Gens : g < h => main[h] = "none"
  BY DEF Restart, GenIInv, GenTypeOK, OneLiveGeneration, Stages
<1>4. GenTypeOK'
  <2>1. main' \in [Gens -> {"none", "start", "launch", "wait", "done"}]
    BY <1>1, <1>2 DEF GenIInv, GenTypeOK
  <2>2. cancelled' \in [Gens -> BOOLEAN] /\ chan' \in [Gens -> 0..1]
    BY <1>2 DEF GenIInv, GenTypeOK
  <2> QED
    BY <2>1, <2>2, <1>2 DEF GenIInv, GenTypeOK
<1>5. OneLiveGeneration'
  BY <1>1, <1>2, <1>3, SMTT(30) DEF GenIInv, GenTypeOK, OneLiveGeneration, Stages
<1>6. SavedIsLoaded'
  BY <1>2 DEF GenIInv, SavedIsLoaded
<1>7. Stages'
  BY <1>1, <1>2, <1>3, SMTT(30) DEF GenIInv, GenTypeOK, Stages
<1> QED
  BY <1>4, <1>5, <1>6, <1>7 DEF GenIInv

\* A poller ends.
LEMMA PollerStopsInv == ASSUME GenIInv, NEW g \in Gens, NEW k \in DeviceKeys, PollerStops(g, k) PROVE GenIInv'
<1> USE GenAssumption DEF Gens, fileVars, genVars, discoVars, PollerStops
<1>1. GenTypeOK'
  BY DEF GenIInv, GenTypeOK
<1>2. OneLiveGeneration'
  BY DEF GenIInv, GenTypeOK, OneLiveGeneration, Stages
<1>3. SavedIsLoaded'
  BY DEF GenIInv, GenTypeOK, OneLiveGeneration, SavedIsLoaded, Stages
<1>4. Stages'
  BY DEF GenIInv, GenTypeOK, Stages
<1> QED
  BY <1>1, <1>2, <1>3, <1>4 DEF GenIInv

-----------------------------------------------------------------------------
(* Signals and discovery.                                                  *)

\* Signals only touch channels and watchers.
LEMMA SignalInv ==
  ASSUME GenIInv, OsSignal \/ \E g \in Gens : ProfileEvent(g) \/ WatcherSends(g) \/ WatcherStops(g)
  PROVE  GenIInv'
<1> USE GenAssumption DEF Gens, fileVars, genVars, discoVars, OsSignal, ProfileEvent, WatcherSends, WatcherStops
<1>1. GenTypeOK'
  <2>1. CASE OsSignal
    BY <2>1 DEF GenIInv, GenTypeOK
  <2>2. ASSUME NEW g \in Gens, ProfileEvent(g) PROVE GenTypeOK'
    BY <2>2 DEF GenIInv, GenTypeOK
  <2>3. ASSUME NEW g \in Gens, WatcherSends(g) PROVE GenTypeOK'
    BY <2>3 DEF GenIInv, GenTypeOK
  <2>4. ASSUME NEW g \in Gens, WatcherStops(g) PROVE GenTypeOK'
    BY <2>4 DEF GenIInv, GenTypeOK
  <2> QED
    BY <2>1, <2>2, <2>3, <2>4
<1>2. UNCHANGED <<version, genVars, wrote>>
  OBVIOUS
<1> QED
  BY <1>1, <1>2, Frame DEF GenIInv

\* A save raises the version; it counts for the generation only while that is
\* current, and then no later one has loaded.
LEMMA DiscoSavesInv == ASSUME GenIInv, NEW g \in Gens, DiscoSaves(g) PROVE GenIInv'
<1> USE GenAssumption DEF Gens, fileVars, genVars, discoVars, DiscoSaves, AfterCheck
<1>1. GenTypeOK'
  BY DEF GenIInv, GenTypeOK
<1>2. OneLiveGeneration'
  BY DEF GenIInv, GenTypeOK, OneLiveGeneration, Stages
<1>3. SavedIsLoaded'
  BY DEF GenIInv, GenTypeOK, OneLiveGeneration, SavedIsLoaded, Stages
<1>4. Stages'
  BY DEF GenIInv, GenTypeOK, Stages
<1> QED
  BY <1>1, <1>2, <1>3, <1>4 DEF GenIInv

\* The other steps of discovery.
LEMMA DiscoInv ==
  ASSUME GenIInv, NEW g \in Gens,
         CheckOnStart(g) \/ TimerTicks(g) \/ DiscoFails(g) \/ DiscoSends(g) \/ DiscoStops(g)
  PROVE  GenIInv'
<1> USE GenAssumption DEF Gens, fileVars, genVars, discoVars, CheckOnStart, TimerTicks, RunDiscovery,
                          DiscoFails, DiscoSends, DiscoStops, AfterCheck
<1>1. GenTypeOK'
  <2>1. CASE RunDiscovery(g)
    BY <2>1 DEF GenIInv, GenTypeOK
  <2>2. CASE DiscoFails(g)
    BY <2>2 DEF GenIInv, GenTypeOK
  <2>3. CASE DiscoSends(g)
    BY <2>3 DEF GenIInv, GenTypeOK
  <2>4. CASE DiscoStops(g)
    BY <2>4 DEF GenIInv, GenTypeOK
  <2> QED
    BY <2>1, <2>2, <2>3, <2>4
<1>2. UNCHANGED <<version, genVars, wrote>>
  OBVIOUS
<1> QED
  BY <1>1, <1>2, Frame DEF GenIInv

\* A user writes the file.
LEMMA UserEditsInv == ASSUME GenIInv, UserEdits PROVE GenIInv'
<1> USE GenAssumption DEF Gens, fileVars, genVars, discoVars, UserEdits
<1>1. GenTypeOK'
  BY DEF GenIInv, GenTypeOK
<1>2. OneLiveGeneration'
  BY DEF GenIInv, GenTypeOK, OneLiveGeneration, Stages
<1>3. SavedIsLoaded'
  BY DEF GenIInv, GenTypeOK, OneLiveGeneration, SavedIsLoaded, Stages
<1>4. Stages'
  BY DEF GenIInv, GenTypeOK, Stages
<1> QED
  BY <1>1, <1>2, <1>3, <1>4 DEF GenIInv

-----------------------------------------------------------------------------

\* Every step keeps the invariant.
LEMMA NextInv == ASSUME GenIInv, [GenNext]_superVars PROVE GenIInv'
<1>1. CASE UNCHANGED superVars
  BY <1>1 DEF GenIInv, GenTypeOK, OneLiveGeneration, SavedIsLoaded, Stages, superVars, fileVars, genVars, discoVars
<1>2. ASSUME NEW g \in Gens, Generation(g) PROVE GenIInv'
  BY <1>2, LoadInv, LaunchInv, SuperviseInv, RestartInv DEF Generation
<1>3. ASSUME NEW g \in Gens, TimerTicks(g) \/ DiscoLoop(g) \/ DiscoStops(g) PROVE GenIInv'
  BY <1>3, DiscoSavesInv, DiscoInv DEF DiscoLoop
<1> QED
  BY <1>1, <1>2, <1>3, SignalInv, UserEditsInv, PollerStopsInv DEF GenNext

\* For every number of generations, devices, signals and saves: at most one
\* generation is not cancelled, earlier ones are over before a later one
\* begins, and each loads all that was saved while an earlier one was current
\* (wrapSnmpPolling, RunDiscoOnTimer).
THEOREM GenerationsAreSafe == GenSpec => []GenerationInv
<1>1. GenIInv => GenerationInv
  BY DEF GenIInv, GenerationInv
<1> QED
  BY <1>1, GenInitInv, NextInv, PTL DEF GenSpec
=============================================================================
