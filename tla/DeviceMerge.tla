---------------------------- MODULE DeviceMerge ----------------------------
(***************************************************************************)
(* One agent's SNMP discoveries, one after the other: Discover scans the   *)
(* network (runScanCheckDisco, one doubleCheckHost goroutine per address   *)
(* behind the ctl tokens) and addDevices merges what answered into the     *)
(* devices it read before the scan, drops duplicates, purges devices that  *)
(* have not been seen, and writes the file.                                *)
(*                                                                         *)
(* The three loops of addDevices range over Go maps, whose order is not    *)
(* specified: one iteration is one action, over any entry that is left.    *)
(***************************************************************************)
EXTENDS Integers, FiniteSets, Functions

CONSTANTS
  Hosts,          \* addresses that the configured CIDRs cover
  Names,          \* names that devices report
  Engines,        \* SNMP engine ids
  NoEngine,       \* a device that reports none
  NoHost,         \* second half of a key that is a bare device name
  Answers,        \* Answers[h]: what host h may report, a set of <<name, engine>>
  InitFiles,      \* configurations a user may have started with
  Settings,       \* values of the sections of the file that are not devices
  Threads,        \* conf.Disco.Threads, the capacity of ctl
  PollDuration,   \* minutes between discoveries, in units of TimeBuffer
  TimeBuffer,     \* RemoveTimeBuffer
  MaxAge,         \* ages are counted up to here
  MaxRounds       \* discoveries that are explored

ASSUME MergeAssumption ==
  /\ NoHost \notin Hosts /\ NoEngine \notin Engines
  /\ Threads \in Nat \ {0} /\ PollDuration \in Nat /\ TimeBuffer \in Nat
  /\ MaxAge \in Nat /\ MaxRounds \in Nat

\* A key of conf.Devices: "name" as users write it, or "name__ip".
Keys == Names \X (Hosts \cup {NoHost})
Plain(n) == <<n, NoHost>>
Alt(n, h) == <<n, h>>

\* SnmpDeviceConfig: address, engine id, purge_after_num, time since Checked.
Devices == [ip : Hosts, engine : Engines \cup {NoEngine}, purge : Int, age : 0..MaxAge]

\* Sections of the file: purge_devices_after_num, replace_devices, no_dedup_engine_id.
SettingValues == [purge : Int, replace : BOOLEAN, noDedup : BOOLEAN]

\* A configuration as it is read: finitely many entries, each a device.
IsConfig(f) == DOMAIN f \subseteq Keys /\ IsFiniteSet(DOMAIN f) /\ f \in [DOMAIN f -> Devices]

\* What devices report and users write has the types of the code's structs.
ASSUME InputAssumption ==
  /\ IsFiniteSet(Hosts) /\ Settings \subseteq SettingValues
  /\ \A f \in InitFiles : IsConfig(f)
  /\ \A h \in Hosts : Answers[h] \subseteq Names \X (Engines \cup {NoEngine})

VARIABLES
  file,        \* the device entries of the configuration file
  phase,       \* where Discover is
  check,       \* the doubleCheckHost goroutine of each address
  ctl,         \* tokens in the channel that bounds them
  found,       \* foundDevices: what each address that answered reported
  devs,        \* conf.Devices
  settings,    \* conf.Global and conf.Disco, read again after the scan
  todo,        \* entries that the current loop has not visited
  byIP,        \* addresses of conf.Devices when addDevices began
  byEngine,    \* engine ids seen by the duplicate loop
  removeNum,   \* the purge loop's threshold
  added,       \* stats.added
  orig,        \* conf.Devices when addDevices began; its size is origCount
  touched,     \* history: entries that an answer added or refreshed
  dropped,     \* history: entries removed as duplicates
  purged,      \* history: entries removed by age
  rounds,      \* discoveries begun
  verdict      \* what the last discovery told RunDiscoOnTimer

scanVars == <<check, ctl, found>>
mergeVars == <<devs, settings, todo, byIP, byEngine, removeNum, added, orig,
               touched, dropped, purged>>
vars == <<file, phase, scanVars, mergeVars, rounds, verdict>>

Without(f, x) == Restrict(f, DOMAIN f \ {x})
With(f, x, v) == [y \in DOMAIN f \cup {x} |-> IF y = x THEN v ELSE f[y]]
Empty == [x \in {} |-> x]

Init ==
  /\ file \in InitFiles
  /\ phase = "idle" /\ verdict = "none" /\ rounds = 0
  /\ check = [h \in Hosts |-> "none"] /\ ctl = Threads /\ found = Empty
  /\ devs = Empty /\ orig = Empty /\ settings \in Settings /\ todo = {}
  /\ byIP = {} /\ byEngine = {} /\ removeNum = 0 /\ added = 0
  /\ touched = {} /\ dropped = {} /\ purged = {}

------------------------------------------------------------------------------
\* The scan.

\* Discover up to the scan: read the file, start one goroutine for each
\* address that is up (or asked for by name) and not on the ignore list.
Discover(up) ==
  /\ phase \in {"idle", "done"} /\ rounds < MaxRounds
  /\ rounds' = rounds + 1 /\ phase' = "scan" /\ verdict' = "none"
  /\ devs' = file
  /\ found' = Empty /\ check' = [h \in Hosts |-> IF h \in up THEN "queued" ELSE "none"]
  /\ ctl' = Threads
  /\ UNCHANGED <<file, settings, todo, byIP, byEngine, removeNum, added, orig,
                 touched, dropped, purged>>

\* doubleCheckHost takes a token, or waits for one.
TakeToken(h) ==
  /\ phase = "scan" /\ check[h] = "queued" /\ ctl > 0
  /\ ctl' = ctl - 1 /\ check' = [check EXCEPT ![h] = "running"]
  /\ UNCHANGED <<file, phase, found, mergeVars, rounds, verdict>>

\* A credential worked: the device goes to foundDevices under its address.
HostAnswers(h, ans) ==
  /\ phase = "scan" /\ check[h] = "running" /\ ans \in Answers[h]
  /\ found' = With(found, h, ans)
  /\ ctl' = ctl + 1 /\ check' = [check EXCEPT ![h] = "done"]
  /\ UNCHANGED <<file, phase, mergeVars, rounds, verdict>>

\* Mutant of HostFails: the host is tried again.
HostFailsAgain(h) ==
  /\ phase = "scan" /\ check[h] = "running"
  /\ ctl' = ctl + 1 /\ check' = [check EXCEPT ![h] = "queued"]
  /\ UNCHANGED <<file, phase, found, mergeVars, rounds, verdict>>

\* No credential worked, or the goroutine recovered from a panic: the
\* deferred function gives the token back all the same.
HostFails(h) ==
  /\ phase = "scan" /\ check[h] = "running"
  /\ ctl' = ctl + 1 /\ check' = [check EXCEPT ![h] = "done"]
  /\ UNCHANGED <<file, phase, found, mergeVars, rounds, verdict>>

\* wg.Wait returns.
ScanOver == phase = "scan" /\ \A h \in Hosts : check[h] \notin {"queued", "running"}

\* The scan of a further CIDR, or the second read of the file, fails.
ScanFails ==
  /\ ScanOver /\ phase' = "done" /\ verdict' = "error"
  /\ UNCHANGED <<file, scanVars, mergeVars, rounds>>

------------------------------------------------------------------------------
\* addDevices.

\* wg.Wait is over; the sections that are not devices are read again.
AddDevices(s) ==
  /\ ScanOver /\ phase' = "add" /\ settings' = s
  /\ orig' = devs /\ byIP' = {devs[k].ip : k \in DOMAIN devs}
  /\ todo' = DOMAIN found
  /\ added' = 0 /\ byEngine' = {} /\ removeNum' = 0
  /\ touched' = {} /\ dropped' = {} /\ purged' = {}
  /\ UNCHANGED <<file, scanVars, devs, rounds, verdict>>

\* A device as discovery built it, and what UpdateFrom keeps of the old one.
NewDevice(h) == [ip |-> h, engine |-> found[h][2], purge |-> 0, age |-> 0]
UpdateFrom(d, old) == IF old.purge # 0 THEN [d EXCEPT !.purge = old.purge] ELSE d

\* Mutant of MergeKey: a device with a known name is merged into any entry
\* of that name.
MergeKeyByName(h) ==
  LET same == {k \in DOMAIN devs : k[1] = found[h][1]}
  IN IF same # {} THEN CHOOSE k \in same : TRUE ELSE Alt(found[h][1], h)

\* The entry a found device is merged into.
MergeKey(h) ==
  LET n == found[h][1]
      key == IF h \notin byIP /\ Plain(n) \in DOMAIN devs THEN Alt(n, h) ELSE Plain(n)
  IN IF key \in DOMAIN devs THEN key ELSE Alt(n, h)

\* One found device: a new entry, or the existing one replaced or refreshed.
MergeOne(h) ==
  LET k == MergeKey(h) IN
  /\ phase = "add" /\ h \in todo
  /\ todo' = todo \ {h} /\ touched' = touched \cup {k}
  /\ \/ /\ k \notin DOMAIN devs
        /\ devs' = With(devs, k, NewDevice(h)) /\ added' = added + 1
     \/ /\ k \in DOMAIN devs /\ settings.replace
        /\ devs' = With(devs, k, UpdateFrom(NewDevice(h), devs[k])) /\ UNCHANGED added
     \/ /\ k \in DOMAIN devs /\ ~settings.replace
        /\ devs' = [devs EXCEPT ![k].age = 0] /\ UNCHANGED added
  /\ UNCHANGED <<file, phase, scanVars, settings, byIP, byEngine, removeNum, orig,
                 dropped, purged, rounds, verdict>>

\* The next loop begins over the devices there are now.
StartDedup ==
  /\ phase = "add" /\ todo = {}
  /\ phase' = "dedup" /\ todo' = DOMAIN devs
  /\ UNCHANGED <<file, scanVars, devs, settings, byIP, byEngine, removeNum, added, orig,
                 touched, dropped, purged, rounds, verdict>>

\* Mutant of DedupOne: the count of added devices is left alone.
DedupOneUncounted(k) ==
  LET e == devs[k].engine IN
  /\ phase = "dedup" /\ k \in todo /\ todo' = todo \ {k}
  /\ \/ /\ settings.noDedup \/ e = NoEngine
        /\ UNCHANGED <<devs, byEngine, dropped>>
     \/ /\ ~settings.noDedup /\ e # NoEngine /\ e \in byEngine
        /\ devs' = Without(devs, k) /\ dropped' = dropped \cup {k}
        /\ UNCHANGED byEngine
     \/ /\ ~settings.noDedup /\ e # NoEngine /\ e \notin byEngine
        /\ byEngine' = byEngine \cup {e} /\ UNCHANGED <<devs, dropped>>
  /\ UNCHANGED <<file, phase, scanVars, settings, byIP, removeNum, added, orig, touched,
                 purged, rounds, verdict>>

\* One device of the duplicate loop.
DedupOne(k) ==
  LET e == devs[k].engine IN
  /\ phase = "dedup" /\ k \in todo /\ todo' = todo \ {k}
  /\ \/ /\ settings.noDedup \/ e = NoEngine
        /\ UNCHANGED <<devs, byEngine, added, dropped>>
     \/ /\ ~settings.noDedup /\ e # NoEngine /\ e \in byEngine
        /\ devs' = Without(devs, k) /\ added' = added - 1 /\ dropped' = dropped \cup {k}
        /\ UNCHANGED byEngine
     \/ /\ ~settings.noDedup /\ e # NoEngine /\ e \notin byEngine
        /\ byEngine' = byEngine \cup {e} /\ UNCHANGED <<devs, added, dropped>>
  /\ UNCHANGED <<file, phase, scanVars, settings, byIP, removeNum, orig, touched, purged,
                 rounds, verdict>>

StartPurge ==
  /\ phase = "dedup" /\ todo = {}
  /\ phase' = "purge" /\ todo' = DOMAIN devs /\ removeNum' = settings.purge
  /\ UNCHANGED <<file, scanVars, devs, settings, byIP, byEngine, added, orig,
                 touched, dropped, purged, rounds, verdict>>

\* The purge threshold for a device: its own number, if it has one, replaces
\* the loop's, for this device and for those that follow it.
Threshold(k) == IF devs[k].purge # 0 THEN devs[k].purge ELSE removeNum

\* d.Checked.Before(now - n * pollDuration - RemoveTimeBuffer)
TooOld(d, n) == n > 0 /\ PollDuration > 0 /\ d.age > n * PollDuration + TimeBuffer

\* One device of the purge loop.
PurgeOne(k) ==
  LET n == Threshold(k) IN
  /\ phase = "purge" /\ k \in todo /\ n >= -1
  /\ todo' = todo \ {k} /\ removeNum' = n
  /\ \/ /\ TooOld(devs[k], n)
        /\ devs' = Without(devs, k) /\ added' = added - 1 /\ purged' = purged \cup {k}
     \/ /\ ~TooOld(devs[k], n) /\ UNCHANGED <<devs, added, purged>>
  /\ UNCHANGED <<file, phase, scanVars, settings, byIP, byEngine, orig, touched, dropped,
                 rounds, verdict>>

\* An invalid number ends the discovery; the merged devices are thrown away.
PurgeInvalid(k) ==
  /\ phase = "purge" /\ k \in todo /\ Threshold(k) < -1
  /\ phase' = "done" /\ verdict' = "error"
  /\ UNCHANGED <<file, scanVars, mergeVars, rounds>>

FinishPurge ==
  /\ phase = "purge" /\ todo = {} /\ phase' = "save"
  /\ UNCHANGED <<file, scanVars, mergeVars, rounds, verdict>>

\* Mutant of WantsReload: a discovery that only removes devices asks for nothing.
WantsReloadAdded(delta, add) == add > 0

\* The condition of RunDiscoOnTimer on the statistics of addDevices.
WantsReload(delta, add) == delta # 0 \/ add > 0

\* The files are written and RunDiscoOnTimer looks at the statistics.
Save ==
  LET delta == Cardinality(DOMAIN orig) - Cardinality(DOMAIN devs) IN
  /\ phase = "save"
  /\ file' = devs /\ phase' = "done"
  /\ verdict' = IF WantsReload(delta, added) THEN "reload" ELSE "same"
  /\ UNCHANGED <<scanVars, mergeVars, rounds>>

\* A write fails: the devices may have a file of their own, written before.
SaveFails ==
  /\ phase = "save" /\ phase' = "done" /\ verdict' = "error"
  /\ file' \in {file, devs}
  /\ UNCHANGED <<scanVars, mergeVars, rounds>>

\* Time passes between discoveries.
Wait ==
  /\ phase = "done" /\ rounds < MaxRounds
  /\ \E k \in DOMAIN file : file[k].age < MaxAge
  /\ file' = [k \in DOMAIN file |->
                [file[k] EXCEPT !.age = IF @ < MaxAge THEN @ + 1 ELSE @]]
  /\ UNCHANGED <<phase, scanVars, mergeVars, rounds, verdict>>

Scan == \/ \E up \in SUBSET Hosts : Discover(up)
        \/ \E h \in Hosts : TakeToken(h) \/ HostFails(h)
        \/ \E h \in Hosts : \E ans \in Answers[h] : HostAnswers(h, ans)
Merge == \/ \E s \in Settings : AddDevices(s)
         \/ \E h \in Hosts : MergeOne(h)
         \/ StartDedup \/ \E k \in Keys : DedupOne(k)
         \/ StartPurge \/ \E k \in Keys : PurgeOne(k) \/ PurgeInvalid(k)
         \/ FinishPurge \/ Save

Next == Scan \/ Merge \/ ScanFails \/ SaveFails \/ Wait

Spec == Init /\ [][Next]_vars

\* Every SNMP request ends by an answer or its timeout, and loops end.
FairSpec ==
  /\ Spec /\ WF_vars(Merge)
  /\ \A h \in Hosts : WF_vars(TakeToken(h))
                      /\ WF_vars(HostFails(h) \/ \E ans \in Answers[h] : HostAnswers(h, ans))

------------------------------------------------------------------------------
\* Properties.

InMerge == phase \in {"add", "dedup", "purge", "save"}

\* The variables have the types of the code's.
TypeOK ==
  /\ IsConfig(file) /\ IsConfig(devs) /\ IsConfig(orig)
  /\ phase \in {"idle", "scan", "add", "dedup", "purge", "save", "done"}
  /\ check \in [Hosts -> {"none", "queued", "running", "done"}] /\ ctl \in 0..Threads
  /\ DOMAIN found \subseteq Hosts /\ \A h \in DOMAIN found : found[h] \in Names \X (Engines \cup {NoEngine})
  /\ settings \in SettingValues /\ todo \subseteq Keys \cup Hosts
  /\ byIP \subseteq Hosts /\ byEngine \subseteq Engines /\ removeNum \in Int /\ added \in Int
  /\ touched \subseteq Keys /\ dropped \subseteq Keys /\ purged \subseteq Keys
  /\ rounds \in 0..MaxRounds /\ verdict \in {"none", "reload", "same", "error"}

\* A token is out exactly while a doubleCheckHost goroutine runs, so that
\* failures and panics never shrink the pool that the scan works with.
TokensReturned ==
  ctl + Cardinality({h \in Hosts : check[h] = "running"}) = Threads

\* stats.added, raised for additions and lowered for duplicates and purges,
\* is at every point of addDevices the net change of the number of devices:
\* it is the negation of stats.delta and cannot tell which devices changed.
AddedIsNet ==
  InMerge => added = Cardinality(DOMAIN devs) - Cardinality(DOMAIN orig)

\* A device that answered is in the saved configuration unless another one
\* has its engine id: whatever the order of the loops and the thresholds,
\* the purge takes no entry that this discovery added or refreshed.
AnswersKept == InMerge => touched \subseteq DOMAIN devs \cup dropped

\* Entries whose key names the address, the ones discovery writes, keep
\* that address, and leave only as duplicates or for their age: a found
\* device with the name of another one never takes its entry.
DiscoveredStay ==
  InMerge => \A k \in DOMAIN orig :
     (k[2] # NoHost /\ orig[k].ip = k[2]) =>
        \/ k \in DOMAIN devs /\ devs[k].ip = k[2]
        \/ k \in dropped \cup purged

\* After the duplicate loop no two devices share an engine id, and each id
\* that it met is still configured until a purge removes its device.
EnginesUnique ==
  (phase \in {"purge", "save"} /\ ~settings.noDedup) =>
     /\ \A k, l \in DOMAIN devs :
          (k # l /\ devs[k].engine # NoEngine) => devs[k].engine # devs[l].engine
     /\ purged = {} => byEngine \subseteq {devs[k].engine : k \in DOMAIN devs}

\* A device with a purge_after_num of its own is judged by that number:
\* pinned ones stay, others stay until they are older than it says,
\* whatever the global number and the other devices' numbers are.
OverrideHonoured ==
  InMerge => \A k \in purged \cap DOMAIN orig :
     orig[k].purge # 0 => TooOld(orig[k], orig[k].purge)

\* The books of a discovery: types, the scan's tokens, the net count.
MergeInv == TypeOK /\ TokensReturned /\ AddedIsNet

\* Which devices a discovery leaves in the file, for every order of its map
\* loops: nobody who answered, no other address's entry and no device within
\* its own purge number is lost, and each engine id stays exactly once.
DevicesKept == AnswersKept /\ DiscoveredStay /\ EnginesUnique /\ OverrideHonoured

\* Seen from outside, discovery is Discovery: it asks for a restart exactly
\* when the number of saved devices differs from the number before.
D == INSTANCE Discovery WITH saved <- DOMAIN file
ImplementsDiscovery == D!DSpec

\* Every discovery ends: no goroutine waits for a token for ever.
DiscoveryEnds == (phase = "scan") ~> (phase = "done")
=============================================================================
