--------------------------- MODULE SnmpGenerations ---------------------------
(***************************************************************************)
(* Supervision of SNMP polling. wrapSnmpPolling is called once per         *)
(* generation: it loads the configuration and starts the pollers           *)
(* (runSnmpPolling), then waits for one signal on its own channel of one   *)
(* slot, cancels its context and starts the next generation. The signal    *)
(* comes from the operating system, from the watcher of the profile        *)
(* directory or from RunDiscoOnTimer after a discovery that saved a        *)
(* different number of devices; discoveries are those of Discovery.        *)
(*                                                                         *)
(* A discovery or a watcher of a cancelled generation may still be at      *)
(* work: it can save the file after its successor has read it, and its     *)
(* signals go to a channel that nobody reads any more.                     *)
(***************************************************************************)
EXTENDS Integers, FiniteSets

CONSTANTS
  DeviceKeys,       \* names of device entries
  MaxGen,           \* generations explored: 0 .. MaxGen
  DiscoveryOnStart, \* cfg.DiscoveryOnStart
  DiscoveryOnTimer, \* cfg.DiscoveryIntervalMinutes > 0
  WatchProfiles,    \* conf.Global.WatchProfileChanges
  MaxSaves,         \* writes of the file that are explored
  MaxEvents         \* signals and file events that are explored

ASSUME GenAssumption ==
  /\ MaxGen \in Nat /\ MaxSaves \in Nat /\ MaxEvents \in Nat
  /\ {DiscoveryOnStart, DiscoveryOnTimer, WatchProfiles} \subseteq BOOLEAN

Gens == 0..MaxGen

VARIABLES
  conf,        \* device entries in the configuration file
  version,     \* how often it has been written
  main,        \* where wrapSnmpPolling of each generation is
  loaded,      \* the version it read, -1 before
  launch,      \* devices of it that runSnmpPolling has yet to start
  polled,      \* devices its pollers work on
  chan,        \* signals in its channel, 0 or 1
  cancelled,   \* its context is cancelled
  watch,       \* its profile watcher
  disco,       \* its RunDiscoOnTimer
  base,        \* the devices its discovery read
  wrote,       \* history: the version it wrote last before it was cancelled
  events       \* signals and file events so far

fileVars == <<conf, version>>
genVars == <<main, loaded, launch, polled, cancelled>>
discoVars == <<disco, base, wrote>>
superVars == <<fileVars, genVars, chan, watch, discoVars, events>>

Disco == INSTANCE Discovery WITH Keys <- DeviceKeys, saved <- conf, verdict <- main

GenInit ==
  /\ conf \in SUBSET DeviceKeys /\ version = 0 /\ events = 0
  /\ main = [g \in Gens |-> IF g = 0 THEN "start" ELSE "none"]
  /\ loaded = [g \in Gens |-> -1]
  /\ launch = [g \in Gens |-> {}] /\ polled = [g \in Gens |-> {}]
  /\ chan = [g \in Gens |-> 0] /\ cancelled = [g \in Gens |-> FALSE]
  /\ watch = [g \in Gens |-> "off"] /\ disco = [g \in Gens |-> "off"]
  /\ base = [g \in Gens |-> {}] /\ wrote = [g \in Gens |-> 0]

------------------------------------------------------------------------------
\* A generation.

\* runSnmpPolling reads the file and starts the watcher.
Load(g) ==
  /\ main[g] = "start" /\ main' = [main EXCEPT ![g] = "launch"]
  /\ loaded' = [loaded EXCEPT ![g] = version] /\ launch' = [launch EXCEPT ![g] = conf]
  /\ watch' = [watch EXCEPT ![g] = IF WatchProfiles THEN "watching" ELSE "off"]
  /\ UNCHANGED <<fileVars, polled, cancelled, chan, discoVars, events>>

\* The file cannot be read: wrapSnmpPolling logs it and supervises nothing.
LoadFails(g) ==
  /\ main[g] = "start" /\ main' = [main EXCEPT ![g] = "launch"]
  /\ UNCHANGED <<fileVars, loaded, launch, polled, cancelled, chan, watch, discoVars, events>>

\* One device: its pollers are started.
LaunchSnmp(g, k) ==
  /\ main[g] = "launch" /\ k \in launch[g]
  /\ launch' = [launch EXCEPT ![g] = @ \ {k}] /\ polled' = [polled EXCEPT ![g] = @ \cup {k}]
  /\ UNCHANGED <<fileVars, main, loaded, cancelled, chan, watch, discoVars, events>>

\* EnsureDevice or InitSNMP fails: runSnmpPolling returns without the rest.
LaunchFails(g) ==
  /\ main[g] = "launch" /\ launch[g] # {} /\ launch' = [launch EXCEPT ![g] = {}]
  /\ UNCHANGED <<fileVars, main, loaded, polled, cancelled, chan, watch, discoVars, events>>

\* Only the first generation runs a discovery on start.
RunOnStart(g) == DiscoveryOnStart /\ g = 0

\* The channel is registered for signals and discovery is started.
Supervise(g) ==
  /\ main[g] = "launch" /\ launch[g] = {} /\ main' = [main EXCEPT ![g] = "wait"]
  /\ disco' = [disco EXCEPT ![g] = IF RunOnStart(g) THEN "check"
                                   ELSE IF DiscoveryOnTimer THEN "idle" ELSE "off"]
  /\ UNCHANGED <<fileVars, loaded, launch, polled, cancelled, chan, watch, base, wrote, events>>

\* Mutant of Restart: the context of the old generation is not cancelled.
RestartOnly(g) ==
  /\ main[g] = "wait" /\ chan[g] = 1 /\ g < MaxGen
  /\ chan' = [chan EXCEPT ![g] = 0]
  /\ main' = [main EXCEPT ![g] = "done", ![g + 1] = "start"]
  /\ UNCHANGED <<fileVars, loaded, launch, polled, cancelled, watch, discoVars, events>>

\* A signal arrives: cancel, and start the next generation.
Restart(g) ==
  /\ main[g] = "wait" /\ chan[g] = 1 /\ g < MaxGen
  /\ chan' = [chan EXCEPT ![g] = 0] /\ cancelled' = [cancelled EXCEPT ![g] = TRUE]
  /\ main' = [main EXCEPT ![g] = "done", ![g + 1] = "start"]
  /\ UNCHANGED <<fileVars, loaded, launch, polled, watch, discoVars, events>>

\* A poller sees that its context is done.
PollerStops(g, k) ==
  /\ cancelled[g] /\ k \in polled[g] /\ polled' = [polled EXCEPT ![g] = @ \ {k}]
  /\ UNCHANGED <<fileVars, main, loaded, launch, cancelled, chan, watch, discoVars, events>>

------------------------------------------------------------------------------
\* Signals.

\* SIGUSR2: os/signal offers it to every channel ever registered and drops
\* it where the slot is taken.
OsSignal ==
  /\ events < MaxEvents /\ events' = events + 1
  /\ chan' = [g \in Gens |-> IF main[g] \in {"wait", "done"} THEN 1 ELSE chan[g]]
  /\ UNCHANGED <<fileVars, genVars, watch, discoVars>>

\* A profile is written or removed; each watcher has its own event queue.
ProfileEvent(g) ==
  /\ watch[g] = "watching" /\ events < MaxEvents /\ events' = events + 1
  /\ watch' = [watch EXCEPT ![g] = "sending"]
  /\ UNCHANGED <<fileVars, genVars, chan, discoVars>>

\* The watcher's send waits for the slot and for nothing else.
WatcherSends(g) ==
  /\ watch[g] = "sending" /\ chan[g] = 0
  /\ chan' = [chan EXCEPT ![g] = 1] /\ watch' = [watch EXCEPT ![g] = "watching"]
  /\ UNCHANGED <<fileVars, genVars, discoVars, events>>

WatcherStops(g) ==
  /\ watch[g] = "watching" /\ cancelled[g] /\ watch' = [watch EXCEPT ![g] = "off"]
  /\ UNCHANGED <<fileVars, genVars, chan, discoVars, events>>

------------------------------------------------------------------------------
\* Discovery.

RunDiscovery(g) ==
  /\ disco' = [disco EXCEPT ![g] = "scan"] /\ base' = [base EXCEPT ![g] = conf]
  /\ UNCHANGED <<fileVars, genVars, chan, watch, wrote, events>>

\* RunDiscovery reads the file: the check on start, or a tick of the timer,
\* whose branch select may take although the context is done.
CheckOnStart(g) == disco[g] = "check" /\ RunDiscovery(g)
TimerTicks(g) == disco[g] = "idle" /\ RunDiscovery(g)

\* Where RunDiscoOnTimer goes after a discovery.
AfterCheck == IF DiscoveryOnTimer THEN "idle" ELSE "off"

\* The discovery saves the devices it read before the scan as it merged
\* them, whatever the file holds by now.
DiscoSaves(g) ==
  /\ disco[g] = "scan" /\ version < MaxSaves
  /\ \E new \in SUBSET DeviceKeys :
       /\ conf' = new
       /\ disco' = [disco EXCEPT ![g] =
                      IF Disco!Verdict(base[g], new) = "reload" THEN "send" ELSE AfterCheck]
  /\ version' = version + 1
  /\ wrote' = [wrote EXCEPT ![g] = IF cancelled[g] THEN @ ELSE version + 1]
  /\ UNCHANGED <<genVars, chan, watch, base, events>>

\* It returns an error; the cancelled context is one cause.
DiscoFails(g) ==
  /\ disco[g] = "scan" /\ disco' = [disco EXCEPT ![g] = AfterCheck]
  /\ UNCHANGED <<fileVars, genVars, chan, watch, base, wrote, events>>

\* Mutant of DiscoSends: the signal is forgotten.
DiscoSendsNot(g) ==
  /\ disco[g] = "send" /\ disco' = [disco EXCEPT ![g] = AfterCheck]
  /\ UNCHANGED <<fileVars, genVars, chan, watch, base, wrote, events>>

\* c <- SIGUSR2: the send waits for the slot, not for the context.
DiscoSends(g) ==
  /\ disco[g] = "send" /\ chan[g] = 0
  /\ chan' = [chan EXCEPT ![g] = 1] /\ disco' = [disco EXCEPT ![g] = AfterCheck]
  /\ UNCHANGED <<fileVars, genVars, watch, base, wrote, events>>

\* Mutant of DiscoStops: the loop only ends when it has asked for a restart.
DiscoStopsSignalled(g) ==
  /\ disco[g] = "idle" /\ cancelled[g] /\ chan[g] = 1 /\ disco' = [disco EXCEPT ![g] = "off"]
  /\ UNCHANGED <<fileVars, genVars, chan, watch, base, wrote, events>>

DiscoStops(g) ==
  /\ disco[g] = "idle" /\ cancelled[g] /\ disco' = [disco EXCEPT ![g] = "off"]
  /\ UNCHANGED <<fileVars, genVars, chan, watch, base, wrote, events>>

\* A user edits the devices of the file.
UserEdits ==
  /\ version < MaxSaves /\ version' = version + 1 /\ conf' \in SUBSET DeviceKeys
  /\ UNCHANGED <<genVars, chan, watch, discoVars, events>>

Generation(g) == \/ Load(g) \/ LoadFails(g) \/ LaunchFails(g) \/ Supervise(g) \/ Restart(g)
                 \/ \E k \in DeviceKeys : LaunchSnmp(g, k)
DiscoLoop(g) == CheckOnStart(g) \/ DiscoSaves(g) \/ DiscoFails(g) \/ DiscoSends(g)

GenNext ==
  \/ OsSignal \/ UserEdits
  \/ \E g \in Gens :
       \/ Generation(g) \/ ProfileEvent(g) \/ WatcherSends(g) \/ WatcherStops(g)
       \/ TimerTicks(g) \/ DiscoLoop(g) \/ DiscoStops(g)
       \/ \E k \in DeviceKeys : PollerStops(g, k)

GenSpec == GenInit /\ [][GenNext]_superVars

\* Goroutines run and scans end by their timeouts. Strong fairness only for
\* the select of RunDiscoOnTimer: between two ticks it finds nothing but
\* the context done, so it does not miss it for ever.
GenFairSpec ==
  /\ GenSpec
  /\ \A g \in Gens :
       /\ WF_superVars(Generation(g)) /\ WF_superVars(DiscoLoop(g)) /\ SF_superVars(DiscoStops(g))
       /\ WF_superVars(WatcherSends(g) \/ WatcherStops(g))
       /\ WF_superVars(\E k \in DeviceKeys : PollerStops(g, k))

------------------------------------------------------------------------------
\* Properties.

\* The variables have the types of the code's.
GenTypeOK ==
  /\ conf \subseteq DeviceKeys /\ version \in 0..MaxSaves /\ events \in 0..MaxEvents
  /\ main \in [Gens -> {"none", "start", "launch", "wait", "done"}]
  /\ loaded \in [Gens -> -1..MaxSaves] /\ wrote \in [Gens -> 0..MaxSaves]
  /\ launch \in [Gens -> SUBSET DeviceKeys] /\ polled \in [Gens -> SUBSET DeviceKeys]
  /\ base \in [Gens -> SUBSET DeviceKeys]
  /\ chan \in [Gens -> 0..1] /\ cancelled \in [Gens -> BOOLEAN]
  /\ watch \in [Gens -> {"off", "watching", "sending"}]
  /\ disco \in [Gens -> {"off", "check", "idle", "scan", "send"}]

\* Pollers that may still start work belong to one generation: when one
\* runs, every earlier one is cancelled, whoever asked for the restart and
\* however many asked at once.
OneLiveGeneration ==
  \A g, h \in Gens :
     (g < h /\ main[h] # "none") => (cancelled[g] /\ main[g] = "done" /\ launch[g] = {})

\* Whatever discovery saved while its generation was current is part of
\* what every later generation loads: signals that arrive together may be
\* merged into one restart, but that restart reads the file after the save.
SavedIsLoaded ==
  \A g, h \in Gens : (g < h /\ loaded[h] >= 0) => loaded[h] >= wrote[g]

\* The generations keep their types, are live one at a time, and each loads
\* what the ones before it saved.
GenerationInv == GenTypeOK /\ OneLiveGeneration /\ SavedIsLoaded

\* A change in the number of devices that a current generation's discovery
\* saved restarts polling, also when the watcher or a signal was first.
ChangeRestarts ==
  \A g \in 0..(MaxGen - 1) : (disco[g] = "send" /\ ~cancelled[g]) ~> (main[g + 1] = "wait")

\* A cancelled generation winds down: its pollers stop, and its discovery
\* and its watcher end or wait on its channel, full and without a reader.
WindsDown ==
  \A g \in Gens :
     cancelled[g] ~> /\ polled[g] = {}
                     /\ disco[g] = "off" \/ (disco[g] = "send" /\ chan[g] = 1)
                     /\ watch[g] = "off" \/ (watch[g] = "sending" /\ chan[g] = 1)
=============================================================================
