----------------------------- MODULE BaseServer -----------------------------
(***************************************************************************)
(* BaseServer: Run starts the health checks, the meta server and the       *)
(* service, each with an entry of the readiness wait group, and then waits *)
(* for a signal or the end of the service. The meta server answers with the*)
(* result of the latest health check, or with a failure when that result is*)
(* older than two periods.                                                 *)
(***************************************************************************)
EXTENDS Naturals

CONSTANTS
  StartupDelay,   \* HealthCheckStartupDelay, HealthCheckPeriod, HealthCheckTimeout
  Period,
  CheckTimeout,
  MaxClock        \* bound on the time that is looked at

\* The defaults (5, 30 and 5 seconds) satisfy these bounds.
ASSUME ServerAssumption ==
  /\ {StartupDelay, MaxClock} \subseteq Nat /\ {Period, CheckTimeout} \subseteq Nat \ {0}
  /\ CheckTimeout <= Period /\ StartupDelay + CheckTimeout <= 2 * Period

VARIABLES
  clock,
  metaListen,   \* MetaListen is set
  main,         \* where Run is
  wg,           \* the counter of waitGroup
  service,      \* the goroutine of the service
  meta,         \* the goroutine of the meta server
  signals,      \* signals in the channel s
  stopped,      \* the context of Run is cancelled
  hc,           \* the goroutine of the health checks
  wake,         \* when its sleep ends
  checkFrom,    \* when the check at work began
  latest,       \* the stored result: TRUE for success
  stamp,        \* and its time
  sound         \* history: no check has failed or outlasted its timeout

healthVars == <<hc, wake, checkFrom, latest, stamp, sound>>
serverVars == <<clock, metaListen, main, wg, service, meta, signals, stopped, healthVars>>

ServerInit ==
  /\ clock = 0 /\ metaListen \in BOOLEAN /\ main = "health" /\ wg = 1
  /\ service = "none" /\ meta = "none" /\ signals = 0 /\ stopped = FALSE
  /\ hc = "none" /\ wake = 0 /\ checkFrom = 0 /\ latest = TRUE /\ stamp = 0 /\ sound = TRUE

Alive == main # "exited"

------------------------------------------------------------------------------
\* The main goroutine.

SpawnHealthCheck ==
  /\ main = "health" /\ main' = "meta" /\ wg' = wg + 1
  /\ hc' = "starting" /\ latest' = TRUE /\ stamp' = clock
  /\ UNCHANGED <<clock, metaListen, service, meta, signals, stopped, wake, checkFrom, sound>>

\* spawnLegacyHealthCheck is ready at once; without an address there is no
\* meta server, and nobody to say that it is ready.
SpawnMetaServer ==
  /\ main = "meta" /\ main' = "service" /\ wg' = wg + 1
  /\ meta' = IF metaListen THEN "starting" ELSE "none"
  /\ UNCHANGED <<clock, metaListen, service, signals, stopped, healthVars>>

SpawnService ==
  /\ main = "service" /\ main' = "ready" /\ wg' = wg + 1 /\ service' = "starting"
  /\ UNCHANGED <<clock, metaListen, meta, signals, stopped, healthVars>>

\* setReady(bs.ctx)
MainReady ==
  /\ main = "ready" /\ main' = "loop" /\ wg' = wg - 1
  /\ UNCHANGED <<clock, metaListen, service, meta, signals, stopped, healthVars>>

\* A signal goes to the channel of two; a third one is lost.
Signal ==
  /\ main \in {"ready", "loop", "finish"} /\ signals < 2 /\ signals' = signals + 1
  /\ UNCHANGED <<clock, metaListen, main, wg, service, meta, stopped, healthVars>>

Shutdown ==
  /\ main = "loop" /\ signals > 0 /\ signals' = signals - 1 /\ stopped' = TRUE
  /\ UNCHANGED <<clock, metaListen, main, wg, service, meta, healthVars>>

ContextDone ==
  /\ main = "loop" /\ stopped /\ main' = "finish"
  /\ UNCHANGED <<clock, metaListen, wg, service, meta, signals, stopped, healthVars>>

\* finish drains the logger and sleeps; the process ends whatever still runs.
Finish ==
  /\ main = "finish" /\ main' = "exited"
  /\ UNCHANGED <<clock, metaListen, wg, service, meta, signals, stopped, healthVars>>

------------------------------------------------------------------------------
\* The goroutines.

ServiceReady ==
  /\ Alive /\ service = "starting" /\ service' = "running" /\ wg' = wg - 1
  /\ UNCHANGED <<clock, metaListen, main, meta, signals, stopped, healthVars>>

\* service.Run returns nil or context.Canceled.
ServiceReturns ==
  /\ Alive /\ service = "running" /\ service' = "returned" /\ stopped' = TRUE
  /\ UNCHANGED <<clock, metaListen, main, wg, meta, signals, healthVars>>

MetaListens ==
  /\ Alive /\ meta = "starting" /\ meta' = "serving" /\ wg' = wg - 1
  /\ UNCHANGED <<clock, metaListen, main, service, signals, stopped, healthVars>>

\* Fail, when the service or the meta server returns an error: os.Exit.
Fail ==
  /\ Alive /\ (service = "running" \/ meta \in {"starting", "serving"}) /\ main' = "exited"
  /\ UNCHANGED <<clock, metaListen, wg, service, meta, signals, stopped, healthVars>>

HealthReady ==
  /\ Alive /\ hc = "starting" /\ hc' = "sleeping" /\ wg' = wg - 1 /\ wake' = clock + StartupDelay
  /\ UNCHANGED <<clock, metaListen, main, service, meta, signals, stopped, checkFrom, latest, stamp,
                 sound>>

HealthWakes ==
  /\ Alive /\ hc = "sleeping" /\ clock >= wake
  /\ IF stopped THEN hc' = "ended" /\ UNCHANGED checkFrom ELSE hc' = "checking" /\ checkFrom' = clock
  /\ UNCHANGED <<clock, metaListen, main, wg, service, meta, signals, stopped, wake, latest, stamp,
                 sound>>

\* Mutant of CheckEnds: the result bears the time at which the check began.
CheckEndsStamped(ok) ==
  /\ Alive /\ hc = "checking" /\ latest' = ok /\ stamp' = checkFrom
  /\ hc' = "sleeping" /\ wake' = clock + Period /\ sound' = (sound /\ ok)
  /\ UNCHANGED <<clock, metaListen, main, wg, service, meta, signals, stopped, checkFrom>>

\* executeHealthCheck returns; a panic of the check is a failure.
CheckEnds(ok) ==
  /\ Alive /\ hc = "checking" /\ latest' = ok /\ stamp' = clock
  /\ hc' = "sleeping" /\ wake' = clock + Period /\ sound' = (sound /\ ok)
  /\ UNCHANGED <<clock, metaListen, main, wg, service, meta, signals, stopped, checkFrom>>

\* Time passes: sleeps end and goroutines start when they should, but a
\* check takes as long as it takes, since its timeout only ends its context.
Tick ==
  /\ Alive /\ clock < MaxClock /\ clock' = clock + 1
  /\ hc # "starting" /\ (hc = "sleeping" => clock < wake)
  /\ sound' = (sound /\ ~(hc = "checking" /\ clock >= checkFrom + CheckTimeout))
  /\ UNCHANGED <<metaListen, main, wg, service, meta, signals, stopped, hc, wake, checkFrom, latest,
                 stamp>>

ServerStep ==
  \/ SpawnHealthCheck \/ SpawnMetaServer \/ SpawnService \/ MainReady \/ Shutdown \/ ContextDone
  \/ Finish \/ ServiceReady \/ MetaListens \/ HealthReady \/ HealthWakes

ServerNext ==
  \/ ServerStep \/ Signal \/ ServiceReturns \/ Fail \/ Tick
  \/ \E ok \in BOOLEAN : CheckEnds(ok)

------------------------------------------------------------------------------
\* Properties.

\* GetResult, the answer of the meta server's health check endpoint.
GetResult == latest /\ clock <= stamp + 2 * Period

\* The variables have the types of the code's.
ServerTypeOK ==
  /\ main \in {"health", "meta", "service", "ready", "loop", "finish", "exited"}
  /\ wg \in 0..4 /\ signals \in 0..2 /\ clock \in 0..MaxClock
  /\ service \in {"none", "starting", "running", "returned"}
  /\ meta \in {"none", "starting", "serving"}
  /\ hc \in {"none", "starting", "sleeping", "checking", "ended"}

\* WaitUntilReady sees the wait group at zero only when the meta server
\* listens, the service has been started and the health checks run.
ReadyMeansUp ==
  wg = 0 => service \in {"running", "returned"} /\ meta = "serving" /\ hc \notin {"none", "starting"}

\* A check that hangs is reported as a failure after two periods at the latest.
HangIsSeen == hc = "checking" /\ clock > checkFrom + 2 * Period => ~GetResult

\* As long as all checks succeed within their timeout the agent is reported
\* healthy, from the start and between the checks: no result expires early.
NoFalseAlarm == sound /\ ~stopped /\ hc # "none" => GetResult

\* The server's readiness and its health report can be relied on.
ServerInv == ServerTypeOK /\ ReadyMeansUp /\ HangIsSeen /\ NoFalseAlarm

\* When the service has returned or a signal was received, the process ends.
ServerStops == []<>(~(stopped \/ signals > 0) \/ ~Alive)
=============================================================================
