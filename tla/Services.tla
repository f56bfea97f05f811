------------------------------ MODULE Services ------------------------------
(***************************************************************************)
(* What the agent runs beside its pipeline: the log path (LogTee), the     *)
(* base server that starts and stops the agent and reports its health      *)
(* (BaseServer), the tables read from the Kentik API (KentikApi), and the  *)
(* Meraki client, its polls (MerakiPoll) and its events (MerakiEvents),    *)
(* the profiles of the MIB database (Profiles) and its traps (Traps). None *)
(* of them reads the state of another, and `part' says which one is looked *)
(* at.                                                                     *)
(***************************************************************************)
EXTENDS LogTee, BaseServer, KentikApi, MerakiPoll, MerakiEvents, Profiles, Traps

VARIABLE part

serviceVars == <<part, vars, serverVars, apiVars, pollVars, eventVars, profileVars, trapVars>>

ServicesInit ==
  /\ part \in {"logs", "server", "api", "meraki", "events", "profiles", "traps"}
  /\ Init /\ ServerInit /\ ApiInit /\ MerakiInit /\ EventsInit /\ ProfilesInit /\ TrapsInit
  /\ part # "server" => metaListen
  /\ part # "meraki" => on = CHOOSE c \in Configs : TRUE
  /\ part # "profiles" => /\ extending = (CHOOSE e \in ExtendsSets : TRUE) /\ ~validate
                          /\ device = CHOOSE q \in Queries : TRUE

OfLogs(A) == part = "logs" /\ A /\ UNCHANGED <<part, serverVars, apiVars, pollVars, eventVars, profileVars, trapVars>>
OfServer(A) == part = "server" /\ A /\ UNCHANGED <<part, vars, apiVars, pollVars, eventVars, profileVars, trapVars>>
OfApi(A) == part = "api" /\ A /\ UNCHANGED <<part, vars, serverVars, pollVars, eventVars, profileVars, trapVars>>
OfMeraki(A) == part = "meraki" /\ A /\ UNCHANGED <<part, vars, serverVars, apiVars, eventVars, profileVars, trapVars>>
OfEvents(A) == part = "events" /\ A /\ UNCHANGED <<part, vars, serverVars, apiVars, pollVars, profileVars, trapVars>>
OfProfiles(A) == part = "profiles" /\ A /\ UNCHANGED <<part, vars, serverVars, apiVars, pollVars, eventVars, trapVars>>
OfTraps(A) == part = "traps" /\ A /\ UNCHANGED <<part, vars, serverVars, apiVars, pollVars, eventVars, profileVars>>

ServicesNext ==
  \/ OfLogs(Next) \/ OfServer(ServerNext) \/ OfApi(ApiNext) \/ OfMeraki(MerakiNext) \/ OfEvents(EventsNext)
  \/ OfProfiles(ProfilesNext) \/ OfTraps(TrapsNext)

\* What goes on by itself in each of them, but for the log path.
Going ==
  \/ OfServer(ServerStep) \/ OfApi(\E t \in Refreshers : RefreshStep(t)) \/ OfMeraki(PollStep)
  \/ OfEvents(EventStep) \/ OfProfiles(ProfilesNext) \/ OfTraps(TrapStep)

\* Any of them may do anything next.
ServicesSafety == ServicesInit /\ [][ServicesNext]_serviceVars

\* The log path has its own fairness. Run takes its steps and its select,
\* which chooses at random, does not ignore the end of the context for ever;
\* a call of the API gets a reply or an error (keep-alive), one of the Meraki
\* API a reply or its timeout, and the channels the Meraki client writes to
\* are read, as is that of the trap listener. The profiles are loaded by one
\* goroutine that waits for nothing.
ServicesSpec ==
  /\ ServicesSafety /\ Fairness
  /\ WF_serviceVars(Going) /\ WF_serviceVars(OfServer(ContextDone))

\* The writer catches up, the process ends once it is told to, and every
\* refresh of the API tables, every Meraki poll, every download of events, the
\* load of the profiles, cycles or not, and the handling of every trap ends.
ServicesRun ==
  /\ LoggerDrains /\ ServerStops
  /\ []<>(CASE part = "api" -> RefreshersIdle [] part = "meraki" -> PollOver
             [] part = "events" -> DownloadOver [] part = "profiles" -> ProfilesOver
             [] part = "traps" -> TrapHandled [] OTHER -> TRUE)

\* The Meraki client: its polls (MerakiInv) and its events (EventsInv).
MerakiClientInv == (part = "meraki" => MerakiInv) /\ (part = "events" => EventsInv)

\* The MIB database: its profiles (ProfilesInv) and its traps (TrapsInv).
MibsInv == (part = "profiles" => ProfilesInv) /\ (part = "traps" => TrapsInv)
=============================================================================
