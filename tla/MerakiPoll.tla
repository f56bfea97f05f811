----------------------------- MODULE MerakiPoll -----------------------------
(***************************************************************************)
(* The Meraki client: at every tick Run asks the dashboard API, one call   *)
(* after the other, for what is configured, and puts the answer to each on *)
(* jchfChan. A call is a sequence of stages; a stage asks for its units    *)
(* (organisations or networks) in turn, page after page, and what it does  *)
(* about an answer 429, 400 or any other error is its own. The bandwidth   *)
(* limits are collected by goroutines in the background and, like the      *)
(* device information, kept for a day.                                     *)
(*                                                                         *)
(* What a page holds is left out: a result is the bag of its pages. The    *)
(* organisations, a slice in the code, are taken in any order, as the      *)
(* networks, a map, are.                                                   *)
(***************************************************************************)
EXTENDS Naturals, FiniteSets, Bags

CONSTANTS
  Orgs, Nets,
  OrgOf,         \* the organisation of each network
  NumPages,      \* pages of each organisation and of each network
  Builders,      \* goroutines of getUplinkExtraInfo
  Poller,        \* the goroutine of Run
  NoUnit,
  MaxRetry,      \* c.maxRetry
  MaxNetRetry,   \* MaxRetriesGetOrgNetworks
  MaxPolls,      \* ticks
  MaxBusy,       \* answers 429 to getUplinkUsage, which has no limit of its own
  JchfRoom, LogRoom,   \* capacities of jchfChan and c.logchan
  Configs        \* the sets of what may be switched on; uplinks are, if nothing is

\* The calls of one poll, in their order.
CallOrder == <<"changes", "status", "clients", "uplinks", "vpn", "attr", "security">>

ASSUME MerakiAssumption ==
  /\ OrgOf \in [Nets -> Orgs] /\ NumPages \in [Orgs \cup Nets -> Nat \ {0}]
  /\ {MaxRetry, MaxNetRetry, MaxPolls, MaxBusy} \subseteq Nat /\ {JchfRoom, LogRoom} \subseteq Nat \ {0}
  /\ \A c \in Configs : \E i \in DOMAIN CallOrder : CallOrder[i] \in c
  /\ NoUnit \notin Orgs \cup Nets /\ Poller \notin Builders /\ Cardinality(Builders) >= MaxPolls

Fetchers == {Poller} \cup Builders

VARIABLES
  on,           \* what is switched on
  at,           \* the stage each goroutine is in
  todo,         \* the calls of this poll that are still to be made, by their place in CallOrder
  call,         \* the call that is being made
  left, unit,   \* the units its stage has not finished, and the one it asks for
  tries,        \* `timeouts': retries for this unit
  asks,         \* history: requests for this unit
  toLog,        \* lines of this page that are not yet on c.logchan
  got,          \* the pages its call has
  refused,      \* history: the units a stage has left out
  tracked,      \* c.orgs
  known,        \* history: the pages c.orgs was made from
  ticked,       \* poll.C holds a tick
  polls, busy,  \* ticks, and answers 429 to getUplinkUsage, so far
  cancelled,    \* the context is done
  infoOk, info, \* deviceInfoTime is less than a day ago, deviceInfo
  bwOk, bw, bwRefused,   \* likewise uplinkInfoBW; history: what its build left out
  jchf, lines   \* what is on jchfChan and on c.logchan

runVars == <<todo, call>>
fetchVars == <<left, unit, tries, asks, toLog, got, refused>>
cacheVars == <<infoOk, info, bwOk, bw, bwRefused>>
chanVars == <<jchf, lines>>
clientVars == <<tracked, known>>
clockVars == <<ticked, polls, cancelled>>
pollVars == <<on, at, runVars, fetchVars, clientVars, clockVars, busy, cacheVars, chanVars>>

MerakiInit ==
  /\ on \in Configs
  /\ at = [f \in Fetchers |-> IF f = Poller THEN "boot" ELSE "none"] /\ todo = {} /\ call = "none"
  /\ left = [f \in Fetchers |-> {}] /\ unit = [f \in Fetchers |-> NoUnit]
  /\ tries = [f \in Fetchers |-> 0] /\ asks = [f \in Fetchers |-> 0] /\ toLog = [f \in Fetchers |-> 0]
  /\ got = [f \in Fetchers |-> EmptyBag] /\ refused = [f \in Fetchers |-> {}]
  /\ tracked = {} /\ known = EmptyBag /\ ticked = FALSE /\ polls = 0 /\ busy = 0 /\ cancelled = FALSE
  /\ infoOk = FALSE /\ info = EmptyBag /\ bwOk = FALSE /\ bw = EmptyBag /\ bwRefused = {}
  /\ jchf = 0 /\ lines = 0

------------------------------------------------------------------------------
\* The stages.

PerNetwork == {"clients", "security", "limits"}
Paged == {"networks", "status", "info", "clients", "uplinks", "vpn", "security"}
Stages == {"networks", "changes", "status", "info", "clients", "uplinks", "usage", "latency", "vpn",
           "attr", "security", "limits"}

Tracked(s) ==
  IF s \in PerNetwork THEN {n \in Nets : OrgOf[n] \in tracked}
  ELSE IF s = "attr" THEN {} ELSE tracked

PagesOf(s, u) == IF s \in Paged THEN NumPages[u] ELSE 1
PagesIn(b, s, u) == IF BagIn(<<s, u>>, b) THEN b[<<s, u>>] ELSE 0

\* How often a unit is asked for again.
Budget(s) ==
  CASE s = "networks" -> IF "retry_org_networks" \in on THEN MaxNetRetry ELSE 0
    [] s \in {"status", "clients", "uplinks", "vpn", "security", "limits"} -> MaxRetry
    [] OTHER -> 0

\* What an answer 400, and any other error, means to a stage: the unit is
\* left out, or the call has no result. For getUplinkUsage every error is
\* the first, for NewMerakiClient too.
SkipsOn400 == {"clients", "security", "limits", "usage", "networks"}
SkipsOnError == {"usage", "networks"}

BeginStage(f, s) ==
  /\ at' = [at EXCEPT ![f] = s] /\ left' = [left EXCEPT ![f] = Tracked(s)]
  /\ unit' = [unit EXCEPT ![f] = NoUnit]

\* The first of some calls; the others are still to be made.
BeginCall(calls) ==
  LET first == CHOOSE i \in calls : \A j \in calls : i <= j IN
  BeginStage(Poller, CallOrder[first]) /\ call' = CallOrder[first] /\ todo' = calls \ {first}

\* The next call of this poll, or the select.
NextCall ==
  /\ got' = [got EXCEPT ![Poller] = EmptyBag] /\ refused' = [refused EXCEPT ![Poller] = {}]
  /\ IF todo = {}
     THEN /\ at' = [at EXCEPT ![Poller] = "select"] /\ call' = "none"
          /\ left' = [left EXCEPT ![Poller] = {}] /\ unit' = [unit EXCEPT ![Poller] = NoUnit]
          /\ UNCHANGED todo
     ELSE BeginCall(todo)

------------------------------------------------------------------------------
\* Requests and their answers.

TakeUnit(f, u) ==
  /\ at[f] \in Stages /\ unit[f] = NoUnit /\ u \in left[f] /\ toLog[f] = 0
  /\ unit' = [unit EXCEPT ![f] = u] /\ tries' = [tries EXCEPT ![f] = 0] /\ asks' = [asks EXCEPT ![f] = 0]
  /\ UNCHANGED <<on, at, runVars, left, toLog, got, refused, clientVars, clockVars, busy, cacheVars, chanVars>>

Asking(f) == unit[f] # NoUnit /\ toLog[f] = 0 /\ asks' = [asks EXCEPT ![f] = @ + 1]

\* A page is kept, or logged; the next one is asked for if it has a link to one.
GotPage(f) ==
  LET u == unit[f] IN
  /\ Asking(f)
  /\ got' = [got EXCEPT ![f] = @ (+) SetToBag({<<at[f], u>>})]
  /\ toLog' = [toLog EXCEPT ![f] = IF at[f] = "security" THEN 1 ELSE 0]
  /\ IF PagesIn(got[f], at[f], u) + 1 = PagesOf(at[f], u)
     THEN unit' = [unit EXCEPT ![f] = NoUnit] /\ left' = [left EXCEPT ![f] = @ \ {u}]
     ELSE UNCHANGED <<unit, left>>
  /\ UNCHANGED <<on, at, runVars, tries, refused, clientVars, clockVars, busy, cacheVars, chanVars>>

\* Status 429, or any error of getOrgNetworks: sleep and ask for this page
\* again. The retries of a unit are counted over all its pages.
AskAgain(f) ==
  /\ Asking(f) /\ tries[f] < Budget(at[f]) /\ tries' = [tries EXCEPT ![f] = @ + 1]
  /\ UNCHANGED <<on, at, runVars, left, unit, toLog, got, refused, clientVars, clockVars, busy, cacheVars, chanVars>>

\* getUplinkUsage asks again for as long as the answer is 429.
UsageBusy ==
  /\ at[Poller] = "usage" /\ Asking(Poller) /\ busy < MaxBusy /\ busy' = busy + 1
  /\ UNCHANGED <<on, at, runVars, left, unit, tries, toLog, got, refused, clientVars, clockVars, cacheVars, chanVars>>

\* getOrgNetworks tries again after any error.
NoRetry(f) == at[f] = "networks" => tries[f] >= Budget("networks")

SkipUnit(f) ==
  /\ refused' = [refused EXCEPT ![f] = @ \cup {<<at[f], unit[f]>>}]
  /\ left' = [left EXCEPT ![f] = @ \ {unit[f]}] /\ unit' = [unit EXCEPT ![f] = NoUnit]
  /\ UNCHANGED <<at, runVars, got>>

\* The call returns without a result; a goroutine in the background ends.
GiveUp(f) ==
  IF f = Poller THEN NextCall
  ELSE /\ at' = [at EXCEPT ![f] = "none"] /\ left' = [left EXCEPT ![f] = {}]
       /\ unit' = [unit EXCEPT ![f] = NoUnit] /\ got' = [got EXCEPT ![f] = EmptyBag]
       /\ refused' = [refused EXCEPT ![f] = {}] /\ UNCHANGED runVars

\* Mutant of Refused: a stage that has no result ends with what it has.
RefusedKeeps(f) ==
  /\ Asking(f) /\ NoRetry(f)
  /\ IF at[f] \in SkipsOn400 THEN SkipUnit(f)
     ELSE /\ at' = [at EXCEPT ![f] = "send"] /\ left' = [left EXCEPT ![f] = {}]
          /\ unit' = [unit EXCEPT ![f] = NoUnit] /\ UNCHANGED <<runVars, got, refused>>
  /\ UNCHANGED <<on, tries, toLog, clientVars, clockVars, busy, cacheVars, chanVars>>

\* Status 400: the pages of the unit that have come stay.
Refused(f) ==
  /\ Asking(f) /\ NoRetry(f)
  /\ IF at[f] \in SkipsOn400 THEN SkipUnit(f) ELSE GiveUp(f)
  /\ UNCHANGED <<on, tries, toLog, clientVars, clockVars, busy, cacheVars, chanVars>>

\* Any other error, a timeout, or 429 with no retries left.
RequestFails(f) ==
  /\ Asking(f) /\ NoRetry(f)
  /\ IF at[f] \in SkipsOnError THEN SkipUnit(f) ELSE GiveUp(f)
  /\ UNCHANGED <<on, tries, toLog, clientVars, clockVars, busy, cacheVars, chanVars>>

\* c.logchan <- blocks while it is full.
PushLine(f) ==
  /\ toLog[f] > 0 /\ lines < LogRoom /\ lines' = lines + 1 /\ toLog' = [toLog EXCEPT ![f] = @ - 1]
  /\ UNCHANGED <<on, at, runVars, left, unit, tries, asks, got, refused, clientVars, clockVars, busy, cacheVars, jchf>>

------------------------------------------------------------------------------
\* NewMerakiClient

ListOrgs(S) ==
  /\ at[Poller] = "boot" /\ at' = [at EXCEPT ![Poller] = "networks"]
  /\ left' = [left EXCEPT ![Poller] = S]
  /\ UNCHANGED <<on, runVars, unit, tries, asks, toLog, got, refused, clientVars, clockVars, busy, cacheVars, chanVars>>

\* No organisations, or an option that is no longer supported: there is no client.
NoClient ==
  /\ at[Poller] = "boot" /\ at' = [at EXCEPT ![Poller] = "done"]
  /\ UNCHANGED <<on, runVars, fetchVars, clientVars, clockVars, busy, cacheVars, chanVars>>

StageEnds(s) == at[Poller] = s /\ left[Poller] = {} /\ unit[Poller] = NoUnit /\ toLog[Poller] = 0

\* Only an organisation whose networks are all known, and are not none, is kept.
ClientReady(S) ==
  /\ StageEnds("networks")
  /\ S \subseteq {o \in Orgs : PagesIn(got[Poller], "networks", o) > 0 /\ <<"networks", o>> \notin refused[Poller]}
  /\ tracked' = S /\ known' = got[Poller]
  /\ at' = [at EXCEPT ![Poller] = "select"] /\ got' = [got EXCEPT ![Poller] = EmptyBag]
  /\ refused' = [refused EXCEPT ![Poller] = {}]
  /\ UNCHANGED <<on, runVars, left, unit, tries, asks, toLog, clockVars, busy, cacheVars, chanVars>>

------------------------------------------------------------------------------
\* Run

PollTick ==
  /\ at[Poller] # "boot" /\ at[Poller] # "done" /\ polls < MaxPolls /\ polls' = polls + 1 /\ ticked' = TRUE
  /\ UNCHANGED <<on, at, runVars, fetchVars, clientVars, busy, cancelled, cacheVars, chanVars>>

StartPoll ==
  /\ at[Poller] = "select" /\ ticked /\ ticked' = FALSE
  /\ BeginCall({i \in DOMAIN CallOrder : CallOrder[i] \in on})
  /\ UNCHANGED <<on, tries, asks, toLog, got, refused, clientVars, polls, cancelled, busy, cacheVars, chanVars>>

CancelPoll ==
  /\ ~cancelled /\ cancelled' = TRUE
  /\ UNCHANGED <<on, at, runVars, fetchVars, clientVars, ticked, polls, busy, cacheVars, chanVars>>

\* The end of the context is seen in the select only.
PollDone ==
  /\ at[Poller] = "select" /\ cancelled /\ at' = [at EXCEPT ![Poller] = "done"]
  /\ UNCHANGED <<on, runVars, fetchVars, clientVars, clockVars, busy, cacheVars, chanVars>>

Parse == at' = [at EXCEPT ![Poller] = "send"] /\ UNCHANGED <<left, unit, runVars, got, refused>>

\* These have one stage, and what it has fetched is parsed.
OneStage(s) ==
  /\ StageEnds(s) /\ Parse
  /\ UNCHANGED <<on, tries, asks, toLog, clientVars, clockVars, busy, cacheVars, chanVars>>

GetOrgChanges == OneStage("changes")
GetNetworkClients == OneStage("clients")
GetVpnStatus == OneStage("vpn")
GetNetworkAttr == OneStage("attr")

SecurityDone ==
  /\ StageEnds("security") /\ NextCall
  /\ UNCHANGED <<on, tries, asks, toLog, clientVars, clockVars, busy, cacheVars, chanVars>>

\* getDeviceStatus goes on to getDeviceInfo unless no device is left.
NoDevices ==
  /\ StageEnds("status") /\ NextCall
  /\ UNCHANGED <<on, tries, asks, toLog, clientVars, clockVars, busy, cacheVars, chanVars>>

InfoFromCache ==
  /\ StageEnds("status") /\ infoOk /\ Parse
  /\ UNCHANGED <<on, tries, asks, toLog, clientVars, clockVars, busy, cacheVars, chanVars>>

AskForInfo ==
  /\ StageEnds("status") /\ ~infoOk /\ BeginStage(Poller, "info")
  /\ UNCHANGED <<on, runVars, tries, asks, toLog, got, refused, clientVars, clockVars, busy, cacheVars, chanVars>>

\* setDeviceInfo, when every organisation has answered.
InfoDone ==
  /\ StageEnds("info") /\ info' = got[Poller] /\ infoOk' = TRUE /\ Parse
  /\ UNCHANGED <<on, tries, asks, toLog, clientVars, clockVars, busy, bwOk, bw, bwRefused, chanVars>>

AskForUsage ==
  /\ StageEnds("uplinks") /\ "usage" \in on /\ BeginStage(Poller, "usage")
  /\ UNCHANGED <<on, runVars, tries, asks, toLog, got, refused, clientVars, clockVars, busy, cacheVars, chanVars>>

AskForLatency ==
  /\ StageEnds("usage") /\ BeginStage(Poller, "latency")
  /\ UNCHANGED <<on, runVars, tries, asks, toLog, got, refused, clientVars, clockVars, busy, cacheVars, chanVars>>

UplinksKnown == StageEnds("latency") \/ (StageEnds("uplinks") /\ "usage" \notin on)

\* getUplinkExtraInfo is not wanted, or finds its cache valid, ...
LimitsFromCache ==
  /\ UplinksKnown /\ ("limits" \in on => bwOk) /\ Parse
  /\ UNCHANGED <<on, tries, asks, toLog, clientVars, clockVars, busy, cacheVars, chanVars>>

\* ... or starts a goroutine, whether or not one is at work already.
LimitsInBackground(b) ==
  /\ UplinksKnown /\ "limits" \in on /\ ~bwOk /\ at[b] = "none"
  /\ at' = [at EXCEPT ![Poller] = "send", ![b] = "limits"]
  /\ left' = [left EXCEPT ![b] = Tracked("limits")]
  /\ UNCHANGED <<on, runVars, unit, tries, asks, toLog, got, refused, clientVars, clockVars, busy, cacheVars, chanVars>>

\* setUplinkBW
LimitsDone(b) ==
  /\ at[b] = "limits" /\ left[b] = {} /\ unit[b] = NoUnit
  /\ bw' = got[b] /\ bwRefused' = {r[2] : r \in refused[b]} /\ bwOk' = TRUE
  /\ at' = [at EXCEPT ![b] = "none"] /\ got' = [got EXCEPT ![b] = EmptyBag]
  /\ refused' = [refused EXCEPT ![b] = {}]
  /\ UNCHANGED <<on, runVars, left, unit, tries, asks, toLog, clientVars, clockVars, busy, infoOk, info, chanVars>>

\* c.jchfChan <- blocks while it is full.
SendResult ==
  /\ at[Poller] = "send" /\ jchf < JchfRoom /\ jchf' = jchf + 1 /\ NextCall
  /\ UNCHANGED <<on, tries, asks, toLog, clientVars, clockVars, busy, cacheVars, lines>>

\* Nothing is sent when nothing in the pages was of interest.
EmptyResult ==
  /\ at[Poller] = "send" /\ (call = "attr" => tracked = {}) /\ NextCall
  /\ UNCHANGED <<on, tries, asks, toLog, clientVars, clockVars, busy, cacheVars, chanVars>>

\* A day passes (external: the clock), and the channels are read (Export, LogTee).
DayPasses ==
  /\ (infoOk \/ bwOk) /\ infoOk' = FALSE /\ bwOk' = FALSE
  /\ UNCHANGED <<on, at, runVars, fetchVars, clientVars, clockVars, busy, info, bw, bwRefused, chanVars>>

ReadJchf ==
  /\ jchf > 0 /\ jchf' = jchf - 1
  /\ UNCHANGED <<on, at, runVars, fetchVars, clientVars, clockVars, busy, cacheVars, lines>>

ReadLine ==
  /\ lines > 0 /\ lines' = lines - 1
  /\ UNCHANGED <<on, at, runVars, fetchVars, clientVars, clockVars, busy, cacheVars, jchf>>

FetchStep(f) ==
  \/ GotPage(f) \/ AskAgain(f) \/ Refused(f) \/ RequestFails(f) \/ PushLine(f)
  \/ \E u \in Orgs \cup Nets : TakeUnit(f, u)

\* What goes on by itself once a poll has begun.
PollStep ==
  \/ \E f \in Fetchers : FetchStep(f)
  \/ \E S \in SUBSET Orgs : ClientReady(S)
  \/ StartPoll \/ GetOrgChanges \/ GetNetworkClients \/ GetVpnStatus \/ GetNetworkAttr \/ SecurityDone
  \/ NoDevices \/ InfoFromCache \/ AskForInfo \/ InfoDone
  \/ AskForUsage \/ AskForLatency \/ LimitsFromCache \/ UsageBusy
  \/ \E b \in Builders : LimitsInBackground(b) \/ LimitsDone(b)
  \/ SendResult \/ EmptyResult \/ ReadJchf \/ ReadLine \/ PollDone

MerakiNext ==
  \/ PollStep \/ NoClient \/ PollTick \/ CancelPoll \/ DayPasses
  \/ \E S \in SUBSET Orgs : ListOrgs(S)

------------------------------------------------------------------------------
\* Properties.

\* The variables have the types of the code's.
PollTypeOK ==
  /\ at \in [Fetchers -> Stages \cup {"boot", "select", "send", "done", "none"}]
  /\ \A f \in Fetchers : unit[f] # NoUnit => unit[f] \in left[f]
  /\ tracked \subseteq Orgs /\ jchf \in 0..JchfRoom /\ lines \in 0..LogRoom

\* "Don't retry a call more than this many times": the requests for one unit
\* are its pages and at most the retries, however many pages it has.
RetriesBounded ==
  \A f \in Fetchers :
    unit[f] # NoUnit /\ at[f] # "usage" => asks[f] < PagesOf(at[f], unit[f]) + Budget(at[f])

\* The stages whose pages make the result of a call.
StagesOf(c) == IF c = "uplinks" /\ "usage" \in on THEN {"uplinks", "usage", "latency"}
               ELSE IF c = "attr" THEN {} ELSE {c}

\* A result that is sent holds every page once of every unit it is about,
\* through retries and failures, but for the units a stage may leave out.
WholeResults ==
  at[Poller] = "send" =>
    \A s \in StagesOf(call) : \A u \in Tracked(s) :
      \/ PagesIn(got[Poller], s, u) = PagesOf(s, u)
      \/ <<s, u>> \in refused[Poller] /\ s \in SkipsOn400 /\ PagesIn(got[Poller], s, u) < PagesOf(s, u)

\* The lists that are kept for long are whole: an organisation that is
\* tracked has all its networks, the device information is of all
\* organisations, and the limits of all networks but the refused ones.
ListsWhole ==
  /\ \A o \in tracked : PagesIn(known, "networks", o) = NumPages[o]
  /\ infoOk => \A o \in tracked : PagesIn(info, "info", o) = NumPages[o]
  /\ bwOk => \A n \in Tracked("limits") : n \in bwRefused \/ PagesIn(bw, "limits", n) = 1

\* The Meraki client keeps its types and its retry limit, and sends and keeps
\* nothing that is only a part.
MerakiInv == PollTypeOK /\ RetriesBounded /\ WholeResults /\ ListsWhole

\* Every poll ends, if getUplinkUsage is not answered 429 for ever and the
\* channels are read, and with the context Run ends.
PollOver == at[Poller] \in IF cancelled THEN {"boot", "done"} ELSE {"boot", "select", "done"}
PollsEnd == []<>PollOver
=============================================================================
