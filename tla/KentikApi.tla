----------------------------- MODULE KentikApi -----------------------------
(***************************************************************************)
(* KentikApi: the tables of synthetic tests, agents and devices that are   *)
(* read from the Kentik API for every set of credentials in turn. They are *)
(* refreshed at start-up, by a timer and on demand (UpdateTests), under a  *)
(* mutex the readers do not take. What a device lacks is fetched in a      *)
(* goroutine of its own the first time it is asked for.                    *)
(*                                                                         *)
(* A reply is the version of the server's data it was made from; a table is*)
(* the sequence of the replies, one for each set of credentials.           *)
(***************************************************************************)
EXTENDS Naturals, Sequences, FiniteSets

CONSTANTS
  NumCreds,       \* sets of credentials (config.KentikCreds)
  Demands,        \* goroutines UpdateTests may have started at one time
  Callers,        \* threads that enrich flows
  Kinds,          \* what is loaded lazily: "customs", "interfaces"
  NoOne,
  MaxVersion,     \* changes of the server's data
  MaxWork         \* refreshes, and calls of GetDevice and GetInterface

ASSUME ApiAssumption ==
  /\ IsFiniteSet(Demands) /\ IsFiniteSet(Callers)
  /\ NumCreds \in Nat \ {0} /\ MaxVersion \in Nat \ {0} /\ MaxWork \in Nat \ {0}
  /\ Kinds \subseteq {"customs", "interfaces"} /\ NoOne \notin Demands
  /\ NoOne \notin {"boot", "timer"} /\ "boot" \notin Demands /\ "timer" \notin Demands

Refreshers == {"boot", "timer"} \cup Demands
Gens == 1..MaxWork

VARIABLES
  version,     \* of the server's data
  up,          \* NewKentikApi: at work, done or failed
  mux,         \* the refresher that holds the mutex
  apiPc, apiGen, apiRead,   \* where each refresher is, its number, its replies so far
  tests, testsOf,           \* synTests and synAgents, and the refresh they are from
  devs, devsOf,             \* devices, likewise
  recent,      \* less than MIN_TIME_BETWEEN_SYNTH_CHECKS since lastSynth
  begun,       \* refreshes that have begun
  asked,       \* loadedCustoms and loadedInts of a device of each refresh
  held,        \* the refresh the device a caller works with is from
  lookups,     \* calls of GetDevice and GetInterface so far
  looking,     \* callers between the read and the write of such a flag
  loads,       \* lazy loads at work
  started      \* history: lazy loads started

tableVars == <<tests, testsOf, devs, devsOf>>
loadVars == <<asked, held, lookups, looking, loads, started>>
apiVars == <<version, up, mux, apiPc, apiGen, apiRead, tableVars, recent, begun, loadVars>>

ApiInit ==
  /\ version = 1 /\ up = "boot" /\ mux = NoOne
  /\ apiPc = [t \in Refreshers |-> IF t = "boot" THEN "waiting" ELSE "idle"]
  /\ apiGen = [t \in Refreshers |-> 0] /\ apiRead = [t \in Refreshers |-> <<>>]
  /\ tests = <<>> /\ testsOf = 0 /\ devs = <<>> /\ devsOf = 0
  /\ recent = FALSE /\ begun = 0
  /\ asked = [k \in Kinds |-> [g \in Gens |-> FALSE]]
  /\ held = [c \in Callers |-> 0] /\ lookups = 0 /\ looking = [c \in Callers |-> <<>>] /\ loads = {}
  /\ started = [k \in Kinds |-> [g \in Gens |-> 0]]

\* The server's data change (external).
ServerChanges ==
  /\ version < MaxVersion /\ version' = version + 1
  /\ UNCHANGED <<up, mux, apiPc, apiGen, apiRead, tableVars, recent, begun, loadVars>>

\* A minute passes.
MinutePasses ==
  /\ recent /\ recent' = FALSE
  /\ UNCHANGED <<version, up, mux, apiPc, apiGen, apiRead, tableVars, begun, loadVars>>

------------------------------------------------------------------------------
\* Refreshes.

\* The bound on what the agent is asked to do.
MoreWork == begun + Cardinality({t \in Refreshers : apiPc[t] = "waiting"}) + lookups < MaxWork

Ask(t) ==
  /\ up = "up" /\ apiPc[t] = "idle" /\ MoreWork
  /\ apiPc' = [apiPc EXCEPT ![t] = "waiting"]
  /\ UNCHANGED <<version, up, mux, apiGen, apiRead, tableVars, recent, begun, loadVars>>

\* manageCache: the ticker of one hour.
CacheTick == Ask("timer")

\* UpdateTests, for a flow of an unknown test; lastSynth is read without the mutex.
UpdateTests(t) == ~recent /\ Ask(t)

\* Mutant of EnterRefresh: the function is not guarded.
EnterRefreshAnyway(t) ==
  /\ apiPc[t] = "waiting"
  /\ mux' = t /\ recent' = TRUE /\ begun' = begun + 1
  /\ apiGen' = [apiGen EXCEPT ![t] = begun + 1]
  /\ apiPc' = [apiPc EXCEPT ![t] = "tests"]
  /\ UNCHANGED <<version, up, apiRead, tableVars, loadVars>>

\* getSynthAndDeviceInfo takes the mutex and sets lastSynth.
EnterRefresh(t) ==
  /\ apiPc[t] = "waiting" /\ mux = NoOne
  /\ mux' = t /\ recent' = TRUE /\ begun' = begun + 1
  /\ apiGen' = [apiGen EXCEPT ![t] = begun + 1]
  /\ apiPc' = [apiPc EXCEPT ![t] = "tests"]
  /\ UNCHANGED <<version, up, apiRead, tableVars, loadVars>>

\* The refresh returns, and with it NewKentikApi at start-up.
Return(t, ok) ==
  /\ mux' = NoOne /\ apiPc' = [apiPc EXCEPT ![t] = "idle"]
  /\ apiGen' = [apiGen EXCEPT ![t] = 0] /\ apiRead' = [apiRead EXCEPT ![t] = <<>>]
  /\ up' = IF t # "boot" THEN up ELSE IF ok THEN "up" ELSE "failed"

ListTests(t) ==
  /\ apiPc[t] = "tests" /\ apiPc' = [apiPc EXCEPT ![t] = "agents"]
  /\ apiRead' = [apiRead EXCEPT ![t] = Append(@, version)]
  /\ UNCHANGED <<version, up, mux, apiGen, tableVars, recent, begun, loadVars>>

\* Tests and agents are published when all credentials have answered.
ListAgents(t) ==
  /\ apiPc[t] = "agents"
  /\ LET last == Len(apiRead[t]) = NumCreds IN
     /\ apiPc' = [apiPc EXCEPT ![t] = IF last THEN "devices" ELSE "tests"]
     /\ apiRead' = [apiRead EXCEPT ![t] = IF last THEN <<>> ELSE @]
     /\ tests' = IF last THEN apiRead[t] ELSE tests
     /\ testsOf' = IF last THEN apiGen[t] ELSE testsOf
  /\ UNCHANGED <<version, up, mux, apiGen, devs, devsOf, recent, begun, loadVars>>

\* getDeviceInfoNew: the new devices replace the old ones; `full' is what
\* the list itself brings (MapDeviceDetailedToDevice).
ListDevices(t, full) ==
  /\ apiPc[t] = "devices"
  /\ LET got == Append(apiRead[t], version)
         last == Len(got) = NumCreds
         g == apiGen[t] IN
     /\ full = {} \/ last
     /\ apiPc' = [apiPc EXCEPT ![t] = IF last THEN "sites" ELSE "devices"]
     /\ apiRead' = [apiRead EXCEPT ![t] = IF last THEN <<>> ELSE got]
     /\ devs' = IF last THEN got ELSE devs
     /\ devsOf' = IF last THEN g ELSE devsOf
     /\ asked' = [k \in Kinds |-> [asked[k] EXCEPT ![g] = k \in full]]
  /\ UNCHANGED <<version, up, mux, apiGen, tests, testsOf, recent, begun, held, lookups, looking, loads,
                 started>>

\* getSites maps the sites into the devices; credentials that get an error
\* are skipped.
ListSites(t) ==
  /\ apiPc[t] = "sites"
  /\ IF Len(apiRead[t]) = NumCreds - 1
     THEN Return(t, TRUE)
     ELSE /\ apiRead' = [apiRead EXCEPT ![t] = Append(@, version)]
          /\ UNCHANGED <<up, mux, apiPc, apiGen>>
  /\ UNCHANGED <<version, tableVars, recent, begun, loadVars>>

\* An endpoint that is not implemented ends the refresh without an error,
\* and the tables after it stay as they are.
Unimplemented(t) ==
  /\ apiPc[t] \in {"tests", "devices", "sites"} /\ Return(t, TRUE)
  /\ UNCHANGED <<version, tableVars, recent, begun, loadVars>>

CallFails(t) ==
  /\ apiPc[t] \in {"tests", "agents", "devices"} /\ Return(t, FALSE)
  /\ UNCHANGED <<version, tableVars, recent, begun, loadVars>>

RefreshStep(t) ==
  \/ EnterRefresh(t) \/ ListTests(t) \/ ListAgents(t) \/ ListSites(t) \/ Unimplemented(t) \/ CallFails(t)
  \/ \E full \in {{}, Kinds} : ListDevices(t, full)

------------------------------------------------------------------------------
\* Lazy loads.

\* LoadedCustoms and LoadedInterfaces read the flag of a device ...
ReadFlag(c, k, g) == looking' = [looking EXCEPT ![c] = <<k, g, asked[k][g]>>]

Lookup(c) == looking[c] = <<>> /\ MoreWork /\ lookups' = lookups + 1

GetDevice(c) ==
  /\ up = "up" /\ devs # <<>> /\ Lookup(c) /\ held' = [held EXCEPT ![c] = devsOf]
  /\ IF "customs" \in Kinds THEN ReadFlag(c, "customs", devsOf) ELSE UNCHANGED looking
  /\ UNCHANGED <<version, up, mux, apiPc, apiGen, apiRead, tableVars, recent, begun, asked,
                 loads, started>>

\* The device is the one GetDevice returned, whatever was published since.
GetInterface(c) ==
  /\ "interfaces" \in Kinds /\ held[c] # 0 /\ Lookup(c) /\ ReadFlag(c, "interfaces", held[c])
  /\ UNCHANGED <<version, up, mux, apiPc, apiGen, apiRead, tableVars, recent, begun, asked,
                 held, loads, started>>

\* Mutant of SetFlag: only the reply of a load sets the flag.
SetFlagLate(c) ==
  /\ looking[c] # <<>>
  /\ LET k == looking[c][1] g == looking[c][2] saw == looking[c][3] IN
     /\ loads' = IF saw THEN loads ELSE loads \cup {[by |-> c, kind |-> k, gen |-> g, cred |-> 1]}
     /\ started' = [started EXCEPT ![k][g] = @ + IF saw THEN 0 ELSE 1]
  /\ looking' = [looking EXCEPT ![c] = <<>>]
  /\ UNCHANGED <<version, up, mux, apiPc, apiGen, apiRead, tableVars, recent, begun, asked, held,
                 lookups>>

\* ... set it, and start a load when it was not set.
SetFlag(c) ==
  /\ looking[c] # <<>>
  /\ LET k == looking[c][1] g == looking[c][2] saw == looking[c][3] IN
     /\ asked' = [asked EXCEPT ![k][g] = TRUE]
     /\ loads' = IF saw THEN loads ELSE loads \cup {[by |-> c, kind |-> k, gen |-> g, cred |-> 1]}
     /\ started' = [started EXCEPT ![k][g] = @ + IF saw THEN 0 ELSE 1]
  /\ looking' = [looking EXCEPT ![c] = <<>>]
  /\ UNCHANGED <<version, up, mux, apiPc, apiGen, apiRead, tableVars, recent, begun, held,
                 lookups>>

\* AddCustoms and AddInterfaces, into the device the load was started for.
LoadReply(l) ==
  /\ l \in loads /\ loads' = loads \ {l}
  /\ asked' = [asked EXCEPT ![l.kind][l.gen] = IF l.kind = "customs" THEN TRUE ELSE @]
  /\ UNCHANGED <<version, up, mux, apiPc, apiGen, apiRead, tableVars, recent, begun, held, lookups, looking,
                 started>>

\* The next credentials are tried after an error; nobody tries again after the last.
LoadFails(l) ==
  /\ l \in loads
  /\ loads' = (loads \ {l}) \cup IF l.cred < NumCreds THEN {[l EXCEPT !.cred = @ + 1]} ELSE {}
  /\ UNCHANGED <<version, up, mux, apiPc, apiGen, apiRead, tableVars, recent, begun, asked,
                 held, lookups, looking, started>>

LoadUnimplemented(l) ==
  /\ l \in loads /\ loads' = loads \ {l}
  /\ UNCHANGED <<version, up, mux, apiPc, apiGen, apiRead, tableVars, recent, begun, asked,
                 held, lookups, looking, started>>

ApiNext ==
  \/ ServerChanges \/ MinutePasses \/ CacheTick
  \/ \E t \in Demands : UpdateTests(t)
  \/ \E t \in Refreshers : RefreshStep(t)
  \/ \E c \in Callers : GetDevice(c) \/ GetInterface(c) \/ SetFlag(c)
  \/ \E l \in loads : LoadReply(l) \/ LoadFails(l) \/ LoadUnimplemented(l)

------------------------------------------------------------------------------
\* Properties.

\* The variables have the types of the code's, and a table is either empty
\* or holds the replies to all credentials.
ApiTypeOK ==
  /\ version \in 1..MaxVersion /\ up \in {"boot", "up", "failed"} /\ mux \in Refreshers \cup {NoOne}
  /\ apiPc \in [Refreshers -> {"idle", "waiting", "tests", "agents", "devices", "sites"}]
  /\ {Len(tests), Len(devs)} \subseteq {0, NumCreds}
  /\ \A l \in loads : l.gen \in 1..devsOf /\ l.cred \in 1..NumCreds

\* The devices never come from a later refresh than the tests and agents,
\* and those of one refresh were read after its tests.
TablesInOrder ==
  /\ devsOf <= testsOf /\ testsOf <= begun
  /\ devsOf = testsOf => \A i \in DOMAIN tests, j \in DOMAIN devs : tests[i] <= devs[j]

\* A device is loaded once; only threads that ask at the same moment can
\* each start a load, so there are never more loads than threads.
LoadsBounded == \A k \in Kinds, g \in Gens : started[k][g] <= Cardinality(Callers)

\* The API tables keep their types and their order, and their lazy loads are bounded.
ApiInv == ApiTypeOK /\ TablesInOrder /\ LoadsBounded

\* No table is ever replaced by one that was read earlier: refreshes by the
\* timer, by UpdateTests and at start-up do not overtake each other.
TablesForward ==
  [][ /\ \A i \in DOMAIN tests : tests[i] <= tests'[i]
      /\ \A i \in DOMAIN devs : devs[i] <= devs'[i] ]_tableVars

\* Every refresh that was asked for gets the mutex and ends, if the API
\* answers or the connection's keep-alive fails.
RefreshersIdle == \A t \in Refreshers : apiPc[t] = "idle"
RefreshesEnd == []<>RefreshersIdle
=============================================================================
