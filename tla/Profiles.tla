------------------------------ MODULE Profiles ------------------------------
(***************************************************************************)
(* The profiles of the MIB database: NewMibDB reads a directory of them,   *)
(* then merges into each one the profiles it extends, following the        *)
(* extensions of those. A device gets the profile of its system object id, *)
(* and polls what GetMetrics finds in it, of which prune keeps one object  *)
(* id for each name. Go maps are ranged over in any order.                 *)
(*                                                                         *)
(* A file has one metric table of its own. An object id of a device is a   *)
(* sequence of numbers, a pattern is one with a wildcard at the end or     *)
(* not. Whether a regular expression matches the description of the device *)
(* is part of the constant that holds the expression.                      *)
(***************************************************************************)
EXTENDS Integers, Sequences, FiniteSets

CONSTANTS
  Files,        \* the files, in the order they are read
  XmlFiles,     \* those that are XML; the others are YAML
  NameOf,       \* file.Name(): files of two directories may share it
  SysidsOf,     \* Sysobjectid, patterns
  SymbolsOf,    \* the symbols of the table: [oid, name, iface, dup, poll, own]; the first
                \* may be the table's own Symbol, the others are its Symbols
  MatchesOf,    \* [list, map] of entries [kind, target]: "hit", "miss", "invalid"
  Broken,       \* files whose table does not pass validate
  Polled,       \* files whose table is enabled and of a counter type
  OidLen,       \* length of an object id
  CounterTime,  \* counterTimeSec
  Adjust,       \* PollAdjustTime
  ExtendsSets,  \* the `extends' of the files: functions from files to sequences of names
  Queries,      \* devices: [sysid, force]
  NoFile, NoName

FileSet == {Files[i] : i \in DOMAIN Files}
Names == {NameOf[f] : f \in FileSet}
Patterns == UNION {{SysidsOf[f][i] : i \in DOMAIN SysidsOf[f]} : f \in FileSet}

ASSUME ProfilesAssumption ==
  /\ Files \in Seq(FileSet) /\ NoFile \notin FileSet
  /\ Adjust \in Nat /\ CounterTime \in Nat /\ CounterTime # Adjust
  /\ \A f \in FileSet : /\ SymbolsOf[f] \in Seq({SymbolsOf[f][i] : i \in DOMAIN SymbolsOf[f]})
                        /\ \A i \in DOMAIN SymbolsOf[f] : /\ SymbolsOf[f][i].poll \in Nat
                                                          /\ OidLen[SymbolsOf[f][i].oid] \in Nat
  /\ \A p \in Patterns : p \in [path : Seq(Nat), wild : BOOLEAN]
  /\ \A q \in Queries : q.sysid \in Seq(Nat)
  /\ \A e \in ExtendsSets : \A f \in FileSet : e[f] \in Seq({e[f][i] : i \in DOMAIN e[f]})

VARIABLES
  extending,  \* the configuration: which file extends which names
  validate,   \* mdb.validate
  loading,    \* "read", "extend", "validate", "ready", "prune", "done", or "failed"
  unread,     \* files not yet read
  byName,     \* `extends' of LoadProfiles
  profiles,   \* mdb.profiles
  toRange, cur,  \* entries of profiles the range has not reached, and the one it is at
  extended,   \* `extended' of a profile
  metrics,    \* Metrics of a profile: the files its tables come from, and fromExtended
  stack,      \* calls of extend: the profile, and the next of its Extends
  device,     \* the device looked at
  found,      \* its profile
  mibs,       \* deviceMetrics and interfaceMetrics, by <<iface, oid>>
  minTime,    \* minCounterTime
  unpruned,   \* keys the first range of prune has not reached
  seenNames,  \* by <<iface, name>>
  kept        \* the maps after prune: key -> PollDur

loaderVars == <<extending, validate, unread, byName, profiles, toRange, cur, extended, metrics, stack>>
useVars == <<device, found, mibs, minTime, unpruned, seenNames, kept>>
profileVars == <<loading, loaderVars, useVars>>

NoKeys == [k \in {} |-> 0]

ProfilesInit ==
  /\ extending \in ExtendsSets /\ validate \in BOOLEAN /\ loading = "read" /\ unread = Files
  /\ byName = [n \in Names |-> NoFile] /\ profiles = [p \in Patterns |-> NoFile]
  /\ toRange = {} /\ cur = NoFile /\ extended = [f \in FileSet |-> FALSE]
  /\ metrics = [f \in FileSet |-> <<[of |-> f, ext |-> FALSE]>>] /\ stack = <<>>
  /\ device \in Queries /\ found = NoFile /\ mibs = NoKeys /\ minTime = CounterTime /\ unpruned = {}
  /\ seenNames = NoKeys /\ kept = NoKeys

------------------------------------------------------------------------------
\* loadProfileDir

\* A file that does not parse is an error when validating, and passed over otherwise.
ReadBadFile ==
  /\ loading = "read" /\ unread # <<>>
  /\ IF validate THEN loading' = "failed" /\ unread' = <<>> ELSE unread' = Tail(unread) /\ UNCHANGED loading
  /\ UNCHANGED <<extending, validate, byName, profiles, toRange, cur, extended, metrics, stack, useVars>>

Sysids(f) == {SysidsOf[f][i] : i \in DOMAIN SysidsOf[f]}

\* parseMibFromYml: the name leads to the file read last, a system object id to
\* the one read first.
ReadYml ==
  /\ loading = "read" /\ unread # <<>> /\ Head(unread) \notin XmlFiles /\ unread' = Tail(unread)
  /\ LET f == Head(unread) IN
     /\ byName' = [byName EXCEPT ![NameOf[f]] = f]
     /\ profiles' = [p \in Patterns |-> IF p \in Sysids(f) /\ profiles[p] = NoFile THEN f ELSE profiles[p]]
  /\ UNCHANGED <<loading, extending, validate, toRange, cur, extended, metrics, stack, useVars>>

\* parseMibFromXml: the last one takes the id over, and cannot be extended.
ReadXml ==
  /\ loading = "read" /\ unread # <<>> /\ Head(unread) \in XmlFiles /\ unread' = Tail(unread)
  /\ profiles' = [p \in Patterns |-> IF p \in Sysids(Head(unread)) THEN Head(unread) ELSE profiles[p]]
  /\ UNCHANGED <<loading, extending, validate, byName, toRange, cur, extended, metrics, stack, useVars>>

ReadAll ==
  /\ loading = "read" /\ unread = <<>> /\ loading' = "extend"
  /\ toRange' = {p \in Patterns : profiles[p] # NoFile}
  /\ UNCHANGED <<extending, validate, unread, byName, profiles, cur, extended, metrics, stack, useVars>>

------------------------------------------------------------------------------
\* The second half of LoadProfiles

Frame(f) == [pro |-> f, next |-> 1]
Enter(f) == /\ stack' = Append(stack, Frame(f)) /\ extended' = [extended EXCEPT ![f] = TRUE]

\* The range reaches a profile: extend returns at once if it ran before.
RangeProfiles(p) ==
  /\ loading = "extend" /\ stack = <<>> /\ p \in toRange /\ toRange' = toRange \ {p} /\ cur' = profiles[p]
  /\ IF extended[profiles[p]]
       THEN loading' = "validate" /\ UNCHANGED <<extended, stack>>
       ELSE Enter(profiles[p]) /\ UNCHANGED loading
  /\ UNCHANGED <<extending, validate, unread, byName, profiles, metrics, useVars>>

Top == stack[Len(stack)]
Below == SubSeq(stack, 1, Len(stack) - 1)
Wanted == extending[Top.pro][Top.next]
Target(n) == IF n \in Names THEN byName[n] ELSE NoFile
Calling == loading = "extend" /\ stack # <<>>
NameLeft == Calling /\ Top.next <= Len(extending[Top.pro])

\* Mutant of Merge: a table that comes from further away keeps its mark.
MergeOwnMark(p, ep) == metrics' = [metrics EXCEPT ![p] = @ \o metrics[ep]]

Merge(p, ep) ==
  metrics' = [metrics EXCEPT ![p] = @ \o [i \in DOMAIN metrics[ep] |-> [metrics[ep][i] EXCEPT !.ext = TRUE]]]

Advance(st) == [st EXCEPT ![Len(st)].next = @ + 1]

\* "You must set the %s extended profile": an error of the whole load when
\* validating.
ExtendMissing ==
  /\ NameLeft /\ Target(Wanted) = NoFile
  /\ IF validate THEN loading' = "failed" /\ stack' = <<>> ELSE stack' = Advance(stack) /\ UNCHANGED loading
  /\ UNCHANGED <<extending, validate, unread, byName, profiles, toRange, cur, extended, metrics, useVars>>

ExtendCall ==
  /\ NameLeft /\ Target(Wanted) # NoFile /\ ~extended[Target(Wanted)] /\ Enter(Target(Wanted))
  /\ UNCHANGED <<loading, extending, validate, unread, byName, profiles, toRange, cur, metrics, useVars>>

\* Also the end of a recursion: the profile may be one whose own call of extend
\* has not returned yet.
ExtendMerge ==
  /\ NameLeft /\ Target(Wanted) # NoFile /\ extended[Target(Wanted)]
  /\ Merge(Top.pro, Target(Wanted)) /\ stack' = Advance(stack)
  /\ UNCHANGED <<loading, extending, validate, unread, byName, profiles, toRange, cur, extended, useVars>>

\* The call returns, and its caller merges.
ExtendReturn ==
  /\ Calling /\ ~NameLeft
  /\ IF Len(stack) = 1
       THEN stack' = <<>> /\ loading' = "validate" /\ UNCHANGED metrics
       ELSE Merge(Below[Len(Below)].pro, Top.pro) /\ stack' = Advance(Below) /\ UNCHANGED loading
  /\ UNCHANGED <<extending, validate, unread, byName, profiles, toRange, cur, extended, useVars>>

Tables(f) == {metrics[f][i].of : i \in DOMAIN metrics[f]}

\* Profile.validate, whose error counts when validating.
Validate ==
  /\ loading = "validate" /\ loading' = IF validate /\ Tables(cur) \cap Broken # {} THEN "failed" ELSE "extend"
  /\ cur' = NoFile
  /\ UNCHANGED <<extending, validate, unread, byName, profiles, toRange, extended, metrics, stack, useVars>>

Loaded ==
  /\ loading = "extend" /\ stack = <<>> /\ toRange = {} /\ loading' = "ready" /\ UNCHANGED <<loaderVars, useVars>>

------------------------------------------------------------------------------
\* FindProfile

Exact(s) == [path |-> s, wild |-> FALSE]
Wild(s, i) == [path |-> SubSeq(s, 1, i), wild |-> TRUE]
At(p) == IF p \in Patterns THEN profiles[p] ELSE NoFile

\* The walk up the tree, from the i-th component.
WalkUp(s) ==
  LET up[i \in 0..Len(s)] ==
        IF i = 0 THEN NoFile ELSE IF At(Wild(s, i)) # NoFile THEN At(Wild(s, i)) ELSE up[i - 1]
  IN  up[Len(s)]

\* The profiles `range mdb.profiles' may stop at when it looks for a name.
Called(n) == {f \in {profiles[p] : p \in Patterns} \ {NoFile} : NameOf[f] = n}

\* An entry that ends checkMatch: its expression does not compile, or matches
\* and names a profile.
Decides(e) == e.kind = "invalid" \/ (e.kind = "hit" /\ Called(e.target) # {})
Outcomes(e) == IF e.kind = "invalid" THEN {NoFile} ELSE Called(e.target)

CheckMatch(f) ==
  LET list == MatchesOf[f].list
      first == {i \in DOMAIN list : Decides(list[i]) /\ \A j \in 1..(i - 1) : ~Decides(list[j])}
      others == {e \in MatchesOf[f].map : Decides(e)}
  IN  IF first # {} THEN UNION {Outcomes(list[i]) : i \in first}
      ELSE IF others # {} THEN UNION {Outcomes(e) : e \in others}
      ELSE {f}

Listed(s) == IF At(Exact(s)) # NoFile THEN At(Exact(s)) ELSE WalkUp(s)

FindProfile(q) ==
  IF q.force # NoName /\ Called(q.force) # {} THEN Called(q.force)
  ELSE IF Listed(q.sysid) = NoFile THEN {NoFile}
  ELSE CheckMatch(Listed(q.sysid))

------------------------------------------------------------------------------
\* GetMetrics

\* The symbols of a table that are looked at: an own Symbol without a name has
\* the table left before its Symbols.
Reached(f) ==
  LET ss == SymbolsOf[f]
  IN  IF ss # <<>> /\ ss[1].own /\ ss[1].name = NoName THEN <<ss[1]>> ELSE ss

\* The symbols of a profile, table by table, with fromExtended.
SymbolsIn(f) ==
  LET all[i \in 0..Len(metrics[f])] ==
        IF i = 0 THEN <<>>
        ELSE LET t == metrics[f][i] IN
             all[i - 1] \o IF t.of \in Polled
                             THEN [j \in DOMAIN Reached(t.of) |-> [sym |-> Reached(t.of)[j], ext |-> t.ext]]
                             ELSE <<>>
  IN  all[Len(metrics[f])]

Key(s) == <<s.sym.iface, s.sym.oid>>
PollDur(s) == IF s.sym.poll \in {0, CounterTime} THEN 0 ELSE s.sym.poll - Adjust

\* The object id leads to the last symbol that has it; one without a name is skipped.
Collected(ss) ==
  LET named == {i \in DOMAIN ss : ss[i].sym.name # NoName}
  IN  [k \in {Key(ss[i]) : i \in named} |->
         LET last == CHOOSE i \in named : Key(ss[i]) = k /\ \A j \in named : Key(ss[j]) = k => j <= i
         IN  [name |-> ss[last].sym.name, dup |-> ss[last].sym.dup, ext |-> ss[last].ext,
              dur |-> PollDur(ss[last])]]

\* The last poll time below that of the device, which is not always the least.
MinCounterTime(ss) ==
  LET faster == SelectSeq(ss, LAMBDA s : s.sym.poll > 0 /\ s.sym.poll < CounterTime)
  IN  IF faster = <<>> THEN CounterTime ELSE faster[Len(faster)].sym.poll

\* A device is launched: its profile, and what it polls.
FindAndGet(f) ==
  /\ loading = "ready" /\ f \in FindProfile(device) /\ found' = f
  /\ IF f = NoFile
       THEN loading' = "done" /\ UNCHANGED <<mibs, minTime, unpruned>>
       ELSE /\ loading' = "prune" /\ mibs' = Collected(SymbolsIn(f)) /\ minTime' = MinCounterTime(SymbolsIn(f))
            /\ unpruned' = DOMAIN mibs'
  /\ UNCHANGED <<loaderVars, device, seenNames, kept>>

------------------------------------------------------------------------------
\* prune

NameKey(k) == <<k[1], mibs[k].name>>

\* Whether the object id at hand takes the place of the one seen before.
Replaces(k, o) ==
  IF mibs[k].ext = mibs[o].ext THEN OidLen[k[2]] > OidLen[o[2]] ELSE ~mibs[k].ext

PruneOne(k) ==
  /\ loading = "prune" /\ k \in unpruned /\ unpruned' = unpruned \ {k}
  /\ LET n == NameKey(k) IN
     seenNames' = [m \in DOMAIN seenNames \cup {n} |->
                     IF m # n THEN seenNames[m]
                     ELSE IF n \in DOMAIN seenNames /\ ~Replaces(k, seenNames[n]) THEN seenNames[n]
                     ELSE k]
  /\ UNCHANGED <<loading, loaderVars, device, found, mibs, minTime, kept>>

KeepNames == {seenNames[n] : n \in DOMAIN seenNames}

\* The second range: what is not kept goes, and when the device polls faster
\* than it is configured to, the others keep its own pace.
PruneDone ==
  /\ loading = "prune" /\ unpruned = {} /\ loading' = "done"
  /\ kept' = [k \in {x \in DOMAIN mibs : x \in KeepNames \/ mibs[x].dup} |->
                IF mibs[k].dur = 0 /\ minTime # CounterTime THEN CounterTime - Adjust ELSE mibs[k].dur]
  /\ UNCHANGED <<loaderVars, device, found, mibs, minTime, unpruned, seenNames>>

ProfilesNext ==
  \/ ReadBadFile \/ ReadYml \/ ReadXml \/ ReadAll
  \/ (\E p \in Patterns : RangeProfiles(p))
  \/ ExtendMissing \/ ExtendCall \/ ExtendMerge \/ ExtendReturn \/ Validate \/ Loaded
  \/ (\E f \in FileSet \cup {NoFile} : FindAndGet(f))
  \/ (\E k \in DOMAIN mibs : PruneOne(k))
  \/ PruneDone

ProfilesSpec == ProfilesInit /\ [][ProfilesNext]_profileVars /\ WF_profileVars(ProfilesNext)

------------------------------------------------------------------------------
\* Every variable has its type.
ProfilesTypeOK ==
  /\ loading \in {"read", "extend", "validate", "ready", "prune", "done", "failed"}
  /\ \A n \in Names : byName[n] \in FileSet \cup {NoFile}
  /\ \A p \in Patterns : profiles[p] \in FileSet \cup {NoFile}
  /\ \A i \in DOMAIN stack : stack[i].pro \in FileSet /\ stack[i].next \in 1..(Len(extending[stack[i].pro]) + 1)
  /\ found \in FileSet \cup {NoFile} /\ toRange \subseteq Patterns /\ unpruned \subseteq DOMAIN mibs

\* What a profile extends, directly or not, itself included.
Direct(f) == {Target(extending[f][i]) : i \in DOMAIN extending[f]} \ {NoFile}
Reach(f) ==
  LET within[n \in 0..Cardinality(FileSet)] ==
        IF n = 0 THEN {f} ELSE within[n - 1] \cup UNION {Direct(g) : g \in within[n - 1]}
  IN  within[Cardinality(FileSet)]
Cyclic(f) == \E g \in Reach(f) : \E h \in Direct(g) : g \in Reach(h)

InUse == loading \in {"ready", "prune", "done"}
IsListed(f) == \E p \in Patterns : profiles[p] = f

\* Whatever the order in which the profiles are extended, a profile has its own
\* table, not marked as extended, first; every other one is marked; and the
\* tables are those of the profiles it extends, directly or not. In a cycle, which
\* `extended' cuts where it is entered, a profile may miss some of them, but
\* none of those it names itself (extend, merge).
MergedWhole ==
  /\ \A f \in FileSet : /\ metrics[f][1] = [of |-> f, ext |-> FALSE]
                        /\ \A i \in 2..Len(metrics[f]) : metrics[f][i].ext
                        /\ Tables(f) \subseteq Reach(f)
  /\ InUse => \A f \in {g \in FileSet : IsListed(g)} :
                Direct(f) \subseteq Tables(f) /\ (~Cyclic(f) => Tables(f) = Reach(f))

\* An id covers itself; one with a wildcard all that begins like it, but the walk
\* never looks for a wildcard alone.
Covers(p, s) ==
  /\ Len(p.path) <= Len(s) /\ SubSeq(s, 1, Len(p.path)) = p.path
  /\ IF p.wild THEN p.path # <<>> ELSE Len(p.path) = Len(s)

\* A device whose profile is neither forced nor matched by its description gets
\* the profile of the most specific id that covers it, and none only when no id
\* does (FindProfile).
MostSpecific ==
  LET covering == {p \in Patterns : profiles[p] # NoFile /\ Covers(p, device.sysid)}
      best == {p \in covering : \A o \in covering : Len(o.path) < Len(p.path) \/ (Len(o.path) = Len(p.path)
                                                      /\ (o.wild \/ ~p.wild))}
  IN  (InUse /\ loading # "ready" /\ device.force = NoName) =>
        IF covering = {} THEN found = NoFile ELSE \E p \in best : found \in CheckMatch(profiles[p])

\* Of the object ids with one name, what is polled does not depend on the order of
\* the maps: one is kept that is the profile's own if any of them is, and of the
\* greatest length among these; another is kept only if it may be a duplicate
\* (prune). When the device polls faster for the sake of one symbol, the others
\* keep a pace of their own.
PrunedBest ==
  loading = "done" =>
    /\ \A k \in DOMAIN mibs : \E o \in DOMAIN kept :
         /\ NameKey(o) = NameKey(k) /\ (mibs[o].ext => mibs[k].ext)
         /\ mibs[o].ext = mibs[k].ext => OidLen[k[2]] <= OidLen[o[2]]
    /\ \A k, o \in DOMAIN kept : NameKey(k) = NameKey(o) /\ k # o => mibs[k].dup \/ mibs[o].dup
    /\ minTime # CounterTime => \A k \in DOMAIN kept : kept[k] # 0

\* The profiles as a whole: typed, merged from what they extend, found by the
\* most specific id, and pruned to the best object id of each name.
ProfilesInv == ProfilesTypeOK /\ MergedWhole /\ MostSpecific /\ PrunedBest

\* The load ends, cycles or not, and so does the launch of a device.
ProfilesOver == loading \in {"done", "failed"}
=============================================================================
