---------------------------- MODULE SnmpMetadata ----------------------------
(***************************************************************************)
(* The metadata poller of a device: InterfaceMetadata.Poll, which builds   *)
(* the interfaces from several walks in a fixed order, the renumbering for *)
(* old Huawei devices, DeviceMetadata.poll, and toFlows, which makes the   *)
(* one metadata record and keeps what it has said when save_cache is on.   *)
(* How a walk is tried is in SnmpMetrics; here it fails or answers.        *)
(***************************************************************************)
EXTENDS SnmpValue, FiniteSets, Maps

CONSTANTS
  IfWalks,       \* the names of the interface walks, in their order
  IfMetaAnswers, \* name -> what a walk of it may answer
  MetaMibs,      \* object id -> name, table, tables, conv, enumRev
  MetaAnswers,   \* object id -> what a walk of it may answer
  SysNames,      \* names with a field of their own
  Huawei,        \* the index maps an old Huawei device may answer
  UserTags,      \* tags of the device: a value, or a reference [ref |-> key]
  MaxMetaPolls

\* The tags are finite in number, answers are lists of variables, and those of the
\* walks that say addresses have one.
AddressWalks == {"ipAdEntIfIndex", "ipAdEntNetMask", "ipv6AddrPrefix"}

ASSUME MetadataAssumption ==
  /\ MaxMetaPolls \in Nat /\ IsFiniteSet(DOMAIN UserTags)
  /\ IfWalks \in Seq({IfWalks[i] : i \in DOMAIN IfWalks})
  /\ \A i \in DOMAIN IfWalks : \A ans \in IfMetaAnswers[IfWalks[i]] :
       /\ ans \in Seq({ans[j] : j \in DOMAIN ans})
       /\ IfWalks[i] \in AddressWalks => \A j \in DOMAIN ans : ans[j].addr # ""

VARIABLES
  dSave,     \* save_cache
  dPhase,    \* "idle", "interfaces", "huawei", "device", "convert", "send", "panicked"
  dAt,       \* walks of the interfaces done
  dInt,      \* intLine: interface -> its data
  dIfc,      \* ifcIdx: address -> interface
  dSaid,     \* history: what the device has said of addresses in this poll
  dBefore,   \* history: the numbers the interfaces of this poll should have
  dTodo,     \* object ids of the device metadata yet to walk
  dMeta,     \* what they have answered: fields, ints and tables
  dFlow,     \* the record
  scache, tcache,
  dEver,     \* history: the attributes and rows that a record has had
  dPolls

metaVars == <<dSave, dPhase, dAt, dInt, dIfc, dSaid, dBefore, dTodo, dMeta, dFlow, scache, tcache, dEver, dPolls>>

NoMeta == [strs |-> <<>>, ints |-> <<>>, tables |-> <<>>]
NoFlow == [strs |-> <<>>, tables |-> <<>>, metrics |-> <<>>]

MetaInit ==
  /\ dSave \in BOOLEAN /\ dPhase = "idle" /\ dAt = 0 /\ dInt = <<>> /\ dIfc = <<>> /\ dSaid = {} /\ dBefore = {}
  /\ dTodo = {} /\ dMeta = NoMeta /\ dFlow = NoFlow /\ scache = <<>> /\ tcache = <<>>
  /\ dEver = [strs |-> {}, rows |-> {}] /\ dPolls = 0

------------------------------------------------------------------------------
\* InterfaceMetadata.

NewInterface(i) == [index |-> i, addr |-> "", mask |-> "", alias |-> <<>>, extra |-> <<>>]

\* The first address of an interface is its own, the others are aliases.
AddAddress(d, a, mask) ==
  IF d.addr = "" THEN [d EXCEPT !.addr = a, !.mask = IF mask = "" THEN @ ELSE mask]
  ELSE [d EXCEPT !.alias = Append(@, [addr |-> a, mask |-> mask])]

\* Mutant of SetMask: whichever address it is, the interface gets the mask.
SetMaskOfInterface(d, a, mask) == [d EXCEPT !.mask = mask]

\* The mask of an address goes to the interface or to the first alias that has
\* this address.
SetMask(d, a, mask) ==
  IF d.addr = a THEN [d EXCEPT !.mask = mask]
  ELSE LET at == {i \in DOMAIN d.alias : d.alias[i].addr = a}
       IN  IF at = {} THEN d ELSE [d EXCEPT !.alias[CHOOSE i \in at : \A j \in at : i <= j].mask = mask]

\* The text that is kept of a variable with no case of its own in the switch.
ExtraOf(v) == IF v.type = "octets" THEN Raw(v.val) ELSE Text("dec", <<v.val>>)

\* One variable of a walk. ints is intLine and ifc is ifcIdx; addresses only go
\* to interfaces that an earlier walk has made.
IfVariable(name, st, v) ==
  CASE name = "ipAdEntIfIndex" ->
         IF v.type = "int" /\ v.val \in DOMAIN st.ints
         THEN [ints |-> [st.ints EXCEPT ![v.val] = AddAddress(@, v.addr, "")], ifc |-> Only(v.addr, v.val) ++ st.ifc]
         ELSE st
    [] name = "ipAdEntNetMask" ->
         IF v.type = "ip" /\ v.addr \in DOMAIN st.ifc
         THEN [st EXCEPT !.ints[st.ifc[v.addr]] = SetMask(@, v.addr, v.val)]
         ELSE st
    [] name = "ipv6AddrPrefix" ->
         IF v.type = "int" /\ v.idx \in DOMAIN st.ints
         THEN [st EXCEPT !.ints[v.idx] = AddAddress(@, v.addr, v.val)]
         ELSE st
    [] OTHER ->
         LET d == IF v.idx \in DOMAIN st.ints THEN st.ints[v.idx] ELSE NewInterface(v.idx)
             kept == CASE name \in {"ifSpeed", "Type", "LastChange"} -> Only(name, Text("dec", <<v.val>>))
                       [] name = "PhysAddress" ->
                            IF v.type = "octets" THEN Only(name, GetFromConv(v.val, [kind |-> "hwaddr"]).s) ELSE <<>>
                       [] name = "ConnectorPresent" ->
                            IF v.val \in {1, 2} THEN Only(name, Text("connector", <<v.val>>)) ELSE <<>>
                       [] OTHER -> Only(name, ExtraOf(v))
         IN  [st EXCEPT !.ints = Only(v.idx, [d EXCEPT !.extra = kept ++ @]) ++ @]

IfWalked(name, start, ans) ==
  LET at[i \in 0..Len(ans)] == IF i = 0 THEN start ELSE IfVariable(name, at[i - 1], ans[i])
  IN  at[Len(ans)]

MetaPoll ==
  /\ dPhase = "idle" /\ dPolls < MaxMetaPolls /\ dPolls' = dPolls + 1
  /\ dPhase' = "interfaces" /\ dAt' = 0 /\ dInt' = <<>> /\ dIfc' = <<>> /\ dSaid' = {} /\ dBefore' = {} /\ dMeta' = NoMeta
  /\ UNCHANGED <<dSave, dTodo, dFlow, scache, tcache, dEver>>

IfWalkAnswers ==
  /\ dPhase = "interfaces" /\ dAt < Len(IfWalks) /\ dAt' = dAt + 1
  /\ \E ans \in IfMetaAnswers[IfWalks[dAt + 1]] :
     \E st \in {IfWalked(IfWalks[dAt + 1], [ints |-> dInt, ifc |-> dIfc], ans)} :
       /\ dInt' = st.ints /\ dIfc' = st.ifc
       /\ dSaid' = dSaid \cup {<<IfWalks[dAt + 1], ans[i]>> : i \in DOMAIN ans}
  /\ UNCHANGED <<dSave, dPhase, dBefore, dTodo, dMeta, dFlow, scache, tcache, dEver, dPolls>>

\* Any failed walk ends the poll: no record this time.
IfWalkFails ==
  /\ dPhase = "interfaces" /\ dAt < Len(IfWalks) /\ dPhase' = "idle"
  /\ dAt' = 0 /\ dInt' = <<>> /\ dIfc' = <<>> /\ dSaid' = {}
  /\ UNCHANGED <<dSave, dBefore, dTodo, dMeta, dFlow, scache, tcache, dEver, dPolls>>

\* The manufacturer decides (isBrokenHuawei). No interfaces at all is only
\* worth a warning.
Manufacturer ==
  /\ dPhase = "interfaces" /\ dAt = Len(IfWalks)
  /\ \/ dPhase' = "huawei" /\ UNCHANGED dTodo
     \/ dPhase' = "device" /\ dTodo' = DOMAIN MetaMibs
  /\ dBefore' = DOMAIN dInt
  /\ UNCHANGED <<dSave, dAt, dInt, dIfc, dSaid, dMeta, dFlow, scache, tcache, dEver, dPolls>>

\* UpdateForHuawei: interfaces with a new number go there (of two, one), the
\* others stay unless their number has been taken.
Moved(map) ==
  [n \in {map[i] : i \in DOMAIN dInt \cap DOMAIN map} |->
     [dInt[CHOOSE i \in DOMAIN dInt \cap DOMAIN map : map[i] = n] EXCEPT !.index = n]]
NotFound(map) == [n \in DOMAIN dInt \ DOMAIN map |-> dInt[n]]

\* Mutant of Renumbered: interfaces without a new number are left out.
RenumberedOnly(map) == Moved(map)

Renumbered(map) == Moved(map) ++ NotFound(map)

UpdateForHuawei ==
  /\ dPhase = "huawei"
  /\ \/ \E map \in Huawei : dInt' = Renumbered(map) /\ dPhase' = "device" /\ dTodo' = DOMAIN MetaMibs
          /\ dBefore' = {IF i \in DOMAIN map THEN map[i] ELSE i : i \in DOMAIN dInt}
     \/ dPhase' = "idle" /\ dBefore' = {} /\ UNCHANGED <<dInt, dTodo>>
  /\ dIfc' = <<>> /\ dSaid' = {}
  /\ UNCHANGED <<dSave, dAt, dMeta, dFlow, scache, tcache, dEver, dPolls>>

------------------------------------------------------------------------------
\* DeviceMetadata.

\* NewMetaValue: the text, or what the enumeration says, with its tables.
MetaValue(mib, s, n) ==
  [tables |-> {mib.table} \cup mib.tables,
   s |-> IF mib.enumRev = <<>> THEN s
         ELSE Text("enum", <<IF n \in DOMAIN mib.enumRev THEN mib.enumRev[n] ELSE -1>>)]

\* handleTable: a variable with an index is an attribute of a row.
HandleTable(md, mib, v) ==
  LET row == IF v.idx \in DOMAIN md.tables THEN md.tables[v.idx] ELSE <<>>
      value == IF v.type = "octets"
               THEN MetaValue(mib, IF mib.conv.kind = "" THEN Raw(v.val) ELSE GetFromConv(v.val, mib.conv).s, 0)
               ELSE MetaValue(mib, Text("dec", <<v.val>>), v.val)
  IN  [md EXCEPT !.tables = Only(v.idx, Only(mib.name, value) ++ row) ++ @]

\* A variable without one: a field of its own, or a custom text or number.
MetaVariable(mib, md, v) ==
  IF v.type = "nil" THEN md
  ELSE IF mib.name \in SysNames THEN [md EXCEPT !.strs = Only(mib.name, Raw(v.val)) ++ @]
  ELSE IF v.idx # "" THEN HandleTable(md, mib, v)
  ELSE IF v.type = "octets"
  THEN LET c == GetFromConv(v.val, mib.conv)
       IN  IF mib.conv.kind = "" THEN [md EXCEPT !.strs = Only(mib.name, Raw(v.val)) ++ @]
           ELSE IF c.i > 0 THEN [md EXCEPT !.ints = Only(mib.name, c.i) ++ @, !.strs = Only("ks_" \o mib.name, c.s) ++ @]
           ELSE [md EXCEPT !.strs = (IF c.m = <<>> THEN Only(mib.name, c.s)
                                     ELSE [k \in {c.m[j].name : j \in DOMAIN c.m} |->
                                             Raw(c.m[CHOOSE j \in DOMAIN c.m : c.m[j].name = k].bytes)]) ++ @]
  ELSE IF v.val \in DOMAIN mib.enumRev
  THEN [md EXCEPT !.strs = Only(mib.name, Text("enum", <<mib.enumRev[v.val]>>)) ++ @]
  ELSE [md EXCEPT !.ints = Only(mib.name, v.val) ++ @]

WalkedInto(md, mib, ans) ==
  LET at[i \in 0..Len(ans)] == IF i = 0 THEN md ELSE MetaVariable(mib, at[i - 1], ans[i])
  IN  at[Len(ans)]

\* A failed walk is counted and the next one done.
MetaWalked(o) ==
  /\ dPhase = "device" /\ o \in dTodo /\ dTodo' = dTodo \ {o}
  /\ \E ans \in MetaAnswers[o] \cup {<<>>} : dMeta' = WalkedInto(dMeta, MetaMibs[o], ans)
  /\ dPhase' = IF dTodo' = {} THEN "convert" ELSE "device"
  /\ UNCHANGED <<dSave, dAt, dInt, dIfc, dSaid, dBefore, dFlow, scache, tcache, dEver, dPolls>>

------------------------------------------------------------------------------
\* toFlows.

SysFields == [k \in SysNames |-> IF k \in DOMAIN dMeta.strs THEN dMeta.strs[k] ELSE NoText]

\* The tables an attribute is in: the union over the rows that have it.
TablesOf(tables) ==
  [k \in UNION {DOMAIN tables[i] : i \in DOMAIN tables} |->
     UNION {tables[i][k].tables : i \in {j \in DOMAIN tables : k \in DOMAIN tables[j]}}]

\* The tags of the device, in the random order of a map: a reference takes the
\* value of that name, tags that were set before it included.
SetTag(m, k) ==
  LET tag == UserTags[k]
  IN  Only(k, IF tag.ref # "" /\ tag.ref \in DOMAIN m THEN m[tag.ref] ELSE tag.text) ++ m

Tagged(strs, order) ==
  LET at[i \in 0..Len(order)] == IF i = 0 THEN strs ELSE SetTag(at[i - 1], order[i])
  IN  at[Len(order)]

\* The interfaces are attributes of the record too.
IfAttributes ==
  [k \in {"if." \o i \o ".Address" : i \in DOMAIN dInt} |->
     Text("address", <<dInt[CHOOSE i \in DOMAIN dInt : k = "if." \o i \o ".Address"].addr>>)]

\* Mutant of Filled: the cache is taken from what came this time only.
FilledNot(now, cache) == now

\* Old values are filled in where there is none now.
Filled(now, cache) == now ++ cache

\* A record of a device without tables has a nil map, and filling rows into it
\* from the cache is a panic, which nobody recovers.
TablesPanic == dSave /\ dMeta.tables = <<>> /\ tcache # <<>>

ToFlows(order) ==
  /\ dPhase = "convert" /\ ~TablesPanic
  /\ \E strs \in {IfAttributes ++ Tagged(dMeta.strs ++ SysFields, order)} :
     \E fl \in {[strs |-> IF dSave THEN Filled(strs, scache) ELSE strs,
                 tables |-> IF dSave THEN Filled(dMeta.tables, tcache) ELSE dMeta.tables,
                 metrics |-> TablesOf(dMeta.tables)]} :
       /\ dFlow' = fl /\ scache' = (IF dSave THEN fl.strs ELSE scache)
       /\ tcache' = (IF dSave THEN fl.tables ELSE tcache)
       /\ dEver' = [strs |-> dEver.strs \cup DOMAIN strs, rows |-> dEver.rows \cup DOMAIN dMeta.tables]
  /\ dPhase' = "send"
  /\ UNCHANGED <<dSave, dAt, dInt, dIfc, dSaid, dBefore, dTodo, dMeta, dPolls>>

ToFlowsPanics ==
  /\ dPhase = "convert" /\ TablesPanic /\ dPhase' = "panicked"
  /\ UNCHANGED <<dSave, dAt, dInt, dIfc, dSaid, dBefore, dTodo, dMeta, dFlow, scache, tcache, dEver, dPolls>>

\* jchfChan takes the record; nothing is left of the poll but the caches.
MetaSent ==
  /\ dPhase = "send" /\ dPhase' = "idle"
  /\ dAt' = 0 /\ dInt' = <<>> /\ dIfc' = <<>> /\ dSaid' = {} /\ dBefore' = {} /\ dMeta' = NoMeta /\ dFlow' = NoFlow
  /\ UNCHANGED <<dSave, dTodo, scache, tcache, dEver, dPolls>>

MetaStep ==
  \/ IfWalkAnswers \/ IfWalkFails \/ Manufacturer \/ UpdateForHuawei
  \/ \E o \in dTodo : MetaWalked(o)
  \/ \E order \in SetToSeqs(DOMAIN UserTags) : ToFlows(order)
  \/ ToFlowsPanics \/ MetaSent
MetaNext == MetaStep \/ MetaPoll

------------------------------------------------------------------------------
\* Properties.

Addresses(d) == {[addr |-> d.addr, mask |-> d.mask]} \cup {d.alias[i] : i \in DOMAIN d.alias}

\* An interface has the addresses the device says it has, each with the mask
\* the device has said for that address, or none, whatever order they came in
\* and however many addresses it has.
AddressesTrue ==
  dPhase \in {"huawei", "interfaces"} =>
    \A i \in DOMAIN dInt : \A p \in Addresses(dInt[i]) : p.addr # "" =>
      /\ \E s \in dSaid : \/ s[1] = "ipAdEntIfIndex" /\ s[2].addr = p.addr /\ s[2].val = i
                          \/ s[1] = "ipv6AddrPrefix" /\ s[2].addr = p.addr /\ s[2].idx = i
      /\ p.mask # "" => \E s \in dSaid : s[1] \in {"ipAdEntNetMask", "ipv6AddrPrefix"} /\ s[2].addr = p.addr /\ s[2].val = p.mask

\* Every interface has its own number as its index, and the renumbering loses
\* none: the interfaces have the numbers they were given, and where two get one
\* number there is one interface left.
Numbered ==
  /\ \A i \in DOMAIN dInt : dInt[i].index = i
  /\ dPhase = "device" => DOMAIN dInt = dBefore

\* With save_cache a record has every attribute and every row an earlier one
\* had, through walks that fail or answer nothing.
CacheKeeps ==
  dSave /\ dPhase = "send" => dEver.strs \subseteq DOMAIN dFlow.strs /\ dEver.rows \subseteq DOMAIN dFlow.tables

\* A tag that refers to an attribute of the device has its value, unless there is
\* a tag of that name too or the tag is called like an attribute of an interface;
\* and every attribute of a row that came this time is said to be in its tables.
TagsAndTables ==
  dPhase = "send" =>
    /\ \A k \in DOMAIN UserTags \ DOMAIN IfAttributes : LET ref == UserTags[k].ref IN
         ref # "" /\ ref \in DOMAIN dMeta.strs \ DOMAIN UserTags => k \in DOMAIN dFlow.strs /\ dFlow.strs[k] = dMeta.strs[ref]
    /\ \A i \in DOMAIN dMeta.tables : \A k \in DOMAIN dMeta.tables[i] : dMeta.tables[i][k].tables \subseteq dFlow.metrics[k]

\* What the metadata record says.
MetadataInv == AddressesTrue /\ Numbered /\ CacheKeeps /\ TagsAndTables

=============================================================================
