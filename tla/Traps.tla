-------------------------------- MODULE Traps -------------------------------
(***************************************************************************)
(* SNMP traps: the definitions a traps.yml brings into the MIB database,   *)
(* and the listener that turns a packet into a record by them. An object   *)
(* id of a definition may end in variables, {name:n} for n components or   *)
(* {name:*} for the rest, whose values become attributes of the record.    *)
(*                                                                         *)
(* An object id is what strings.Split makes of it: a sequence of numbers,  *)
(* with 0 for the empty component before a leading dot.                    *)
(***************************************************************************)
EXTENDS Integers, Sequences, FiniteSets

CONSTANTS
  TrapDefs,     \* the definitions: [oid, star, drop, attrs, events]; an event is [name, parts, star]
  NoVar,        \* a part of an event's id is [v, n, len]: a number n, or a variable v
  Rest,         \* `len' of a variable that takes all the rest
  Packets,      \* [trapOids, vars]; a variable is [oid, read], read when handle knows its type
                \* and, of an octet string, what it holds (ReadOctetString)
  DropUndefined,  \* conf.Trap.DropUndefined
  NoTrap,
  TrapRoom,     \* capacity of jchfChan
  MaxTraps      \* packets received

IsList(s) == s \in Seq({s[i] : i \in DOMAIN s})

ASSUME TrapsAssumption ==
  /\ TrapRoom \in Nat \ {0} /\ MaxTraps \in Nat /\ Rest \notin Int /\ IsList(TrapDefs)
  /\ \A d \in DOMAIN TrapDefs : IsList(TrapDefs[d].events) /\ \A e \in DOMAIN TrapDefs[d].events :
       LET event == TrapDefs[d].events[e]
       IN  /\ event.name # NoTrap /\ IsList(event.parts)
           /\ \A i \in DOMAIN event.parts : event.parts[i].n \in Nat /\ event.parts[i].len \in Int \cup {Rest}
  /\ \A p \in Packets : IsList(p.trapOids) /\ p.vars \in Seq([oid : Seq(Nat), read : BOOLEAN])

VARIABLES
  parsed,    \* how many of the definitions have been parsed
  trapMibs,  \* mdb.trapMibs, by [path, wild]
  traps,     \* mdb.traps
  stage,     \* of handle: "listen", "trap", "vars", "send"
  packet,
  passed,    \* variables of the packet the loop has passed
  trap, foundTrap,  \* `trap' and `found' of handle
  named,     \* what has been written to the record, in order: <<object id, name or NoTrap>>
  attrs,     \* and its attributes from variables and definitions
  last,      \* history: the last variable that was looked up, and its attributes
  trapQueue, received,
  passedOn   \* history: the last record put on jchfChan, with its packet and Dropping

handleVars == <<packet, passed, trap, foundTrap, named, attrs, last>>
trapVars == <<parsed, trapMibs, traps, stage, handleVars, trapQueue, received, passedOn>>

Empty == [x \in {} |-> 0]
NoPacket == [trapOids |-> <<>>, vars |-> <<>>]

TrapsInit ==
  /\ parsed = 0 /\ trapMibs = Empty /\ traps = Empty /\ stage = "listen" /\ packet = NoPacket /\ passed = 0
  /\ trap = NoTrap /\ foundTrap = FALSE /\ named = <<>> /\ attrs = Empty /\ last = Empty
  /\ trapQueue = 0 /\ received = 0 /\ passedOn = Empty

------------------------------------------------------------------------------
\* parseTrapsFromYml

NormalizeOid(oid) == IF oid # <<>> /\ oid[1] = 0 THEN oid ELSE <<0>> \o oid

\* The value of a variable begins after what came before it; a later variable
\* of the same name takes its place.
Bind(s, v, len) == {x \in s.vars : x.v # v} \cup {[v |-> v, pos |-> s.next + 1, len |-> len]}

\* Mutant of ParsePart: the width of a variable does not count for the next one.
ParsePartNarrow(s, p) ==
  IF s.end THEN s
  ELSE IF p.v = NoVar THEN [s EXCEPT !.oid = Append(@, p.n), !.next = @ + 1]
  ELSE IF p.len = Rest THEN [s EXCEPT !.vars = Bind(s, p.v, 0), !.end = TRUE]
  ELSE [s EXCEPT !.vars = Bind(s, p.v, p.len), !.next = @ + 1]

\* One component: a number, or a variable. A variable of the rest ends the loop.
ParsePart(s, p) ==
  IF s.end THEN s
  ELSE IF p.v = NoVar THEN [s EXCEPT !.oid = Append(@, p.n), !.next = @ + 1]
  ELSE IF p.len = Rest THEN [s EXCEPT !.vars = Bind(s, p.v, 0), !.end = TRUE]
  ELSE [s EXCEPT !.vars = Bind(s, p.v, p.len), !.next = @ + p.len]

\* The loop over the components: the numbers, and for each variable where its
\* value begins and how long it is.
ParseOid(parts) ==
  LET go[i \in 0..Len(parts)] ==
        IF i = 0 THEN [oid |-> <<>>, next |-> 0, vars |-> {}, end |-> FALSE] ELSE ParsePart(go[i - 1], parts[i])
  IN  go[Len(parts)]

EventKey(e) ==
  LET s == ParseOid(e.parts) IN [path |-> NormalizeOid(s.oid), wild |-> e.star \/ s.vars # {}]
EventMib(d, e) == [event |-> e, vars |-> ParseOid(e.parts).vars, xattr |-> d.attrs]

\* One definition: the events, of which the last with a key counts, then the trap.
LoadTrap ==
  /\ parsed < Len(TrapDefs) /\ parsed' = parsed + 1
  /\ LET d == TrapDefs[parsed']
         keys == {EventKey(d.events[i]) : i \in DOMAIN d.events}
         eventOf(k) == d.events[CHOOSE i \in DOMAIN d.events :
                          EventKey(d.events[i]) = k
                          /\ \A j \in DOMAIN d.events : EventKey(d.events[j]) = k => j <= i]
         key == [path |-> NormalizeOid(d.oid), wild |-> d.star]
     IN  /\ trapMibs' = [k \in DOMAIN trapMibs \cup keys |->
                           IF k \in keys THEN EventMib(d, eventOf(k)) ELSE trapMibs[k]]
         /\ traps' = [k \in DOMAIN traps \cup {key} |-> IF k = key THEN d ELSE traps[k]]
  /\ UNCHANGED <<stage, handleVars, trapQueue, received, passedOn>>

\* The file does not parse, and none of its definitions is there.
LoadNoTraps ==
  /\ parsed = 0 /\ parsed' = Len(TrapDefs)
  /\ UNCHANGED <<trapMibs, traps, stage, handleVars, trapQueue, received, passedOn>>

------------------------------------------------------------------------------
\* GetTrap and GetForKey: the id itself, or the longest beginning with a wildcard.

Missing == [path |-> <<>>, wild |-> FALSE]

KeyFor(table, oid) ==
  LET up[i \in 0..Len(oid)] ==
        IF i = 0 THEN Missing
        ELSE LET k == [path |-> SubSeq(oid, 1, i), wild |-> TRUE] IN IF k \in DOMAIN table THEN k ELSE up[i - 1]
      itself == [path |-> oid, wild |-> FALSE]
  IN  IF itself \in DOMAIN table THEN itself ELSE up[Len(oid)]

GetTrap(oid) == IF KeyFor(traps, oid) = Missing THEN NoTrap ELSE traps[KeyFor(traps, oid)]

\* The components a variable stands for; none if the id is too short.
Values(mib, oid) ==
  LET fits == {x \in mib.vars : Len(oid) >= x.pos + x.len}
  IN  [v \in {x.v : x \in fits} |->
         LET x == CHOOSE y \in fits : y.v = v
         IN  SubSeq(oid, x.pos + 1, IF x.len = 0 THEN Len(oid) ELSE x.pos + x.len)]

\* Over(f, g): f, and g where f says nothing.
Over(f, g) == [x \in DOMAIN f \cup DOMAIN g |-> IF x \in DOMAIN f THEN f[x] ELSE g[x]]

AttrsFor(oid) ==
  LET k == KeyFor(trapMibs, oid)
  IN  IF k = Missing THEN Empty
      ELSE IF k.wild THEN Over(Values(trapMibs[k], oid), trapMibs[k].xattr)
      ELSE trapMibs[k].xattr

------------------------------------------------------------------------------
\* SnmpTrap.handle

Receive(p) ==
  /\ parsed = Len(TrapDefs) /\ stage = "listen" /\ received < MaxTraps /\ received' = received + 1
  /\ stage' = "trap" /\ packet' = p /\ passed' = 0 /\ trap' = NoTrap /\ foundTrap' = FALSE /\ named' = <<>>
  /\ attrs' = Empty /\ last' = Empty
  /\ UNCHANGED <<parsed, trapMibs, traps, trapQueue, passedOn>>

\* "What trap is this from?": the last trap id counts, but found stays set.
LookUpTrap ==
  /\ stage = "trap" /\ passed < Len(packet.trapOids) /\ passed' = passed + 1
  /\ trap' = GetTrap(packet.trapOids[passed + 1]) /\ foundTrap' = (foundTrap \/ trap' # NoTrap)
  /\ UNCHANGED <<parsed, trapMibs, traps, stage, packet, named, attrs, last, trapQueue, received, passedOn>>

TrapLookedUp ==
  /\ stage = "trap" /\ passed = Len(packet.trapOids) /\ stage' = "vars" /\ passed' = 0
  /\ UNCHANGED <<parsed, trapMibs, traps, packet, trap, foundTrap, named, attrs, last, trapQueue, received, passedOn>>

Dropping == DropUndefined \/ (trap # NoTrap /\ trap.drop)

\* A variable with a definition sets attributes and goes under its name; one
\* without goes under its id, unless it is dropped. One of an unknown type is
\* skipped, and an octet string that cannot be read, but only after the
\* attributes of its name are set.
Variable ==
  /\ stage = "vars" /\ passed < Len(packet.vars) /\ passed' = passed + 1
  /\ LET var == packet.vars[passed + 1]
         oid == var.oid
         k == KeyFor(trapMibs, oid)
     IN  IF k = Missing /\ Dropping
           THEN UNCHANGED <<named, attrs, last>>
           ELSE /\ named' = IF var.read
                             THEN Append(named, <<oid, IF k = Missing THEN NoTrap ELSE trapMibs[k].event.name>>)
                             ELSE named
                /\ attrs' = Over(AttrsFor(oid), attrs)
                /\ last' = IF k = Missing THEN Empty ELSE [oid |-> oid, mib |-> trapMibs[k], wild |-> k.wild]
  /\ UNCHANGED <<parsed, trapMibs, traps, stage, packet, trap, foundTrap, trapQueue, received, passedOn>>

VariablesDone ==
  /\ stage = "vars" /\ passed = Len(packet.vars)
  /\ stage' = IF Dropping /\ ~foundTrap THEN "listen" ELSE "send"
  /\ UNCHANGED <<parsed, trapMibs, traps, handleVars, trapQueue, received, passedOn>>

\* jchfChan <- blocks while it is full, and the listener with it.
SendTrap ==
  /\ stage = "send" /\ trapQueue < TrapRoom /\ trapQueue' = trapQueue + 1 /\ stage' = "listen"
  /\ passedOn' = [packet |-> packet, dropping |-> Dropping, named |-> named]
  /\ UNCHANGED <<parsed, trapMibs, traps, handleVars, received>>

ReadTrap ==
  /\ trapQueue > 0 /\ trapQueue' = trapQueue - 1
  /\ UNCHANGED <<parsed, trapMibs, traps, stage, handleVars, received, passedOn>>

TrapStep ==
  LoadTrap \/ LookUpTrap \/ TrapLookedUp \/ Variable \/ VariablesDone \/ SendTrap \/ ReadTrap

TrapsNext == TrapStep \/ LoadNoTraps \/ (\E p \in Packets : Receive(p))

TrapsSpec == TrapsInit /\ [][TrapsNext]_trapVars /\ WF_trapVars(TrapStep)

------------------------------------------------------------------------------
\* Every variable has its type.
TrapsTypeOK ==
  /\ stage \in {"listen", "trap", "vars", "send"} /\ trapQueue \in 0..TrapRoom /\ received \in 0..MaxTraps
  /\ passed \in 0..(Len(packet.trapOids) + Len(packet.vars))
  /\ foundTrap \in BOOLEAN /\ Len(named) <= Len(packet.vars)

Widths(parts) ==
  LET sum[i \in 0..Len(parts)] ==
        IF i = 0 THEN 0
        ELSE sum[i - 1] + (IF parts[i].v = NoVar THEN 1 ELSE IF parts[i].len = Rest THEN 0 ELSE parts[i].len)
  IN  sum

\* Definitions the promise is about: written without a leading dot, with the
\* variables, of different names and of one component or more, at the end.
Plain(parts) ==
  /\ parts # <<>> /\ parts[1].v = NoVar /\ parts[1].n # 0
  /\ \A i \in DOMAIN parts : parts[i].v # NoVar =>
       /\ parts[i].len = Rest \/ parts[i].len > 0
       /\ \A j \in DOMAIN parts : parts[j].v = parts[i].v => j = i
  /\ \A i, j \in DOMAIN parts : i < j /\ parts[j].v = NoVar => parts[i].v = NoVar

\* The value of a variable is what stands in the id at the place the variable
\* has in the definition, counted in components and not in parts, up to
\* a variable of the rest (parseTrapsFromYml, GetForKey).
VariablesBound ==
  last # Empty =>
    LET parts == last.mib.event.parts
        ids == Tail(last.oid)
        first(i) == Widths(parts)[i - 1] + 1
        rest == {i \in DOMAIN parts : parts[i].v # NoVar /\ parts[i].len = Rest}
    IN  (Plain(parts) /\ last.wild) =>
          \A i \in {j \in DOMAIN parts : parts[j].v # NoVar /\ \A r \in rest : j <= r} :
            LET end == IF i \in rest THEN Len(ids) ELSE first(i) + parts[i].len - 1
            IN  first(i) <= Len(ids) + 1 /\ end <= Len(ids) => attrs[parts[i].v] = SubSeq(ids, first(i), end)

\* With DropUndefined, of the agent or of the trap, what is passed on comes from a
\* packet with a known trap and has defined variables only; without, every
\* variable that can be read at all is written to the record (handle).
OnlyDefined ==
  passedOn # Empty =>
    IF passedOn.dropping
      THEN /\ \E i \in DOMAIN passedOn.packet.trapOids : GetTrap(passedOn.packet.trapOids[i]) # NoTrap
           /\ \A i \in DOMAIN passedOn.named : passedOn.named[i][2] # NoTrap
      ELSE \A i \in DOMAIN passedOn.packet.vars :
             passedOn.packet.vars[i].read => \E j \in DOMAIN passedOn.named : passedOn.named[j][1] = passedOn.packet.vars[i].oid

\* Traps as a whole: typed, with the variables of the definitions bound to the
\* right components, and only defined variables passed on where that is asked for.
TrapsInv == TrapsTypeOK /\ VariablesBound /\ OnlyDefined

\* The listener comes back to listen.
TrapHandled == stage = "listen"
=============================================================================
