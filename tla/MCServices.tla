----------------------------- MODULE MCServices -----------------------------
(* Instances of Services for TLC. *)
EXTENDS Services, TLC

CONSTANTS o1, o2, n1, n2

\* Two organisations of one network each; one of each has two pages.
MCOrgOf == [n \in Nets |-> IF n = n1 THEN o1 ELSE o2]
MCPages == [u \in Orgs \cup Nets |-> IF u \in {o1, n1} THEN 2 ELSE 1]

\* Every call, each with what it can be combined with.
MCConfigs ==
  {{"changes", "status", "attr"}, {"clients", "security", "retry_org_networks"}, {"uplinks", "usage", "vpn"},
   {"uplinks", "limits"}}

------------------------------------------------------------------------------
\* Profiles. Two files of one name, an XML file that takes ids over, a cycle, a
\* missing name, a diamond; names that several object ids have.
P(s, w) == [path |-> s, wild |-> w]
S(o, n, i, d, p) == [oid |-> o, name |-> n, iface |-> i, dup |-> d, poll |-> p, own |-> FALSE]
M(k, t) == [kind |-> k, target |-> t]
E(a, b, c) == [f \in FileSet |-> CASE f = "a" -> a [] f \in {"b", "sub/b"} -> b [] f = "c" -> c [] OTHER -> <<>>]

MCFiles == <<"a", "b", "c", "sub/b", "x">>
MCNameOf == [f \in FileSet |-> IF f = "sub/b" THEN "b" ELSE f]
MCSysids ==
  ("a" :> <<P(<<1, 2>>, FALSE), P(<<1>>, TRUE)>>) @@ ("b" :> <<P(<<1, 2>>, TRUE)>>)
  @@ ("c" :> <<P(<<1, 2>>, FALSE)>>) @@ ("sub/b" :> <<>>) @@ ("x" :> <<P(<<1, 2, 3>>, FALSE), P(<<1, 2>>, TRUE)>>)
MCSymbols ==
  ("a" :> <<S(1, "in", FALSE, FALSE, 0), S(9, NoName, FALSE, FALSE, 60)>>)
  @@ ("b" :> <<S(10, "in", FALSE, FALSE, 30), S(1, "out", FALSE, FALSE, 0)>>)
  @@ ("c" :> <<S(100, "in", FALSE, FALSE, 3), S(10, "in", TRUE, FALSE, 0), S(9, "in", FALSE, TRUE, 600)>>)
  @@ ("sub/b" :> <<S(2, "in", FALSE, FALSE, 0)>>) @@ ("x" :> <<[S(9, NoName, FALSE, FALSE, 60) EXCEPT !.own = TRUE], S(1, "in", FALSE, FALSE, 0)>>)
MCMatches ==
  [f \in FileSet |->
     CASE f = "b" -> [list |-> <<M("miss", "x"), M("hit", "none"), M("hit", "c")>>, map |-> {}]
       [] f = "a" -> [list |-> <<M("hit", "none")>>, map |-> {M("hit", "b"), M("miss", "c"), M("invalid", "x")}]
       [] OTHER -> [list |-> <<>>, map |-> {}]]
MCOidLen == [o \in {1, 2, 9, 10, 100} |-> IF o < 10 THEN 1 ELSE IF o = 10 THEN 2 ELSE 3]
MCExtends ==
  {E(<<"b", "c">>, <<"c">>, <<>>), E(<<"b">>, <<"c">>, <<"a">>), E(<<"none", "c">>, <<>>, <<"b", "c">>)}
MCQueries ==
  {[sysid |-> s, force |-> NoName] : s \in {<<1, 2>>, <<1, 2, 4, 5>>, <<1, 7>>, <<2, 2>>}}
  \cup {[sysid |-> <<1, 2, 3>>, force |-> n] : n \in {"b", "none"}}

------------------------------------------------------------------------------
\* Traps. Variables of one, of two and of all components, ids with and without a
\* leading dot, packets with no, a known, an unknown and two traps, and variables
\* that handle skips.
Num(n) == [v |-> NoVar, n |-> n, len |-> 0]
Var(v, l) == [v |-> v, n |-> 0, len |-> l]
Ev(nm, ps, st) == [name |-> nm, parts |-> ps, star |-> st]
MCTrapDefs == <<
  [oid |-> <<1, 9>>, star |-> FALSE, drop |-> TRUE, attrs |-> ("x" :> <<77>>),
   events |-> <<Ev("plain", <<Num(1), Num(2)>>, FALSE),
                Ev("pair", <<Num(1), Num(3), Var("a", 2), Var("x", 1)>>, FALSE)>>],
  [oid |-> <<0, 1, 8>>, star |-> TRUE, drop |-> FALSE, attrs |-> Empty,
   events |-> <<Ev("rest", <<Num(1), Var("a", 1), Var("y", Rest), Var("z", 1)>>, FALSE),
                Ev("dotted", <<Num(0), Num(2), Var("b", 1)>>, FALSE), Ev("star", <<Num(1), Num(4)>>, TRUE)>>]>>
Of(oid) == [oid |-> oid, read |-> TRUE]
Skipped(oid) == [oid |-> oid, read |-> FALSE]
MCPackets ==
  [trapOids : {<<>>, << <<0, 1, 9>> >>, << <<0, 1, 8, 3>> >>, << <<0, 7>> >>, << <<0, 1, 9>>, <<0, 7>> >>},
   vars : {<<Of(<<0, 1, 3, 5, 6, 7>>), Of(<<0, 3>>), Skipped(<<0, 3>>)>>, <<Skipped(<<0, 1, 6, 7, 8>>), Of(<<0, 1, 3, 5>>)>>,
           <<Of(<<0, 1, 4, 4>>), Of(<<0, 2, 5>>)>>, <<Of(<<0, 1>>), Of(<<0, 1, 2>>)>>}]
=============================================================================
