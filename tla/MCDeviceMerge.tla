--------------------------- MODULE MCDeviceMerge ---------------------------
(* Instance of DeviceMerge for TLC: what the hosts report and the          *)
(* configurations that a user may start from.                              *)
EXTENDS DeviceMerge, TLC

CONSTANTS h1, h2, a, b, e1

\* h1 and h2 may be the same box behind two addresses or report one name.
MCAnswers == (h1 :> {<<a, e1>>, <<a, NoEngine>>}) @@ (h2 :> {<<a, e1>>, <<b, NoEngine>>})

Dev(h, e, p, t) == [ip |-> h, engine |-> e, purge |-> p, age |-> t]

MCInitFiles ==
  { Empty,
    Alt(a, h1) :> Dev(h1, e1, 0, 3),
    Plain(a) :> Dev(h1, NoEngine, 0, 1),
    Plain(a) :> Dev(h1, NoEngine, 0, 3) @@ Plain(b) :> Dev(h2, e1, 1, 3),
    Alt(a, h1) :> Dev(h1, NoEngine, -1, 3) @@ Alt(b, h2) :> Dev(h2, NoEngine, 0, 3),
    Plain(b) :> Dev(h1, e1, 2, 2) @@ Alt(a, h1) :> Dev(h1, NoEngine, 0, 2),
    Plain(a) :> Dev(h1, NoEngine, -2, 0) }

MCSettings == {s \in [purge : {0, 1}, replace : BOOLEAN, noDedup : BOOLEAN] :
                  s.purge = 0 => s.replace}
=============================================================================
