----------------------------- MODULE SnmpValue -----------------------------
(***************************************************************************)
(* What the agent makes of one value of an SNMP answer: the conversions a  *)
(* profile may ask for (snmp/util), enumerations, and the numbers a poll   *)
(* computes from others. A text is a form and its parts: the bytes of the  *)
(* answer ("raw"), a decimal number, an address, a date, and so on.        *)
(***************************************************************************)
EXTENDS Integers, Sequences, SequencesExt

CONSTANTS
  Submatch,      \* regular expression -> bytes -> the groups FindSubmatch yields
  BadRegexps,    \* expressions that do not compile
  UpsCodes       \* severity and dependency of each flag of a UPS, from 0

Text(f, p) == [form |-> f, parts |-> p]
Raw(bytes) == Text("raw", bytes)
NoText == Raw(<<>>)
NoInt == [ok |-> FALSE, n |-> 0]
Converted(i, s) == [i |-> i, s |-> s, m |-> <<>>]
Nothing0 == Converted(0, NoText)

Big(bs) == FoldLeft(LAMBDA acc, b : 256 * acc + b, 0, bs)

\* strconv.ParseInt: the digits of the answer, or of a number that was printed.
ParseInt(t) ==
  CASE t.form = "dec" -> [ok |-> TRUE, n |-> t.parts[1]]
    [] t.form = "raw" /\ t.parts # <<>> /\ ToSet(t.parts) \subseteq 48..57 ->
         [ok |-> TRUE, n |-> FoldLeft(LAMBDA acc, d : 10 * acc + d - 48, 0, t.parts)]
    [] OTHER -> NoInt

HexToIP(bv) ==
  CASE Len(bv) = 16 -> Converted(0, Text("ip", bv))
    [] Len(bv) = 8 -> Converted(0, Text("ip", [i \in 1..4 |-> Big(SubSeq(bv, 2 * i - 1, 2 * i))]))
    [] Len(bv) = 4 -> Converted(0, Text("ip", bv))
    [] OTHER -> Nothing0

HexToDateTime(bv) ==
  IF Len(bv) \in {8, 11}
  THEN Converted(0, Text("date", <<Big(SubSeq(bv, 1, 2))>> \o SubSeq(bv, 3, Len(bv)))) ELSE Nothing0

\* Too few bytes: the panic of the binary package is recovered, and a recovered
\* GetFromConv returns zero values. uint16, uint32 and uint64 take the first
\* bytes of a longer answer.
HexToInt(bv, endian, width) ==
  IF endian \notin {"LittleEndian", "BigEndian"} \/ width \notin {2, 4, 8} \/ Len(bv) < width THEN Nothing0
  ELSE LET first == SubSeq(bv, 1, width)
       IN  Converted(0, Text("dec", <<Big(IF endian = "BigEndian" THEN first ELSE Reverse(first))>>))

\* Groups without a name end the loop, groups with a name are gathered: names
\* before an unnamed group are lost.
FromRegexp(bv, re) ==
  IF re \in BadRegexps THEN Converted(0, Text("error", <<>>))
  ELSE LET groups == IF bv \in DOMAIN Submatch[re] THEN Submatch[re][bv] ELSE <<>>
           plain == {i \in 1..Len(groups) : groups[i].name = ""}
           first == Raw(groups[CHOOSE i \in plain : \A j \in plain : i <= j].bytes)
       IN  IF plain = {} THEN [Nothing0 EXCEPT !.m = groups]
           ELSE Converted(ParseInt(first).n, first)

\* The flags of a UPS: a flag counts unless the flag it depends on is set too,
\* and the highest severity wins. A longer answer is out of range of upsCodes
\* and the panic is recovered.
HandlePowersetStatus(bv) ==
  LET set == {i \in 0..(Len(bv) - 1) : bv[i + 1] = 49}
      counting == {i \in set : UpsCodes[i].dep = 0 \/ UpsCodes[i].dep \notin set}
      worst == {UpsCodes[i].severity : i \in counting}
      top == CHOOSE s \in worst : \A t \in worst : t <= s
  IN  IF \E i \in set : i \notin DOMAIN UpsCodes THEN Nothing0
      ELSE IF worst = {} THEN Nothing0
      ELSE Converted(top, Text("ups", <<top>> \o SetToSortSeq({i \in counting : UpsCodes[i].severity = top}, <)))

\* GetFromConv: an integer, a text and the named texts.
GetFromConv(bv, conv) ==
  CASE bv = <<>> -> Nothing0
    [] OTHER ->
       CASE conv.kind = "hwaddr" -> Converted(0, Text("mac", bv))
         [] conv.kind = "powerset_status" -> HandlePowersetStatus(bv)
         [] conv.kind = "hextoip" -> HexToIP(bv)
         [] conv.kind = "engine_id" -> Converted(0, Text("hex", bv))
         [] conv.kind = "to_one" -> Converted(1, Raw(bv))
         [] conv.kind = "hextodatetime" -> HexToDateTime(bv)
         [] conv.kind = "hextoint" -> HexToInt(bv, conv.endian, conv.width)
         [] conv.kind = "regexp" -> FromRegexp(bv, conv.re)
         [] OTHER -> Converted(0, Raw(bv))

\* Go's conversion of a float to an integer cuts the fraction off.
Percent(part, whole) == IF part < 0 THEN -((-part * 100) \div whole) ELSE (part * 100) \div whole
=============================================================================
