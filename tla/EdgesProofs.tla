---------------------------- MODULE EdgesProofs ----------------------------
(***************************************************************************)
(* The inputs and outputs at the edge of the agent, proved for any number  *)
(* of workers, addresses, flows, messages, samples, errors and stops, and  *)
(* for every limit: the DNS cache outgrows its limit by no more than its   *)
(* callers, the flow driver counts and passes on every flow once, and the  *)
(* AWS input handles a queue message once for each delete; a sample of the *)
(* OpenTelemetry format is in one place and in order, the Prometheus format*)
(* sets values under the labels of their tags, and the S3 sink puts each   *)
(* payload in one object.                                                  *)
(***************************************************************************)
EXTENDS Edges, FiniteSetTheorems, TLAPS

------------------------------------------------------------------------------
(* Places of a sequence.                                                   *)

Places(s, n) == {i \in DOMAIN s : s[i] = n}
One(b) == IF b THEN 1 ELSE 0

\* The places of an item in a sequence are finitely many.
LEMMA PlacesFinite ==
  ASSUME NEW S, NEW s \in Seq(S), NEW n
  PROVE  IsFiniteSet(Places(s, n)) /\ Cardinality(Places(s, n)) \in Nat
<1>1. IsFiniteSet(1 .. Len(s))
  BY FS_Interval
<1>2. Places(s, n) \in SUBSET (1 .. Len(s))
  BY DEF Places
<1> QED BY <1>1, <1>2, FS_Subset, FS_CardinalityType

\* The empty sequence, and so an emptied channel or batch, has no places.
LEMMA PlacesEmpty == \A n : Cardinality(Places(<<>>, n)) = 0
<1>1. \A n : Places(<<>>, n) = {}
  BY DEF Places
<1> QED BY <1>1, FS_EmptySet

\* An item that is appended, as by a send on a channel, has one place more.
LEMMA PlacesAppend ==
  ASSUME NEW S, NEW s \in Seq(S), NEW e \in S, NEW n
  PROVE  Cardinality(Places(Append(s, e), n)) = Cardinality(Places(s, n)) + One(e = n)
<1> DEFINE k == Len(s) + 1
<1>1. IsFiniteSet(Places(s, n)) /\ Cardinality(Places(s, n)) \in Nat
  BY PlacesFinite
<1>2. k \notin Places(s, n)
  BY DEF Places
<1>3. CASE e = n
  <2>1. Places(Append(s, e), n) = Places(s, n) \cup {k}
    BY <1>3 DEF Places
  <2> QED BY <2>1, <1>1, <1>2, <1>3, FS_AddElement DEF One
<1>4. CASE e # n
  <2>1. Places(Append(s, e), n) = Places(s, n)
    BY <1>4 DEF Places
  <2> QED BY <2>1, <1>1, <1>4 DEF One
<1> QED BY <1>3, <1>4

\* The first item, as received from a channel, has one place less.
LEMMA PlacesTail ==
  ASSUME NEW S, NEW s \in Seq(S), NEW n, s # <<>>
  PROVE  Cardinality(Places(s, n)) = Cardinality(Places(Tail(s), n)) + One(Head(s) = n)
<1> DEFINE A == Places(s, n)
           B == Places(Tail(s), n)
           C == A \ {1}
           f == [i \in B |-> i + 1]
<1>1. Len(s) \in Nat \ {0} /\ DOMAIN s = 1 .. Len(s) /\ Head(s) = s[1]
  OBVIOUS
<1>2. Tail(s) \in Seq(S) /\ DOMAIN Tail(s) = 1 .. (Len(s) - 1)
      /\ \A i \in 1 .. (Len(s) - 1) : Tail(s)[i] = s[i + 1]
  OBVIOUS
<1>3. IsFiniteSet(A) /\ IsFiniteSet(B) /\ Cardinality(A) \in Nat /\ Cardinality(B) \in Nat
  BY <1>2, PlacesFinite
<1>4. \A i : i \in B <=> i \in 1 .. (Len(s) - 1) /\ s[i + 1] = n
  BY <1>2 DEF Places
<1>5. \A i : i \in C <=> i \in 2 .. Len(s) /\ s[i] = n
  BY <1>1 DEF Places
<1>6. f \in Bijection(B, C)
  <2> HIDE DEF B, C
  <2>1. f \in [B -> C]
    BY <1>1, <1>4, <1>5
  <2>2. \A i, j \in B : f[i] = f[j] => i = j
    BY <1>4
  <2>3. \A j \in C : \E i \in B : f[i] = j
    <3> TAKE j \in C
    <3>1. j - 1 \in B /\ f[j - 1] = j
      BY <1>1, <1>4, <1>5
    <3> QED BY <3>1
  <2> QED BY <2>1, <2>2, <2>3 DEF Bijection, Injection, Surjection, IsInjective
<1>7. Cardinality(C) = Cardinality(B)
  BY <1>3, <1>6, FS_Bijection DEF ExistsBijection
<1>8. Cardinality(C) = IF 1 \in A THEN Cardinality(A) - 1 ELSE Cardinality(A)
  BY <1>3, FS_RemoveElement
<1>9. 1 \in A <=> Head(s) = n
  BY <1>1 DEF Places
<1> QED BY <1>3, <1>7, <1>8, <1>9 DEF One

\* One member more, or less, of a finite set that is given by a condition.
LEMMA AtMostOneMore ==
  ASSUME NEW T, IsFiniteSet(T), NEW x
  PROVE  /\ IsFiniteSet(T \cup {x}) /\ Cardinality(T \cup {x}) \in Nat
         /\ Cardinality(T) \in Nat /\ Cardinality(T \cup {x}) <= Cardinality(T) + 1
<1>1. Cardinality(T) \in Nat
  BY FS_CardinalityType
<1>2. /\ IsFiniteSet(T \cup {x})
      /\ Cardinality(T \cup {x}) = IF x \in T THEN Cardinality(T) ELSE Cardinality(T) + 1
  BY FS_AddElement
<1> QED BY <1>1, <1>2

LEMMA OneMore ==
  ASSUME NEW S, IsFiniteSet(S), NEW T \in SUBSET S, NEW x \in S, x \notin T
  PROVE  IsFiniteSet(T) /\ Cardinality(T) \in Nat
         /\ Cardinality(T \cup {x}) = Cardinality(T) + 1
BY FS_Subset, FS_AddElement, FS_CardinalityType

------------------------------------------------------------------------------
(* The DNS cache and the flow driver.                                      *)

Answers == {NoName} \cup {Host(a) : a \in Addrs}
Places4 == {"idle", "rlock", "name", "resolve", "meter", "lock", "relock", "mark", "put"}

\* Besides the types: who asks has an address, who is past its question has
\* a name, and a batch that is not being handed over has room.
Called ==
  /\ stage \in [Workers -> {"out", "size", "lookup", "store", "done"}]
  /\ asked \in [Workers -> Addrs \cup {NoName}] /\ answer \in [Workers -> Answers]
  /\ \A w \in Workers : stage[w] \in {"size", "lookup", "store"} => asked[w] \in Addrs

Cached ==
  /\ IsFiniteSet(DOMAIN cache) /\ DOMAIN cache \subseteq Addrs
  /\ \A a \in DOMAIN cache : cache[a] \in Answers

Formatting ==
  /\ wat \in [Workers -> Places4]
  /\ flow \in [Workers -> [addr : Addrs \cup {NoName}, name : FlowNames \cup {NoName}]]
  /\ \A w \in Workers : wat[w] # "idle" => flow[w].addr \in Addrs
  /\ \A w \in Workers : wat[w] \in {"meter", "lock", "relock", "mark", "put"}
                          => flow[w].name \in FlowNames
  /\ rlocked = {w \in Workers : wat[w] \in {"name", "resolve", "meter", "mark"}}

Counting ==
  /\ devices \subseteq Addrs /\ meters \subseteq FlowNames /\ flows \in 0..MaxFlows
  /\ marked \in [FlowNames -> Nat] /\ sent \in [FlowNames -> Nat] /\ given \in Nat
  /\ queue \in Seq(FlowNames) /\ batch \in Seq(FlowNames) /\ Len(queue) <= MaxBatchSize
  /\ handing \in BOOLEAN
  /\ handing => Len(batch) \in 1..MaxBatchSize
  /\ ~handing => Len(batch) < MaxBatchSize

Busy == {w \in Workers : wat[w] # "idle"}
Putting(n) == {w \in Workers : wat[w] = "put" /\ flow[w].name = n}
Asking == {w \in Workers : stage[w] \in {"lookup", "store"}}

FlowsAdd == flows = Cardinality(Busy) + Len(queue) + Len(batch) + given
MetersAdd ==
  \A n \in FlowNames :
    marked[n] = Cardinality(Places(queue, n)) + Cardinality(Places(batch, n)) + sent[n]
                + Cardinality(Putting(n))
CacheAdds == Cardinality(DOMAIN cache) + Cardinality(Asking) <= MaxCache + Cardinality(Workers)

FlowIInv == Called /\ Cached /\ Formatting /\ Counting /\ FlowsAdd /\ MetersAdd /\ CacheAdds

\* The inductive invariant says what the runs check of the driver and its
\* cache.
LEMMA FlowIInvEnough == FlowIInv => CacheBounded /\ FlowInv
<1> SUFFICES ASSUME FlowIInv PROVE CacheBounded /\ FlowInv
  OBVIOUS
<1> USE DEF FlowIInv
<1>1. CacheBounded
  BY DEF CacheBounded, CacheAdds, Asking
<1>2. FlowTypeOK
  BY DEF FlowTypeOK, DnsTypeOK, Called, Cached, Formatting, Counting, Places4
<1>3. EveryFlowOnce
  BY DEF EveryFlowOnce, FlowsAdd, Busy, Counting
<1>4. MetersCountAll
  BY DEF MetersCountAll, MetersAdd, Count, Places, Putting
<1> QED BY <1>1, <1>2, <1>3, <1>4 DEF FlowInv

\* The sets of workers that are counted are finite.
LEMMA WorkersFinite ==
  /\ IsFiniteSet(Busy) /\ Cardinality(Busy) \in Nat
  /\ IsFiniteSet(Asking) /\ Cardinality(Asking) \in Nat
  /\ \A n : IsFiniteSet(Putting(n)) /\ Cardinality(Putting(n)) \in Nat
  /\ Cardinality(Workers) \in Nat /\ Cardinality(Asking) <= Cardinality(Workers)
<1>1. IsFiniteSet(Workers)
  BY DnsAssumption
<1>2. Busy \in SUBSET Workers /\ Asking \in SUBSET Workers /\ \A n : Putting(n) \in SUBSET Workers
  BY DEF Busy, Asking, Putting
<1> QED BY <1>1, <1>2, FS_Subset, FS_CardinalityType

LEMMA FlowStart == FlowInit => FlowIInv
<1> SUFFICES ASSUME FlowInit PROVE FlowIInv
  OBVIOUS
<1> USE DEF FlowInit, DnsInit
<1>1. Called /\ Formatting
  BY DEF Called, Formatting, Answers, Places4, NoFlow
<1>2. Cached
  <2>1. DOMAIN cache = {}
    OBVIOUS
  <2> QED BY <2>1, FS_EmptySet DEF Cached
<1>3. Counting
  <2>1. queue \in Seq(FlowNames) /\ batch \in Seq(FlowNames) /\ Len(queue) = 0 /\ Len(batch) = 0
    OBVIOUS
  <2>2. marked \in [FlowNames -> Nat] /\ sent \in [FlowNames -> Nat] /\ devices \subseteq Addrs
    BY FlowAssumption
  <2>3. meters = {} /\ flows = 0 /\ given = 0 /\ handing = FALSE
    OBVIOUS
  <2> HIDE DEF FlowInit, DnsInit
  <2>4. /\ handing \in BOOLEAN /\ ~handing
    BY <2>3, Zenon
  <2>6. MaxBatchSize \in Nat \ {0} /\ MaxFlows \in Nat
    BY FlowAssumption
  <2>7. Len(batch) < MaxBatchSize /\ Len(queue) <= MaxBatchSize /\ flows \in 0..MaxFlows
    BY <2>1, <2>3, <2>6
  <2>5. meters \subseteq FlowNames /\ given \in Nat
    BY <2>3
  <2> QED BY <2>1, <2>2, <2>4, <2>5, <2>7 DEF Counting
<1>4. Busy = {} /\ Asking = {} /\ \A n : Putting(n) = {}
  BY DEF Busy, Asking, Putting
<1>5. FlowsAdd
  BY <1>4, FS_EmptySet DEF FlowsAdd
<1>6. MetersAdd
  <2> SUFFICES ASSUME NEW n \in FlowNames
               PROVE  marked[n] = Cardinality(Places(queue, n)) + Cardinality(Places(batch, n))
                                  + sent[n] + Cardinality(Putting(n))
    BY DEF MetersAdd
  <2>1. Cardinality(Places(queue, n)) = 0 /\ Cardinality(Places(batch, n)) = 0
    BY PlacesEmpty
  <2>2. Cardinality(Putting(n)) = 0
    BY <1>4, FS_EmptySet
  <2> QED BY <2>1, <2>2
<1>7. CacheAdds
  <2>1. Cardinality(DOMAIN cache) = 0 /\ Cardinality(Asking) = 0
    BY <1>4, FS_EmptySet
  <2> QED BY <2>1, WorkersFinite, DnsAssumption DEF CacheAdds
<1> QED BY <1>1, <1>2, <1>3, <1>5, <1>6, <1>7 DEF FlowIInv

\* The calls of the resolver, whoever makes them.
LEMMA DnsKept ==
  ASSUME FlowIInv, UNCHANGED dnsVars
  PROVE  Called' /\ Cached' /\ CacheAdds'
BY DEF FlowIInv, Called, Cached, CacheAdds, Asking, dnsVars

LEMMA DnsResolve ==
  ASSUME FlowIInv, NEW w \in Workers, NEW a \in Addrs, Resolve(w, a)
  PROVE  Called' /\ Cached' /\ CacheAdds'
<1> USE DEF FlowIInv, Resolve
<1>1. Called'
  BY DEF Called, Cached, Answers
<1>2. Cached'
  BY DEF Cached
<1>3. Asking' = Asking
  BY DEF Asking, Called
<1> QED BY <1>1, <1>2, <1>3 DEF CacheAdds

LEMMA DnsResolved ==
  ASSUME FlowIInv, NEW w \in Workers, Resolved(w), UNCHANGED cache
  PROVE  Called' /\ Cached' /\ CacheAdds'
<1> USE DEF FlowIInv, Resolved
<1>1. Called'
  BY DEF Called, Answers
<1>2. Cached'
  BY DEF Cached
<1>3. Asking' = Asking
  BY DEF Asking, Called
<1> QED BY <1>1, <1>2, <1>3 DEF CacheAdds

LEMMA DnsClears ==
  ASSUME FlowIInv, ClearCache
  PROVE  Called' /\ Cached' /\ CacheAdds'
<1> USE DEF FlowIInv, ClearCache
<1>1. Called' /\ Asking' = Asking
  BY DEF Called, Asking
<1>2. DOMAIN cache' = {} /\ Cardinality(DOMAIN cache') = 0 /\ IsFiniteSet(DOMAIN cache')
  <2>1. DOMAIN cache' = {}
    OBVIOUS
  <2> QED BY <2>1, FS_EmptySet
<1>3. Cached'
  BY <1>2 DEF Cached
<1>4. CacheAdds'
  BY <1>1, <1>2, WorkersFinite, DnsAssumption DEF CacheAdds
<1> QED BY <1>1, <1>3, <1>4

\* A call that has seen room adds one caller to a cache that is within the
\* limit; a store turns one of these callers into at most one entry.
LEMMA DnsSteps ==
  ASSUME FlowIInv, NEW w \in Workers, DnsStep(w)
  PROVE  Called' /\ Cached' /\ CacheAdds'
<1> USE DEF FlowIInv
<1>1. CASE CheckSize(w)
  <2> USE <1>1 DEF CheckSize
  <2>1. Called' /\ Cached'
    BY DEF Called, Cached
  <2>2. CASE Room
    <3>1. Cardinality(DOMAIN cache) <= MaxCache /\ Cardinality(DOMAIN cache) \in Nat
      BY <2>2, FS_CardinalityType DEF Room, Cached
    <3>2. Asking' \in SUBSET Workers
      BY DEF Asking
    <3>3. Cardinality(Asking') <= Cardinality(Workers) /\ Cardinality(Asking') \in Nat
      BY <3>2, FS_Subset, FS_CardinalityType, DnsAssumption
    <3> QED BY <2>1, <3>1, <3>3, WorkersFinite, DnsAssumption DEF CacheAdds
  <2>3. CASE ~Room
    <3>1. Asking' = Asking
      BY <2>3 DEF Asking, Called
    <3> QED BY <2>1, <3>1 DEF CacheAdds
  <2> QED BY <2>2, <2>3
<1>2. CASE LookupAddr(w)
  <2> USE <1>2 DEF LookupAddr
  <2>1. Called' /\ Cached'
    BY DEF Called, Cached, Answers
  <2>2. Asking' = Asking
    BY DEF Asking, Called
  <2> QED BY <2>1, <2>2 DEF CacheAdds
<1>3. CASE Store(w)
  <2> USE <1>3 DEF Store
  <2>1. asked[w] \in Addrs /\ answer[w] \in Answers
    BY DEF Called
  <2>2. Called'
    BY DEF Called
  <2>3. /\ IsFiniteSet(DOMAIN cache') /\ Cardinality(DOMAIN cache') \in Nat
        /\ Cardinality(DOMAIN cache) \in Nat
        /\ Cardinality(DOMAIN cache') <= Cardinality(DOMAIN cache) + 1
    <3>1. DOMAIN cache' = DOMAIN cache \cup {asked[w]}
      OBVIOUS
    <3>2. IsFiniteSet(DOMAIN cache)
      BY DEF Cached
    <3> QED BY ONLY <3>1, <3>2, AtMostOneMore
  <2>4. Cached'
    BY <2>1, <2>3 DEF Cached
  <2>5. Asking = Asking' \cup {w} /\ w \notin Asking' /\ Asking' \in SUBSET Workers
    BY DEF Asking, Called
  <2>6. Cardinality(Asking) = Cardinality(Asking') + 1 /\ Cardinality(Asking') \in Nat
    BY <2>5, OneMore, DnsAssumption
  <2>7. CacheAdds'
    BY <2>3, <2>6, WorkersFinite, DnsAssumption DEF CacheAdds
  <2> QED BY <2>2, <2>4, <2>7
<1> QED BY <1>1, <1>2, <1>3 DEF DnsStep

\* What each step of a worker does to its place and its flow.
LEMMA FlowQuiet ==
  ASSUME FlowIInv, UNCHANGED <<flows, marked, runVars>>, Busy' = Busy,
         \A n : Putting(n)' = Putting(n),
         devices' \subseteq Addrs, meters' \subseteq FlowNames
  PROVE  Counting' /\ FlowsAdd' /\ MetersAdd'
<1>1. Counting'
  BY DEF FlowIInv, Counting, runVars
<1>2. FlowsAdd'
  BY DEF FlowIInv, FlowsAdd, runVars
<1>3. MetersAdd'
  BY DEF FlowIInv, MetersAdd, runVars
<1> QED BY <1>1, <1>2, <1>3

\* Up to its meter a worker neither counts nor passes on its flow: it finds
\* a name in FlowNames for it, and holds the read lock where it should.
LEMMA WorkerQuiet ==
  ASSUME FlowIInv, NEW w \in Workers,
         \/ FlowRLock(w) \/ KnownDevice(w) \/ UnknownDevice(w) \/ NameResolved(w) \/ HasMeter(w)
         \/ NoMeter(w) \/ FlowLock(w) \/ RegisterMeter(w) \/ Ask(w)
  PROVE  FlowIInv'
<1> USE DEF FlowIInv
<1>1. CASE FlowRLock(w)
  <2> USE <1>1 DEF FlowRLock
  <2>1. Formatting'
    BY DEF Formatting, Places4
  <2>2. Busy' = Busy /\ (\A n : Putting(n)' = Putting(n)) /\ UNCHANGED <<flows, marked, runVars>>
    BY DEF Busy, Putting, Formatting, runVars
  <2>3. devices' \subseteq Addrs /\ meters' \subseteq FlowNames
    BY DEF Counting, Formatting
  <2>4. Called' /\ Cached' /\ CacheAdds'
    BY DnsKept
  <2> QED BY <2>1, <2>2, <2>3, <2>4, FlowQuiet
<1>2. CASE KnownDevice(w)
  <2> USE <1>2 DEF KnownDevice, Step, SetName
  <2>5. PICK name \in FlowNames : name = <<"device", flow[w].addr>>
    BY DEF Formatting, FlowNames
  <2>6. flow' = [flow EXCEPT ![w].name = name] /\ wat' = [wat EXCEPT ![w] = "meter"]
        /\ wat[w] \in {"name", "resolve"} /\ rlocked' = rlocked
    BY <2>5 DEF lockVars
  <2>1. Formatting'
    BY ONLY <2>6, Formatting, w \in Workers, name \in FlowNames DEF Formatting, Places4
  <2>2. Busy' = Busy /\ (\A n : Putting(n)' = Putting(n)) /\ UNCHANGED <<flows, marked, runVars>>
    BY DEF Busy, Putting, Formatting, runVars
  <2>3. devices' \subseteq Addrs /\ meters' \subseteq FlowNames
    BY DEF Counting, Formatting
  <2>4. Called' /\ Cached' /\ CacheAdds'
    BY DnsKept
  <2> QED BY <2>1, <2>2, <2>3, <2>4, FlowQuiet
<1>3. CASE UnknownDevice(w)
  <2> USE <1>3 DEF UnknownDevice, Step, lockVars
  <2>1. Formatting'
    BY DEF Formatting, Places4
  <2>2. Busy' = Busy /\ (\A n : Putting(n)' = Putting(n)) /\ UNCHANGED <<flows, marked, runVars>>
    BY DEF Busy, Putting, Formatting, runVars
  <2>3. devices' \subseteq Addrs /\ meters' \subseteq FlowNames
    BY DEF Counting, Formatting
  <2>4. Called' /\ Cached' /\ CacheAdds'
    BY DnsResolve DEF Formatting
  <2> QED BY <2>1, <2>2, <2>3, <2>4, FlowQuiet
<1>4. CASE NameResolved(w)
  <2> USE <1>4 DEF NameResolved, Step, SetName
  <2>5. PICK name \in FlowNames : name = (IF answer[w] = NoName THEN flow[w].addr ELSE answer[w])
    BY DEF Formatting, FlowNames, Called, Answers
  <2>6. flow' = [flow EXCEPT ![w].name = name] /\ wat' = [wat EXCEPT ![w] = "meter"]
        /\ wat[w] \in {"name", "resolve"} /\ rlocked' = rlocked
    BY <2>5 DEF lockVars
  <2>1. Formatting'
    BY ONLY <2>6, Formatting, w \in Workers, name \in FlowNames DEF Formatting, Places4
  <2>2. Busy' = Busy /\ (\A n : Putting(n)' = Putting(n)) /\ UNCHANGED <<flows, marked, runVars>>
    BY DEF Busy, Putting, Formatting, runVars
  <2>3. devices' \subseteq Addrs /\ meters' \subseteq FlowNames
    BY DEF Counting, Formatting
  <2>4. Called' /\ Cached' /\ CacheAdds'
    BY DnsResolved
  <2> QED BY <2>1, <2>2, <2>3, <2>4, FlowQuiet
<1>5. CASE HasMeter(w)
  <2> USE <1>5 DEF HasMeter, Step, lockVars
  <2>1. Formatting'
    BY DEF Formatting, Places4
  <2>2. Busy' = Busy /\ (\A n : Putting(n)' = Putting(n)) /\ UNCHANGED <<flows, marked, runVars>>
    BY DEF Busy, Putting, Formatting, runVars
  <2>3. devices' \subseteq Addrs /\ meters' \subseteq FlowNames
    BY DEF Counting, Formatting
  <2>4. Called' /\ Cached' /\ CacheAdds'
    BY DnsKept
  <2> QED BY <2>1, <2>2, <2>3, <2>4, FlowQuiet
<1>6. CASE NoMeter(w)
  <2> USE <1>6 DEF NoMeter, Step
  <2>1. Formatting'
    BY DEF Formatting, Places4
  <2>2. Busy' = Busy /\ (\A n : Putting(n)' = Putting(n)) /\ UNCHANGED <<flows, marked, runVars>>
    BY DEF Busy, Putting, Formatting, runVars
  <2>3. devices' \subseteq Addrs /\ meters' \subseteq FlowNames
    BY DEF Counting, Formatting
  <2>4. Called' /\ Cached' /\ CacheAdds'
    BY DnsKept
  <2> QED BY <2>1, <2>2, <2>3, <2>4, FlowQuiet
<1>7. CASE FlowLock(w)
  <2> USE <1>7 DEF FlowLock
  <2>1. Formatting'
    BY DEF Formatting, Places4
  <2>2. Busy' = Busy /\ (\A n : Putting(n)' = Putting(n)) /\ UNCHANGED <<flows, marked, runVars>>
    BY DEF Busy, Putting, Formatting, runVars
  <2>3. devices' \subseteq Addrs /\ meters' \subseteq FlowNames
    BY DEF Counting, Formatting
  <2>4. Called' /\ Cached' /\ CacheAdds'
    BY DnsKept
  <2> QED BY <2>1, <2>2, <2>3, <2>4, FlowQuiet
<1>8. CASE RegisterMeter(w)
  <2> USE <1>8 DEF RegisterMeter, Step
  <2>1. Formatting'
    BY DEF Formatting, Places4
  <2>2. Busy' = Busy /\ (\A n : Putting(n)' = Putting(n)) /\ UNCHANGED <<flows, marked, runVars>>
    BY DEF Busy, Putting, Formatting, runVars
  <2>3. devices' \subseteq Addrs /\ meters' \subseteq FlowNames
    BY DEF Counting, Formatting
  <2>4. Called' /\ Cached' /\ CacheAdds'
    BY DnsKept
  <2> QED BY <2>1, <2>2, <2>3, <2>4, FlowQuiet
<1>9. CASE Ask(w)
  <2> USE <1>9 DEF Ask, driverVars, lockVars
  <2>1. Formatting'
    BY DEF Formatting, Places4
  <2>2. Busy' = Busy /\ (\A n : Putting(n)' = Putting(n)) /\ UNCHANGED <<flows, marked, runVars>>
    BY DEF Busy, Putting, Formatting, runVars
  <2>3. devices' \subseteq Addrs /\ meters' \subseteq FlowNames
    BY DEF Counting, Formatting
  <2>4. Called' /\ Cached' /\ CacheAdds'
    BY DnsSteps
  <2> QED BY <2>1, <2>2, <2>3, <2>4, FlowQuiet
<1> QED BY <1>1, <1>2, <1>3, <1>4, <1>5, <1>6, <1>7, <1>8, <1>9

\* A flow that arrives makes one more worker busy.
LEMMA FormatCounts ==
  ASSUME FlowIInv, NEW w \in Workers, NEW a \in Addrs, Format(w, a)
  PROVE  FlowIInv'
<1> USE DEF FlowIInv, Format, Step
<1>1. Called' /\ Cached' /\ CacheAdds'
  BY DnsKept
<1>2. Formatting'
  BY DEF Formatting, Places4, lockVars
<1>3. Counting'
  BY FlowAssumption DEF Counting, runVars
<1>4. Busy' = Busy \cup {w} /\ w \notin Busy /\ Busy \in SUBSET Workers
  BY DEF Busy, Formatting
<1>5. \A n : Putting(n)' = Putting(n)
  BY DEF Putting, Formatting
<1>6. FlowsAdd'
  <2>1. Cardinality(Busy') = Cardinality(Busy) + 1 /\ Cardinality(Busy) \in Nat
    BY <1>4, OneMore, DnsAssumption
  <2> QED BY <2>1 DEF FlowsAdd, Counting, runVars
<1>7. MetersAdd'
  BY <1>5 DEF MetersAdd, runVars
<1> QED BY <1>1, <1>2, <1>3, <1>6, <1>7

\* A flow is marked under the name it is put on t.inputs with.
LEMMA MarkCounts ==
  ASSUME FlowIInv, NEW w \in Workers, MarkFlow(w)
  PROVE  FlowIInv'
<1> USE DEF FlowIInv, MarkFlow, Step
<1>1. Called' /\ Cached' /\ CacheAdds'
  BY DnsKept
<1>2. Formatting'
  BY DEF Formatting, Places4
<1>3. flow[w].name \in FlowNames
  BY DEF Formatting
<1>4. Counting'
  BY <1>3, SMTT(30) DEF Counting, runVars
<1>5. Busy' = Busy
  BY DEF Busy, Formatting
<1>6. FlowsAdd'
  BY <1>5 DEF FlowsAdd, runVars
<1>7. MetersAdd'
  <2> SUFFICES ASSUME NEW n \in FlowNames
               PROVE  marked'[n] = Cardinality(Places(queue, n)) + Cardinality(Places(batch, n))
                                   + sent[n] + Cardinality(Putting(n)')
    BY DEF MetersAdd, runVars
  <2>1. marked[n] = Cardinality(Places(queue, n)) + Cardinality(Places(batch, n)) + sent[n]
                    + Cardinality(Putting(n))
    BY DEF MetersAdd
  <2>2. /\ Cardinality(Places(queue, n)) \in Nat /\ Cardinality(Places(batch, n)) \in Nat
        /\ sent[n] \in Nat /\ Cardinality(Putting(n)) \in Nat
    BY PlacesFinite, WorkersFinite DEF Counting
  <2>3. CASE flow[w].name = n
    <3>1. Putting(n)' = Putting(n) \cup {w} /\ w \notin Putting(n) /\ Putting(n) \in SUBSET Workers
      BY <2>3 DEF Putting, Formatting
    <3>2. Cardinality(Putting(n)') = Cardinality(Putting(n)) + 1
      BY <3>1, OneMore, DnsAssumption
    <3>3. marked'[n] = marked[n] + 1
      BY <2>3 DEF Counting
    <3> QED BY <2>1, <2>2, <3>2, <3>3
  <2>4. CASE flow[w].name # n
    <3>1. Putting(n)' = Putting(n)
      BY <2>4 DEF Putting, Formatting
    <3>2. marked'[n] = marked[n]
      BY <2>4 DEF Counting
    <3> QED BY <2>1, <3>1, <3>2
  <2> QED BY <2>3, <2>4
<1> QED BY <1>1, <1>2, <1>4, <1>6, <1>7

\* The flow leaves its worker for t.inputs.
LEMMA PutCounts ==
  ASSUME FlowIInv, NEW w \in Workers, PutFlow(w)
  PROVE  FlowIInv'
<1> USE DEF FlowIInv, PutFlow, Step
<1>1. Called' /\ Cached' /\ CacheAdds'
  BY DnsKept
<1>2. Formatting'
  BY DEF Formatting, Places4, NoFlow, lockVars
<1>3. PICK name \in FlowNames : name = flow[w].name
  BY DEF Formatting
<1>4. queue' = Append(queue, name) /\ queue \in Seq(FlowNames) /\ Len(queue') = Len(queue) + 1
      /\ Len(queue) \in Nat
  BY <1>3 DEF Counting
<1>5. Counting'
  BY <1>4, FlowAssumption DEF Counting
<1>6. Busy = Busy' \cup {w} /\ w \notin Busy' /\ Busy' \in SUBSET Workers
  BY DEF Busy, Formatting
<1>7. FlowsAdd'
  <2>1. Cardinality(Busy) = Cardinality(Busy') + 1 /\ Cardinality(Busy') \in Nat
    BY <1>6, OneMore, DnsAssumption
  <2> QED BY <2>1, <1>4 DEF FlowsAdd, Counting
<1>8. MetersAdd'
  <2> SUFFICES ASSUME NEW n \in FlowNames
               PROVE  marked[n] = Cardinality(Places(queue', n)) + Cardinality(Places(batch, n))
                                   + sent[n] + Cardinality(Putting(n)')
    BY DEF MetersAdd
  <2>1. marked[n] = Cardinality(Places(queue, n)) + Cardinality(Places(batch, n)) + sent[n]
                    + Cardinality(Putting(n))
    BY DEF MetersAdd
  <2>2. /\ Cardinality(Places(queue, n)) \in Nat /\ Cardinality(Places(batch, n)) \in Nat
        /\ sent[n] \in Nat
    BY PlacesFinite DEF Counting
  <2>3. Cardinality(Places(queue', n)) = Cardinality(Places(queue, n)) + One(name = n)
    BY <1>4, PlacesAppend
  <2>4. CASE name = n
    <3>1. Putting(n) = Putting(n)' \cup {w} /\ w \notin Putting(n)' /\ Putting(n)' \in SUBSET Workers
      BY <2>4, <1>3 DEF Putting, Formatting
    <3>2. Cardinality(Putting(n)) = Cardinality(Putting(n)') + 1 /\ Cardinality(Putting(n)') \in Nat
      BY ONLY <3>1, w \in Workers, OneMore, DnsAssumption
    <3>3. One(name = n) = 1
      BY <2>4 DEF One
    <3> QED BY ONLY <2>1, <2>2, <2>3, <3>2, <3>3
  <2>5. CASE name # n
    <3>1. Putting(n)' = Putting(n)
      BY <2>5, <1>3 DEF Putting, Formatting
    <3>2. Cardinality(Putting(n)) \in Nat
      BY WorkersFinite
    <3> QED BY <2>1, <2>2, <2>3, <2>5, <3>1, <3>2 DEF One
  <2> QED BY <2>4, <2>5
<1> QED BY <1>1, <1>2, <1>5, <1>7, <1>8

\* run only moves flows, from t.inputs to its batch and from there to jchfChan.
LEMMA RunCounts ==
  ASSUME FlowIInv, RunStep \/ RunDone
  PROVE  FlowIInv'
<1> USE DEF FlowIInv
<1>0. \A n : Cardinality(Putting(n)) \in Nat
  BY WorkersFinite
<1>1. CASE TakeFlow
  <2> USE <1>1 DEF TakeFlow
  <2>1. Called' /\ Cached' /\ CacheAdds' /\ Formatting'
    BY DnsKept DEF Formatting, lockVars
  <2>2. /\ queue \in Seq(FlowNames) /\ batch \in Seq(FlowNames) /\ Head(queue) \in FlowNames
        /\ queue' = Tail(queue) /\ queue' \in Seq(FlowNames) /\ Len(queue') = Len(queue) - 1
        /\ batch' = Append(batch, Head(queue)) /\ batch' \in Seq(FlowNames)
        /\ Len(batch') = Len(batch) + 1 /\ Len(queue) \in Nat /\ Len(batch) \in Nat
    BY DEF Counting
  <2>3. Counting'
    <3>1. Len(batch) < MaxBatchSize
      BY Zenon DEF Counting
    <3>2. handing' = (Len(batch) + 1 >= MaxBatchSize)
      OBVIOUS
    <3>5. handing' \in BOOLEAN
      BY <3>2, SMT
    <3>3. Len(queue') <= MaxBatchSize
      BY <2>2, FlowAssumption DEF Counting
    <3>4. /\ handing' => Len(batch') \in 1..MaxBatchSize
          /\ ~handing' => Len(batch') < MaxBatchSize
      <4>1. (Len(batch) + 1 >= MaxBatchSize) => Len(batch') \in 1..MaxBatchSize
        BY ONLY <2>2, <3>1, FlowAssumption
      <4>2. ~(Len(batch) + 1 >= MaxBatchSize) => Len(batch') < MaxBatchSize
        BY ONLY <2>2, <3>1, FlowAssumption
      <4> QED BY ONLY <4>1, <4>2, <3>2, Zenon
    <3> QED BY <2>2, <3>3, <3>4, <3>5, Zenon DEF Counting
  <2>4. Busy' = Busy /\ \A n : Putting(n)' = Putting(n)
    BY DEF Busy, Putting
  <2>5. FlowsAdd'
    BY <2>2, <2>4, WorkersFinite DEF FlowsAdd, Counting
  <2>6. MetersAdd'
    <3> SUFFICES ASSUME NEW n \in FlowNames
                 PROVE  marked[n] = Cardinality(Places(queue', n)) + Cardinality(Places(batch', n))
                                     + sent[n] + Cardinality(Putting(n))
      BY <2>4 DEF MetersAdd
    <3>1. marked[n] = Cardinality(Places(queue, n)) + Cardinality(Places(batch, n)) + sent[n]
                      + Cardinality(Putting(n))
      BY DEF MetersAdd
    <3>2. /\ Cardinality(Places(queue', n)) \in Nat /\ Cardinality(Places(batch, n)) \in Nat
          /\ sent[n] \in Nat
      BY <2>2, PlacesFinite DEF Counting
    <3>3. Cardinality(Places(batch', n)) = Cardinality(Places(batch, n)) + One(Head(queue) = n)
      BY <2>2, PlacesAppend
    <3>4. Cardinality(Places(queue, n)) = Cardinality(Places(queue', n)) + One(Head(queue) = n)
      BY <2>2, PlacesTail
    <3>5. One(Head(queue) = n) \in Nat
      BY DEF One
    <3> QED BY <1>0, <3>1, <3>2, <3>3, <3>4, <3>5
  <2> QED BY <2>1, <2>3, <2>5, <2>6
<1>2. CASE SendTick \/ RunDone
  <2> USE <1>2 DEF SendTick, RunDone
  <2>1. Called' /\ Cached' /\ CacheAdds' /\ Formatting'
    BY DnsKept DEF Formatting, lockVars
  <2>4. ~handing /\ Len(batch) < MaxBatchSize /\ Len(batch) \in Nat
    BY DEF Counting
  <2>5. \/ handing' = TRUE /\ batch # <<>>
        \/ UNCHANGED handing
    BY Zenon
  <2>6. /\ handing' => Len(batch) \in 1..MaxBatchSize
        /\ ~handing' => Len(batch) < MaxBatchSize
    <3>1. batch # <<>> => Len(batch) \in 1..MaxBatchSize
      BY <2>4, FlowAssumption DEF Counting
    <3>2. CASE handing' = TRUE /\ batch # <<>>
      BY ONLY <3>1, <3>2, Zenon
    <3>3. CASE UNCHANGED handing
      BY ONLY <2>4, <3>3, Zenon
    <3> QED BY <2>5, <3>2, <3>3
  <2>7. handing' \in BOOLEAN
    BY <2>5, Zenon DEF Counting
  <2>2. Counting'
    BY <2>6, <2>7, Zenon DEF Counting
  <2>3. FlowsAdd' /\ MetersAdd'
    BY DEF FlowsAdd, MetersAdd, Busy, Putting
  <2> QED BY <2>1, <2>2, <2>3
<1>3. CASE HandOver
  <2> USE <1>3 DEF HandOver
  <2>1. Called' /\ Cached' /\ CacheAdds' /\ Formatting'
    BY DnsKept DEF Formatting, lockVars
  <2>2. \A n \in FlowNames : Cardinality(Places(batch, n)) \in Nat /\ Cardinality(Places(queue, n)) \in Nat
    BY PlacesFinite DEF Counting
  <2>3. /\ sent' \in [FlowNames -> Nat]
        /\ \A n \in FlowNames : sent'[n] = sent[n] + Cardinality(Places(batch, n))
    <3>1. \A n : Count(batch, n) = Cardinality(Places(batch, n))
      BY DEF Count, Places
    <3>2. sent' = [n \in FlowNames |-> sent[n] + Count(batch, n)]
      OBVIOUS
    <3>3. sent \in [FlowNames -> Nat]
      BY DEF Counting
    <3>4. \A n \in FlowNames : sent[n] + Count(batch, n) \in Nat
      BY ONLY <2>2, <3>1, <3>3
    <3>5. \A n \in FlowNames : sent'[n] = sent[n] + Count(batch, n)
      BY ONLY <3>2, Zenon
    <3>6. sent' \in [FlowNames -> Nat]
      BY ONLY <3>2, <3>4, Zenon
    <3> QED BY ONLY <3>1, <3>5, <3>6, Zenon
  <2>4. batch' = <<>> /\ batch' \in Seq(FlowNames) /\ Len(batch') = 0 /\ Len(batch) \in Nat
    BY DEF Counting
  <2>5. Counting'
    <3>1. handing' \in BOOLEAN /\ ~handing'
      BY Zenon
    <3>2. given' \in Nat /\ Len(batch') < MaxBatchSize
      BY <2>4, FlowAssumption DEF Counting
    <3> QED BY <2>3, <2>4, <3>1, <3>2, Zenon DEF Counting
  <2>6. Busy' = Busy /\ \A n : Putting(n)' = Putting(n)
    BY DEF Busy, Putting
  <2>7. FlowsAdd'
    BY <2>4, <2>6, WorkersFinite DEF FlowsAdd, Counting
  <2>8. \A n : Cardinality(Places(batch', n)) = 0
    BY <2>4, PlacesEmpty
  <2>9. MetersAdd'
    <3> SUFFICES ASSUME NEW n \in FlowNames
                 PROVE  marked[n] = Cardinality(Places(queue, n)) + Cardinality(Places(batch', n))
                                     + sent'[n] + Cardinality(Putting(n))
      BY <2>6 DEF MetersAdd
    <3>1. marked[n] = Cardinality(Places(queue, n)) + Cardinality(Places(batch, n)) + sent[n]
                      + Cardinality(Putting(n))
      BY DEF MetersAdd
    <3>2. sent[n] \in Nat
      BY DEF Counting
    <3> HIDE <1>3 DEF HandOver, FlowIInv
    <3> QED BY <1>0, <2>2, <2>3, <2>8, <3>1, <3>2
  <2> QED BY <2>1, <2>5, <2>7, <2>9
<1> QED BY <1>1, <1>2, <1>3 DEF RunStep

\* Every step of the driver, its resolver and its refresh keeps the invariant.
LEMMA FlowStep == ASSUME FlowIInv, [FlowNext]_flowVars PROVE FlowIInv'
<1>1. CASE \E w \in Workers : WorkerStep(w) \/ \E a \in Addrs : Format(w, a)
  BY <1>1, WorkerQuiet, MarkCounts, PutCounts, FormatCounts DEF WorkerStep
<1>2. CASE RunStep \/ RunDone
  BY <1>2, RunCounts
<1>3. CASE RefreshDevices
  <2> USE <1>3 DEF RefreshDevices, FlowIInv
  <2>1. Called' /\ Cached' /\ CacheAdds' /\ Formatting'
    BY DnsKept DEF Formatting, lockVars
  <2>2. Busy' = Busy /\ (\A n : Putting(n)' = Putting(n)) /\ devices' \subseteq Addrs
        /\ meters' \subseteq FlowNames /\ UNCHANGED <<flows, marked, runVars>>
    BY FlowAssumption DEF Busy, Putting, Counting
  <2> QED BY <2>1, <2>2, FlowQuiet
<1>4. CASE Clear
  <2> USE <1>4 DEF Clear, driverVars, FlowIInv
  <2>1. Called' /\ Cached' /\ CacheAdds' /\ Formatting'
    BY DnsClears DEF Formatting, lockVars
  <2>2. Busy' = Busy /\ (\A n : Putting(n)' = Putting(n)) /\ devices' \subseteq Addrs
        /\ meters' \subseteq FlowNames /\ UNCHANGED <<flows, marked, runVars>>
    BY DEF Busy, Putting, Counting
  <2> QED BY <2>1, <2>2, FlowQuiet
<1>5. CASE UNCHANGED flowVars
  <2> USE <1>5 DEF flowVars, driverVars, FlowIInv
  <2>1. Called' /\ Cached' /\ CacheAdds' /\ Formatting'
    BY DnsKept DEF Formatting, lockVars
  <2>2. Busy' = Busy /\ (\A n : Putting(n)' = Putting(n)) /\ devices' \subseteq Addrs
        /\ meters' \subseteq FlowNames /\ UNCHANGED <<flows, marked, runVars>>
    BY DEF Busy, Putting, Counting
  <2> QED BY <2>1, <2>2, FlowQuiet
<1> QED BY <1>1, <1>2, <1>3, <1>4, <1>5 DEF FlowNext

------------------------------------------------------------------------------
(* The AWS input.                                                          *)

CloudTypes ==
  /\ sqs \in [Msgs -> {"visible", "hidden", "deleted"}]
  /\ got \in Seq(Msgs) /\ recs \in Seq(Msgs) /\ out \in Seq(Msgs)
  /\ toStart \in BOOLEAN /\ (toStart => got # <<>>)
  /\ Len(recs) <= RecsCap /\ Len(out) <= 1 /\ crashes \in 0..MaxCrashes
  /\ reading \in [Msgs -> Nat] /\ delivered \in [Msgs -> Nat] /\ dropped \in [Msgs -> Nat]
  /\ unread \in [Msgs -> Nat] /\ cut \in [Msgs -> Nat] /\ errors \in [Msgs -> Nat]

\* The messages of a receive differ, and those that have not come to their
\* delete are not deleted: the visibility timeout may have shown them again,
\* but nobody else takes them before checkQueue is through with them.
Received ==
  /\ \A i, j \in DOMAIN got : got[i] = got[j] => i = j
  /\ \A i \in DOMAIN got : (i > 1 \/ ~toStart) => sqs[got[i]] # "deleted"

OutHas(m) == One(out # <<>> /\ Head(out) = m)
StartHas(m) == One(toStart /\ Head(got) = m)
Ways(m) == reading[m] + Cardinality(Places(recs, m)) + OutHas(m) + StartHas(m)
Ends(m) == delivered[m] + dropped[m] + unread[m] + cut[m]
Deletes(m) == errors[m] + One(sqs[m] = "deleted")

Balanced == \A m \in Msgs : Ways(m) + Ends(m) = Deletes(m)

CloudIInv == CloudTypes /\ Received /\ Balanced

\* What the agent holds of a message, in terms that steps add to and take from.
LEMMA HeldIs ==
  ASSUME CloudTypes, NEW m \in Msgs
  PROVE  /\ Held(m) = Ways(m) /\ Ways(m) \in Nat /\ Ends(m) \in Nat
         /\ Cardinality(Places(recs, m)) \in Nat /\ OutHas(m) \in Nat /\ StartHas(m) \in Nat
<1>1. Cardinality(ToSet(out) \cap {m}) = OutHas(m)
  <2>1. CASE out = <<>>
    <3>1. ToSet(out) \cap {m} = {}
      BY <2>1 DEF ToSet
    <3> QED BY <2>1, <3>1, FS_EmptySet DEF OutHas, One
  <2>2. CASE out # <<>>
    <3>0. out \in Seq(Msgs) /\ Len(out) \in Nat /\ Len(out) <= 1
      BY DEF CloudTypes
    <3>1. Len(out) = 1 /\ Head(out) = out[1] /\ DOMAIN out = {1}
      BY ONLY <2>2, <3>0
    <3>2. ToSet(out) = {Head(out)}
      BY <3>1 DEF ToSet
    <3>3. CASE Head(out) = m
      <4>1. ToSet(out) \cap {m} = {m}
        BY <3>2, <3>3
      <4> QED BY <2>2, <3>3, <4>1, FS_Singleton DEF OutHas, One
    <3>4. CASE Head(out) # m
      <4>1. ToSet(out) \cap {m} = {}
        BY <3>2, <3>4
      <4> QED BY <2>2, <3>4, <4>1, FS_EmptySet DEF OutHas, One
    <3> QED BY <3>3, <3>4
  <2> QED BY <2>1, <2>2
<1>2. Cardinality({i \in {1} : toStart /\ Head(got) = m}) = StartHas(m)
  <2>1. CASE toStart /\ Head(got) = m
    <3>1. {i \in {1} : toStart /\ Head(got) = m} = {1}
      BY <2>1
    <3> QED BY <2>1, <3>1, FS_Singleton DEF StartHas, One
  <2>2. CASE ~(toStart /\ Head(got) = m)
    <3>1. {i \in {1} : toStart /\ Head(got) = m} = {}
      BY <2>2, Zenon
    <3> QED BY <2>2, <3>1, FS_EmptySet DEF StartHas, One
  <2> QED BY <2>1, <2>2
<1>3. Cardinality(Places(recs, m)) \in Nat
  BY PlacesFinite DEF CloudTypes
<1>4. OutHas(m) \in Nat /\ StartHas(m) \in Nat
  BY DEF OutHas, StartHas, One
<1>5. Held(m) = Ways(m)
  BY <1>1, <1>2, Zenon DEF Held, Ways, Places
<1>6. Ways(m) \in Nat /\ Ends(m) \in Nat
  <2>1. /\ reading[m] \in Nat /\ delivered[m] \in Nat /\ dropped[m] \in Nat /\ unread[m] \in Nat
        /\ cut[m] \in Nat
    BY DEF CloudTypes
  <2> QED BY ONLY <2>1, <1>3, <1>4 DEF Ways, Ends
<1> QED BY <1>3, <1>4, <1>5, <1>6

\* The inductive invariant says what the run checks of the AWS input.
LEMMA CloudIInvEnough == CloudIInv => CloudInv
<1> SUFFICES ASSUME CloudIInv PROVE CloudInv
  OBVIOUS
<1>1. CloudTypeOK
  <2>1. ToSet(got) \subseteq Msgs
    BY DEF CloudIInv, CloudTypes, ToSet
  <2> QED BY <2>1 DEF CloudIInv, CloudTypes, CloudTypeOK
<1>2. OncePerDelete
  <2> SUFFICES ASSUME NEW m \in Msgs
               PROVE  Held(m) + delivered[m] + dropped[m] + unread[m] + cut[m]
                        = errors[m] + (IF sqs[m] = "deleted" THEN 1 ELSE 0)
    BY DEF OncePerDelete
  <2>1. Held(m) = Ways(m) /\ Ways(m) \in Nat
    BY HeldIs DEF CloudIInv
  <2>2. Ways(m) + Ends(m) = Deletes(m)
    BY DEF CloudIInv, Balanced
  <2> QED BY <2>1, <2>2 DEF CloudIInv, CloudTypes, Ends, Deletes, One
<1> QED BY <1>1, <1>2 DEF CloudInv

LEMMA CloudStart == CloudInit => CloudIInv
<1> SUFFICES ASSUME CloudInit PROVE CloudIInv
  OBVIOUS
<1> USE DEF CloudInit, None
<1>1. CloudTypes
  <2>1. toStart \in BOOLEAN /\ ~toStart
    BY Zenon
  <2>2. Len(recs) <= RecsCap /\ Len(out) <= 1 /\ crashes \in 0..MaxCrashes
    BY CloudAssumption
  <2>3. got \in Seq(Msgs) /\ recs \in Seq(Msgs) /\ out \in Seq(Msgs)
    OBVIOUS
  <2> QED BY <2>1, <2>2, <2>3 DEF CloudTypes
<1>2. Received
  <2>1. DOMAIN got = {}
    OBVIOUS
  <2> QED BY <2>1, Zenon DEF Received
<1>3. Balanced
  <2> SUFFICES ASSUME NEW m \in Msgs PROVE Ways(m) + Ends(m) = Deletes(m)
    BY DEF Balanced
  <2>1. Cardinality(Places(recs, m)) = 0
    BY PlacesEmpty
  <2>2. OutHas(m) = 0 /\ StartHas(m) = 0
    BY DEF OutHas, StartHas, One
  <2> QED BY <2>1, <2>2 DEF Ways, Ends, Deletes, One
<1> QED BY <1>1, <1>2, <1>3 DEF CloudIInv

\* The balance of one message, as a sum of numbers.
Sum(m) ==
  /\ reading[m] \in Nat /\ Cardinality(Places(recs, m)) \in Nat /\ OutHas(m) \in Nat
  /\ StartHas(m) \in Nat /\ delivered[m] \in Nat /\ dropped[m] \in Nat /\ unread[m] \in Nat
  /\ cut[m] \in Nat /\ errors[m] \in Nat /\ One(sqs[m] = "deleted") \in Nat
  /\ Ways(m) + Ends(m) = Deletes(m)

LEMMA Sums == ASSUME CloudIInv, NEW m \in Msgs PROVE Sum(m)
<1>1. /\ reading[m] \in Nat /\ delivered[m] \in Nat /\ dropped[m] \in Nat /\ unread[m] \in Nat
      /\ cut[m] \in Nat /\ errors[m] \in Nat
  BY DEF CloudIInv, CloudTypes
<1>2. /\ Cardinality(Places(recs, m)) \in Nat /\ OutHas(m) \in Nat /\ StartHas(m) \in Nat
  BY HeldIs DEF CloudIInv
<1>3. One(sqs[m] = "deleted") \in Nat
  BY DEF One
<1>4. Ways(m) + Ends(m) = Deletes(m)
  BY DEF CloudIInv, Balanced
<1> QED BY ONLY <1>1, <1>2, <1>3, <1>4 DEF Sum

\* SQS shows a message again, or the agent receives some: nothing is handled.
LEMMA SqsKeeps ==
  ASSUME CloudIInv, NEW m0 \in Msgs, VisibilityEnds(m0)
  PROVE  CloudIInv'
<1> USE DEF CloudIInv, VisibilityEnds
<1>1. CloudTypes'
  BY DEF CloudTypes
<1>2. Received'
  <2>1. \A m \in Msgs : sqs'[m] = "deleted" => sqs[m] = "deleted"
    BY DEF CloudTypes
  <2>2. \A i \in DOMAIN got : got[i] \in Msgs
    BY DEF CloudTypes
  <2> QED BY <2>1, <2>2 DEF Received
<1>3. Balanced'
  <2> SUFFICES ASSUME NEW m \in Msgs PROVE Ways(m)' + Ends(m)' = Deletes(m)'
    BY DEF Balanced
  <2>1. Ways(m)' = Ways(m) /\ Ends(m)' = Ends(m)
    BY DEF Ways, Ends, OutHas, StartHas
  <2>2. (sqs'[m] = "deleted") <=> (sqs[m] = "deleted")
    BY DEF CloudTypes
  <2>3. Deletes(m)' = Deletes(m)
    BY <2>2 DEF Deletes, One
  <2> QED BY <2>1, <2>3 DEF Balanced
<1> QED BY <1>1, <1>2, <1>3

LEMMA ReceiveKeeps ==
  ASSUME CloudIInv, NEW S \in SUBSET Msgs, NEW s \in SetToSeqs(S), Receive(s)
  PROVE  CloudIInv'
<1> USE DEF CloudIInv
<1>1. /\ s \in Seq(Msgs) /\ \A i, j \in DOMAIN s : s[i] = s[j] => i = j
  <2>1. Cardinality(S) \in Nat
    BY CloudAssumption, FS_Subset, FS_CardinalityType
  <2>2. s \in [1..Cardinality(S) -> S] /\ \A i, j \in 1..Cardinality(S) : i # j => s[i] # s[j]
    BY DEF SetToSeqs
  <2> QED BY ONLY <2>1, <2>2, S \in SUBSET Msgs
<1>2. /\ got = <<>> /\ s # <<>> /\ got' = s
      /\ \A i \in DOMAIN s : s[i] \in Msgs /\ sqs[s[i]] = "visible" /\ sqs'[s[i]] = "hidden"
      /\ sqs' \in [Msgs -> {"visible", "hidden", "deleted"}]
      /\ \A m \in Msgs : sqs'[m] = "deleted" <=> sqs[m] = "deleted"
  <2>1. /\ got = <<>> /\ s # <<>> /\ got' = s
        /\ sqs' = [m \in Msgs |-> IF m \in ToSet(s) THEN "hidden" ELSE sqs[m]]
        /\ \A m \in ToSet(s) : sqs[m] = "visible"
    BY DEF Receive
  <2>2. sqs \in [Msgs -> {"visible", "hidden", "deleted"}]
    BY DEF CloudTypes
  <2>3. \A i \in DOMAIN s : s[i] \in Msgs /\ s[i] \in ToSet(s)
    BY <1>1 DEF ToSet
  <2> QED BY ONLY <2>1, <2>2, <2>3
<1>3. UNCHANGED <<toStart, reading, recs, out, delivered, dropped, unread, cut, errors, crashes>>
  BY DEF Receive
<1>4. ~toStart
  BY <1>2 DEF CloudTypes
<1>5. CloudTypes'
  BY <1>1, <1>2, <1>3 DEF CloudTypes
<1>6. Received'
  BY <1>1, <1>2 DEF Received
<1>7. Balanced'
  <2> SUFFICES ASSUME NEW m \in Msgs PROVE Ways(m)' + Ends(m)' = Deletes(m)'
    BY DEF Balanced
  <2>1. Ways(m)' = Ways(m) /\ Ends(m)' = Ends(m)
    BY <1>3, <1>4 DEF Ways, Ends, OutHas, StartHas
  <2>2. Deletes(m)' = Deletes(m)
    BY <1>2, <1>3 DEF Deletes, One
  <2> QED BY <2>1, <2>2 DEF Balanced
<1> QED BY <1>5, <1>6, <1>7

\* A delete, whether it succeeds or fails, is one more time that the message
\* is handled.
LEMMA DeleteKeeps ==
  ASSUME CloudIInv, DeleteOk \/ DeleteFails
  PROVE  CloudIInv'
<1> USE DEF CloudIInv
<1>0. /\ got # <<>> /\ ~toStart /\ toStart' = TRUE
      /\ UNCHANGED <<got, reading, recs, out, delivered, dropped, unread, cut, crashes>>
  BY DEF DeleteOk, DeleteFails
<1>1. PICK h \in Msgs : h = Head(got) /\ h = got[1] /\ 1 \in DOMAIN got
  BY <1>0, SMTT(30) DEF CloudTypes
<1>2. sqs[h] # "deleted"
  BY <1>0, <1>1 DEF Received
<1>3. \/ sqs' = [sqs EXCEPT ![h] = "deleted"] /\ errors' = errors
      \/ sqs' = sqs /\ errors' = [errors EXCEPT ![h] = @ + 1]
  BY <1>1 DEF DeleteOk, DeleteFails
<1>4. toStart' \in BOOLEAN /\ toStart'
  BY <1>0, Zenon
<1>5. /\ sqs' \in [Msgs -> {"visible", "hidden", "deleted"}] /\ errors' \in [Msgs -> Nat]
      /\ \A m \in Msgs : m # h => errors'[m] = errors[m] /\ sqs'[m] = sqs[m]
      /\ errors[h] \in Nat
      /\ \/ errors'[h] = errors[h] /\ sqs'[h] = "deleted"
         \/ errors'[h] = errors[h] + 1 /\ sqs'[h] = sqs[h]
  <2>1. sqs \in [Msgs -> {"visible", "hidden", "deleted"}] /\ errors \in [Msgs -> Nat]
    BY DEF CloudTypes
  <2> QED BY ONLY <1>3, <2>1, h \in Msgs
<1>6. CloudTypes'
  BY <1>0, <1>4, <1>5 DEF CloudTypes
<1>7. Received'
  <2>1. \A i \in DOMAIN got : i > 1 => got[i] # h /\ got[i] \in Msgs
    BY <1>1 DEF Received, CloudTypes
  <2> QED BY <1>0, <1>4, <1>5, <2>1 DEF Received
<1>8. Balanced'
  <2> SUFFICES ASSUME NEW m \in Msgs PROVE Ways(m)' + Ends(m)' = Deletes(m)'
    BY DEF Balanced
  <2>1. Sum(m)
    BY Sums
  <2>2. OutHas(m)' = OutHas(m) /\ StartHas(m) = 0 /\ StartHas(m)' = One(h = m)
    BY <1>0, <1>1, <1>4 DEF OutHas, StartHas, One
  <2>3. Deletes(m)' = Deletes(m) + One(h = m)
    BY <1>2, <1>5, <2>1 DEF Deletes, One, Sum
  <2>4. Ways(m)' = Ways(m) + One(h = m) /\ Ends(m)' = Ends(m) /\ One(h = m) \in Nat
        /\ Ways(m) \in Nat /\ Ends(m) \in Nat
    <3>1. One(h = m) \in Nat
      BY DEF One
    <3>2. reading' = reading /\ recs' = recs
      BY <1>0
    <3>3. Ends(m)' = Ends(m)
      BY <1>0 DEF Ends
    <3> QED BY ONLY <2>1, <2>2, <3>1, <3>2, <3>3 DEF Ways, Ends, Sum
  <2> QED BY ONLY <2>1, <2>3, <2>4 DEF Sum
<1> QED BY <1>6, <1>7, <1>8

\* A function with one count raised or lowered.
LEMMA Raised ==
  ASSUME NEW f \in [Msgs -> Nat], NEW h \in Msgs
  PROVE  /\ [f EXCEPT ![h] = @ + 1] \in [Msgs -> Nat]
         /\ \A m \in Msgs : [f EXCEPT ![h] = @ + 1][m] = f[m] + One(h = m)
BY DEF One

LEMMA Lowered ==
  ASSUME NEW f \in [Msgs -> Nat], NEW h \in Msgs, f[h] > 0
  PROVE  /\ [f EXCEPT ![h] = @ - 1] \in [Msgs -> Nat]
         /\ \A m \in Msgs : f[m] = [f EXCEPT ![h] = @ - 1][m] + One(h = m)
BY DEF One

LEMMA OneNat == \A b \in BOOLEAN : One(b) \in Nat
BY DEF One

\* The message whose delete has been tried goes to a goroutine, or is logged.
LEMMA StartKeeps ==
  ASSUME CloudIInv, StartReading \/ BadMessage
  PROVE  CloudIInv'
<1> USE DEF CloudIInv
<1>0. /\ toStart /\ toStart' = FALSE /\ got' = Tail(got)
      /\ UNCHANGED <<sqs, recs, out, delivered, dropped, cut, errors, crashes>>
  BY DEF StartReading, BadMessage
<1>1. got \in Seq(Msgs) /\ got # <<>>
  BY <1>0 DEF CloudTypes
<1>2. PICK h \in Msgs : h = Head(got)
  BY <1>1
<1>3. toStart' \in BOOLEAN /\ ~toStart'
  BY <1>0, Zenon
<1>4. reading \in [Msgs -> Nat] /\ unread \in [Msgs -> Nat]
  BY DEF CloudTypes
<1>5. \/ reading' = [reading EXCEPT ![h] = @ + 1] /\ unread' = unread
      \/ unread' = [unread EXCEPT ![h] = @ + 1] /\ reading' = reading
  BY <1>2 DEF StartReading, BadMessage
<1>6. /\ reading' \in [Msgs -> Nat] /\ unread' \in [Msgs -> Nat]
      /\ \A m \in Msgs : reading'[m] + unread'[m] = reading[m] + unread[m] + One(h = m)
  BY ONLY <1>4, <1>5, h \in Msgs DEF One
<1>7. /\ got' \in Seq(Msgs) /\ DOMAIN got' = 1 .. (Len(got) - 1) /\ Len(got) \in Nat
      /\ DOMAIN got = 1 .. Len(got) /\ \A i \in 1 .. (Len(got) - 1) : got'[i] = got[i + 1]
  BY ONLY <1>0, <1>1
<1>8. CloudTypes'
  BY <1>0, <1>3, <1>6, <1>7 DEF CloudTypes
<1>9. Received'
  <2>1. \A i \in DOMAIN got' : i + 1 \in DOMAIN got /\ i + 1 > 1 /\ got'[i] = got[i + 1]
    BY ONLY <1>7
  <2>2. \A i, j \in DOMAIN got' : got'[i] = got'[j] => i = j
    <3> SUFFICES ASSUME NEW i \in DOMAIN got', NEW j \in DOMAIN got', got'[i] = got'[j] PROVE i = j
      OBVIOUS
    <3>1. i + 1 = j + 1
      BY <2>1 DEF Received
    <3> QED BY <3>1, <1>7
  <2>3. \A i \in DOMAIN got' : sqs'[got'[i]] # "deleted"
    BY <1>0, <2>1 DEF Received
  <2> QED BY <2>2, <2>3 DEF Received
<1>10. Balanced'
  <2> SUFFICES ASSUME NEW m \in Msgs PROVE Ways(m)' + Ends(m)' = Deletes(m)'
    BY DEF Balanced
  <2>1. Sum(m)
    BY Sums
  <2>2. OutHas(m)' = OutHas(m) /\ StartHas(m) = One(h = m) /\ StartHas(m)' = 0
    BY <1>0, <1>2, <1>3 DEF OutHas, StartHas, One
  <2>3. /\ recs' = recs /\ delivered' = delivered /\ dropped' = dropped /\ cut' = cut
        /\ Deletes(m)' = Deletes(m) /\ One(h = m) \in Nat
    BY <1>0 DEF Deletes, One
  <2>4. reading'[m] \in Nat /\ unread'[m] \in Nat
        /\ reading'[m] + unread'[m] = reading[m] + unread[m] + One(h = m)
    BY <1>6
  <2> QED BY ONLY <2>1, <2>2, <2>3, <2>4 DEF Sum, Ways, Ends
<1> QED BY <1>8, <1>9, <1>10

\* A goroutine that reads an object puts its record on vpc.recs, drops it
\* because that is full, or finds nothing to read.
LEMMA ReadKeeps ==
  ASSUME CloudIInv, NEW h \in Msgs, ReadStep(h)
  PROVE  CloudIInv'
<1> USE DEF CloudIInv
<1>0. /\ reading[h] > 0 /\ reading' = [reading EXCEPT ![h] = @ - 1]
      /\ UNCHANGED <<sqs, got, toStart, out, delivered, cut, errors, crashes>>
  BY DEF ReadStep, NotRead, PutRecord, DropRecord
<1>1. /\ reading \in [Msgs -> Nat] /\ unread \in [Msgs -> Nat] /\ dropped \in [Msgs -> Nat]
      /\ recs \in Seq(Msgs)
  BY DEF CloudTypes
<1>2. /\ reading' \in [Msgs -> Nat] /\ \A m \in Msgs : reading[m] = reading'[m] + One(h = m)
  BY ONLY <1>0, <1>1, h \in Msgs, Lowered
<1>3. Received'
  BY <1>0 DEF Received
<1>4. ASSUME NEW m \in Msgs
      PROVE  Sum(m) /\ OutHas(m)' = OutHas(m) /\ StartHas(m)' = StartHas(m) /\ One(h = m) \in Nat
             /\ reading[m] = reading'[m] + One(h = m) /\ reading'[m] \in Nat
             /\ Deletes(m)' = Deletes(m) /\ delivered' = delivered /\ cut' = cut
  BY <1>0, <1>2, Sums DEF OutHas, StartHas, One, Deletes
<1>5. CASE NotRead(h)
  <2>1. unread' = [unread EXCEPT ![h] = @ + 1] /\ recs' = recs /\ dropped' = dropped
    BY <1>5 DEF NotRead
  <2>2. unread' \in [Msgs -> Nat] /\ \A m \in Msgs : unread'[m] = unread[m] + One(h = m)
    BY ONLY <2>1, <1>1, h \in Msgs, Raised
  <2>3. CloudTypes'
    BY <1>0, <1>2, <2>1, <2>2 DEF CloudTypes
  <2>4. ASSUME NEW m \in Msgs PROVE Ways(m)' + Ends(m)' = Deletes(m)'
    <3>1. unread'[m] = unread[m] + One(h = m)
      BY <2>2
    <3> QED BY ONLY <1>4, <2>1, <3>1, m \in Msgs DEF Sum, Ways, Ends
  <2> QED BY <1>3, <2>3, <2>4 DEF Balanced
<1>6. CASE PutRecord(h)
  <2>1. unread' = unread /\ recs' = Append(recs, h) /\ dropped' = dropped /\ Len(recs) < RecsCap
    BY <1>6 DEF PutRecord
  <2>2. recs' \in Seq(Msgs) /\ Len(recs') <= RecsCap
    BY ONLY <1>1, <2>1, h \in Msgs, CloudAssumption
  <2>3. CloudTypes'
    BY <1>0, <1>2, <2>1, <2>2 DEF CloudTypes
  <2>4. ASSUME NEW m \in Msgs PROVE Ways(m)' + Ends(m)' = Deletes(m)'
    <3>1. Cardinality(Places(recs', m)) = Cardinality(Places(recs, m)) + One(h = m)
      BY <1>1, <2>1, PlacesAppend
    <3>2. unread' = unread /\ dropped' = dropped
      BY <2>1
    <3>3. Sum(m) /\ OutHas(m)' = OutHas(m) /\ StartHas(m)' = StartHas(m) /\ One(h = m) \in Nat
          /\ reading[m] = reading'[m] + One(h = m) /\ reading'[m] \in Nat
          /\ Deletes(m)' = Deletes(m) /\ delivered' = delivered /\ cut' = cut
      BY <1>4
    <3> QED BY ONLY <3>1, <3>2, <3>3 DEF Sum, Ways, Ends
  <2> QED BY <1>3, <2>3, <2>4 DEF Balanced
<1>7. CASE DropRecord(h)
  <2>1. dropped' = [dropped EXCEPT ![h] = @ + 1] /\ recs' = recs /\ unread' = unread
    BY <1>7 DEF DropRecord
  <2>2. dropped' \in [Msgs -> Nat] /\ \A m \in Msgs : dropped'[m] = dropped[m] + One(h = m)
    BY ONLY <2>1, <1>1, h \in Msgs, Raised
  <2>3. CloudTypes'
    BY <1>0, <1>2, <2>1, <2>2 DEF CloudTypes
  <2>4. ASSUME NEW m \in Msgs PROVE Ways(m)' + Ends(m)' = Deletes(m)'
    <3>1. dropped'[m] = dropped[m] + One(h = m)
      BY <2>2
    <3> QED BY ONLY <1>4, <2>1, <3>1, m \in Msgs DEF Sum, Ways, Ends
  <2> QED BY <1>3, <2>3, <2>4 DEF Balanced
<1> QED BY <1>5, <1>6, <1>7 DEF ReadStep

\* checkQOut takes a record, and gives it on.
LEMMA OutKeeps ==
  ASSUME CloudIInv, TakeRecord \/ Deliver
  PROVE  CloudIInv'
<1> USE DEF CloudIInv
<1>0. UNCHANGED <<sqs, got, toStart, reading, dropped, unread, cut, errors, crashes>>
  BY DEF TakeRecord, Deliver
<1>1. recs \in Seq(Msgs) /\ out \in Seq(Msgs) /\ delivered \in [Msgs -> Nat]
  BY DEF CloudTypes
<1>2. Received'
  BY <1>0 DEF Received
<1>3. ASSUME NEW m \in Msgs
      PROVE  Sum(m) /\ StartHas(m)' = StartHas(m) /\ Deletes(m)' = Deletes(m) /\ reading' = reading
             /\ dropped' = dropped /\ unread' = unread /\ cut' = cut
  BY <1>0, Sums DEF StartHas, Deletes
<1>4. CASE TakeRecord
  <2>1. out = <<>> /\ recs # <<>> /\ out' = <<Head(recs)>> /\ recs' = Tail(recs) /\ delivered' = delivered
    BY <1>4 DEF TakeRecord
  <2>2. Head(recs) \in Msgs /\ recs' \in Seq(Msgs) /\ Len(recs') = Len(recs) - 1 /\ Len(recs) \in Nat
        /\ out' \in Seq(Msgs) /\ Len(out') = 1 /\ Head(out') = Head(recs) /\ out' # <<>>
    BY ONLY <1>1, <2>1
  <2>3. CloudTypes'
    <3>1. Len(recs') <= RecsCap /\ Len(out') <= 1
      BY <2>2, CloudAssumption DEF CloudTypes
    <3> QED BY <1>0, <2>1, <2>2, <3>1, Zenon DEF CloudTypes
  <2>4. ASSUME NEW m \in Msgs PROVE Ways(m)' + Ends(m)' = Deletes(m)'
    <3>1. Cardinality(Places(recs, m)) = Cardinality(Places(recs', m)) + One(Head(recs) = m)
      BY <1>1, <2>1, PlacesTail
    <3>2. OutHas(m) = 0 /\ OutHas(m)' = One(Head(recs) = m) /\ One(Head(recs) = m) \in Nat
      BY <2>1, <2>2 DEF OutHas, One
    <3>3. Cardinality(Places(recs', m)) \in Nat
      BY <2>2, PlacesFinite
    <3>4. Sum(m) /\ StartHas(m)' = StartHas(m) /\ Deletes(m)' = Deletes(m) /\ reading' = reading
          /\ dropped' = dropped /\ unread' = unread /\ cut' = cut /\ delivered' = delivered
      BY <1>3, <2>1
    <3> QED BY ONLY <3>1, <3>2, <3>3, <3>4 DEF Sum, Ways, Ends
  <2> QED BY <1>2, <2>3, <2>4 DEF Balanced
<1>5. CASE Deliver
  <2>1. out # <<>> /\ out' = <<>> /\ delivered' = [delivered EXCEPT ![Head(out)] = @ + 1] /\ recs' = recs
    BY <1>5 DEF Deliver
  <2>2. PICK h \in Msgs : h = Head(out)
    BY ONLY <1>1, <2>1
  <2>3. delivered' \in [Msgs -> Nat] /\ \A m \in Msgs : delivered'[m] = delivered[m] + One(h = m)
    BY ONLY <2>1, <2>2, <1>1, Raised
  <2>4. out' \in Seq(Msgs) /\ Len(out') <= 1
    BY ONLY <2>1
  <2>5. CloudTypes'
    BY <1>0, <2>1, <2>3, <2>4 DEF CloudTypes
  <2>6. ASSUME NEW m \in Msgs PROVE Ways(m)' + Ends(m)' = Deletes(m)'
    <3>1. OutHas(m)' = 0 /\ OutHas(m) = One(h = m) /\ One(h = m) \in Nat
      BY <2>1, <2>2 DEF OutHas, One
    <3>2. delivered'[m] = delivered[m] + One(h = m)
      BY <2>3
    <3>3. Sum(m) /\ StartHas(m)' = StartHas(m) /\ Deletes(m)' = Deletes(m) /\ reading' = reading
          /\ dropped' = dropped /\ unread' = unread /\ cut' = cut /\ recs' = recs
      BY <1>3, <2>1
    <3> QED BY ONLY <3>1, <3>2, <3>3 DEF Sum, Ways, Ends
  <2> QED BY <1>2, <2>5, <2>6 DEF Balanced
<1> QED BY <1>4, <1>5

\* A stop loses what the agent holds, which cut counts; what it had only
\* received comes back by itself.
LEMMA CrashKeeps ==
  ASSUME CloudIInv, Crash
  PROVE  CloudIInv'
<1> USE DEF CloudIInv
<1>0. /\ crashes < MaxCrashes /\ crashes' = crashes + 1
      /\ got' = <<>> /\ toStart' = FALSE /\ reading' = None /\ recs' = <<>> /\ out' = <<>>
      /\ UNCHANGED <<sqs, delivered, dropped, unread, errors>>
  BY DEF Crash
<1>1. cut' = [m \in Msgs |-> cut[m] + Held(m)]
  BY DEF Crash
<1>2. \A m \in Msgs : Held(m) = Ways(m) /\ Ways(m) \in Nat /\ Ends(m) \in Nat
  BY HeldIs
<1>3. cut \in [Msgs -> Nat]
  BY DEF CloudTypes
<1>4. cut' \in [Msgs -> Nat] /\ \A m \in Msgs : cut'[m] = cut[m] + Ways(m)
  <2> HIDE DEF CloudIInv
  <2>1. \A m \in Msgs : cut[m] + Held(m) \in Nat /\ cut[m] + Held(m) = cut[m] + Ways(m)
    BY ONLY <1>2, <1>3
  <2> QED BY ONLY <1>1, <2>1
<1>5. toStart' \in BOOLEAN /\ ~toStart'
  BY <1>0, Zenon
<1>6. got' \in Seq(Msgs) /\ recs' \in Seq(Msgs) /\ out' \in Seq(Msgs) /\ Len(recs') = 0 /\ Len(out') = 0
      /\ DOMAIN got' = {}
  BY ONLY <1>0
<1>7. reading' \in [Msgs -> Nat] /\ \A m \in Msgs : reading'[m] = 0
  BY ONLY <1>0 DEF None
<1>8. CloudTypes'
  <2>1. Len(recs') <= RecsCap /\ Len(out') <= 1 /\ crashes' \in 0..MaxCrashes
    BY <1>0, <1>6, CloudAssumption DEF CloudTypes
  <2> QED BY <1>0, <1>4, <1>5, <1>6, <1>7, <2>1 DEF CloudTypes
<1>9. Received'
  BY ONLY <1>6, Zenon DEF Received
<1>10. Balanced'
  <2> SUFFICES ASSUME NEW m \in Msgs PROVE Ways(m)' + Ends(m)' = Deletes(m)'
    BY DEF Balanced
  <2>1. Sum(m) /\ Ways(m) \in Nat
    BY Sums, <1>2
  <2>2. Cardinality(Places(recs', m)) = 0
    BY <1>0, PlacesEmpty
  <2>3. OutHas(m)' = 0 /\ StartHas(m)' = 0
    BY <1>0, <1>5 DEF OutHas, StartHas, One
  <2>4. Deletes(m)' = Deletes(m) /\ delivered' = delivered /\ dropped' = dropped /\ unread' = unread
    BY <1>0 DEF Deletes
  <2>5. Ways(m)' = 0
    BY ONLY <1>7, <2>2, <2>3, m \in Msgs DEF Ways
  <2>6. Ends(m)' = Ends(m) + Ways(m) /\ Ends(m) \in Nat
    BY ONLY <1>4, <2>1, <2>4, m \in Msgs DEF Ends, Sum
  <2> QED BY ONLY <2>1, <2>4, <2>5, <2>6 DEF Sum
<1> QED BY <1>8, <1>9, <1>10

\* Every step of SQS, the agent and its stops keeps the invariant.
LEMMA CloudStep == ASSUME CloudIInv, [CloudNext]_cloudVars PROVE CloudIInv'
<1>1. CASE QueueStep
  BY <1>1, DeleteKeeps, StartKeeps, OutKeeps DEF QueueStep
<1>2. CASE Crash
  BY <1>2, CrashKeeps
<1>3. CASE \E m \in Msgs : VisibilityEnds(m) \/ ReadStep(m)
  BY <1>3, SqsKeeps, ReadKeeps
<1>4. CASE \E S \in SUBSET Msgs : \E s \in SetToSeqs(S) : Receive(s)
  BY <1>4, ReceiveKeeps
<1>5. CASE UNCHANGED cloudVars
  BY <1>5 DEF cloudVars, CloudIInv, CloudTypes, Received, Balanced, Ways, Ends, Deletes, OutHas, StartHas
<1> QED BY <1>1, <1>2, <1>3, <1>4, <1>5 DEF CloudNext

------------------------------------------------------------------------------
(* The S3 sink.                                                            *)

Flying(p) == {f \in flights : p \in ToSet(f)}
Stored(p) == {i \in DOMAIN objects : p \in ToSet(objects[i])}

S3Types ==
  /\ payloads \in 0..MaxPayloads /\ buf \in Seq(Nat) /\ single \subseteq 1..payloads
  /\ flights \subseteq Seq(Nat) \ {<<>>} /\ IsFiniteSet(flights)
  /\ objects \in Seq(Seq(Nat)) /\ failed \subseteq Nat
  /\ valid \in BOOLEAN /\ expiries \in 0..MaxExpiries /\ s3done \in BOOLEAN

\* Where a number is, whether or not a payload has it yet.
Somewhere(p) ==
  Cardinality(Places(buf, p)) + Cardinality(Flying(p)) + Cardinality(Stored(p)) + One(p \in failed)
Everywhere == \A p \in Nat : Somewhere(p) = One(p \in 1..payloads)

\* The payloads of a sequence are a run of the buffered ones.
IsRun(s, S) ==
  \A i \in 1..(Len(s) - 1) : s[i] < s[i + 1] /\ (s[i] + 1)..(s[i + 1] - 1) \subseteq S
Runs ==
  /\ IsRun(buf, single) /\ \A f \in flights : IsRun(f, single)
  /\ \A i \in DOMAIN objects : IsRun(objects[i], single)

\* Nothing but single payloads came after the last one of the buffer.
Newest == buf # <<>> => (buf[Len(buf)] + 1)..payloads \subseteq single

S3IInv == S3Types /\ Everywhere /\ Runs /\ Newest

\* The numbers of Somewhere are numbers, and say where a payload is.
LEMMA SomewhereIs ==
  ASSUME S3Types, NEW p \in Nat
  PROVE  /\ IsFiniteSet(Places(buf, p)) /\ Cardinality(Places(buf, p)) \in Nat
         /\ IsFiniteSet(Flying(p)) /\ Cardinality(Flying(p)) \in Nat
         /\ IsFiniteSet(Stored(p)) /\ Cardinality(Stored(p)) \in Nat
         /\ (p \in ToSet(buf) <=> Cardinality(Places(buf, p)) > 0)
         /\ ((\E f \in flights : p \in ToSet(f)) <=> Cardinality(Flying(p)) > 0)
         /\ One(p \in failed) \in {0, 1} /\ Somewhere(p) \in Nat
<1>1. IsFiniteSet(Places(buf, p)) /\ Cardinality(Places(buf, p)) \in Nat
  BY PlacesFinite DEF S3Types
<1>2. IsFiniteSet(Flying(p)) /\ Cardinality(Flying(p)) \in Nat
  <2>1. Flying(p) \in SUBSET flights /\ IsFiniteSet(flights)
    BY DEF Flying, S3Types
  <2> QED BY <2>1, FS_Subset, FS_CardinalityType
<1>3. IsFiniteSet(Stored(p)) /\ Cardinality(Stored(p)) \in Nat
  <2>1. Stored(p) \in SUBSET (1..Len(objects)) /\ IsFiniteSet(1..Len(objects))
    BY FS_Interval DEF Stored, S3Types
  <2> QED BY <2>1, FS_Subset, FS_CardinalityType
<1>4. p \in ToSet(buf) <=> Cardinality(Places(buf, p)) > 0
  <2>1. p \in ToSet(buf) <=> Places(buf, p) # {}
    BY DEF ToSet, Places
  <2>2. Cardinality(Places(buf, p)) = 0 <=> Places(buf, p) = {}
    BY <1>1, FS_EmptySet
  <2> QED BY ONLY <1>1, <2>1, <2>2
<1>5. (\E f \in flights : p \in ToSet(f)) <=> Cardinality(Flying(p)) > 0
  <2>1. (\E f \in flights : p \in ToSet(f)) <=> Flying(p) # {}
    BY DEF Flying
  <2>2. Cardinality(Flying(p)) = 0 <=> Flying(p) = {}
    BY <1>2, FS_EmptySet
  <2> QED BY ONLY <1>2, <2>1, <2>2
<1>6. One(p \in failed) \in {0, 1}
  BY DEF One
<1>7. Somewhere(p) \in Nat
  BY ONLY <1>1, <1>2, <1>3, <1>6 DEF Somewhere
<1> QED BY <1>1, <1>2, <1>3, <1>4, <1>5, <1>6, <1>7

\* The inductive invariant says what the run checks of the sink.
LEMMA S3IInvEnough == S3IInv => S3Inv
<1> SUFFICES ASSUME S3IInv PROVE S3Inv
  OBVIOUS
<1> USE DEF S3IInv
<1>1. ToSet(buf) \subseteq 1..payloads
  <2> SUFFICES ASSUME NEW p \in ToSet(buf) PROVE p \in 1..payloads
    OBVIOUS
  <2>1. p \in Nat
    BY DEF ToSet, S3Types
  <2>2. Cardinality(Places(buf, p)) > 0 /\ Cardinality(Places(buf, p)) \in Nat
        /\ Cardinality(Flying(p)) \in Nat /\ Cardinality(Stored(p)) \in Nat
        /\ One(p \in failed) \in {0, 1}
    BY <2>1, SomewhereIs
  <2>3. Somewhere(p) = One(p \in 1..payloads)
    BY <2>1 DEF Everywhere
  <2> QED BY ONLY <2>2, <2>3 DEF Somewhere, One
<1>2. S3TypeOK
  BY <1>1 DEF S3TypeOK, S3Types
<1>3. EveryPayloadOnce
  <2> SUFFICES ASSUME NEW p \in 1..payloads
               PROVE  Cardinality({i \in DOMAIN buf : buf[i] = p})
                      + Cardinality({f \in flights : p \in ToSet(f)})
                      + Cardinality({i \in DOMAIN objects : p \in ToSet(objects[i])})
                      + Cardinality({p} \cap failed) = 1
    BY DEF EveryPayloadOnce
  <2>1. Cardinality({p} \cap failed) = One(p \in failed)
    <3>1. CASE p \in failed
      <4>1. {p} \cap failed = {p}
        BY <3>1
      <4> QED BY <3>1, <4>1, FS_Singleton DEF One
    <3>2. CASE p \notin failed
      <4>1. {p} \cap failed = {}
        BY <3>2
      <4> QED BY <3>2, <4>1, FS_EmptySet DEF One
    <3> QED BY <3>1, <3>2
  <2>2. p \in Nat
    BY DEF S3Types
  <2>3. Somewhere(p) = 1
    BY <2>2 DEF Everywhere, One
  <2> QED BY <2>1, <2>3, Zenon DEF Somewhere, Places, Flying, Stored
<1>4. ObjectsAreRuns
  <2>1. \A s \in ToSet(objects) : IsRun(s, single)
    BY DEF Runs, ToSet
  <2> QED BY <2>1, Zenon DEF ObjectsAreRuns, Runs, IsRun
<1> QED BY <1>2, <1>3, <1>4 DEF S3Inv

LEMMA S3Start == S3Init => S3IInv
<1> SUFFICES ASSUME S3Init PROVE S3IInv
  OBVIOUS
<1> USE DEF S3Init
<1>1. S3Types
  <2>1. valid \in BOOLEAN /\ s3done \in BOOLEAN
    BY Zenon
  <2>2. payloads \in 0..MaxPayloads /\ expiries \in 0..MaxExpiries
    BY S3Assumption
  <2>3. IsFiniteSet(flights)
    BY FS_EmptySet
  <2>4. buf \in Seq(Nat) /\ objects \in Seq(Seq(Nat)) /\ single \subseteq 1..payloads /\ failed \subseteq Nat
    OBVIOUS
  <2>5. flights \subseteq Seq(Nat) \ {<<>>}
    OBVIOUS
  <2> QED BY <2>1, <2>2, <2>3, <2>4, <2>5 DEF S3Types
<1>2. Everywhere
  <2> SUFFICES ASSUME NEW p \in Nat PROVE Somewhere(p) = One(p \in 1..payloads)
    BY DEF Everywhere
  <2>1. Cardinality(Places(buf, p)) = 0
    BY PlacesEmpty
  <2>2. Flying(p) = {} /\ Stored(p) = {}
    BY DEF Flying, Stored
  <2>3. Cardinality(Flying(p)) = 0 /\ Cardinality(Stored(p)) = 0
    BY <2>2, FS_EmptySet
  <2>4. One(p \in failed) = 0 /\ One(p \in 1..payloads) = 0
    BY DEF One
  <2> QED BY ONLY <2>1, <2>3, <2>4 DEF Somewhere
<1>3. Runs /\ Newest
  BY DEF Runs, Newest, IsRun
<1> QED BY <1>1, <1>2, <1>3 DEF S3IInv

\* A run stays one when more payloads are single.
LEMMA RunKept ==
  ASSUME NEW s, NEW S, NEW T, IsRun(s, S), S \subseteq T
  PROVE  IsRun(s, T)
BY DEF IsRun

\* An upload that begins, or ends.
LEMMA FlyingMore ==
  ASSUME S3Types, NEW g, g \notin flights, flights' = flights \cup {g}, NEW p \in Nat
  PROVE  Cardinality(Flying(p)') = Cardinality(Flying(p)) + One(p \in ToSet(g))
<1>0. IsFiniteSet(Flying(p)) /\ Cardinality(Flying(p)) \in Nat /\ g \notin Flying(p)
  BY SomewhereIs DEF Flying
<1>1. CASE p \in ToSet(g)
  <2>1. Flying(p)' = Flying(p) \cup {g}
    BY <1>1 DEF Flying
  <2>2. One(p \in ToSet(g)) = 1
    BY <1>1 DEF One
  <2> QED BY ONLY <1>0, <2>1, <2>2, FS_AddElement
<1>2. CASE p \notin ToSet(g)
  <2>1. Flying(p)' = Flying(p)
    BY <1>2 DEF Flying
  <2>2. One(p \in ToSet(g)) = 0
    BY <1>2 DEF One
  <2> QED BY ONLY <1>0, <2>1, <2>2
<1> QED BY <1>1, <1>2

LEMMA FlyingLess ==
  ASSUME S3Types, NEW g \in flights, flights' = flights \ {g}, NEW p \in Nat
  PROVE  /\ Cardinality(Flying(p)) = Cardinality(Flying(p)') + One(p \in ToSet(g))
         /\ Cardinality(Flying(p)') \in Nat
<1>0. IsFiniteSet(Flying(p)) /\ Cardinality(Flying(p)) \in Nat
  BY SomewhereIs
<1>1. CASE p \in ToSet(g)
  <2>1. Flying(p)' = Flying(p) \ {g} /\ g \in Flying(p)
    BY <1>1 DEF Flying
  <2>2. One(p \in ToSet(g)) = 1
    BY <1>1 DEF One
  <2>3. Cardinality(Flying(p) \ {g}) = Cardinality(Flying(p)) - 1 /\ IsFiniteSet(Flying(p) \ {g})
    BY ONLY <1>0, <2>1, FS_RemoveElement
  <2>4. Cardinality(Flying(p)') \in Nat
    BY <2>1, <2>3, FS_CardinalityType
  <2> QED BY ONLY <1>0, <2>1, <2>2, <2>3, <2>4
<1>2. CASE p \notin ToSet(g)
  <2>1. Flying(p)' = Flying(p)
    BY <1>2 DEF Flying
  <2>2. One(p \in ToSet(g)) = 0
    BY <1>2 DEF One
  <2> QED BY ONLY <1>0, <2>1, <2>2
<1> QED BY <1>1, <1>2

\* An object that arrives.
LEMMA StoredMore ==
  ASSUME S3Types, NEW g \in Seq(Nat), objects' = Append(objects, g), NEW p \in Nat
  PROVE  Cardinality(Stored(p)') = Cardinality(Stored(p)) + One(p \in ToSet(g))
<1> DEFINE k == Len(objects) + 1
<1>0. IsFiniteSet(Stored(p)) /\ Cardinality(Stored(p)) \in Nat
  BY SomewhereIs
<1>1. /\ DOMAIN objects' = DOMAIN objects \cup {k} /\ k \notin DOMAIN objects /\ objects'[k] = g
      /\ \A i \in DOMAIN objects : objects'[i] = objects[i]
  BY DEF S3Types
<1>2. k \notin Stored(p)
  BY <1>1 DEF Stored
<1>3. CASE p \in ToSet(g)
  <2>1. Stored(p)' = Stored(p) \cup {k}
    BY <1>1, <1>3, Zenon DEF Stored
  <2>2. One(p \in ToSet(g)) = 1
    BY <1>3 DEF One
  <2> HIDE DEF k
  <2> QED BY ONLY <1>0, <1>2, <2>1, <2>2, FS_AddElement
<1>4. CASE p \notin ToSet(g)
  <2>1. Stored(p)' = Stored(p)
    BY <1>1, <1>4, Zenon DEF Stored
  <2>2. One(p \in ToSet(g)) = 0
    BY <1>4 DEF One
  <2> QED BY ONLY <1>0, <2>1, <2>2
<1> QED BY <1>3, <1>4

\* The last payload of a sequence, and of one that is longer by one.
LEMMA LastOf ==
  ASSUME NEW s \in Seq(Nat), NEW n \in Nat
  PROVE  /\ Append(s, n) \in Seq(Nat) /\ Len(Append(s, n)) = Len(s) + 1 /\ Len(s) \in Nat
         /\ Append(s, n)[Len(s) + 1] = n /\ Append(s, n) # <<>>
         /\ \A i \in 1..Len(s) : Append(s, n)[i] = s[i] /\ s[i] \in Nat
         /\ s # <<>> => Len(s) \in 1..Len(s)
OBVIOUS

LEMMA SendBufferedKeeps == ASSUME S3IInv, SendBuffered PROVE S3IInv'
<1> USE DEF S3IInv
<1> DEFINE n == payloads + 1
<1>0. /\ payloads < MaxPayloads /\ payloads' = n /\ buf' = Append(buf, n)
      /\ UNCHANGED <<single, flights, objects, failed, valid, expiries, s3done>>
  BY DEF SendBuffered
<1>1. payloads \in Nat /\ n \in Nat /\ buf \in Seq(Nat)
  BY S3Assumption DEF S3Types
<1>2. S3Types'
  <2>1. payloads' \in 0..MaxPayloads /\ single' \subseteq 1..payloads' /\ buf' \in Seq(Nat)
    BY <1>0, <1>1, S3Assumption DEF S3Types
  <2> QED BY <1>0, <2>1, Zenon DEF S3Types
<1>3. Everywhere'
  <2> SUFFICES ASSUME NEW p \in Nat PROVE Somewhere(p)' = One(p \in 1..payloads')
    BY DEF Everywhere
  <2>1. Cardinality(Places(buf', p)) = Cardinality(Places(buf, p)) + One(n = p)
    BY <1>0, <1>1, PlacesAppend
  <2>2. Flying(p)' = Flying(p) /\ Stored(p)' = Stored(p) /\ failed' = failed
    BY <1>0 DEF Flying, Stored
  <2>3. Somewhere(p) = One(p \in 1..payloads) /\ One(p \in failed) \in {0, 1}
        /\ Cardinality(Places(buf, p)) \in Nat /\ Cardinality(Flying(p)) \in Nat
        /\ Cardinality(Stored(p)) \in Nat
    BY SomewhereIs DEF Everywhere
  <2>4. One(p \in 1..payloads') = One(p \in 1..payloads) + One(n = p) /\ One(n = p) \in Nat
    BY <1>0, <1>1 DEF One
  <2> HIDE DEF n
  <2> QED BY ONLY <2>1, <2>2, <2>3, <2>4 DEF Somewhere
<1>4. Runs'
  <2>1. IsRun(buf', single')
    <3> SUFFICES ASSUME NEW i \in 1..(Len(buf') - 1)
                 PROVE  buf'[i] < buf'[i + 1] /\ (buf'[i] + 1)..(buf'[i + 1] - 1) \subseteq single
      BY <1>0 DEF IsRun
    <3>1. Len(buf') = Len(buf) + 1 /\ i \in 1..Len(buf) /\ Len(buf) \in Nat /\ buf'[Len(buf) + 1] = n
          /\ \A j \in 1..Len(buf) : buf'[j] = buf[j]
      BY <1>0, <1>1, LastOf
    <3>2. CASE i < Len(buf)
      <4>1. i \in 1..(Len(buf) - 1) /\ buf'[i] = buf[i] /\ buf'[i + 1] = buf[i + 1]
        BY <3>1, <3>2
      <4> QED BY <4>1 DEF Runs, IsRun
    <3>3. CASE i = Len(buf)
      <4>1. buf # <<>> /\ buf'[i] = buf[Len(buf)] /\ buf'[i + 1] = n
        BY <3>1, <3>3
      <4>2. (buf[Len(buf)] + 1)..payloads \subseteq single
        BY <4>1 DEF Newest
      <4>3. buf[Len(buf)] \in 1..payloads
        <5>1. ToSet(buf) \subseteq 1..payloads
          BY S3IInvEnough DEF S3Inv, S3TypeOK
        <5> QED BY <3>1, <3>3, <5>1 DEF ToSet
      <4> QED BY ONLY <1>1, <4>1, <4>2, <4>3
    <3> QED BY <3>1, <3>2, <3>3
  <2> QED BY <1>0, <2>1, Zenon DEF Runs
<1>5. Newest'
  <2>1. buf'[Len(buf')] = n
    BY <1>0, <1>1, LastOf
  <2>2. (n + 1)..n = {}
    BY <1>1
  <2> QED BY <1>0, <2>1, <2>2, Zenon DEF Newest
<1> QED BY <1>2, <1>3, <1>4, <1>5

LEMMA SendSingleKeeps == ASSUME S3IInv, SendSingle PROVE S3IInv'
<1> USE DEF S3IInv
<1> DEFINE n == payloads + 1
           g == <<n>>
<1>0. /\ payloads < MaxPayloads /\ payloads' = n /\ single' = single \cup {n}
      /\ flights' = flights \cup {g} /\ UNCHANGED <<buf, objects, failed, valid, expiries, s3done>>
  BY DEF SendSingle
<1>1. payloads \in Nat /\ n \in Nat
  BY S3Assumption DEF S3Types
<1>2. g \in Seq(Nat) /\ g # <<>> /\ Len(g) = 1 /\ ToSet(g) = {n}
  BY <1>1 DEF ToSet
<1>3. g \notin flights
  <2>1. Somewhere(n) = One(n \in 1..payloads) /\ One(n \in 1..payloads) = 0
    BY <1>1 DEF Everywhere, One
  <2>2. /\ Cardinality(Places(buf, n)) \in Nat /\ Cardinality(Flying(n)) \in Nat
        /\ Cardinality(Stored(n)) \in Nat /\ One(n \in failed) \in {0, 1}
        /\ ((\E f \in flights : n \in ToSet(f)) <=> Cardinality(Flying(n)) > 0)
    BY <1>1, SomewhereIs
  <2> HIDE DEF n
  <2>3. Cardinality(Flying(n)) = 0
    BY ONLY <2>1, <2>2 DEF Somewhere
  <2> QED BY <1>2, <2>2, <2>3
<1>4. S3Types'
  <2>1. payloads' \in 0..MaxPayloads /\ single' \subseteq 1..payloads'
    BY <1>0, <1>1, S3Assumption DEF S3Types
  <2>2. flights' \subseteq Seq(Nat) \ {<<>>} /\ IsFiniteSet(flights')
    <3> HIDE DEF g
    <3> QED BY <1>0, <1>2, FS_AddElement DEF S3Types
  <2> QED BY <1>0, <2>1, <2>2, Zenon DEF S3Types
<1>5. Everywhere'
  <2> SUFFICES ASSUME NEW p \in Nat PROVE Somewhere(p)' = One(p \in 1..payloads')
    BY DEF Everywhere
  <2>1. Cardinality(Flying(p)') = Cardinality(Flying(p)) + One(p \in ToSet(g))
    <3> HIDE DEF g
    <3> QED BY <1>0, <1>3, FlyingMore
  <2>2. buf' = buf /\ Stored(p)' = Stored(p) /\ failed' = failed
    BY <1>0 DEF Stored
  <2>3. Somewhere(p) = One(p \in 1..payloads) /\ One(p \in failed) \in {0, 1}
        /\ Cardinality(Places(buf, p)) \in Nat /\ Cardinality(Flying(p)) \in Nat
        /\ Cardinality(Stored(p)) \in Nat
    BY SomewhereIs DEF Everywhere
  <2>4. One(p \in 1..payloads') = One(p \in 1..payloads) + One(p \in ToSet(g))
        /\ One(p \in ToSet(g)) \in Nat
    BY <1>0, <1>1, <1>2 DEF One
  <2> HIDE DEF g, n
  <2> QED BY ONLY <2>1, <2>2, <2>3, <2>4 DEF Somewhere
<1>6. Runs'
  <2>1. single \subseteq single'
    BY <1>0
  <2>2. IsRun(g, single')
    BY <1>2 DEF IsRun
  <2>3. /\ IsRun(buf, single') /\ \A f \in flights : IsRun(f, single')
        /\ \A i \in DOMAIN objects : IsRun(objects[i], single')
    BY <2>1, RunKept DEF Runs
  <2> HIDE DEF g
  <2> QED BY <1>0, <2>2, <2>3, Zenon DEF Runs
<1>7. Newest'
  <2> SUFFICES ASSUME buf # <<>> PROVE (buf[Len(buf)] + 1)..n \subseteq single \cup {n}
    BY <1>0 DEF Newest
  <2>1. (buf[Len(buf)] + 1)..payloads \subseteq single /\ buf[Len(buf)] \in Nat
    BY DEF Newest, S3Types
  <2> QED BY ONLY <1>1, <2>1
<1> QED BY <1>4, <1>5, <1>6, <1>7

\* The buffer becomes an upload, as a whole and only once.
LEMMA DumpKeepsAll == ASSUME S3IInv, Dump PROVE S3IInv'
<1> USE DEF S3IInv
<1>0. /\ buf # <<>> /\ flights' = flights \cup {buf} /\ buf' = <<>>
      /\ UNCHANGED <<payloads, single, objects, failed, valid, expiries, s3done>>
  BY DEF Dump
<1>1. \A p \in Nat : /\ Somewhere(p) = One(p \in 1..payloads) /\ One(p \in failed) \in {0, 1}
                     /\ Cardinality(Places(buf, p)) \in Nat /\ Cardinality(Flying(p)) \in Nat
                     /\ Cardinality(Stored(p)) \in Nat /\ One(p \in 1..payloads) \in {0, 1}
                     /\ (p \in ToSet(buf) <=> Cardinality(Places(buf, p)) > 0)
                     /\ ((\E f \in flights : p \in ToSet(f)) <=> Cardinality(Flying(p)) > 0)
  BY SomewhereIs DEF Everywhere, One
<1>2. buf \notin flights
  <2>1. PICK p \in Nat : p \in ToSet(buf)
    <3>1. buf \in Seq(Nat) /\ 1 \in DOMAIN buf /\ buf[1] \in Nat
      BY <1>0 DEF S3Types
    <3> QED BY <3>1 DEF ToSet
  <2>2. Cardinality(Flying(p)) = 0
    <3>1. Somewhere(p) \in {0, 1} /\ One(p \in failed) \in {0, 1}
          /\ Cardinality(Places(buf, p)) \in Nat /\ Cardinality(Flying(p)) \in Nat
          /\ Cardinality(Stored(p)) \in Nat /\ Cardinality(Places(buf, p)) > 0
      BY <1>1, <2>1
    <3> QED BY ONLY <3>1 DEF Somewhere
  <2> QED BY <1>1, <2>1, <2>2
<1>3. S3Types'
  <2>1. flights' \subseteq Seq(Nat) \ {<<>>} /\ IsFiniteSet(flights')
    BY <1>0, FS_AddElement DEF S3Types
  <2>2. buf' \in Seq(Nat)
    BY ONLY <1>0
  <2> QED BY <1>0, <2>1, <2>2, Zenon DEF S3Types
<1>4. Everywhere'
  <2> SUFFICES ASSUME NEW p \in Nat PROVE Somewhere(p)' = One(p \in 1..payloads)
    BY <1>0 DEF Everywhere
  <2>1. Cardinality(Flying(p)') = Cardinality(Flying(p)) + One(p \in ToSet(buf))
    BY <1>0, <1>2, FlyingMore
  <2>2. Cardinality(Places(buf', p)) = 0 /\ Stored(p)' = Stored(p) /\ failed' = failed
    BY <1>0, PlacesEmpty DEF Stored
  <2>3. Cardinality(Places(buf, p)) = One(p \in ToSet(buf))
    <3>1. Somewhere(p) \in {0, 1} /\ One(p \in failed) \in {0, 1}
          /\ Cardinality(Places(buf, p)) \in Nat /\ Cardinality(Flying(p)) \in Nat
          /\ Cardinality(Stored(p)) \in Nat
          /\ (p \in ToSet(buf) <=> Cardinality(Places(buf, p)) > 0)
      BY <1>1
    <3>2. Cardinality(Places(buf, p)) \in {0, 1}
      BY ONLY <3>1 DEF Somewhere
    <3> QED BY ONLY <3>1, <3>2 DEF One
  <2> QED BY ONLY <1>1, <2>1, <2>2, <2>3, p \in Nat DEF Somewhere
<1>5. Runs' /\ Newest'
  <2>1. Newest' /\ IsRun(buf', single')
    BY <1>0 DEF Newest, IsRun
  <2> QED BY <1>0, <2>1, Zenon DEF Runs
<1> QED BY <1>3, <1>4, <1>5

\* An upload ends as an object, or as a failure.
LEMMA UploadKeeps ==
  ASSUME S3IInv, NEW f \in flights, UploadFails(f) \/ Uploaded(f)
  PROVE  S3IInv'
<1> USE DEF S3IInv
<1>0. flights' = flights \ {f} /\ UNCHANGED <<payloads, buf, single, valid, expiries, s3done>>
  BY DEF UploadFails, Uploaded
<1>1. f \in Seq(Nat) /\ ToSet(f) \subseteq Nat
  BY DEF S3Types, ToSet
<1>2. flights' \subseteq Seq(Nat) \ {<<>>} /\ IsFiniteSet(flights')
  BY <1>0, FS_RemoveElement DEF S3Types
<1>3. ASSUME NEW p \in Nat
      PROVE  /\ Somewhere(p) = One(p \in 1..payloads) /\ One(p \in failed) \in {0, 1}
             /\ Cardinality(Places(buf, p)) \in Nat /\ Cardinality(Stored(p)) \in Nat
             /\ One(p \in 1..payloads) \in {0, 1} /\ One(p \in ToSet(f)) \in {0, 1}
             /\ Cardinality(Flying(p)) = Cardinality(Flying(p)') + One(p \in ToSet(f))
             /\ Cardinality(Flying(p)') \in Nat /\ buf' = buf /\ payloads' = payloads
  <2>1. Cardinality(Flying(p)) = Cardinality(Flying(p)') + One(p \in ToSet(f))
        /\ Cardinality(Flying(p)') \in Nat
    BY <1>0, FlyingLess
  <2>2. One(p \in ToSet(f)) \in {0, 1} /\ One(p \in 1..payloads) \in {0, 1}
    BY DEF One
  <2> QED BY <1>0, <2>1, <2>2, SomewhereIs DEF Everywhere
<1>4. Newest'
  BY <1>0 DEF Newest
<1>5. CASE UploadFails(f)
  <2>1. failed' = failed \cup ToSet(f) /\ objects' = objects
    BY <1>5 DEF UploadFails
  <2>2. S3Types'
    BY <1>0, <1>1, <1>2, <2>1, Zenon DEF S3Types
  <2>3. ASSUME NEW p \in Nat PROVE Somewhere(p)' = One(p \in 1..payloads')
    <3>1. Stored(p)' = Stored(p)
      BY <2>1 DEF Stored
    <3>2. /\ p \in ToSet(f) => One(p \in ToSet(f)) = 1 /\ One(p \in failed') = 1
          /\ p \notin ToSet(f) => One(p \in ToSet(f)) = 0 /\ One(p \in failed') = One(p \in failed)
      BY <2>1 DEF One
    <3> QED BY ONLY <1>3, <3>1, <3>2, p \in Nat DEF Somewhere
  <2>4. Runs'
    BY <1>0, <2>1, Zenon DEF Runs
  <2> QED BY <1>4, <2>2, <2>3, <2>4 DEF Everywhere
<1>6. CASE Uploaded(f)
  <2>1. objects' = Append(objects, f) /\ failed' = failed
    BY <1>6 DEF Uploaded
  <2>2. objects \in Seq(Seq(Nat))
    BY DEF S3Types
  <2>3. objects' \in Seq(Seq(Nat)) /\ DOMAIN objects' = DOMAIN objects \cup {Len(objects) + 1}
        /\ objects'[Len(objects) + 1] = f /\ \A i \in DOMAIN objects : objects'[i] = objects[i]
    BY ONLY <1>1, <2>1, <2>2
  <2>4. S3Types'
    BY <1>0, <1>2, <2>1, <2>3, Zenon DEF S3Types
  <2>5. ASSUME NEW p \in Nat PROVE Somewhere(p)' = One(p \in 1..payloads')
    <3>1. Cardinality(Stored(p)') = Cardinality(Stored(p)) + One(p \in ToSet(f))
      BY <1>1, <2>1, StoredMore
    <3>2. failed' = failed
      BY <2>1
    <3> QED BY ONLY <1>3, <3>1, <3>2, p \in Nat, SMTT(30) DEF Somewhere
  <2>6. Runs'
    <3>1. single' = single /\ buf' = buf
      BY <1>0
    <3>3. \A i \in DOMAIN objects' : IsRun(objects'[i], single)
      BY <2>3, Zenon DEF Runs
    <3>4. (\A g \in flights' : IsRun(g, single)) /\ IsRun(buf, single)
      BY <1>0 DEF Runs
    <3> QED BY ONLY <3>1, <3>3, <3>4, Zenon DEF Runs
  <2> QED BY <1>4, <2>4, <2>5, <2>6 DEF Everywhere
<1> QED BY <1>5, <1>6

\* Every step of the sink, its client and its context keeps the invariant.
LEMMA S3Step == ASSUME S3IInv, [S3Next]_s3Vars PROVE S3IInv'
<1>1. CASE SendBuffered
  BY <1>1, SendBufferedKeeps
<1>2. CASE SendSingle
  BY <1>2, SendSingleKeeps
<1>3. CASE Dump
  BY <1>3, DumpKeepsAll
<1>4. CASE \E f \in flights : UploadFails(f) \/ Uploaded(f)
  BY <1>4, UploadKeeps
<1>5. CASE CredsExpire \/ NewCreds \/ S3Cancel \/ UNCHANGED s3Vars
  <2>0. UNCHANGED <<payloads, buf, single, flights, objects, failed>>
    BY <1>5 DEF CredsExpire, NewCreds, S3Cancel, s3Vars
  <2>1. valid' \in BOOLEAN /\ s3done' \in BOOLEAN
    BY <1>5, Zenon DEF S3IInv, S3Types, CredsExpire, NewCreds, S3Cancel, s3Vars
  <2>2. expiries' \in 0..MaxExpiries
    BY <1>5, S3Assumption DEF S3IInv, S3Types, CredsExpire, NewCreds, S3Cancel, s3Vars
  <2>3. S3Types'
    BY <2>0, <2>1, <2>2, Zenon DEF S3IInv, S3Types
  <2>4. Everywhere'
    BY <2>0 DEF S3IInv, Everywhere, Somewhere, Flying, Stored
  <2>5. Runs' /\ Newest'
    BY <2>0 DEF S3IInv, Runs, Newest, IsRun
  <2> QED BY <2>3, <2>4, <2>5 DEF S3IInv
<1> QED BY <1>1, <1>2, <1>3, <1>4, <1>5 DEF S3Next

------------------------------------------------------------------------------
(* The Prometheus format.                                                  *)

\* The positions of the tags of a name are numbered from 0 without gaps.
Numbering(pos) ==
  /\ DOMAIN pos \subseteq Tags /\ IsFiniteSet(DOMAIN pos)
  /\ pos \in Bijection(DOMAIN pos, 0..(Cardinality(DOMAIN pos) - 1))

\* A vector has the labels of its tags, which no longer change, and the last
\* sample was set under them.
Labelled(n) ==
  /\ n \in PromNames /\ seen[n] >= FlowsNeeded
  /\ promVecs[n] = ToLabels(vecTags[n]) /\ IsInjective(promVecs[n])
Wrote(w) == w.name \in DOMAIN promVecs /\ w.values = GetTagValues(vecTags[w.name], w.tags)

PromIInv ==
  /\ seen \in [PromNames -> 0..FlowsNeeded] /\ samples \in 0..MaxSamples
  /\ DOMAIN vecTags = PromNames /\ vecTags = [n \in PromNames |-> vecTags[n]]
  /\ \A n \in PromNames : Numbering(vecTags[n])
  /\ \A n \in DOMAIN promVecs : Labelled(n)
  /\ \A w \in written : Wrote(w)

\* The label at the position of a tag is that tag's.
LabelsOf(pos, lab) ==
  /\ Cardinality(DOMAIN pos) \in Nat /\ DOMAIN lab = 0..(Cardinality(DOMAIN pos) - 1)
  /\ \A k \in DOMAIN pos : pos[k] \in DOMAIN lab /\ lab[pos[k]] = Safe(k)
  /\ \A j, k \in DOMAIN pos : pos[j] = pos[k] => j = k
  /\ \A i \in DOMAIN lab : \E k \in DOMAIN pos : pos[k] = i

LEMMA LabelIs == ASSUME NEW pos, Numbering(pos) PROVE LabelsOf(pos, ToLabels(pos))
<1> DEFINE D == DOMAIN pos
           P == 0..(Cardinality(D) - 1)
<1>1. Cardinality(D) \in Nat
  BY FS_CardinalityType DEF Numbering
<1>2. DOMAIN ToLabels(pos) = P
  BY DEF ToLabels
<1>3. /\ \A k \in D : pos[k] \in P
      /\ \A j, k \in D : pos[j] = pos[k] => j = k
      /\ \A i \in P : \E k \in D : pos[k] = i
  BY DEF Numbering, Bijection, Injection, Surjection, IsInjective
<1>4. ASSUME NEW k \in D PROVE ToLabels(pos)[pos[k]] = Safe(k)
  <2>1. (CHOOSE j \in DOMAIN pos : pos[j] = pos[k]) = k
    BY <1>3, Zenon
  <2>2. pos[k] \in Range(pos)
    BY DEF Range
  <2>3. pos[k] \in P
    BY <1>3
  <2>4. ToLabels(pos)[pos[k]] = Safe(CHOOSE j \in DOMAIN pos : pos[j] = pos[k])
    BY <2>2, <2>3, Zenon DEF ToLabels
  <2> QED BY <2>1, <2>4, Zenon
<1> QED BY <1>1, <1>2, <1>3, <1>4, Zenon DEF LabelsOf

\* New tags go on with the numbers.
LEMMA NumberingGrows ==
  ASSUME NEW old, Numbering(old), NEW tags, tags \subseteq Tags \cup DigitTags,
         NEW pos \in AddTagLabels(old, tags)
  PROVE  Numbering(pos)
<1> DEFINE D == DOMAIN old
           N == (tags \ DigitTags) \ D
           c == Cardinality(D)
           e == Cardinality(N)
<1>1. /\ IsFiniteSet(D) /\ D \subseteq Tags /\ c \in Nat
      /\ \A k \in D : old[k] \in 0..(c - 1)
      /\ \A j, k \in D : old[j] = old[k] => j = k
      /\ \A i \in 0..(c - 1) : \E k \in D : old[k] = i
  BY FS_CardinalityType DEF Numbering, Bijection, Injection, Surjection, IsInjective
<1>2. N \in SUBSET Tags
  OBVIOUS
<1>3. IsFiniteSet(N) /\ e \in Nat
  BY <1>2, PromAssumption, FS_Subset, FS_CardinalityType
<1>4. IsFiniteSet(D \cup N) /\ Cardinality(D \cup N) = c + e /\ D \cup N \subseteq Tags
  <2>1. D \cap N = {} /\ Cardinality({}) = 0
    BY FS_EmptySet
  <2>2. IsFiniteSet(D \cup N) /\ Cardinality(D \cup N) = c + e - Cardinality(D \cap N)
    BY <1>1, <1>3, FS_Union
  <2>3. Cardinality(D \cup N) = c + e
    <3> HIDE DEF c, e, D, N
    <3> QED BY <1>1, <1>3, <2>1, <2>2
  <2> QED BY <1>1, <1>2, <2>2, <2>3
<1>5. PICK order \in Bijection(N, c..(c + e - 1)) :
        pos = [k \in D \cup N |-> IF k \in N THEN order[k] ELSE old[k]]
  BY DEF AddTagLabels
<1>6. /\ \A k \in N : order[k] \in c..(c + e - 1)
      /\ \A j, k \in N : order[j] = order[k] => j = k
      /\ \A i \in c..(c + e - 1) : \E k \in N : order[k] = i
  BY DEF Bijection, Injection, Surjection, IsInjective
<1>7. /\ DOMAIN pos = D \cup N /\ (\A k \in N : pos[k] = order[k]) /\ \A k \in D : pos[k] = old[k] /\ k \notin N
  BY <1>5
<1> HIDE DEF D, N, c, e
<1>14. PICK m : m = c + e
  OBVIOUS
<1>8. pos \in [D \cup N -> 0..(m - 1)]
  <2>1. \A k \in D \cup N : pos[k] \in 0..(m - 1)
    BY <1>1, <1>3, <1>6, <1>7, <1>14
  <2> QED BY <1>5, <1>7, <2>1
<1>9. \A j, k \in D \cup N : pos[j] = pos[k] => j = k
  <2> SUFFICES ASSUME NEW j \in D \cup N, NEW k \in D \cup N, pos[j] = pos[k] PROVE j = k
    OBVIOUS
  <2>1. CASE j \in D /\ k \in D
    BY <1>1, <1>7, <2>1
  <2>2. CASE j \in N /\ k \in N
    BY <1>6, <1>7, <2>2
  <2>3. \A a \in D, b \in N : pos[a] # pos[b]
    BY <1>1, <1>3, <1>6, <1>7
  <2> QED BY <2>1, <2>2, <2>3
<1>10. \A i \in 0..(m - 1) : \E k \in D \cup N : pos[k] = i
  <2> TAKE i \in 0..(m - 1)
  <2>1. i \in 0..(c - 1) \/ i \in c..(c + e - 1)
    BY <1>1, <1>3, <1>14
  <2> QED BY <1>1, <1>6, <1>7, <2>1
<1>11. pos \in Bijection(D \cup N, 0..(m - 1))
  BY <1>7, <1>8, <1>9, <1>10 DEF Bijection, Injection, Surjection, IsInjective
<1>12. DOMAIN pos = D \cup N /\ Cardinality(DOMAIN pos) = m
  BY <1>4, <1>7, <1>14, Zenon
<1>13. pos \in Bijection(DOMAIN pos, 0..(Cardinality(DOMAIN pos) - 1))
  BY <1>11, <1>12, Zenon
<1> QED BY <1>4, <1>12, <1>13, Zenon DEF Numbering

\* What is set at a position when the tags of the sample for it are K.
Under(w, K, p) == IF K = {} THEN w.values[p] = Blank ELSE \A k \in K : w.values[p] = w.tags[k]

\* The inductive invariant says what the run checks of the format.
LEMMA PromIInvEnough == PromIInv => PromInv
<1> SUFFICES ASSUME PromIInv PROVE PromInv
  OBVIOUS
<1>1. PromTypeOK
  BY DEF PromIInv, PromTypeOK, Labelled, Numbering
<1>2. \A n \in DOMAIN promVecs :
        /\ Numbering(vecTags[n]) /\ promVecs[n] = ToLabels(vecTags[n])
        /\ \A i, j \in DOMAIN promVecs[n] : promVecs[n][i] = promVecs[n][j] => i = j
  BY DEF PromIInv, Labelled, IsInjective
<1>3. LabelsMatchVec
  <2> SUFFICES ASSUME NEW n \in DOMAIN promVecs
               PROVE  /\ Cardinality(DOMAIN promVecs[n]) = Cardinality(DOMAIN vecTags[n])
                      /\ \A k \in DOMAIN vecTags[n] : promVecs[n][vecTags[n][k]] = Safe(k)
    BY DEF LabelsMatchVec
  <2>1. PICK pos : pos = vecTags[n] /\ Numbering(pos) /\ promVecs[n] = ToLabels(pos)
    BY <1>2
  <2>4. LabelsOf(pos, promVecs[n])
    BY <2>1, LabelIs, Zenon
  <2>2. /\ Cardinality(DOMAIN pos) \in Nat
        /\ DOMAIN promVecs[n] = 0..(Cardinality(DOMAIN pos) - 1)
        /\ \A k \in DOMAIN pos : promVecs[n][pos[k]] = Safe(k)
    BY <2>4, Zenon DEF LabelsOf
  <2>3. \A c \in Nat : Cardinality(0..(c - 1)) = c
    BY FS_Interval
  <2> QED BY <2>1, <2>2, <2>3, Zenon
<1>4. ValuesUnderTheirLabel
  <2> SUFFICES ASSUME NEW w \in written
               PROVE  /\ DOMAIN w.values = DOMAIN promVecs[w.name]
                      /\ \A p \in DOMAIN w.values :
                           LET K == {k \in DOMAIN w.tags \cap DOMAIN vecTags[w.name] :
                                       Safe(k) = promVecs[w.name][p]}
                           IN  IF K = {} THEN w.values[p] = Blank
                               ELSE \A k \in K : w.values[p] = w.tags[k]
    BY DEF ValuesUnderTheirLabel
  <2>0. w.name \in DOMAIN promVecs /\ w.values = GetTagValues(vecTags[w.name], w.tags)
    BY DEF PromIInv, Wrote
  <2>1. PICK pos, lab : pos = vecTags[w.name] /\ Numbering(pos) /\ lab = promVecs[w.name] /\ lab = ToLabels(pos)
    BY <1>2, <2>0, Zenon
  <2>6. LabelsOf(pos, lab)
    BY <2>1, LabelIs, Zenon
  <2>2. /\ DOMAIN lab = 0..(Cardinality(DOMAIN pos) - 1)
        /\ \A k \in DOMAIN pos : pos[k] \in DOMAIN lab /\ lab[pos[k]] = Safe(k)
        /\ \A j, k \in DOMAIN pos : pos[j] = pos[k] => j = k
    BY <2>6, Zenon DEF LabelsOf
  <2>3. \A i, j \in DOMAIN lab : lab[i] = lab[j] => i = j
    BY <1>2, <2>0, <2>1, Zenon
  <2>4. DOMAIN w.values = DOMAIN lab
    BY <2>0, <2>1, <2>2, Zenon DEF GetTagValues
  <2>5. ASSUME NEW p \in DOMAIN lab,
               NEW K, K = {k \in DOMAIN w.tags \cap DOMAIN pos : Safe(k) = lab[p]}
        PROVE  Under(w, K, p)
    <3> USE DEF Under
    <3>1. K = {k \in DOMAIN w.tags \cap DOMAIN pos : pos[k] = p}
      BY <2>2, <2>3, <2>5, ZenonT(30)
    <3>2. w.values[p] = IF \E k \in DOMAIN w.tags \cap DOMAIN pos : pos[k] = p
                        THEN w.tags[CHOOSE k \in DOMAIN w.tags \cap DOMAIN pos : pos[k] = p] ELSE Blank
      <4>1. w.values = GetTagValues(pos, w.tags) /\ p \in 0..(Cardinality(DOMAIN pos) - 1)
        BY <2>0, <2>1, <2>2, Zenon
      <4>2. GetTagValues(pos, w.tags)[p]
              = IF \E k \in DOMAIN w.tags \cap DOMAIN pos : pos[k] = p
                THEN w.tags[CHOOSE k \in DOMAIN w.tags \cap DOMAIN pos : pos[k] = p] ELSE Blank
        BY <4>1, Zenon DEF GetTagValues
      <4> QED BY <4>1, <4>2, Zenon
    <3>3. CASE K = {}
      BY <3>1, <3>2, <3>3, Zenon
    <3>4. ASSUME NEW k \in K PROVE w.values[p] = w.tags[k]
      <4>1. k \in DOMAIN w.tags \cap DOMAIN pos /\ pos[k] = p
        BY <3>1
      <4>2. (CHOOSE j \in DOMAIN w.tags \cap DOMAIN pos : pos[j] = p) = k
        BY <2>2, <4>1, Zenon
      <4> QED BY <3>2, <4>1, <4>2, Zenon
    <3> QED BY <3>3, <3>4, Zenon
  <2>7. DOMAIN w.values = DOMAIN promVecs[w.name]
    BY <2>1, <2>4, Zenon
  <2>8. ASSUME NEW p \in DOMAIN w.values
        PROVE  LET K == {k \in DOMAIN w.tags \cap DOMAIN vecTags[w.name] : Safe(k) = promVecs[w.name][p]}
               IN  IF K = {} THEN w.values[p] = Blank ELSE \A k \in K : w.values[p] = w.tags[k]
    <3>0. p \in DOMAIN lab
      BY <2>4, Zenon
    <3>1. PICK K : K = {k \in DOMAIN w.tags \cap DOMAIN pos : Safe(k) = lab[p]}
      OBVIOUS
    <3>2. Under(w, K, p)
      BY <2>5, <3>0, <3>1
    <3>3. K = {k \in DOMAIN w.tags \cap DOMAIN vecTags[w.name] : Safe(k) = promVecs[w.name][p]}
      BY <2>1, <3>1, Zenon
    <3> QED BY <3>2, <3>3, Zenon DEF Under
  <2> QED BY <2>7, <2>8, Zenon
<1> QED BY <1>1, <1>3, <1>4 DEF PromInv

LEMMA PromStart == PromInit => PromIInv
<1> SUFFICES ASSUME PromInit PROVE PromIInv
  OBVIOUS
<1> USE DEF PromInit, Empty
<1>1. Numbering(Empty)
  <2>1. DOMAIN Empty = {} /\ IsFiniteSet({}) /\ Cardinality({}) = 0
    BY FS_EmptySet
  <2>2. 0..(0 - 1) = {}
    OBVIOUS
  <2>3. Empty \in Bijection({}, {})
    BY DEF Bijection, Injection, Surjection, IsInjective
  <2> QED BY <2>1, <2>2, <2>3 DEF Numbering
<1>2. DOMAIN promVecs = {} /\ written = {}
  OBVIOUS
<1>3. seen \in [PromNames -> 0..FlowsNeeded] /\ samples \in 0..MaxSamples
  BY PromAssumption
<1>4. /\ DOMAIN vecTags = PromNames /\ vecTags = [n \in PromNames |-> vecTags[n]]
      /\ \A n \in PromNames : vecTags[n] = Empty
  OBVIOUS
<1> HIDE DEF Empty
<1> QED BY <1>1, <1>2, <1>3, <1>4 DEF PromIInv

\* A sample teaches tags to a name that has no vector yet, or is set in the
\* vector of its name, which is made once.
LEMMA PromStep == ASSUME PromIInv, [PromNext]_promVars PROVE PromIInv'
<1> USE DEF PromIInv
<1>1. ASSUME NEW n \in PromNames, NEW tags \in Samples, Learn(n, tags) PROVE PromIInv'
  <2>0. /\ samples < MaxSamples /\ samples' = samples + 1 /\ seen[n] < FlowsNeeded
        /\ seen' = [seen EXCEPT ![n] = @ + 1] /\ UNCHANGED <<promVecs, written>>
    BY <1>1 DEF Learn, Take
  <2>1. PICK pos \in AddTagLabels(vecTags[n], DOMAIN tags) : vecTags' = [vecTags EXCEPT ![n] = pos]
    BY <1>1 DEF Learn
  <2>2. DOMAIN tags \subseteq Tags \cup DigitTags
    BY DEF Samples
  <2>3. Numbering(pos)
    BY <2>1, <2>2, NumberingGrows
  <2>4. /\ DOMAIN vecTags' = PromNames /\ vecTags' = [m \in PromNames |-> vecTags'[m]]
        /\ \A m \in PromNames : vecTags'[m] = IF m = n THEN pos ELSE vecTags[m]
    BY <2>1
  <2>5. seen' \in [PromNames -> 0..FlowsNeeded] /\ samples' \in 0..MaxSamples
    BY <2>0, PromAssumption
  <2>6. \A m \in DOMAIN promVecs : m # n /\ m \in PromNames
    BY <2>0, PromAssumption DEF Labelled
  <2>7. \A m \in DOMAIN promVecs' : Labelled(m)'
    BY <2>0, <2>4, <2>6 DEF Labelled
  <2>8. \A w \in written' : Wrote(w)'
    BY <2>0, <2>4, <2>6 DEF Wrote
  <2>9. \A m \in PromNames : Numbering(vecTags'[m])
    BY <2>3, <2>4
  <2> QED BY <2>4, <2>5, <2>7, <2>8, <2>9
<1>2. ASSUME NEW n \in PromNames, NEW tags \in Samples, Set(n, tags) PROVE PromIInv'
  <2>0. /\ samples < MaxSamples /\ samples' = samples + 1 /\ seen[n] >= FlowsNeeded
        /\ promVecs' = WithVec(n) /\ UNCHANGED <<seen, vecTags>>
        /\ n \in DOMAIN promVecs \/ IsInjective(ToLabels(vecTags[n]))
        /\ written' = {[name |-> n, tags |-> tags, values |-> GetTagValues(vecTags[n], tags)]}
    BY <1>2 DEF Set, Take, Registers
  <2>1. /\ DOMAIN promVecs' = DOMAIN promVecs \cup {n}
        /\ \A m \in DOMAIN promVecs : promVecs'[m] = promVecs[m]
        /\ n \notin DOMAIN promVecs => promVecs'[n] = ToLabels(vecTags[n])
    BY <2>0 DEF WithVec
  <2>2. ASSUME NEW m \in DOMAIN promVecs' PROVE Labelled(m)'
    <3>1. CASE m \in DOMAIN promVecs
      BY <2>0, <2>1, <3>1 DEF Labelled
    <3>2. CASE m \notin DOMAIN promVecs
      <4>1. m = n /\ promVecs'[m] = ToLabels(vecTags[n]) /\ IsInjective(ToLabels(vecTags[n]))
        BY <2>0, <2>1, <3>2
      <4> QED BY ONLY <2>0, <4>1, n \in PromNames, Zenon DEF Labelled
    <3> QED BY <3>1, <3>2
  <2>3. \A w \in written' : Wrote(w)'
    BY <2>0, <2>1 DEF Wrote
  <2>4. samples' \in 0..MaxSamples
    BY <2>0, PromAssumption
  <2> QED BY <2>0, <2>2, <2>3, <2>4, Zenon
<1>3. ASSUME NEW n \in PromNames, RegisterPanics(n) PROVE PromIInv'
  <2>1. samples' \in 0..MaxSamples /\ UNCHANGED <<seen, vecTags, promVecs, written>>
    BY <1>3, PromAssumption DEF RegisterPanics, Take
  <2> QED BY <2>1 DEF Labelled, Wrote
<1>4. CASE UNCHANGED promVars
  BY <1>4 DEF promVars, Labelled, Wrote
<1> QED BY <1>1, <1>2, <1>3, <1>4 DEF PromNext

------------------------------------------------------------------------------
(* The OpenTelemetry format.                                               *)

\* The samples of one thread in a sequence.
Ons(s, t) == {i \in DOMAIN s : s[i].by = t}
Bys(s) == [i \in DOMAIN s |-> s[i].by]
Of(S, t) == {x \in S : x.by = t}

\* They are the places of that thread in the sequence of the threads.
LEMMA OnsArePlaces ==
  ASSUME NEW s \in Seq(SampleType)
  PROVE  Bys(s) \in Seq(Threads) /\ \A t : Ons(s, t) = Places(Bys(s), t)
<1>1. \A i \in DOMAIN s : s[i] \in SampleType
  OBVIOUS
<1>2. \A i \in DOMAIN s : s[i].by \in Threads
  BY <1>1 DEF SampleType
<1> QED BY <1>2 DEF Bys, Ons, Places

LEMMA OnsFinite ==
  ASSUME NEW s \in Seq(SampleType), NEW t
  PROVE  IsFiniteSet(Ons(s, t)) /\ Cardinality(Ons(s, t)) \in Nat
BY OnsArePlaces, PlacesFinite, Zenon

LEMMA OnsEmpty == \A t : Cardinality(Ons(<<>>, t)) = 0
<1>1. \A t : Ons(<<>>, t) = {}
  BY DEF Ons
<1> QED BY <1>1, FS_EmptySet

LEMMA OnsAppend ==
  ASSUME NEW s \in Seq(SampleType), NEW e \in SampleType, NEW t
  PROVE  Cardinality(Ons(Append(s, e), t)) = Cardinality(Ons(s, t)) + One(e.by = t)
<1>1. Append(s, e) \in Seq(SampleType) /\ e.by \in Threads
  BY DEF SampleType
<1>2. Bys(Append(s, e)) = Append(Bys(s), e.by)
  BY DEF Bys
<1>3. Ons(Append(s, e), t) = Places(Append(Bys(s), e.by), t)
  BY <1>1, <1>2, OnsArePlaces
<1>4. Ons(s, t) = Places(Bys(s), t) /\ Bys(s) \in Seq(Threads)
  BY OnsArePlaces
<1> QED BY <1>1, <1>3, <1>4, PlacesAppend

LEMMA OnsTail ==
  ASSUME NEW s \in Seq(SampleType), s # <<>>, NEW t
  PROVE  Cardinality(Ons(s, t)) = Cardinality(Ons(Tail(s), t)) + One(Head(s).by = t)
<1>1. Tail(s) \in Seq(SampleType) /\ Bys(s) # <<>>
  BY DEF Bys
<1>2. Bys(Tail(s)) = Tail(Bys(s)) /\ Head(Bys(s)) = Head(s).by
  BY DEF Bys
<1>3. Ons(Tail(s), t) = Places(Tail(Bys(s)), t)
  BY <1>1, <1>2, OnsArePlaces
<1>4. Ons(s, t) = Places(Bys(s), t) /\ Bys(s) \in Seq(Threads)
  BY OnsArePlaces
<1> QED BY <1>1, <1>2, <1>3, <1>4, PlacesTail

\* Samples that differ are as many in the sequence as in its set.
LEMMA OnsOfSet ==
  ASSUME NEW s \in Seq(SampleType), \A i, j \in DOMAIN s : s[i] = s[j] => i = j, NEW t
  PROVE  IsFiniteSet(Of(ToSet(s), t)) /\ Cardinality(Of(ToSet(s), t)) = Cardinality(Ons(s, t))
<1> DEFINE f == [i \in Ons(s, t) |-> s[i]]
<1>1. f \in Bijection(Ons(s, t), Of(ToSet(s), t))
  <2>1. f \in [Ons(s, t) -> Of(ToSet(s), t)]
    BY DEF Ons, Of, ToSet
  <2>2. \A i, j \in Ons(s, t) : f[i] = f[j] => i = j
    BY DEF Ons
  <2>3. \A x \in Of(ToSet(s), t) : \E i \in Ons(s, t) : f[i] = x
    BY DEF Ons, Of, ToSet
  <2> QED BY <2>1, <2>2, <2>3 DEF Bijection, Injection, Surjection, IsInjective
<1> QED BY <1>1, OnsFinite, FS_Bijection DEF ExistsBijection

\* All samples of a thread's batch are its own.
LEMMA OnsOfOne ==
  ASSUME NEW s \in Seq(SampleType), NEW t, \A i \in DOMAIN s : s[i].by = t
  PROVE  Cardinality(Ons(s, t)) = Len(s) /\ \A u : u # t => Ons(s, u) = {}
<1>1. Ons(s, t) = 1..Len(s) /\ Len(s) \in Nat /\ \A u : u # t => Ons(s, u) = {}
  BY DEF Ons
<1>2. Cardinality(1..Len(s)) = Len(s)
  BY <1>1, FS_Interval
<1> QED BY <1>1, <1>2

\* The samples of a thread on all channels, and on all but one.
Waiting(ins, t) == {p \in Names \X (1..ChanSlack) : p[2] \in DOMAIN ins[p[1]] /\ ins[p[1]][p[2]].by = t}
Others(ins, n, t) == {p \in Waiting(ins, t) : p[1] # n}

Channels == {ins \in [Names -> Seq(SampleType)] : \A n \in Names : Len(ins[n]) <= ChanSlack}

LEMMA WaitingFinite ==
  ASSUME NEW ins, NEW t
  PROVE  IsFiniteSet(Waiting(ins, t)) /\ Cardinality(Waiting(ins, t)) \in Nat
<1>1. IsFiniteSet(Names) /\ IsFiniteSet(1..ChanSlack)
  BY OtelAssumption, FS_Interval
<1>2. IsFiniteSet(Names \X (1..ChanSlack))
  BY <1>1, FS_Product
<1>3. Waiting(ins, t) \in SUBSET (Names \X (1..ChanSlack))
  BY DEF Waiting
<1> QED BY <1>2, <1>3, FS_Subset, FS_CardinalityType

LEMMA WaitingSplit ==
  ASSUME NEW ins \in Channels, NEW n \in Names, NEW t
  PROVE  /\ Cardinality(Others(ins, n, t)) \in Nat
         /\ Cardinality(Waiting(ins, t)) = Cardinality(Others(ins, n, t)) + Cardinality(Ons(ins[n], t))
<1> DEFINE X == Ons(ins[n], t)
           P == {p \in Waiting(ins, t) : p[1] = n}
           f == [i \in X |-> <<n, i>>]
           A == Others(ins, n, t)
<1>0. ins[n] \in Seq(SampleType) /\ Len(ins[n]) <= ChanSlack /\ Len(ins[n]) \in Nat
  BY DEF Channels
<1>1. \A i \in X : i \in 1..ChanSlack /\ i \in DOMAIN ins[n] /\ ins[n][i].by = t
  BY <1>0, OtelAssumption DEF Ons
<1>2. f \in Bijection(X, P)
  <2>1. f \in [X -> P]
    BY <1>1 DEF Waiting
  <2>2. \A i, j \in X : f[i] = f[j] => i = j
    OBVIOUS
  <2>3. \A p \in P : \E i \in X : f[i] = p
    BY DEF Waiting, Ons
  <2> QED BY <2>1, <2>2, <2>3 DEF Bijection, Injection, Surjection, IsInjective
<1>3. IsFiniteSet(X) /\ IsFiniteSet(P) /\ Cardinality(P) = Cardinality(X)
  BY <1>0, <1>2, OnsFinite, FS_Bijection DEF ExistsBijection
<1>4. A \in SUBSET Waiting(ins, t) /\ A \cup P = Waiting(ins, t) /\ A \cap P = {}
  BY DEF Others
<1>5. IsFiniteSet(A) /\ Cardinality(A) \in Nat /\ Cardinality(X) \in Nat
  BY <1>3, <1>4, WaitingFinite, FS_Subset, FS_CardinalityType
<1>6. Cardinality(A \cup P) = Cardinality(A) + Cardinality(P) - Cardinality({})
  BY <1>3, <1>4, <1>5, FS_Union
<1>7. Cardinality({}) = 0
  BY FS_EmptySet
<1> HIDE DEF A, P, X
<1>8. Cardinality(A \cup P) = Cardinality(A) + Cardinality(X)
  BY <1>3, <1>5, <1>6, <1>7
<1> QED BY <1>4, <1>5, <1>8 DEF A, X

LEMMA OthersKept ==
  ASSUME NEW ins, NEW i2, NEW n, NEW t, \A m \in Names : m # n => i2[m] = ins[m]
  PROVE  Others(i2, n, t) = Others(ins, n, t)
BY DEF Others, Waiting

\* One sample was made before another of the same thread.
Before(s, u) == s.by = u.by => s.nr < u.nr /\ s.attrs <= u.attrs
InOrder(s) == \A i, j \in DOMAIN s : i < j => Before(s[i], s[j])

\* A sample that its thread no longer holds was made before those it holds.
HandedOver(s, rs, ms, lm) ==
  s.nr <= ms[s.by] /\ s.attrs <= lm /\ \A k \in DOMAIN rs[s.by] : Before(s, rs[s.by][k])

\* The order in which samples are held, wait on a channel, are seen and lost.
HeldInOrder(rs, ms, lm) ==
  \A t \in Threads :
    /\ InOrder(rs[t])
    /\ \A i \in DOMAIN rs[t] : rs[t][i].by = t /\ rs[t][i].nr <= ms[t] /\ rs[t][i].attrs <= lm
WaitInOrder(ins, rs, ms, lm) ==
  \A n \in Names :
    /\ InOrder(ins[n])
    /\ \A i \in DOMAIN ins[n] : ins[n][i].name = n /\ HandedOver(ins[n][i], rs, ms, lm)
SeenInOrder(ob, ins, rs, ms, lm) ==
  /\ \A i, j \in DOMAIN ob : i < j /\ ob[i].name = ob[j].name => Before(ob[i], ob[j])
  /\ \A i \in DOMAIN ob : HandedOver(ob[i], rs, ms, lm)
  /\ \A i \in DOMAIN ob, n \in Names : ob[i].name = n => \A j \in DOMAIN ins[n] : Before(ob[i], ins[n][j])
LostForGood(gn, ins, rs, ms, lm) ==
  \A s \in gn : HandedOver(s, rs, ms, lm) /\ \A n \in Names : s \notin ToSet(ins[n])

OrderOf(rs, ins, ob, gn, ms, lm) ==
  /\ HeldInOrder(rs, ms, lm) /\ WaitInOrder(ins, rs, ms, lm)
  /\ SeenInOrder(ob, ins, rs, ms, lm) /\ LostForGood(gn, ins, rs, ms, lm)

\* Every sample that a thread has made is in one place.
CountOf(rs, ins, ob, gn, ms) ==
  \A t \in Threads : ms[t] = Len(rs[t]) + Cardinality(Ons(ob, t)) + Cardinality(Waiting(ins, t))
                             + Cardinality(Of(gn, t))

TypesOf(rs, ins, ob, gn, ms, lm) ==
  /\ rs \in [Threads -> Seq(SampleType)] /\ ins \in Channels /\ ob \in Seq(SampleType)
  /\ gn \in SUBSET SampleType /\ IsFiniteSet(gn) /\ ms \in [Threads -> Nat] /\ lm \in Sizes \cup {0}

Ledger(rs, ins, ob, gn, ms, lm) ==
  TypesOf(rs, ins, ob, gn, ms, lm) /\ OrderOf(rs, ins, ob, gn, ms, lm) /\ CountOf(rs, ins, ob, gn, ms)

LEMMA SampleFields ==
  ASSUME NEW s \in SampleType
  PROVE  s.by \in Threads /\ s.nr \in Nat /\ s.attrs \in Nat /\ s.name \in Names
<1>1. s.by \in Threads /\ s.nr \in Nat /\ s.attrs \in Sizes \cup {0} /\ s.name \in Names
  BY DEF SampleType
<1>2. \A a \in Sizes : a \in Nat
  BY OtelAssumption
<1> QED BY <1>1, <1>2

\* In a sequence in order no sample comes twice.
LEMMA OrderIsInjective ==
  ASSUME NEW s \in Seq(SampleType), InOrder(s)
  PROVE  \A i, j \in DOMAIN s : s[i] = s[j] => i = j
<1> SUFFICES ASSUME NEW i \in DOMAIN s, NEW j \in DOMAIN s, s[i] = s[j], i < j PROVE FALSE
  OBVIOUS
<1>1. s[i] \in SampleType /\ Before(s[i], s[j])
  BY DEF InOrder
<1>2. s[i].nr \in Nat
  BY <1>1, SampleFields
<1>3. s[i].nr < s[j].nr
  BY <1>1 DEF Before
<1> QED BY <1>2, <1>3

LEMMA OrderTail ==
  ASSUME NEW s \in Seq(SampleType), InOrder(s), s # <<>>
  PROVE  /\ InOrder(Tail(s)) /\ Tail(s) \in Seq(SampleType) /\ Len(Tail(s)) = Len(s) - 1
         /\ Head(s) \in SampleType /\ Head(s) = s[1] /\ 1 \in DOMAIN s
         /\ \A k \in DOMAIN Tail(s) : k + 1 \in DOMAIN s /\ Tail(s)[k] = s[k + 1] /\ Before(Head(s), Tail(s)[k])
<1>1. /\ Tail(s) \in Seq(SampleType) /\ Len(Tail(s)) = Len(s) - 1 /\ Len(s) \in Nat \ {0}
      /\ Head(s) \in SampleType /\ Head(s) = s[1] /\ DOMAIN s = 1..Len(s) /\ DOMAIN Tail(s) = 1..(Len(s) - 1)
      /\ \A k \in DOMAIN Tail(s) : Tail(s)[k] = s[k + 1]
  OBVIOUS
<1>2. \A k \in DOMAIN Tail(s) : k \in Nat /\ k + 1 \in DOMAIN s /\ 1 < k + 1
  BY <1>1
<1>3. 1 \in DOMAIN s
  BY <1>1
<1> QED BY <1>1, <1>2, <1>3 DEF InOrder

LEMMA OrderAppend ==
  ASSUME NEW s \in Seq(SampleType), InOrder(s), NEW u \in SampleType, \A i \in DOMAIN s : Before(s[i], u)
  PROVE  /\ InOrder(Append(s, u)) /\ Append(s, u) \in Seq(SampleType) /\ Len(Append(s, u)) = Len(s) + 1
         /\ DOMAIN Append(s, u) = DOMAIN s \cup {Len(s) + 1} /\ Append(s, u)[Len(s) + 1] = u
         /\ \A i \in DOMAIN s : Append(s, u)[i] = s[i]
<1>1. /\ Append(s, u) \in Seq(SampleType) /\ Len(Append(s, u)) = Len(s) + 1 /\ Len(s) \in Nat
      /\ DOMAIN Append(s, u) = DOMAIN s \cup {Len(s) + 1} /\ Append(s, u)[Len(s) + 1] = u
      /\ \A i \in DOMAIN s : Append(s, u)[i] = s[i] /\ i \in 1..Len(s)
  OBVIOUS
<1> QED BY <1>1 DEF InOrder

\* What is handed over stays so when its thread makes another sample, hands
\* over the next one or gives up, and when metadata grow.
LEMMA HandedStays ==
  ASSUME NEW s \in SampleType, NEW rs \in [Threads -> Seq(SampleType)], NEW ms \in [Threads -> Nat],
         NEW lm \in Nat, HandedOver(s, rs, ms, lm), NEW t \in Threads
  PROVE  /\ rs[t] # <<>> => HandedOver(s, [rs EXCEPT ![t] = Tail(@)], ms, lm)
         /\ HandedOver(s, [rs EXCEPT ![t] = <<>>], ms, lm)
         /\ \A l \in Nat : lm <= l => HandedOver(s, rs, ms, l)
<1>0. s.by \in Threads /\ s.nr \in Nat /\ s.attrs \in Nat
  BY SampleFields
<1>1. s.nr <= ms[s.by] /\ s.attrs <= lm /\ \A k \in DOMAIN rs[s.by] : Before(s, rs[s.by][k])
  BY DEF HandedOver
<1>2. ASSUME rs[t] # <<>> PROVE HandedOver(s, [rs EXCEPT ![t] = Tail(@)], ms, lm)
  <2>1. \A k \in DOMAIN Tail(rs[t]) : k + 1 \in DOMAIN rs[t] /\ Tail(rs[t])[k] = rs[t][k + 1]
    BY <1>2
  <2> QED BY <1>0, <1>1, <2>1 DEF HandedOver
<1>3. HandedOver(s, [rs EXCEPT ![t] = <<>>], ms, lm)
  BY <1>0, <1>1 DEF HandedOver
<1>4. ASSUME NEW l \in Nat, lm <= l PROVE HandedOver(s, rs, ms, l)
  BY <1>0, <1>1, <1>4 DEF HandedOver
<1> QED BY <1>2, <1>3, <1>4

LEMMA HandedBeforeMade ==
  ASSUME NEW s \in SampleType, NEW rs \in [Threads -> Seq(SampleType)], NEW ms \in [Threads -> Nat],
         NEW lm \in Nat, HandedOver(s, rs, ms, lm), NEW t \in Threads,
         NEW u \in SampleType, u.by = t, u.nr = ms[t] + 1, u.attrs = lm
  PROVE  HandedOver(s, [rs EXCEPT ![t] = Append(@, u)], [ms EXCEPT ![t] = @ + 1], lm)
<1>0. s.by \in Threads /\ s.nr \in Nat /\ s.attrs \in Nat
  BY SampleFields
<1>1. s.nr <= ms[s.by] /\ s.attrs <= lm /\ \A k \in DOMAIN rs[s.by] : Before(s, rs[s.by][k])
  BY DEF HandedOver
<1>2. CASE s.by = t
  <2>1. Before(s, u)
    BY <1>0, <1>1, <1>2 DEF Before
  <2>2. \A k \in DOMAIN Append(rs[t], u) : Append(rs[t], u)[k] = u \/ (k \in DOMAIN rs[t] /\ Append(rs[t], u)[k] = rs[t][k])
    OBVIOUS
  <2>3. [rs EXCEPT ![t] = Append(@, u)][t] = Append(rs[t], u) /\ [ms EXCEPT ![t] = @ + 1][t] = ms[t] + 1
    OBVIOUS
  <2>4. \A k \in DOMAIN Append(rs[t], u) : Before(s, Append(rs[t], u)[k])
    BY <1>1, <1>2, <2>1, <2>2
  <2> QED BY <1>0, <1>1, <1>2, <2>3, <2>4 DEF HandedOver
<1>3. CASE s.by # t
  <2>1. [rs EXCEPT ![t] = Append(@, u)][s.by] = rs[s.by] /\ [ms EXCEPT ![t] = @ + 1][s.by] = ms[s.by]
    BY <1>0, <1>3
  <2> QED BY <1>1, <2>1 DEF HandedOver
<1> QED BY <1>2, <1>3

LEMMA CountsNat ==
  ASSUME NEW rs, NEW ins, NEW ob, NEW gn, NEW ms, NEW lm, TypesOf(rs, ins, ob, gn, ms, lm), NEW t
  PROVE  /\ Cardinality(Ons(ob, t)) \in Nat /\ Cardinality(Waiting(ins, t)) \in Nat
         /\ IsFiniteSet(Of(gn, t)) /\ Cardinality(Of(gn, t)) \in Nat
<1>1. Of(gn, t) \in SUBSET gn /\ IsFiniteSet(gn) /\ ob \in Seq(SampleType)
  BY DEF Of, TypesOf
<1>2. IsFiniteSet(Of(gn, t)) /\ Cardinality(Of(gn, t)) \in Nat
  BY <1>1, FS_Subset, FS_CardinalityType
<1> QED BY <1>1, <1>2, OnsFinite, WaitingFinite

\* A thread makes a sample.
LEMMA LedgerMade ==
  ASSUME NEW rs, NEW ins, NEW ob, NEW gn, NEW ms, NEW lm, Ledger(rs, ins, ob, gn, ms, lm),
         NEW t \in Threads, NEW n \in Names
  PROVE  Ledger([rs EXCEPT ![t] = Append(@, [by |-> t, nr |-> ms[t] + 1, name |-> n, attrs |-> lm])],
                ins, ob, gn, [ms EXCEPT ![t] = @ + 1], lm)
<1>1. PICK u : u = [by |-> t, nr |-> ms[t] + 1, name |-> n, attrs |-> lm]
  OBVIOUS
<1>2. PICK r2 : r2 = [rs EXCEPT ![t] = Append(@, u)]
  OBVIOUS
<1>3. PICK m2 : m2 = [ms EXCEPT ![t] = @ + 1]
  OBVIOUS
<1>4. TypesOf(rs, ins, ob, gn, ms, lm) /\ OrderOf(rs, ins, ob, gn, ms, lm) /\ CountOf(rs, ins, ob, gn, ms)
  BY DEF Ledger
<1>5. /\ rs \in [Threads -> Seq(SampleType)] /\ ms \in [Threads -> Nat] /\ lm \in Sizes \cup {0}
      /\ ins \in Channels /\ ob \in Seq(SampleType) /\ gn \in SUBSET SampleType
  BY <1>4 DEF TypesOf
<1>6. lm \in Nat
  BY <1>5, OtelAssumption
<1>7. u \in SampleType /\ u.by = t /\ u.nr = ms[t] + 1 /\ u.attrs = lm
  BY <1>1, <1>5 DEF SampleType
<1>8. \A s \in SampleType : HandedOver(s, rs, ms, lm) => HandedOver(s, r2, m2, lm)
  BY <1>2, <1>3, <1>5, <1>6, <1>7, HandedBeforeMade
<1>9. rs[t] \in Seq(SampleType) /\ m2 \in [Threads -> Nat] /\ m2[t] = ms[t] + 1 /\ ms[t] \in Nat
      /\ r2[t] = Append(rs[t], u) /\ \A v \in Threads : v # t => r2[v] = rs[v] /\ m2[v] = ms[v]
  BY <1>2, <1>3, <1>5
<1>10. InOrder(rs[t]) /\ \A i \in DOMAIN rs[t] : rs[t][i].by = t /\ rs[t][i].nr <= ms[t] /\ rs[t][i].attrs <= lm
  BY <1>4 DEF OrderOf, HeldInOrder
<1>11. \A i \in DOMAIN rs[t] : Before(rs[t][i], u) /\ rs[t][i].nr <= m2[t]
  <2> TAKE i \in DOMAIN rs[t]
  <2>1. rs[t][i] \in SampleType
    BY <1>9
  <2>2. rs[t][i].nr \in Nat /\ rs[t][i].nr <= ms[t] /\ rs[t][i].attrs <= lm
    BY <1>10, <2>1, SampleFields
  <2> QED BY <1>7, <1>9, <2>2 DEF Before
<1>12. /\ InOrder(Append(rs[t], u)) /\ Append(rs[t], u) \in Seq(SampleType) /\ Len(Append(rs[t], u)) = Len(rs[t]) + 1
       /\ DOMAIN Append(rs[t], u) = DOMAIN rs[t] \cup {Len(rs[t]) + 1} /\ Append(rs[t], u)[Len(rs[t]) + 1] = u
       /\ \A i \in DOMAIN rs[t] : Append(rs[t], u)[i] = rs[t][i]
  BY <1>7, <1>9, <1>10, <1>11, OrderAppend
<1>13. TypesOf(r2, ins, ob, gn, m2, lm)
  <2>1. r2 \in [Threads -> Seq(SampleType)]
    BY <1>2, <1>5, <1>12
  <2> QED BY <1>4, <1>9, <2>1 DEF TypesOf
<1>14. HeldInOrder(r2, m2, lm)
  <2> SUFFICES ASSUME NEW v \in Threads
               PROVE  /\ InOrder(r2[v])
                      /\ \A i \in DOMAIN r2[v] : r2[v][i].by = v /\ r2[v][i].nr <= m2[v] /\ r2[v][i].attrs <= lm
    BY DEF HeldInOrder
  <2>1. CASE v = t
    <3>1. InOrder(r2[t])
      BY <1>9, <1>12
    <3>2. ASSUME NEW i \in DOMAIN r2[t]
          PROVE  r2[t][i].by = t /\ r2[t][i].nr <= m2[t] /\ r2[t][i].attrs <= lm
      <4>1. CASE i \in DOMAIN rs[t]
        <5>1. r2[t][i] = rs[t][i]
          BY <1>9, <1>12, <4>1
        <5> QED BY <1>10, <1>11, <4>1, <5>1
      <4>2. CASE i = Len(rs[t]) + 1
        <5>1. r2[t][i] = u
          BY <1>9, <1>12, <4>2
        <5> QED BY <1>6, <1>7, <1>9, <5>1
      <4> QED BY <1>9, <1>12, <4>1, <4>2
    <3> QED BY <2>1, <3>1, <3>2
  <2>2. CASE v # t
    BY <1>4, <1>9, <2>2 DEF OrderOf, HeldInOrder
  <2> QED BY <2>1, <2>2
<1>15. WaitInOrder(ins, r2, m2, lm)
  <2>1. \A m \in Names : \A i \in DOMAIN ins[m] : ins[m][i] \in SampleType
    BY <1>5 DEF Channels
  <2> QED BY <1>4, <1>8, <2>1 DEF OrderOf, WaitInOrder
<1>16. SeenInOrder(ob, ins, r2, m2, lm)
  <2>1. \A i \in DOMAIN ob : ob[i] \in SampleType
    BY <1>5
  <2> QED BY <1>4, <1>8, <2>1 DEF OrderOf, SeenInOrder
<1>17. LostForGood(gn, ins, r2, m2, lm)
  BY <1>4, <1>5, <1>8 DEF OrderOf, LostForGood
<1>18. CountOf(r2, ins, ob, gn, m2)
  <2> SUFFICES ASSUME NEW v \in Threads
               PROVE  m2[v] = Len(r2[v]) + Cardinality(Ons(ob, v)) + Cardinality(Waiting(ins, v)) + Cardinality(Of(gn, v))
    BY DEF CountOf
  <2>1. ms[v] = Len(rs[v]) + Cardinality(Ons(ob, v)) + Cardinality(Waiting(ins, v)) + Cardinality(Of(gn, v))
    BY <1>4 DEF CountOf
  <2>2. Cardinality(Ons(ob, v)) \in Nat /\ Cardinality(Waiting(ins, v)) \in Nat /\ Cardinality(Of(gn, v)) \in Nat
    BY <1>4, CountsNat
  <2>3. Len(rs[t]) \in Nat
    BY <1>9
  <2>4. CASE v = t
    <3>1. m2[v] = ms[v] + 1 /\ Len(r2[v]) = Len(rs[v]) + 1 /\ Len(rs[v]) \in Nat
      BY <1>9, <1>12, <2>3, <2>4
    <3> QED BY ONLY <2>1, <2>2, <3>1
  <2>5. CASE v # t
    BY <1>9, <2>1, <2>5
  <2> QED BY <2>4, <2>5
<1>19. Ledger(r2, ins, ob, gn, m2, lm)
  BY <1>13, <1>14, <1>15, <1>16, <1>17, <1>18 DEF Ledger, OrderOf
<1> QED BY <1>1, <1>2, <1>3, <1>19

\* Metadata may grow.
LEMMA LedgerGrows ==
  ASSUME NEW rs, NEW ins, NEW ob, NEW gn, NEW ms, NEW lm, Ledger(rs, ins, ob, gn, ms, lm),
         NEW l \in Sizes \cup {0}, lm <= l
  PROVE  Ledger(rs, ins, ob, gn, ms, l)
<1>4. TypesOf(rs, ins, ob, gn, ms, lm) /\ OrderOf(rs, ins, ob, gn, ms, lm) /\ CountOf(rs, ins, ob, gn, ms)
  BY DEF Ledger
<1>5. /\ rs \in [Threads -> Seq(SampleType)] /\ ms \in [Threads -> Nat] /\ lm \in Sizes \cup {0}
      /\ ins \in Channels /\ ob \in Seq(SampleType) /\ gn \in SUBSET SampleType
  BY <1>4 DEF TypesOf
<1>6. lm \in Nat /\ l \in Nat
  BY <1>5, OtelAssumption
<1>8. \A s \in SampleType : HandedOver(s, rs, ms, lm) => HandedOver(s, rs, ms, l)
  <2> TAKE s \in SampleType
  <2> HAVE HandedOver(s, rs, ms, lm)
  <2>1. s.by \in Threads
    BY SampleFields
  <2> QED BY <1>5, <1>6, <2>1, HandedStays
<1>13. TypesOf(rs, ins, ob, gn, ms, l)
  BY <1>4 DEF TypesOf
<1>14. HeldInOrder(rs, ms, l)
  <2>1. \A v \in Threads : \A i \in DOMAIN rs[v] : rs[v][i] \in SampleType
    BY <1>5
  <2>2. \A v \in Threads : \A i \in DOMAIN rs[v] : rs[v][i].attrs <= lm => rs[v][i].attrs <= l
    BY <1>6, <2>1, SampleFields
  <2> QED BY <1>4, <2>2 DEF OrderOf, HeldInOrder
<1>15. WaitInOrder(ins, rs, ms, l)
  <2>1. \A m \in Names : \A i \in DOMAIN ins[m] : ins[m][i] \in SampleType
    BY <1>5 DEF Channels
  <2> QED BY <1>4, <1>8, <2>1 DEF OrderOf, WaitInOrder
<1>16. SeenInOrder(ob, ins, rs, ms, l)
  <2>1. \A i \in DOMAIN ob : ob[i] \in SampleType
    BY <1>5
  <2> QED BY <1>4, <1>8, <2>1 DEF OrderOf, SeenInOrder
<1>17. LostForGood(gn, ins, rs, ms, l)
  BY <1>4, <1>5, <1>8 DEF OrderOf, LostForGood
<1> QED BY <1>4, <1>13, <1>14, <1>15, <1>16, <1>17 DEF Ledger, OrderOf

\* The sample a thread hands over next: all that is out was made before it,
\* and it before all that the thread keeps.
Taken(rs, r2, ms, lm, t, u) ==
  /\ r2 \in [Threads -> Seq(SampleType)] /\ u \in SampleType /\ u.by = t
  /\ HeldInOrder(r2, ms, lm) /\ HandedOver(u, r2, ms, lm)
  /\ \A s \in SampleType : HandedOver(s, rs, ms, lm) => HandedOver(s, r2, ms, lm) /\ Before(s, u)
  /\ \A v \in Threads : v # t => r2[v] = rs[v]
  /\ Len(r2[t]) \in Nat /\ Len(rs[t]) = Len(r2[t]) + 1

LEMMA HeadTaken ==
  ASSUME NEW rs \in [Threads -> Seq(SampleType)], NEW ms \in [Threads -> Nat], NEW lm \in Nat,
         HeldInOrder(rs, ms, lm), NEW t \in Threads, rs[t] # <<>>
  PROVE  Taken(rs, [rs EXCEPT ![t] = Tail(@)], ms, lm, t, Head(rs[t]))
<1>1. PICK r2 : r2 = [rs EXCEPT ![t] = Tail(@)]
  OBVIOUS
<1>2. PICK u : u = Head(rs[t])
  OBVIOUS
<1>3. rs[t] \in Seq(SampleType) /\ r2[t] = Tail(rs[t]) /\ \A v \in Threads : v # t => r2[v] = rs[v]
  BY <1>1
<1>4. InOrder(rs[t]) /\ \A i \in DOMAIN rs[t] : rs[t][i].by = t /\ rs[t][i].nr <= ms[t] /\ rs[t][i].attrs <= lm
  BY DEF HeldInOrder
<1>5. /\ InOrder(r2[t]) /\ r2[t] \in Seq(SampleType) /\ Len(r2[t]) = Len(rs[t]) - 1
      /\ u \in SampleType /\ u = rs[t][1] /\ 1 \in DOMAIN rs[t]
      /\ \A k \in DOMAIN r2[t] : k + 1 \in DOMAIN rs[t] /\ r2[t][k] = rs[t][k + 1] /\ Before(u, r2[t][k])
  BY <1>2, <1>3, <1>4, OrderTail
<1>6. r2 \in [Threads -> Seq(SampleType)]
  BY <1>1, <1>3, <1>5
<1>7. u.by = t /\ u.nr <= ms[t] /\ u.attrs <= lm
  BY <1>4, <1>5
<1>8. HandedOver(u, r2, ms, lm)
  BY <1>5, <1>7 DEF HandedOver
<1>9. HeldInOrder(r2, ms, lm)
  <2>1. \A i \in DOMAIN r2[t] : r2[t][i].by = t /\ r2[t][i].nr <= ms[t] /\ r2[t][i].attrs <= lm
    BY <1>4, <1>5
  <2> QED BY <1>3, <1>5, <2>1 DEF HeldInOrder
<1>10. ASSUME NEW s \in SampleType, HandedOver(s, rs, ms, lm)
       PROVE  HandedOver(s, r2, ms, lm) /\ Before(s, u)
  <2>1. HandedOver(s, r2, ms, lm)
    BY <1>1, <1>10, HandedStays
  <2>2. \A k \in DOMAIN rs[s.by] : Before(s, rs[s.by][k])
    BY <1>10 DEF HandedOver
  <2>3. CASE s.by = t
    BY <1>5, <2>1, <2>2, <2>3
  <2>4. CASE s.by # t
    BY <1>7, <2>1, <2>4 DEF Before
  <2> QED BY <2>1, <2>3, <2>4
<1>11. Len(r2[t]) \in Nat /\ Len(rs[t]) = Len(r2[t]) + 1
  BY <1>3, <1>5
<1>12. Taken(rs, r2, ms, lm, t, u)
  BY <1>3, <1>5, <1>6, <1>7, <1>8, <1>9, <1>10, <1>11 DEF Taken
<1> QED BY <1>1, <1>2, <1>12

\* A sample goes to the channel of its name.
LEMMA LedgerSent ==
  ASSUME NEW rs, NEW ins, NEW ob, NEW gn, NEW ms, NEW lm, Ledger(rs, ins, ob, gn, ms, lm),
         NEW t \in Threads, rs[t] # <<>>, NEW n, n = Head(rs[t]).name, Len(ins[n]) < ChanSlack
  PROVE  Ledger([rs EXCEPT ![t] = Tail(@)], [ins EXCEPT ![n] = Append(@, Head(rs[t]))], ob, gn, ms, lm)
<1>1. PICK r2 : r2 = [rs EXCEPT ![t] = Tail(@)]
  OBVIOUS
<1>2. PICK u : u = Head(rs[t])
  OBVIOUS
<1>3. PICK i2 : i2 = [ins EXCEPT ![n] = Append(@, u)]
  OBVIOUS
<1>4. TypesOf(rs, ins, ob, gn, ms, lm) /\ OrderOf(rs, ins, ob, gn, ms, lm) /\ CountOf(rs, ins, ob, gn, ms)
  BY DEF Ledger
<1>5. /\ rs \in [Threads -> Seq(SampleType)] /\ ms \in [Threads -> Nat] /\ lm \in Sizes \cup {0}
      /\ ins \in Channels /\ ob \in Seq(SampleType) /\ gn \in SUBSET SampleType
      /\ HeldInOrder(rs, ms, lm)
  BY <1>4 DEF TypesOf, OrderOf
<1>6. lm \in Nat
  BY <1>5, OtelAssumption
<1>7. Taken(rs, r2, ms, lm, t, u)
  BY <1>1, <1>2, <1>5, <1>6, HeadTaken
<1>8. u \in SampleType /\ u.by = t /\ HandedOver(u, r2, ms, lm) /\ u.name = n /\ n \in Names
      /\ \A s \in SampleType : HandedOver(s, rs, ms, lm) => HandedOver(s, r2, ms, lm) /\ Before(s, u)
  BY <1>2, <1>7, SampleFields DEF Taken
<1>9. ins \in [Names -> Seq(SampleType)] /\ \A m \in Names : Len(ins[m]) <= ChanSlack /\ Len(ins[m]) \in Nat
  BY <1>5 DEF Channels
<1>10. \A m \in Names : InOrder(ins[m]) /\ \A i \in DOMAIN ins[m] : ins[m][i] \in SampleType /\ ins[m][i].name = m
                        /\ HandedOver(ins[m][i], rs, ms, lm)
  BY <1>4, <1>9 DEF OrderOf, WaitInOrder
<1>11. i2[n] = Append(ins[n], u) /\ (\A m \in Names : m # n => i2[m] = ins[m]) /\ DOMAIN i2 = Names
  BY <1>3, <1>8, <1>9
<1>12. /\ InOrder(i2[n]) /\ i2[n] \in Seq(SampleType) /\ Len(i2[n]) = Len(ins[n]) + 1
       /\ DOMAIN i2[n] = DOMAIN ins[n] \cup {Len(ins[n]) + 1} /\ i2[n][Len(ins[n]) + 1] = u
       /\ \A i \in DOMAIN ins[n] : i2[n][i] = ins[n][i]
  <2>1. \A i \in DOMAIN ins[n] : Before(ins[n][i], u)
    BY <1>8, <1>10
  <2>2. ins[n] \in Seq(SampleType) /\ InOrder(ins[n])
    BY <1>8, <1>9, <1>10
  <2> QED BY <1>8, <1>11, <2>1, <2>2, OrderAppend
<1>13. i2 \in Channels
  <2>1. i2 \in [Names -> Seq(SampleType)]
    BY <1>3, <1>9, <1>11, <1>12
  <2>2. Len(i2[n]) <= ChanSlack
    BY <1>8, <1>9, <1>12, OtelAssumption
  <2> QED BY <1>9, <1>11, <2>1, <2>2 DEF Channels
<1>14. TypesOf(r2, i2, ob, gn, ms, lm)
  BY <1>4, <1>7, <1>13 DEF TypesOf, Taken
<1>15. WaitInOrder(i2, r2, ms, lm)
  <2> SUFFICES ASSUME NEW m \in Names
               PROVE  /\ InOrder(i2[m])
                      /\ \A i \in DOMAIN i2[m] : i2[m][i].name = m /\ HandedOver(i2[m][i], r2, ms, lm)
    BY DEF WaitInOrder
  <2>1. CASE m = n
    BY <1>8, <1>10, <1>12, <2>1
  <2>2. CASE m # n
    BY <1>8, <1>10, <1>11, <2>2
  <2> QED BY <2>1, <2>2
<1>16. SeenInOrder(ob, i2, r2, ms, lm)
  <2>1. \A i \in DOMAIN ob : ob[i] \in SampleType
    BY <1>5
  <2>2. /\ \A i, j \in DOMAIN ob : i < j /\ ob[i].name = ob[j].name => Before(ob[i], ob[j])
        /\ \A i \in DOMAIN ob : HandedOver(ob[i], rs, ms, lm)
        /\ \A i \in DOMAIN ob, m \in Names : ob[i].name = m => \A j \in DOMAIN ins[m] : Before(ob[i], ins[m][j])
    BY <1>4 DEF OrderOf, SeenInOrder
  <2>3. ASSUME NEW i \in DOMAIN ob, NEW m \in Names, ob[i].name = m, NEW j \in DOMAIN i2[m]
        PROVE  Before(ob[i], i2[m][j])
    <3>1. CASE m # n
      BY <1>11, <2>2, <2>3, <3>1
    <3>2. CASE m = n /\ j \in DOMAIN ins[n]
      BY <1>12, <2>2, <2>3, <3>2
    <3>3. CASE m = n /\ j = Len(ins[n]) + 1
      BY <1>8, <1>12, <2>1, <2>2, <3>3
    <3> QED BY <1>12, <2>3, <3>1, <3>2, <3>3
  <2> QED BY <1>8, <2>1, <2>2, <2>3 DEF SeenInOrder
<1>17. LostForGood(gn, i2, r2, ms, lm)
  <2> SUFFICES ASSUME NEW s \in gn
               PROVE  HandedOver(s, r2, ms, lm) /\ \A m \in Names : s \notin ToSet(i2[m])
    BY DEF LostForGood
  <2>1. s \in SampleType /\ HandedOver(s, rs, ms, lm) /\ \A m \in Names : s \notin ToSet(ins[m])
    BY <1>4, <1>5 DEF OrderOf, LostForGood
  <2>2. HandedOver(s, r2, ms, lm) /\ Before(s, u)
    BY <1>8, <2>1
  <2>3. s # u
    BY <2>1, <2>2, SampleFields DEF Before
  <2>4. s \notin ToSet(i2[n])
    BY <1>8, <1>12, <2>1, <2>3 DEF ToSet
  <2> QED BY <1>11, <2>1, <2>2, <2>4
<1>18. CountOf(r2, i2, ob, gn, ms)
  <2> SUFFICES ASSUME NEW v \in Threads
               PROVE  ms[v] = Len(r2[v]) + Cardinality(Ons(ob, v)) + Cardinality(Waiting(i2, v)) + Cardinality(Of(gn, v))
    BY DEF CountOf
  <2>1. ms[v] = Len(rs[v]) + Cardinality(Ons(ob, v)) + Cardinality(Waiting(ins, v)) + Cardinality(Of(gn, v))
    BY <1>4 DEF CountOf
  <2>2. Cardinality(Ons(ob, v)) \in Nat /\ Cardinality(Waiting(ins, v)) \in Nat /\ Cardinality(Of(gn, v)) \in Nat
    BY <1>4, CountsNat
  <2>3. /\ Cardinality(Others(ins, n, v)) \in Nat
        /\ Cardinality(Waiting(ins, v)) = Cardinality(Others(ins, n, v)) + Cardinality(Ons(ins[n], v))
    BY <1>5, <1>8, WaitingSplit
  <2>4. Cardinality(Waiting(i2, v)) = Cardinality(Others(i2, n, v)) + Cardinality(Ons(i2[n], v))
    BY <1>8, <1>13, WaitingSplit
  <2>5. Others(i2, n, v) = Others(ins, n, v)
    BY <1>11, OthersKept
  <2>6. Cardinality(Ons(i2[n], v)) = Cardinality(Ons(ins[n], v)) + One(u.by = v) /\ Cardinality(Ons(ins[n], v)) \in Nat
    BY <1>8, <1>9, <1>11, OnsAppend, OnsFinite
  <2>7. Len(rs[v]) = Len(r2[v]) + One(u.by = v) /\ Len(r2[v]) \in Nat
    <3>1. CASE v = t
      BY <1>7, <1>8, <3>1 DEF Taken, One
    <3>2. CASE v # t
      BY <1>5, <1>7, <1>8, <3>2 DEF Taken, One
    <3> QED BY <3>1, <3>2
  <2>8. One(u.by = v) \in Nat
    BY DEF One
  <2>9. Cardinality(Waiting(i2, v)) = Cardinality(Waiting(ins, v)) + One(u.by = v)
    BY <2>3, <2>4, <2>5, <2>6, <2>8
  <2> QED BY ONLY <2>1, <2>2, <2>7, <2>8, <2>9
<1>19. Ledger(r2, i2, ob, gn, ms, lm)
  BY <1>7, <1>14, <1>15, <1>16, <1>17, <1>18 DEF Ledger, OrderOf, Taken
<1> QED BY <1>1, <1>2, <1>3, <1>19

\* A sample finds no room and is lost.
LEMMA LedgerDropped ==
  ASSUME NEW rs, NEW ins, NEW ob, NEW gn, NEW ms, NEW lm, Ledger(rs, ins, ob, gn, ms, lm),
         NEW t \in Threads, rs[t] # <<>>
  PROVE  Ledger([rs EXCEPT ![t] = Tail(@)], ins, ob, gn \cup {Head(rs[t])}, ms, lm)
<1>1. PICK r2 : r2 = [rs EXCEPT ![t] = Tail(@)]
  OBVIOUS
<1>2. PICK u : u = Head(rs[t])
  OBVIOUS
<1>3. PICK g2 : g2 = gn \cup {u}
  OBVIOUS
<1>4. TypesOf(rs, ins, ob, gn, ms, lm) /\ OrderOf(rs, ins, ob, gn, ms, lm) /\ CountOf(rs, ins, ob, gn, ms)
  BY DEF Ledger
<1>5. /\ rs \in [Threads -> Seq(SampleType)] /\ ms \in [Threads -> Nat] /\ lm \in Sizes \cup {0}
      /\ ins \in Channels /\ ob \in Seq(SampleType) /\ gn \in SUBSET SampleType /\ IsFiniteSet(gn)
      /\ HeldInOrder(rs, ms, lm)
  BY <1>4 DEF TypesOf, OrderOf
<1>6. lm \in Nat
  BY <1>5, OtelAssumption
<1>7. Taken(rs, r2, ms, lm, t, u)
  BY <1>1, <1>2, <1>5, <1>6, HeadTaken
<1>8. u \in SampleType /\ u.by = t /\ HandedOver(u, r2, ms, lm)
      /\ \A s \in SampleType : HandedOver(s, rs, ms, lm) => HandedOver(s, r2, ms, lm) /\ Before(s, u)
  BY <1>7 DEF Taken
<1>9. \A m \in Names : \A i \in DOMAIN ins[m] : ins[m][i] \in SampleType
  BY <1>5 DEF Channels
<1>10. \A s \in SampleType : HandedOver(s, rs, ms, lm) => s # u
  BY <1>8, SampleFields DEF Before
<1>11. TypesOf(r2, ins, ob, g2, ms, lm)
  <2>1. IsFiniteSet(g2)
    BY <1>3, <1>5, FS_AddElement
  <2> QED BY <1>3, <1>5, <1>7, <1>8, <2>1 DEF TypesOf, Taken
<1>12. WaitInOrder(ins, r2, ms, lm)
  BY <1>4, <1>8, <1>9 DEF OrderOf, WaitInOrder
<1>13. SeenInOrder(ob, ins, r2, ms, lm)
  <2>1. \A i \in DOMAIN ob : ob[i] \in SampleType
    BY <1>5
  <2> QED BY <1>4, <1>8, <2>1 DEF OrderOf, SeenInOrder
<1>14. LostForGood(g2, ins, r2, ms, lm)
  <2>1. \A m \in Names : u \notin ToSet(ins[m])
    BY <1>4, <1>9, <1>10 DEF OrderOf, WaitInOrder, ToSet
  <2> QED BY <1>3, <1>4, <1>5, <1>8, <2>1 DEF OrderOf, LostForGood
<1>15. u \notin gn
  BY <1>4, <1>5, <1>10 DEF OrderOf, LostForGood
<1>16. CountOf(r2, ins, ob, g2, ms)
  <2> SUFFICES ASSUME NEW v \in Threads
               PROVE  ms[v] = Len(r2[v]) + Cardinality(Ons(ob, v)) + Cardinality(Waiting(ins, v)) + Cardinality(Of(g2, v))
    BY DEF CountOf
  <2>1. ms[v] = Len(rs[v]) + Cardinality(Ons(ob, v)) + Cardinality(Waiting(ins, v)) + Cardinality(Of(gn, v))
    BY <1>4 DEF CountOf
  <2>2. /\ Cardinality(Ons(ob, v)) \in Nat /\ Cardinality(Waiting(ins, v)) \in Nat
        /\ Cardinality(Of(gn, v)) \in Nat /\ IsFiniteSet(Of(gn, v))
    BY <1>4, CountsNat
  <2>3. CASE v = t
    <3>1. Of(g2, v) = Of(gn, v) \cup {u} /\ u \notin Of(gn, v)
      BY <1>3, <1>8, <1>15, <2>3 DEF Of
    <3>2. Cardinality(Of(g2, v)) = Cardinality(Of(gn, v)) + 1
      BY <2>2, <3>1, FS_AddElement
    <3>3. Len(r2[v]) \in Nat /\ Len(rs[v]) = Len(r2[v]) + 1
      BY <1>7, <2>3 DEF Taken
    <3>4. Cardinality(Ons(ob, v)) \in Nat /\ Cardinality(Waiting(ins, v)) \in Nat /\ Cardinality(Of(gn, v)) \in Nat
      BY <2>2
    <3>5. PICK a \in Nat, b \in Nat, c \in Nat, d \in Nat :
             a = Len(r2[v]) /\ b = Cardinality(Ons(ob, v)) /\ c = Cardinality(Waiting(ins, v)) /\ d = Cardinality(Of(gn, v))
      BY <3>3, <3>4, Zenon
    <3>6. ms[v] = (a + 1) + b + c + d
      BY ONLY <2>1, <3>3, <3>5, Zenon
    <3>7. ms[v] = a + b + c + (d + 1)
      BY ONLY <3>6, a \in Nat, b \in Nat, c \in Nat, d \in Nat
    <3>8. Cardinality(Of(g2, v)) = d + 1
      BY ONLY <3>2, <3>5, Zenon
    <3> QED BY ONLY <3>5, <3>7, <3>8, Zenon
  <2>4. CASE v # t
    <3>1. Of(g2, v) = Of(gn, v) /\ r2[v] = rs[v]
      BY <1>3, <1>7, <1>8, <2>4 DEF Of, Taken
    <3> QED BY <2>1, <3>1
  <2> QED BY <2>3, <2>4
<1>17. Ledger(r2, ins, ob, g2, ms, lm)
  BY <1>7, <1>11, <1>12, <1>13, <1>14, <1>16 DEF Ledger, OrderOf, Taken
<1> QED BY <1>1, <1>2, <1>3, <1>17

LEMMA OfUnion ==
  ASSUME NEW A, NEW B, NEW t, IsFiniteSet(Of(A, t)), IsFiniteSet(Of(B, t)), A \cap B = {}
  PROVE  Cardinality(Of(A \cup B, t)) = Cardinality(Of(A, t)) + Cardinality(Of(B, t))
<1>1. Of(A \cup B, t) = Of(A, t) \cup Of(B, t) /\ Of(A, t) \cap Of(B, t) = {}
  BY DEF Of
<1>2. Cardinality(Of(A, t) \cup Of(B, t)) = Cardinality(Of(A, t)) + Cardinality(Of(B, t)) - Cardinality({})
  BY <1>1, FS_Union
<1>3. Cardinality({}) = 0 /\ Cardinality(Of(A, t)) \in Nat /\ Cardinality(Of(B, t)) \in Nat
  BY FS_EmptySet, FS_CardinalityType
<1>4. PICK a \in Nat, b \in Nat : a = Cardinality(Of(A, t)) /\ b = Cardinality(Of(B, t))
  BY <1>3, Zenon
<1>5. Cardinality(Of(A \cup B, t)) = a + b - 0
  BY ONLY <1>1, <1>2, <1>3, <1>4, Zenon
<1>6. a + b - 0 = a + b
  BY ONLY a \in Nat, b \in Nat
<1> QED BY ONLY <1>4, <1>5, <1>6, Zenon

LEMMA SetFinite ==
  ASSUME NEW s \in Seq(SampleType)
  PROVE  IsFiniteSet(ToSet(s)) /\ ToSet(s) \subseteq SampleType
<1>1. IsFiniteSet(1..Len(s)) /\ DOMAIN s = 1..Len(s)
  BY FS_Interval
<1>2. s \in Surjection(1..Len(s), ToSet(s))
  BY <1>1 DEF Surjection, ToSet
<1> QED BY <1>1, <1>2, FS_Surjection DEF ToSet

\* The SDK refuses a gauge, and the rest of the batch is lost.
LEMMA LedgerFailed ==
  ASSUME NEW rs, NEW ins, NEW ob, NEW gn, NEW ms, NEW lm, Ledger(rs, ins, ob, gn, ms, lm),
         NEW t \in Threads
  PROVE  Ledger([rs EXCEPT ![t] = <<>>], ins, ob, gn \cup ToSet(rs[t]), ms, lm)
<1>1. PICK r2 : r2 = [rs EXCEPT ![t] = <<>>]
  OBVIOUS
<1>2. PICK U : U = ToSet(rs[t])
  OBVIOUS
<1>3. PICK g2 : g2 = gn \cup U
  OBVIOUS
<1>4. TypesOf(rs, ins, ob, gn, ms, lm) /\ OrderOf(rs, ins, ob, gn, ms, lm) /\ CountOf(rs, ins, ob, gn, ms)
  BY DEF Ledger
<1>5. /\ rs \in [Threads -> Seq(SampleType)] /\ ms \in [Threads -> Nat] /\ lm \in Sizes \cup {0}
      /\ ins \in Channels /\ ob \in Seq(SampleType) /\ gn \in SUBSET SampleType /\ IsFiniteSet(gn)
  BY <1>4 DEF TypesOf
<1>6. lm \in Nat
  BY <1>5, OtelAssumption
<1>7. \A s \in SampleType : HandedOver(s, rs, ms, lm) => HandedOver(s, r2, ms, lm)
  BY <1>1, <1>5, <1>6, HandedStays
<1>8. rs[t] \in Seq(SampleType) /\ r2[t] = <<>> /\ r2 \in [Threads -> Seq(SampleType)]
      /\ \A v \in Threads : v # t => r2[v] = rs[v]
  <2>1. <<>> \in Seq(SampleType)
    OBVIOUS
  <2> QED BY <1>1, <1>5, <2>1
<1>9. InOrder(rs[t]) /\ \A i \in DOMAIN rs[t] : rs[t][i].by = t /\ rs[t][i].nr <= ms[t] /\ rs[t][i].attrs <= lm
  BY <1>4 DEF OrderOf, HeldInOrder
<1>10. IsFiniteSet(U) /\ U \subseteq SampleType
  BY <1>2, <1>8, SetFinite
<1>11. \A x \in U : \E i \in DOMAIN rs[t] : x = rs[t][i]
  BY <1>2, <1>8 DEF ToSet
<1>12. \A x \in U : x.by = t /\ HandedOver(x, r2, ms, lm)
  BY <1>8, <1>9, <1>11 DEF HandedOver
<1>13. \A s \in SampleType : HandedOver(s, rs, ms, lm) => s \notin U
  <2> SUFFICES ASSUME NEW s \in SampleType, HandedOver(s, rs, ms, lm), s \in U PROVE FALSE
    OBVIOUS
  <2>1. PICK i \in DOMAIN rs[t] : s = rs[t][i]
    BY <1>11
  <2>2. s.by = t /\ s.nr \in Nat
    BY <1>12, SampleFields
  <2>3. Before(s, s)
    BY <2>1, <2>2 DEF HandedOver
  <2> QED BY <2>2, <2>3 DEF Before
<1>14. \A m \in Names : \A i \in DOMAIN ins[m] : ins[m][i] \in SampleType
  BY <1>5 DEF Channels
<1>15. TypesOf(r2, ins, ob, g2, ms, lm)
  <2>1. IsFiniteSet(g2)
    BY <1>3, <1>5, <1>10, FS_Union
  <2> QED BY <1>3, <1>5, <1>8, <1>10, <2>1 DEF TypesOf
<1>16. HeldInOrder(r2, ms, lm)
  <2>1. InOrder(<<>>) /\ DOMAIN <<>> = {}
    BY DEF InOrder
  <2> QED BY <1>4, <1>8, <2>1 DEF OrderOf, HeldInOrder
<1>17. WaitInOrder(ins, r2, ms, lm)
  BY <1>4, <1>7, <1>14 DEF OrderOf, WaitInOrder
<1>18. SeenInOrder(ob, ins, r2, ms, lm)
  <2>1. \A i \in DOMAIN ob : ob[i] \in SampleType
    BY <1>5
  <2> QED BY <1>4, <1>7, <2>1 DEF OrderOf, SeenInOrder
<1>19. LostForGood(g2, ins, r2, ms, lm)
  <2>1. \A m \in Names : \A x \in U : x \notin ToSet(ins[m])
    BY <1>4, <1>13, <1>14 DEF OrderOf, WaitInOrder, ToSet
  <2>2. \A s \in gn : s \in SampleType /\ HandedOver(s, r2, ms, lm) /\ \A m \in Names : s \notin ToSet(ins[m])
    BY <1>4, <1>5, <1>7 DEF OrderOf, LostForGood
  <2> QED BY <1>3, <1>12, <2>1, <2>2 DEF LostForGood
<1>20. CountOf(r2, ins, ob, g2, ms)
  <2> SUFFICES ASSUME NEW v \in Threads
               PROVE  ms[v] = Len(r2[v]) + Cardinality(Ons(ob, v)) + Cardinality(Waiting(ins, v)) + Cardinality(Of(g2, v))
    BY DEF CountOf
  <2>1. ms[v] = Len(rs[v]) + Cardinality(Ons(ob, v)) + Cardinality(Waiting(ins, v)) + Cardinality(Of(gn, v))
    BY <1>4 DEF CountOf
  <2>2. /\ Cardinality(Ons(ob, v)) \in Nat /\ Cardinality(Waiting(ins, v)) \in Nat
        /\ Cardinality(Of(gn, v)) \in Nat /\ IsFiniteSet(Of(gn, v))
    BY <1>4, CountsNat
  <2>3. CASE v = t
    <3>1. \A i, j \in DOMAIN rs[t] : rs[t][i] = rs[t][j] => i = j
      BY <1>8, <1>9, OrderIsInjective
    <3>2. IsFiniteSet(Of(U, v)) /\ Cardinality(Of(U, v)) = Cardinality(Ons(rs[t], v))
      BY <1>2, <1>8, <3>1, OnsOfSet
    <3>3. Cardinality(Ons(rs[t], v)) = Len(rs[t])
      BY <1>8, <1>9, <2>3, OnsOfOne
    <3>4. gn \cap U = {}
      BY <1>4, <1>5, <1>13 DEF OrderOf, LostForGood
    <3>5. Cardinality(Of(g2, v)) = Cardinality(Of(gn, v)) + Cardinality(Of(U, v))
      BY <1>3, <2>2, <3>2, <3>4, OfUnion
    <3>6. Len(r2[v]) = 0 /\ Len(rs[v]) \in Nat
      BY <1>8, <2>3
    <3>7. PICK a \in Nat, b \in Nat, c \in Nat, d \in Nat :
             a = Len(rs[v]) /\ b = Cardinality(Ons(ob, v)) /\ c = Cardinality(Waiting(ins, v)) /\ d = Cardinality(Of(gn, v))
      BY <2>2, <3>6, Zenon
    <3>8. Cardinality(Of(g2, v)) = d + a
      BY <2>3, <3>2, <3>3, <3>5, <3>7, Zenon
    <3>9. ms[v] = a + b + c + d
      BY ONLY <2>1, <3>7, Zenon
    <3>10. ms[v] = 0 + b + c + (d + a)
      BY ONLY <3>9, a \in Nat, b \in Nat, c \in Nat, d \in Nat
    <3> QED BY ONLY <3>6, <3>7, <3>8, <3>10, Zenon
  <2>4. CASE v # t
    <3>1. Of(g2, v) = Of(gn, v) /\ r2[v] = rs[v]
      BY <1>3, <1>8, <1>12, <2>4 DEF Of
    <3> QED BY <2>1, <3>1
  <2> QED BY <2>3, <2>4
<1>21. Ledger(r2, ins, ob, g2, ms, lm)
  BY <1>15, <1>16, <1>17, <1>18, <1>19, <1>20 DEF Ledger, OrderOf
<1> QED BY <1>1, <1>2, <1>3, <1>21

\* A channel is made anew, and what was on it is lost.
LEMMA LedgerReplaced ==
  ASSUME NEW rs, NEW ins, NEW ob, NEW gn, NEW ms, NEW lm, Ledger(rs, ins, ob, gn, ms, lm),
         NEW n \in Names
  PROVE  Ledger(rs, [ins EXCEPT ![n] = <<>>], ob, gn \cup ToSet(ins[n]), ms, lm)
<1>1. PICK i2 : i2 = [ins EXCEPT ![n] = <<>>]
  OBVIOUS
<1>2. PICK U : U = ToSet(ins[n])
  OBVIOUS
<1>3. PICK g2 : g2 = gn \cup U
  OBVIOUS
<1>4. TypesOf(rs, ins, ob, gn, ms, lm) /\ OrderOf(rs, ins, ob, gn, ms, lm) /\ CountOf(rs, ins, ob, gn, ms)
  BY DEF Ledger
<1>5. /\ rs \in [Threads -> Seq(SampleType)] /\ ins \in Channels /\ ob \in Seq(SampleType)
      /\ gn \in SUBSET SampleType /\ IsFiniteSet(gn)
      /\ ins \in [Names -> Seq(SampleType)] /\ \A m \in Names : Len(ins[m]) <= ChanSlack
  BY <1>4 DEF TypesOf, Channels
<1>6. /\ ins[n] \in Seq(SampleType) /\ i2[n] = <<>> /\ \A m \in Names : m # n => i2[m] = ins[m]
      /\ i2 \in Channels
  <2>1. <<>> \in Seq(SampleType) /\ Len(<<>>) = 0
    OBVIOUS
  <2>2. i2 \in [Names -> Seq(SampleType)]
    BY <1>1, <1>5, <2>1
  <2> QED BY <1>1, <1>5, <2>1, <2>2, OtelAssumption DEF Channels
<1>7. \A m \in Names : InOrder(ins[m]) /\ \A i \in DOMAIN ins[m] : ins[m][i].name = m /\ HandedOver(ins[m][i], rs, ms, lm)
  BY <1>4 DEF OrderOf, WaitInOrder
<1>8. IsFiniteSet(U) /\ U \subseteq SampleType
  BY <1>2, <1>6, SetFinite
<1>9. \A x \in U : x.name = n /\ HandedOver(x, rs, ms, lm)
  BY <1>2, <1>7 DEF ToSet
<1>10. InOrder(<<>>) /\ DOMAIN <<>> = {} /\ ToSet(<<>>) = {}
  BY DEF InOrder, ToSet
<1>11. TypesOf(rs, i2, ob, g2, ms, lm)
  <2>1. IsFiniteSet(g2)
    BY <1>3, <1>5, <1>8, FS_Union
  <2> QED BY <1>3, <1>4, <1>6, <1>8, <2>1 DEF TypesOf
<1>12. WaitInOrder(i2, rs, ms, lm)
  BY <1>6, <1>7, <1>10 DEF WaitInOrder
<1>13. SeenInOrder(ob, i2, rs, ms, lm)
  <2>1. \A m \in Names : \A j \in DOMAIN i2[m] : j \in DOMAIN ins[m] /\ i2[m][j] = ins[m][j]
    BY <1>6, <1>10
  <2> QED BY <1>4, <2>1 DEF OrderOf, SeenInOrder
<1>14. LostForGood(g2, i2, rs, ms, lm)
  <2>1. \A x \in U, m \in Names : x \notin ToSet(i2[m])
    BY <1>6, <1>7, <1>9, <1>10 DEF ToSet
  <2>2. \A s \in gn : HandedOver(s, rs, ms, lm) /\ \A m \in Names : s \notin ToSet(i2[m])
    BY <1>4, <1>6, <1>10 DEF OrderOf, LostForGood
  <2> QED BY <1>3, <1>9, <2>1, <2>2 DEF LostForGood
<1>15. gn \cap U = {}
  BY <1>2, <1>4 DEF OrderOf, LostForGood
<1>16. CountOf(rs, i2, ob, g2, ms)
  <2> SUFFICES ASSUME NEW v \in Threads
               PROVE  ms[v] = Len(rs[v]) + Cardinality(Ons(ob, v)) + Cardinality(Waiting(i2, v)) + Cardinality(Of(g2, v))
    BY DEF CountOf
  <2>1. ms[v] = Len(rs[v]) + Cardinality(Ons(ob, v)) + Cardinality(Waiting(ins, v)) + Cardinality(Of(gn, v))
    BY <1>4 DEF CountOf
  <2>2. /\ Cardinality(Ons(ob, v)) \in Nat /\ Cardinality(Of(gn, v)) \in Nat /\ IsFiniteSet(Of(gn, v))
    BY <1>4, CountsNat
  <2>3. /\ Cardinality(Others(ins, n, v)) \in Nat
        /\ Cardinality(Waiting(ins, v)) = Cardinality(Others(ins, n, v)) + Cardinality(Ons(ins[n], v))
    BY <1>5, WaitingSplit
  <2>4. Cardinality(Waiting(i2, v)) = Cardinality(Others(i2, n, v)) + Cardinality(Ons(i2[n], v))
    BY <1>6, WaitingSplit
  <2>5. Others(i2, n, v) = Others(ins, n, v)
    BY <1>6, OthersKept
  <2>6. Cardinality(Ons(i2[n], v)) = 0 /\ Cardinality(Ons(ins[n], v)) \in Nat
    BY <1>6, OnsEmpty, OnsFinite
  <2>7. IsFiniteSet(Of(U, v)) /\ Cardinality(Of(U, v)) = Cardinality(Ons(ins[n], v))
    <3>1. \A i, j \in DOMAIN ins[n] : ins[n][i] = ins[n][j] => i = j
      BY <1>6, <1>7, OrderIsInjective
    <3> QED BY <1>2, <1>6, <3>1, OnsOfSet
  <2>8. Cardinality(Of(g2, v)) = Cardinality(Of(gn, v)) + Cardinality(Of(U, v))
    BY <1>3, <1>15, <2>2, <2>7, OfUnion
  <2>9. Len(rs[v]) \in Nat
    BY <1>5
  <2>10. PICK a \in Nat, b \in Nat, c \in Nat, d \in Nat, e \in Nat :
             a = Len(rs[v]) /\ b = Cardinality(Ons(ob, v)) /\ c = Cardinality(Others(ins, n, v))
             /\ d = Cardinality(Of(gn, v)) /\ e = Cardinality(Ons(ins[n], v))
    BY <2>2, <2>3, <2>6, <2>9, Zenon
  <2>11. ms[v] = a + b + (c + e) + d
    BY ONLY <2>1, <2>3, <2>10, Zenon
  <2>12. ms[v] = a + b + (c + 0) + (d + e)
    BY ONLY <2>11, a \in Nat, b \in Nat, c \in Nat, d \in Nat, e \in Nat
  <2>13. Cardinality(Waiting(i2, v)) = c + 0 /\ Cardinality(Of(g2, v)) = d + e
    BY ONLY <2>4, <2>5, <2>6, <2>7, <2>8, <2>10, Zenon
  <2> QED BY ONLY <2>10, <2>12, <2>13, Zenon
<1>17. Ledger(rs, i2, ob, g2, ms, lm)
  BY <1>4, <1>11, <1>12, <1>13, <1>14, <1>16 DEF Ledger, OrderOf
<1> QED BY <1>1, <1>2, <1>3, <1>17

\* The SDK sees the first sample of a channel.
LEMMA LedgerSeen ==
  ASSUME NEW rs, NEW ins, NEW ob, NEW gn, NEW ms, NEW lm, Ledger(rs, ins, ob, gn, ms, lm),
         NEW n \in Names, ins[n] # <<>>
  PROVE  Ledger(rs, [ins EXCEPT ![n] = Tail(@)], Append(ob, Head(ins[n])), gn, ms, lm)
<1>1. PICK i2 : i2 = [ins EXCEPT ![n] = Tail(@)]
  OBVIOUS
<1>2. PICK u : u = Head(ins[n])
  OBVIOUS
<1>3. PICK o2 : o2 = Append(ob, u)
  OBVIOUS
<1>4. TypesOf(rs, ins, ob, gn, ms, lm) /\ OrderOf(rs, ins, ob, gn, ms, lm) /\ CountOf(rs, ins, ob, gn, ms)
  BY DEF Ledger
<1>5. /\ rs \in [Threads -> Seq(SampleType)] /\ ins \in Channels /\ ob \in Seq(SampleType)
      /\ ins \in [Names -> Seq(SampleType)] /\ \A m \in Names : Len(ins[m]) <= ChanSlack
  BY <1>4 DEF TypesOf, Channels
<1>6. \A m \in Names : InOrder(ins[m]) /\ \A i \in DOMAIN ins[m] : ins[m][i].name = m /\ HandedOver(ins[m][i], rs, ms, lm)
  BY <1>4 DEF OrderOf, WaitInOrder
<1>7. ins[n] \in Seq(SampleType) /\ i2[n] = Tail(ins[n]) /\ \A m \in Names : m # n => i2[m] = ins[m]
  BY <1>1, <1>5
<1>8. /\ InOrder(i2[n]) /\ i2[n] \in Seq(SampleType) /\ Len(i2[n]) = Len(ins[n]) - 1
      /\ u \in SampleType /\ u = ins[n][1] /\ 1 \in DOMAIN ins[n]
      /\ \A k \in DOMAIN i2[n] : k + 1 \in DOMAIN ins[n] /\ i2[n][k] = ins[n][k + 1] /\ Before(u, i2[n][k])
  BY <1>2, <1>6, <1>7, OrderTail
<1>9. u.name = n /\ HandedOver(u, rs, ms, lm)
  BY <1>6, <1>8
<1>10. i2 \in Channels
  <2>1. i2 \in [Names -> Seq(SampleType)]
    BY <1>1, <1>5, <1>7, <1>8
  <2>2. Len(i2[n]) <= ChanSlack
    BY <1>5, <1>7, <1>8, OtelAssumption
  <2> QED BY <1>5, <1>7, <2>1, <2>2 DEF Channels
<1>11. /\ o2 \in Seq(SampleType) /\ DOMAIN o2 = DOMAIN ob \cup {Len(ob) + 1} /\ o2[Len(ob) + 1] = u
       /\ \A i \in DOMAIN ob : o2[i] = ob[i] /\ i \in 1..Len(ob)
       /\ Len(ob) \in Nat
  BY <1>3, <1>5, <1>8
<1>12. TypesOf(rs, i2, o2, gn, ms, lm)
  BY <1>4, <1>10, <1>11 DEF TypesOf
<1>13. WaitInOrder(i2, rs, ms, lm)
  <2>1. \A i \in DOMAIN i2[n] : i2[n][i].name = n /\ HandedOver(i2[n][i], rs, ms, lm)
    BY <1>6, <1>8
  <2> QED BY <1>6, <1>7, <1>8, <2>1 DEF WaitInOrder
<1>14. SeenInOrder(o2, i2, rs, ms, lm)
  <2>1. /\ \A i, j \in DOMAIN ob : i < j /\ ob[i].name = ob[j].name => Before(ob[i], ob[j])
        /\ \A i \in DOMAIN ob : HandedOver(ob[i], rs, ms, lm)
        /\ \A i \in DOMAIN ob, m \in Names : ob[i].name = m => \A j \in DOMAIN ins[m] : Before(ob[i], ins[m][j])
    BY <1>4 DEF OrderOf, SeenInOrder
  <2>2. \A i \in DOMAIN ob : ob[i].name = n => Before(ob[i], u)
    BY <1>8, <2>1
  <2>3. ASSUME NEW i \in DOMAIN o2, NEW j \in DOMAIN o2, i < j, o2[i].name = o2[j].name
        PROVE  Before(o2[i], o2[j])
    <3>1. i \in DOMAIN ob
      BY <1>11, <2>3
    <3>2. CASE j \in DOMAIN ob
      BY <1>11, <2>1, <2>3, <3>1, <3>2
    <3>3. CASE j = Len(ob) + 1
      BY <1>9, <1>11, <2>2, <2>3, <3>1, <3>3
    <3> QED BY <1>11, <3>2, <3>3
  <2>4. \A i \in DOMAIN o2 : HandedOver(o2[i], rs, ms, lm)
    BY <1>9, <1>11, <2>1
  <2>5. ASSUME NEW i \in DOMAIN o2, NEW m \in Names, o2[i].name = m, NEW j \in DOMAIN i2[m]
        PROVE  Before(o2[i], i2[m][j])
    <3>1. CASE i \in DOMAIN ob /\ m = n
      <4>1. o2[i] = ob[i] /\ ob[i].name = n
        BY <1>11, <2>5, <3>1
      <4>2. j \in DOMAIN i2[n]
        BY <2>5, <3>1
      <4>3. j + 1 \in DOMAIN ins[n] /\ i2[m][j] = ins[n][j + 1]
        BY <1>8, <3>1, <4>2
      <4>4. Before(ob[i], ins[n][j + 1])
        BY <2>1, <3>1, <4>1, <4>3
      <4> QED BY <4>1, <4>3, <4>4, Zenon
    <3>2. CASE i \in DOMAIN ob /\ m # n
      BY <1>7, <1>11, <2>1, <2>5, <3>2
    <3>3. CASE i = Len(ob) + 1
      BY <1>8, <1>9, <1>11, <2>5, <3>3
    <3> QED BY <1>11, <3>1, <3>2, <3>3
  <2> QED BY <2>3, <2>4, <2>5 DEF SeenInOrder
<1>15. LostForGood(gn, i2, rs, ms, lm)
  <2>1. \A s : s \in ToSet(i2[n]) => s \in ToSet(ins[n])
    BY <1>8 DEF ToSet
  <2> QED BY <1>4, <1>7, <2>1 DEF OrderOf, LostForGood
<1>16. CountOf(rs, i2, o2, gn, ms)
  <2> SUFFICES ASSUME NEW v \in Threads
               PROVE  ms[v] = Len(rs[v]) + Cardinality(Ons(o2, v)) + Cardinality(Waiting(i2, v)) + Cardinality(Of(gn, v))
    BY DEF CountOf
  <2>1. ms[v] = Len(rs[v]) + Cardinality(Ons(ob, v)) + Cardinality(Waiting(ins, v)) + Cardinality(Of(gn, v))
    BY <1>4 DEF CountOf
  <2>2. Cardinality(Ons(ob, v)) \in Nat /\ Cardinality(Of(gn, v)) \in Nat
    BY <1>4, CountsNat
  <2>3. /\ Cardinality(Others(ins, n, v)) \in Nat
        /\ Cardinality(Waiting(ins, v)) = Cardinality(Others(ins, n, v)) + Cardinality(Ons(ins[n], v))
    BY <1>5, WaitingSplit
  <2>4. Cardinality(Waiting(i2, v)) = Cardinality(Others(i2, n, v)) + Cardinality(Ons(i2[n], v))
    BY <1>10, WaitingSplit
  <2>5. Others(i2, n, v) = Others(ins, n, v)
    BY <1>7, OthersKept
  <2>6. Cardinality(Ons(ins[n], v)) = Cardinality(Ons(i2[n], v)) + One(u.by = v) /\ Cardinality(Ons(i2[n], v)) \in Nat
    <3>1. Cardinality(Ons(ins[n], v)) = Cardinality(Ons(Tail(ins[n]), v)) + One(Head(ins[n]).by = v)
      BY <1>7, OnsTail
    <3>2. Cardinality(Ons(i2[n], v)) \in Nat
      BY <1>8, OnsFinite
    <3> QED BY <1>2, <1>7, <3>1, <3>2
  <2>7. Cardinality(Ons(o2, v)) = Cardinality(Ons(ob, v)) + One(u.by = v)
    BY <1>3, <1>5, <1>8, OnsAppend
  <2>9. Len(rs[v]) \in Nat /\ One(u.by = v) \in Nat
    BY <1>5 DEF One
  <2>10. PICK a \in Nat, b \in Nat, c \in Nat, d \in Nat, e \in Nat, f \in Nat :
             a = Len(rs[v]) /\ b = Cardinality(Ons(ob, v)) /\ c = Cardinality(Others(ins, n, v))
             /\ d = Cardinality(Of(gn, v)) /\ e = Cardinality(Ons(i2[n], v)) /\ f = One(u.by = v)
    BY <2>2, <2>3, <2>6, <2>9, Zenon
  <2>11. ms[v] = a + b + (c + (e + f)) + d
    BY ONLY <2>1, <2>3, <2>6, <2>10, Zenon
  <2>12. ms[v] = a + (b + f) + (c + e) + d
    BY ONLY <2>11, a \in Nat, b \in Nat, c \in Nat, d \in Nat, e \in Nat, f \in Nat
  <2>13. Cardinality(Waiting(i2, v)) = c + e /\ Cardinality(Ons(o2, v)) = b + f
    BY ONLY <2>4, <2>5, <2>7, <2>10, Zenon
  <2> QED BY ONLY <2>10, <2>12, <2>13, Zenon
<1>17. Ledger(rs, i2, o2, gn, ms, lm)
  BY <1>4, <1>12, <1>13, <1>14, <1>15, <1>16 DEF Ledger, OrderOf
<1> QED BY <1>1, <1>2, <1>3, <1>17

\* The control of the threads: who hands over has a sample, who takes in
\* metadata has them, and only with NoBlockExport does a thread drop one.
AllGone == gone.dropped \cup gone.replaced \cup gone.failed
OtelPlaces == {"idle", "translate", "metadata", "translated", "loop", "register",
               "registered", "send", "warn", "warned", "mark"}

OtelControl ==
  /\ at \in [Threads -> OtelPlaces] /\ todo \in [Threads -> Seq(Messages)]
  /\ batches \in [Threads -> 0..MaxBatches]
  /\ readers = {t \in Threads : at[t] \in {"loop", "send", "mark"}}
  /\ writer \in Threads \cup {NoThread} /\ vecs \subseteq Names /\ warnFull \subseteq Names
  /\ marks \in [Names -> Nat]

Holds == \A t \in Threads :
           /\ at[t] \in {"register", "registered", "send", "warn", "warned", "mark"} => res[t] # <<>>
           /\ at[t] = "metadata" => todo[t] # <<>> /\ Head(todo[t]).kind = "metadata"
           /\ at[t] \in {"warn", "warned", "mark"} => noBlock

Dropping ==
  /\ noBlock \in BOOLEAN
  /\ gone = [dropped |-> gone.dropped, replaced |-> gone.replaced, failed |-> gone.failed]
  /\ ~noBlock => gone.dropped = {}

Marking(t) == at[t] \in {"warned", "mark"}
Metered(n) == marks[n] > 0 \/ \E t \in Threads : Marking(t) /\ Name(t) = n
Full1(n) == n \in warnFull \/ \E s \in gone.dropped : s.name = n
Meters == \A n \in Names : Full1(n) => Metered(n)

Book == Ledger(res, inputs, observed, AllGone, made, lastMetadata)

OtelIInv == OtelControl /\ Holds /\ Dropping /\ Meters /\ Book

\* The inductive invariant says what the run checks of the format.
LEMMA OtelIInvEnough == OtelIInv => OtelInv
<1> SUFFICES ASSUME OtelIInv PROVE OtelInv
  OBVIOUS
<1>1. /\ TypesOf(res, inputs, observed, AllGone, made, lastMetadata)
      /\ OrderOf(res, inputs, observed, AllGone, made, lastMetadata)
      /\ CountOf(res, inputs, observed, AllGone, made)
  BY DEF OtelIInv, Book, Ledger
<1>2. /\ res \in [Threads -> Seq(SampleType)] /\ inputs \in [Names -> Seq(SampleType)]
      /\ (\A n \in Names : Len(inputs[n]) <= ChanSlack) /\ observed \in Seq(SampleType)
      /\ made \in [Threads -> Nat] /\ lastMetadata \in Sizes \cup {0} /\ AllGone \in SUBSET SampleType
  BY <1>1 DEF TypesOf, Channels
<1>3. OtelTypeOK
  <2>1. \A S : \A s \in Seq(S) : ToSet(s) \subseteq S
    BY DEF ToSet
  <2>2. /\ at \in [Threads -> OtelPlaces] /\ todo \in [Threads -> Seq(Messages)]
        /\ batches \in [Threads -> 0..MaxBatches]
        /\ readers = {t \in Threads : at[t] \in {"loop", "send", "mark"}}
        /\ writer \in Threads \cup {NoThread} /\ vecs \subseteq Names /\ warnFull \subseteq Names
        /\ marks \in [Names -> Nat]
    BY DEF OtelIInv, OtelControl
  <2>3. noBlock \in BOOLEAN
    BY DEF OtelIInv, Dropping
  <2>4. \A t \in Threads : ToSet(todo[t]) \subseteq Messages /\ ToSet(res[t]) \subseteq SampleType
    BY <1>2, <2>1, <2>2
  <2>5. \A n \in Names : ToSet(inputs[n]) \subseteq SampleType
    BY <1>2, <2>1
  <2> QED BY <1>2, <2>2, <2>3, <2>4, <2>5, Zenon DEF OtelTypeOK, OtelPlaces
<1>4. EverySampleOnce
  <2>1. UNION {gone[w] : w \in DOMAIN gone} = AllGone
    <3>1. DOMAIN gone = {"dropped", "replaced", "failed"}
      BY DEF OtelIInv, Dropping
    <3> QED BY <3>1 DEF AllGone
  <2>2. ASSUME NEW t \in Threads
        PROVE  made[t] = Len(res[t]) + Cardinality({i \in DOMAIN observed : observed[i].by = t})
                 + Cardinality({p \in Names \X (1..ChanSlack) :
                                  p[2] \in DOMAIN inputs[p[1]] /\ inputs[p[1]][p[2]].by = t})
                 + Cardinality({s \in UNION {gone[w] : w \in DOMAIN gone} : s.by = t})
    BY <1>1, <2>1, Zenon DEF CountOf, Ons, Waiting, Of
  <2>3. ~noBlock => gone.dropped = {}
    BY DEF OtelIInv, Dropping
  <2> QED BY <2>2, <2>3, Zenon DEF EverySampleOnce
<1>5. ObservedInOrder
  BY <1>1 DEF ObservedInOrder, OrderOf, SeenInOrder, Before
<1>6. DropsMetered
  <2> SUFFICES ASSUME NEW s \in gone.dropped
               PROVE  marks[s.name] > 0 \/ \E t \in Threads : at[t] \in {"warned", "mark"} /\ Name(t) = s.name
    BY DEF DropsMetered
  <2>1. s \in SampleType
    BY <1>2 DEF AllGone
  <2>2. s.name \in Names
    BY <2>1, SampleFields
  <2>3. Metered(s.name)
    BY <2>2 DEF OtelIInv, Meters, Full1
  <2> QED BY <2>3 DEF Metered, Marking
<1> QED BY <1>3, <1>4, <1>5, <1>6 DEF OtelInv

LEMMA OtelStart == OtelInit => OtelIInv
<1> SUFFICES ASSUME OtelInit PROVE OtelIInv
  OBVIOUS
<1>1. OtelControl
  <2>1. <<>> \in Seq(Messages)
    OBVIOUS
  <2> QED BY <2>1, OtelAssumption DEF OtelInit, OtelControl, OtelPlaces
<1>2. Holds
  BY DEF OtelInit, Holds
<1>3. Dropping
  BY DEF OtelInit, Dropping
<1>4. Meters
  BY DEF OtelInit, Meters, Full1
<1>5. Book
  <2>1. /\ \A t \in Threads : res[t] = <<>> /\ made[t] = 0
        /\ \A n \in Names : inputs[n] = <<>>
        /\ observed = <<>> /\ lastMetadata = 0
    BY DEF OtelInit
  <2>2. AllGone = {}
    BY DEF OtelInit, AllGone
  <2>3. <<>> \in Seq(SampleType) /\ Len(<<>>) = 0 /\ DOMAIN <<>> = {} /\ ToSet(<<>>) = {}
    BY DEF ToSet
  <2>4. TypesOf(res, inputs, observed, AllGone, made, lastMetadata)
    <3>1. res \in [Threads -> Seq(SampleType)] /\ inputs \in [Names -> Seq(SampleType)] /\ made \in [Threads -> Nat]
      BY <2>3 DEF OtelInit
    <3>2. inputs \in Channels
      BY <2>1, <2>3, <3>1, OtelAssumption DEF Channels
    <3>3. IsFiniteSet(AllGone) /\ AllGone \in SUBSET SampleType
      BY <2>2, FS_EmptySet
    <3> QED BY <2>1, <2>3, <3>1, <3>2, <3>3 DEF TypesOf
  <2>5. OrderOf(res, inputs, observed, AllGone, made, lastMetadata)
    <3>1. HeldInOrder(res, made, lastMetadata)
      BY <2>1, <2>3 DEF HeldInOrder, InOrder
    <3>2. WaitInOrder(inputs, res, made, lastMetadata)
      BY <2>1, <2>3 DEF WaitInOrder, InOrder
    <3>3. SeenInOrder(observed, inputs, res, made, lastMetadata)
      BY <2>1, <2>3 DEF SeenInOrder
    <3>4. LostForGood(AllGone, inputs, res, made, lastMetadata)
      BY <2>2 DEF LostForGood
    <3> QED BY <3>1, <3>2, <3>3, <3>4 DEF OrderOf
  <2>6. CountOf(res, inputs, observed, AllGone, made)
    <3> SUFFICES ASSUME NEW t \in Threads
                 PROVE  made[t] = Len(res[t]) + Cardinality(Ons(observed, t)) + Cardinality(Waiting(inputs, t))
                                  + Cardinality(Of(AllGone, t))
      BY DEF CountOf
    <3>1. Ons(observed, t) = {} /\ Waiting(inputs, t) = {} /\ Of(AllGone, t) = {}
      BY <2>1, <2>2, <2>3 DEF Ons, Waiting, Of
    <3>2. Cardinality({}) = 0
      BY FS_EmptySet
    <3>3. 0 = 0 + 0 + 0 + 0
      OBVIOUS
    <3>4. made[t] = 0 /\ Len(res[t]) = 0
      BY <2>1, <2>3
    <3> QED BY <3>1, <3>2, <3>3, <3>4, Zenon
  <2> QED BY <2>4, <2>5, <2>6 DEF Book, Ledger
<1> QED BY <1>1, <1>2, <1>3, <1>4, <1>5 DEF OtelIInv

\* What is lost is lost for one reason.
LEMMA LoseIs ==
  ASSUME Dropping, NEW S
  PROVE  /\ Lose("dropped", S) => /\ gone' = [dropped |-> gone.dropped \cup S, replaced |-> gone.replaced, failed |-> gone.failed]
                                  /\ AllGone' = AllGone \cup S
         /\ Lose("replaced", S) => /\ gone' = [dropped |-> gone.dropped, replaced |-> gone.replaced \cup S, failed |-> gone.failed]
                                   /\ AllGone' = AllGone \cup S
         /\ Lose("failed", S) => /\ gone' = [dropped |-> gone.dropped, replaced |-> gone.replaced, failed |-> gone.failed \cup S]
                                 /\ AllGone' = AllGone \cup S
<1>1. gone = [dropped |-> gone.dropped, replaced |-> gone.replaced, failed |-> gone.failed]
  BY DEF Dropping
<1>2. ASSUME Lose("dropped", S)
      PROVE  gone' = [dropped |-> gone.dropped \cup S, replaced |-> gone.replaced, failed |-> gone.failed]
  BY <1>1, <1>2 DEF Lose
<1>3. ASSUME Lose("replaced", S)
      PROVE  gone' = [dropped |-> gone.dropped, replaced |-> gone.replaced \cup S, failed |-> gone.failed]
  BY <1>1, <1>3 DEF Lose
<1>4. ASSUME Lose("failed", S)
      PROVE  gone' = [dropped |-> gone.dropped, replaced |-> gone.replaced, failed |-> gone.failed \cup S]
  BY <1>1, <1>4 DEF Lose
<1> QED BY <1>2, <1>3, <1>4 DEF AllGone

\* A name stays metered: marks only grow, and who is about to mark a name
\* keeps its sample until it has.
LEMMA MetersStay ==
  ASSUME Meters, marks \in [Names -> Nat], marks' \in [Names -> Nat], \A n \in Names : marks'[n] >= marks[n],
         \A u \in Threads : Marking(u) => (Marking(u)' /\ Name(u)' = Name(u)) \/ marks'[Name(u)] > 0,
         \A n \in Names : Full1(n)' => Full1(n) \/ Metered(n)'
  PROVE  Meters'
<1> SUFFICES ASSUME NEW n \in Names, Full1(n)' PROVE Metered(n)'
  BY DEF Meters
<1>1. CASE Metered(n)'
  BY <1>1
<1>2. CASE Metered(n)
  <2>1. CASE marks[n] > 0
    BY <2>1 DEF Metered
  <2>2. ASSUME NEW u \in Threads, Marking(u), Name(u) = n PROVE Metered(n)'
    BY <2>2 DEF Metered
  <2> QED BY <1>2, <2>1, <2>2 DEF Metered
<1> QED BY <1>1, <1>2 DEF Meters

\* Steps of a thread that move no sample.
QuietOtel(t) == RLock(t) \/ Lock(t) \/ MeetMetadata(t) \/ Translated(t) \/ LookUp(t) \/ GaugeMade(t)
                \/ MeetFull(t) \/ BatchDone(t) \/ \E b \in SeqOf(Messages, MaxMsgs) : To(t, b)

LEMMA QuietControl ==
  ASSUME OtelIInv, NEW t \in Threads, QuietOtel(t)
  PROVE  OtelControl' /\ Holds'
<1> USE DEF OtelIInv, OtelControl, OtelPlaces, Holds, Goto, RUnlock, mapVars
<1>1. CASE RLock(t)
  BY <1>1 DEF RLock, RLockThen
<1>2. CASE Lock(t)
  BY <1>2 DEF Lock
<1>3. CASE MeetMetadata(t)
  BY <1>3 DEF MeetMetadata
<1>4. CASE Translated(t)
  BY <1>4 DEF Translated
<1>5. CASE LookUp(t)
  BY <1>5 DEF LookUp
<1>6. CASE GaugeMade(t)
  BY <1>6 DEF GaugeMade
<1>7. CASE MeetFull(t)
  BY <1>7 DEF MeetFull, Full
<1>8. CASE BatchDone(t)
  BY <1>8 DEF BatchDone
<1>9. ASSUME NEW b \in SeqOf(Messages, MaxMsgs), To(t, b) PROVE OtelControl' /\ Holds'
  <2>1. b \in Seq(Messages)
    <3>1. PICK m \in 0..MaxMsgs : b \in [1..m -> Messages]
      BY DEF SeqOf
    <3>2. m \in Nat
      BY OtelAssumption
    <3> HIDE DEF Messages
    <3> QED BY <3>1, <3>2
  <2> QED BY <1>9, <2>1, OtelAssumption DEF To
<1> QED BY <1>1, <1>2, <1>3, <1>4, <1>5, <1>6, <1>7, <1>8, <1>9 DEF QuietOtel

LEMMA QuietKeeps ==
  ASSUME OtelIInv, NEW t \in Threads, QuietOtel(t)
  PROVE  OtelIInv'
<1>0. OtelControl' /\ Holds'
  BY QuietControl
<1>1. UNCHANGED <<noBlock, res, made, vecs, inputs, warnFull, marks, lastMetadata, observed, gone>>
  BY DEF QuietOtel, RLock, Lock, MeetMetadata, Translated, LookUp, GaugeMade, MeetFull, BatchDone, To, mapVars
<1>2. Book'
  BY <1>1 DEF OtelIInv, Book, AllGone
<1>3. Dropping'
  BY <1>1, Zenon DEF OtelIInv, Dropping
<1>4. \A u \in Threads : Marking(u) => Marking(u)'
  BY DEF OtelIInv, OtelControl, QuietOtel, RLock, RLockThen, Lock, MeetMetadata, Translated, LookUp, GaugeMade,
         MeetFull, Full, BatchDone, To, Goto, Marking
<1>5. Meters'
  <2>1. marks \in [Names -> Nat] /\ \A n \in Names : marks[n] >= marks[n]
    BY DEF OtelIInv, OtelControl
  <2>2. \A u \in Threads : Name(u)' = Name(u)
    BY <1>1 DEF Name
  <2>3. \A n \in Names : Full1(n)' => Full1(n)
    BY <1>1 DEF Full1
  <2>4. Meters
    BY DEF OtelIInv
  <2> QED BY <1>1, <1>4, <2>1, <2>2, <2>3, <2>4, MetersStay
<1> QED BY <1>0, <1>2, <1>3, <1>5 DEF OtelIInv

\* The types of the samples.
LEMMA SampleTypes ==
  ASSUME OtelIInv
  PROVE  /\ res \in [Threads -> Seq(SampleType)] /\ inputs \in [Names -> Seq(SampleType)]
         /\ made \in [Threads -> Nat] /\ lastMetadata \in Sizes \cup {0}
         /\ \A t \in Threads : res[t] # <<>> => Head(res[t]) \in SampleType /\ Name(t) \in Names
<1>1. res \in [Threads -> Seq(SampleType)] /\ inputs \in [Names -> Seq(SampleType)]
      /\ made \in [Threads -> Nat] /\ lastMetadata \in Sizes \cup {0}
  BY DEF OtelIInv, Book, Ledger, TypesOf, Channels
<1>2. ASSUME NEW t \in Threads, res[t] # <<>> PROVE Head(res[t]) \in SampleType /\ Name(t) \in Names
  <2>1. Head(res[t]) \in SampleType
    BY <1>1, <1>2
  <2> QED BY <2>1, SampleFields DEF Name
<1> QED BY <1>1, <1>2

\* Steps that move samples, drop none and mark no name.
LEMMA MoveMeters ==
  ASSUME OtelIInv, NEW t \in Threads, ~Marking(t), \A u \in Threads : u # t => at'[u] = at[u] /\ res'[u] = res[u],
         UNCHANGED <<warnFull, marks>>, gone'.dropped = gone.dropped
  PROVE  Meters'
<1>1. marks \in [Names -> Nat] /\ \A n \in Names : marks[n] >= marks[n]
  BY DEF OtelIInv, OtelControl
<1>2. \A u \in Threads : Marking(u) => Marking(u)' /\ Name(u)' = Name(u)
  BY DEF Name, Marking
<1>3. \A n \in Names : Full1(n)' => Full1(n)
  BY DEF Full1
<1>4. Meters
  BY DEF OtelIInv
<1> QED BY <1>1, <1>2, <1>3, <1>4, MetersStay

LEMMA TranslateKeeps ==
  ASSUME OtelIInv, NEW t \in Threads, TranslateMetric(t)
  PROVE  OtelIInv'
<1>0. /\ at[t] = "translate" /\ todo[t] # <<>> /\ Head(todo[t]).kind = "metric"
      /\ todo' = [todo EXCEPT ![t] = Tail(@)] /\ made' = [made EXCEPT ![t] = @ + 1]
      /\ res' = [res EXCEPT ![t] = Append(@, [by |-> t, nr |-> made[t] + 1, name |-> Head(todo[t]).name, attrs |-> lastMetadata])]
      /\ UNCHANGED <<noBlock, at, batches, readers, writer, vecs, inputs, warnFull, marks, lastMetadata, observed, gone>>
  BY DEF TranslateMetric, mapVars
<1>1. res \in [Threads -> Seq(SampleType)]
  BY SampleTypes
<1>2. OtelControl'
  BY <1>0 DEF OtelIInv, OtelControl
<1>3. Holds'
  BY <1>0, <1>1 DEF OtelIInv, OtelControl, Holds
<1>4. Dropping'
  BY <1>0, Zenon DEF OtelIInv, Dropping
<1>5. Meters'
  <2>1. ~Marking(t)
    BY <1>0 DEF Marking
  <2>2. \A u \in Threads : u # t => at'[u] = at[u] /\ res'[u] = res[u]
    BY <1>0, <1>1
  <2> QED BY <1>0, <2>1, <2>2, MoveMeters
<1>6. Head(todo[t]).name \in Names
  <2>1. Head(todo[t]) \in Messages
    BY <1>0 DEF OtelIInv, OtelControl
  <2> QED BY <1>0, <2>1 DEF Messages, Metric, Metadata
<1>7. Book'
  <2>1. Ledger(res', inputs, observed, AllGone, made', lastMetadata)
    BY <1>0, <1>6, LedgerMade DEF OtelIInv, Book
  <2> QED BY <1>0, <2>1 DEF Book, AllGone
<1> QED BY <1>2, <1>3, <1>4, <1>5, <1>7 DEF OtelIInv

LEMMA SetMetadataKeeps ==
  ASSUME OtelIInv, NEW t \in Threads, SetMetadata(t)
  PROVE  OtelIInv'
<1>0. /\ at[t] = "metadata" /\ at' = [at EXCEPT ![t] = "translate"] /\ writer' = NoThread
      /\ lastMetadata' = IF Newer(Head(todo[t]).size) THEN Head(todo[t]).size ELSE lastMetadata
      /\ todo' = [todo EXCEPT ![t] = Tail(@)]
      /\ UNCHANGED <<noBlock, res, batches, made, readers, vecs, inputs, warnFull, marks, observed, gone>>
  BY DEF SetMetadata, Goto, Locked
<1>1. todo[t] # <<>> /\ Head(todo[t]).kind = "metadata" /\ todo[t] \in Seq(Messages)
  BY <1>0 DEF OtelIInv, OtelControl, Holds
<1>2. OtelControl'
  BY <1>0, <1>1 DEF OtelIInv, OtelControl, OtelPlaces
<1>3. Holds'
  BY <1>0 DEF OtelIInv, OtelControl, Holds
<1>4. Dropping'
  BY <1>0, Zenon DEF OtelIInv, Dropping
<1>5. Meters'
  <2>1. ~Marking(t)
    BY <1>0 DEF Marking
  <2>2. \A u \in Threads : u # t => at'[u] = at[u] /\ res'[u] = res[u]
    BY <1>0 DEF OtelIInv, OtelControl
  <2> QED BY <1>0, <2>1, <2>2, MoveMeters
<1>6. Head(todo[t]).size \in Sizes
  <2>1. Head(todo[t]) \in Messages
    BY <1>1
  <2> QED BY <1>1, <2>1 DEF Messages, Metric, Metadata
<1>7. Book'
  <2>1. lastMetadata \in Sizes \cup {0}
    BY SampleTypes
  <2>2. lastMetadata' \in Sizes \cup {0} /\ lastMetadata <= lastMetadata'
    <3>1. PICK k : k = Head(todo[t]).size
      OBVIOUS
    <3>2. k \in Nat /\ lastMetadata \in Nat
      <4>1. \A a \in Sizes \cup {0} : a \in Nat
        BY OtelAssumption
      <4> QED BY <1>6, <2>1, <3>1, <4>1, Zenon
    <3> QED BY <1>0, <1>6, <2>1, <3>1, <3>2 DEF Newer
  <2>3. PICK l : l = lastMetadata'
    OBVIOUS
  <2>4. Ledger(res, inputs, observed, AllGone, made, l)
    BY <2>2, <2>3, LedgerGrows DEF OtelIInv, Book
  <2> QED BY <1>0, <2>3, <2>4 DEF Book, AllGone
<1> QED BY <1>2, <1>3, <1>4, <1>5, <1>7 DEF OtelIInv

LEMMA GaugeFailsKeeps ==
  ASSUME OtelIInv, NEW t \in Threads, GaugeFails(t)
  PROVE  OtelIInv'
<1>0. /\ at[t] = "loop" /\ at' = [at EXCEPT ![t] = "idle"] /\ readers' = readers \ {t}
      /\ Lose("failed", ToSet(res[t])) /\ res' = [res EXCEPT ![t] = <<>>]
      /\ UNCHANGED <<noBlock, todo, batches, made, writer, vecs, inputs, warnFull, marks, lastMetadata, observed>>
  BY DEF GaugeFails, Goto, RUnlock, mapVars
<1>1. res \in [Threads -> Seq(SampleType)]
  BY SampleTypes
<1>2. OtelControl'
  BY <1>0 DEF OtelIInv, OtelControl, OtelPlaces
<1>3. Holds'
  BY <1>0, <1>1 DEF OtelIInv, OtelControl, Holds
<1>4. /\ gone' = [dropped |-> gone.dropped, replaced |-> gone.replaced, failed |-> gone.failed \cup ToSet(res[t])]
      /\ AllGone' = AllGone \cup ToSet(res[t])
  BY <1>0, LoseIs DEF OtelIInv
<1>5. gone'.dropped = gone.dropped
  BY <1>4
<1>6. Dropping'
  <2>1. noBlock' \in BOOLEAN /\ (~noBlock' => gone'.dropped = {})
    BY <1>0, <1>5, Zenon DEF OtelIInv, Dropping
  <2>2. gone' = [dropped |-> gone'.dropped, replaced |-> gone'.replaced, failed |-> gone'.failed]
    BY <1>4
  <2> QED BY <2>1, <2>2, Zenon DEF Dropping
<1>7. Meters'
  <2>1. ~Marking(t)
    BY <1>0 DEF Marking
  <2>2. \A u \in Threads : u # t => at'[u] = at[u] /\ res'[u] = res[u]
    BY <1>0, <1>1 DEF OtelIInv, OtelControl
  <2> QED BY <1>0, <1>5, <2>1, <2>2, MoveMeters
<1>8. Book'
  <2>1. Ledger(res', inputs, observed, AllGone \cup ToSet(res[t]), made, lastMetadata)
    BY <1>0, LedgerFailed DEF OtelIInv, Book
  <2> QED BY <1>0, <1>4, <2>1 DEF Book
<1> QED BY <1>2, <1>3, <1>6, <1>7, <1>8 DEF OtelIInv

LEMMA RegisterKeeps ==
  ASSUME OtelIInv, NEW t \in Threads, Register(t)
  PROVE  OtelIInv'
<1>0. /\ at[t] = "register" /\ at' = [at EXCEPT ![t] = "registered"] /\ writer' = NoThread
      /\ vecs' = vecs \cup {Name(t)} /\ inputs' = [inputs EXCEPT ![Name(t)] = <<>>]
      /\ Lose("replaced", ToSet(inputs[Name(t)]))
      /\ UNCHANGED <<noBlock, todo, res, batches, made, readers, warnFull, marks, lastMetadata, observed>>
  BY DEF Register, Goto, Locked
<1>1. Name(t) \in Names
  BY <1>0, SampleTypes DEF OtelIInv, Holds
<1>2. OtelControl'
  BY <1>0, <1>1 DEF OtelIInv, OtelControl, OtelPlaces
<1>3. Holds'
  BY <1>0 DEF OtelIInv, OtelControl, Holds
<1>4. /\ gone' = [dropped |-> gone.dropped, replaced |-> gone.replaced \cup ToSet(inputs[Name(t)]), failed |-> gone.failed]
      /\ AllGone' = AllGone \cup ToSet(inputs[Name(t)])
  BY <1>0, LoseIs DEF OtelIInv
<1>5. gone'.dropped = gone.dropped
  BY <1>4
<1>6. Dropping'
  <2>1. noBlock' \in BOOLEAN /\ (~noBlock' => gone'.dropped = {})
    BY <1>0, <1>5, Zenon DEF OtelIInv, Dropping
  <2>2. gone' = [dropped |-> gone'.dropped, replaced |-> gone'.replaced, failed |-> gone'.failed]
    BY <1>4
  <2> QED BY <2>1, <2>2, Zenon DEF Dropping
<1>7. Meters'
  <2>1. ~Marking(t)
    BY <1>0 DEF Marking
  <2>2. \A u \in Threads : u # t => at'[u] = at[u] /\ res'[u] = res[u]
    BY <1>0 DEF OtelIInv, OtelControl
  <2> QED BY <1>0, <1>5, <2>1, <2>2, MoveMeters
<1>8. Book'
  <2>1. Ledger(res, inputs', observed, AllGone \cup ToSet(inputs[Name(t)]), made, lastMetadata)
    BY <1>0, <1>1, LedgerReplaced DEF OtelIInv, Book
  <2> QED BY <1>0, <1>4, <2>1 DEF Book
<1> QED BY <1>2, <1>3, <1>6, <1>7, <1>8 DEF OtelIInv

LEMMA SendKeeps ==
  ASSUME OtelIInv, NEW t \in Threads, Send(t)
  PROVE  OtelIInv'
<1>0. /\ at[t] = "send" /\ at' = [at EXCEPT ![t] = "loop"] /\ Len(inputs[Name(t)]) < ChanSlack
      /\ inputs' = [inputs EXCEPT ![Name(t)] = Append(@, Head(res[t]))] /\ res' = [res EXCEPT ![t] = Tail(@)]
      /\ UNCHANGED <<noBlock, todo, batches, made, readers, writer, vecs, warnFull, marks, lastMetadata, observed, gone>>
  BY DEF Send, Goto, Next1
<1>1. res \in [Threads -> Seq(SampleType)] /\ res[t] # <<>>
  BY <1>0, SampleTypes DEF OtelIInv, Holds
<1>2. OtelControl'
  BY <1>0 DEF OtelIInv, OtelControl, OtelPlaces
<1>3. Holds'
  BY <1>0, <1>1 DEF OtelIInv, OtelControl, Holds
<1>4. Dropping'
  BY <1>0, Zenon DEF OtelIInv, Dropping
<1>5. Meters'
  <2>1. ~Marking(t)
    BY <1>0 DEF Marking
  <2>2. \A u \in Threads : u # t => at'[u] = at[u] /\ res'[u] = res[u]
    BY <1>0, <1>1 DEF OtelIInv, OtelControl
  <2> QED BY <1>0, <2>1, <2>2, MoveMeters
<1>6. Book'
  <2>1. Ledger(res', inputs', observed, AllGone, made, lastMetadata)
    BY <1>0, <1>1, LedgerSent DEF OtelIInv, Book, Name
  <2> QED BY <1>0, <2>1 DEF Book, AllGone
<1> QED BY <1>2, <1>3, <1>4, <1>5, <1>6 DEF OtelIInv

LEMMA WarnKeeps ==
  ASSUME OtelIInv, NEW t \in Threads, Warn(t)
  PROVE  OtelIInv'
<1>0. /\ at[t] = "warn" /\ at' = [at EXCEPT ![t] = "warned"] /\ writer' = NoThread
      /\ warnFull' = warnFull \cup {Name(t)}
      /\ UNCHANGED <<noBlock, todo, res, batches, made, readers, vecs, inputs, marks, lastMetadata, observed, gone>>
  BY DEF Warn, Goto, Locked
<1>1. Name(t) \in Names
  BY <1>0, SampleTypes DEF OtelIInv, Holds
<1>2. OtelControl'
  BY <1>0, <1>1 DEF OtelIInv, OtelControl, OtelPlaces
<1>3. Holds'
  BY <1>0 DEF OtelIInv, OtelControl, Holds
<1>4. Dropping'
  BY <1>0, Zenon DEF OtelIInv, Dropping
<1>5. Meters'
  <2>1. marks \in [Names -> Nat] /\ \A n \in Names : marks[n] >= marks[n]
    BY DEF OtelIInv, OtelControl
  <2>2. \A u \in Threads : Name(u)' = Name(u)
    BY <1>0 DEF Name
  <2>3. Marking(t)' /\ \A u \in Threads : Marking(u) => Marking(u)'
    BY <1>0 DEF OtelIInv, OtelControl, Marking
  <2>4. ASSUME NEW n \in Names, Full1(n)' PROVE Full1(n) \/ Metered(n)'
    <3>1. CASE n = Name(t)
      BY <2>2, <2>3, <3>1 DEF Metered
    <3>2. CASE n # Name(t)
      BY <1>0, <2>4, <3>2 DEF Full1
    <3> QED BY <3>1, <3>2
  <2>5. Meters
    BY DEF OtelIInv
  <2> QED BY <1>0, <2>1, <2>2, <2>3, <2>4, <2>5, MetersStay
<1>6. Book'
  BY <1>0 DEF OtelIInv, Book, AllGone
<1> QED BY <1>2, <1>3, <1>4, <1>5, <1>6 DEF OtelIInv

\* A thread drops its sample, and its name is metered by then.
LEMMA DropKeeps ==
  ASSUME OtelIInv, NEW t \in Threads, Mark(t) \/ DropQuietly(t)
  PROVE  OtelIInv'
<1>0. /\ at[t] \in {"mark", "send"} /\ at' = [at EXCEPT ![t] = "loop"]
      /\ Lose("dropped", {Head(res[t])}) /\ res' = [res EXCEPT ![t] = Tail(@)]
      /\ UNCHANGED <<noBlock, todo, batches, made, readers, writer, vecs, inputs, warnFull, lastMetadata, observed>>
  BY DEF Mark, DropQuietly, Full, Goto, Next1, mapVars
<1>1. res \in [Threads -> Seq(SampleType)] /\ res[t] # <<>> /\ Name(t) \in Names
  BY <1>0, SampleTypes DEF OtelIInv, Holds
<1>2. /\ marks' \in [Names -> Nat] /\ \A n \in Names : marks'[n] >= marks[n]
      /\ Mark(t) => marks'[Name(t)] > 0
      /\ ~Mark(t) => at[t] = "send" /\ Name(t) \in warnFull /\ marks' = marks
  <2>1. marks \in [Names -> Nat]
    BY DEF OtelIInv, OtelControl
  <2>2. CASE Mark(t)
    <3>1. marks' = [marks EXCEPT ![Name(t)] = @ + 1]
      BY <2>2 DEF Mark
    <3>2. marks[Name(t)] \in Nat
      BY <1>1, <2>1
    <3> QED BY <1>1, <2>1, <2>2, <3>1, <3>2
  <2>3. CASE ~Mark(t)
    <3>1. at[t] = "send" /\ Name(t) \in warnFull /\ marks' = marks
      BY <2>3 DEF DropQuietly, Full, Goto, mapVars
    <3> QED BY <2>1, <2>3, <3>1
  <2> QED BY <2>2, <2>3
<1>3. OtelControl'
  BY <1>0, <1>2 DEF OtelIInv, OtelControl, OtelPlaces
<1>4. Holds'
  BY <1>0, <1>1 DEF OtelIInv, OtelControl, Holds
<1>5. /\ gone' = [dropped |-> gone.dropped \cup {Head(res[t])}, replaced |-> gone.replaced, failed |-> gone.failed]
      /\ AllGone' = AllGone \cup {Head(res[t])}
  BY <1>0, LoseIs DEF OtelIInv
<1>6. gone'.dropped = gone.dropped \cup {Head(res[t])}
  BY <1>5
<1>7. noBlock
  <2>1. CASE Mark(t)
    BY <2>1 DEF Mark, Goto, OtelIInv, Holds
  <2>2. CASE DropQuietly(t)
    BY <2>2 DEF DropQuietly, Full
  <2> QED BY <2>1, <2>2
<1>8. Dropping'
  <2>1. noBlock' \in BOOLEAN /\ noBlock'
    BY <1>0, <1>7, Zenon DEF OtelIInv, Dropping
  <2>2. gone' = [dropped |-> gone'.dropped, replaced |-> gone'.replaced, failed |-> gone'.failed]
    BY <1>5
  <2> QED BY <2>1, <2>2, Zenon DEF Dropping
<1>9. Meters'
  <2>1. marks \in [Names -> Nat]
    BY DEF OtelIInv, OtelControl
  <2>2. \A u \in Threads : u # t => at'[u] = at[u] /\ res'[u] = res[u]
    BY <1>0, <1>1 DEF OtelIInv, OtelControl
  <2>3. Mark(t) \/ ~Marking(t)
    BY <1>2 DEF Marking
  <2>4. \A u \in Threads : Marking(u) => (Marking(u)' /\ Name(u)' = Name(u)) \/ marks'[Name(u)] > 0
    <3> SUFFICES ASSUME NEW u \in Threads, Marking(u)
                 PROVE  (Marking(u)' /\ Name(u)' = Name(u)) \/ marks'[Name(u)] > 0
      OBVIOUS
    <3>1. CASE u = t
      BY <1>2, <2>3, <3>1
    <3>2. CASE u # t
      BY <2>2, <3>2 DEF Marking, Name
    <3> QED BY <3>1, <3>2
  <2>0. PICK m : m = Name(t)
    OBVIOUS
  <2>5. Full1(m) \/ Metered(m)'
    BY <1>2, <2>0 DEF Full1, Metered
  <2>6. \A n \in Names : Full1(n)' => Full1(n) \/ n = m
    BY <1>0, <1>6, <2>0 DEF Full1, Name
  <2>7. Meters
    BY DEF OtelIInv
  <2>8. \A n \in Names : Full1(n)' => Full1(n) \/ Metered(n)'
    BY <2>5, <2>6
  <2> QED BY <1>2, <2>1, <2>4, <2>7, <2>8, MetersStay
<1>10. Book'
  <2>1. Ledger(res', inputs, observed, AllGone \cup {Head(res[t])}, made, lastMetadata)
    BY <1>0, <1>1, LedgerDropped DEF OtelIInv, Book
  <2> QED BY <1>0, <1>5, <2>1 DEF Book
<1> QED BY <1>3, <1>4, <1>8, <1>9, <1>10 DEF OtelIInv

LEMMA CollectKeeps ==
  ASSUME OtelIInv, NEW n \in Names, Collect(n)
  PROVE  OtelIInv'
<1>0. /\ inputs[n] # <<>> /\ observed' = Append(observed, Head(inputs[n]))
      /\ inputs' = [inputs EXCEPT ![n] = Tail(@)]
      /\ UNCHANGED <<noBlock, at, todo, res, batches, made, readers, writer, vecs, warnFull, marks, lastMetadata, gone>>
  BY DEF Collect
<1>1. OtelControl' /\ Holds'
  BY <1>0 DEF OtelIInv, OtelControl, Holds
<1>2. Dropping'
  BY <1>0, Zenon DEF OtelIInv, Dropping
<1>3. Meters'
  BY <1>0 DEF OtelIInv, Meters, Full1, Metered, Marking, Name
<1>4. Book'
  <2>1. Ledger(res, inputs', observed', AllGone, made, lastMetadata)
    BY <1>0, LedgerSeen DEF OtelIInv, Book
  <2> QED BY <1>0, <2>1 DEF Book, AllGone
<1> QED BY <1>1, <1>2, <1>3, <1>4 DEF OtelIInv

\* Every step of the threads and of the SDK keeps the invariant.
LEMMA OtelKept == ASSUME OtelIInv, [OtelNext]_otelVars PROVE OtelIInv'
<1>1. ASSUME NEW t \in Threads, OtelStep(t) PROVE OtelIInv'
  <2>1. CASE QuietOtel(t)
    BY <2>1, QuietKeeps
  <2>2. CASE ~QuietOtel(t)
    BY <1>1, <2>2, TranslateKeeps, SetMetadataKeeps, GaugeFailsKeeps, RegisterKeeps, SendKeeps, WarnKeeps,
       DropKeeps, Zenon DEF OtelStep, QuietOtel
  <2> QED BY <2>1, <2>2
<1>2. ASSUME NEW t \in Threads, NEW b \in SeqOf(Messages, MaxMsgs), To(t, b) PROVE OtelIInv'
  <2>1. QuietOtel(t)
    BY <1>2 DEF QuietOtel
  <2> QED BY <2>1, QuietKeeps
<1>3. ASSUME NEW n \in Names, Collect(n) PROVE OtelIInv'
  BY <1>3, CollectKeeps
<1>4. CASE UNCHANGED otelVars
  <2>0. UNCHANGED <<noBlock, at, todo, res, batches, made, readers, writer, vecs, inputs, warnFull, marks,
                    lastMetadata, observed, gone>>
    BY <1>4 DEF otelVars, mapVars
  <2>1. OtelControl' /\ Holds'
    BY <2>0 DEF OtelIInv, OtelControl, Holds
  <2>2. Dropping'
    BY <2>0, Zenon DEF OtelIInv, Dropping
  <2>3. Meters' /\ Book'
    BY <2>0 DEF OtelIInv, Meters, Full1, Metered, Marking, Name, Book, AllGone
  <2> QED BY <2>1, <2>2, <2>3 DEF OtelIInv
<1> QED BY <1>1, <1>2, <1>3, <1>4 DEF OtelNext

------------------------------------------------------------------------------
(* The edges together.                                                     *)

\* A step of one part leaves the others alone.
LEMMA EachAlone ==
  ASSUME [Next]_vars
  PROVE  /\ [FlowNext]_flowVars /\ [CloudNext]_cloudVars
         /\ [OtelNext]_otelVars /\ [PromNext]_promVars /\ [S3Next]_s3Vars
BY DEF Next, OfFlow, OfVpc, OfOtel, OfProm, OfS3, vars

\* For any number of workers, addresses, flows and queue messages, whatever
\* DNS and SQS answer, whenever the device list is replaced, the cache
\* cleared or the agent stopped: the DNS cache outgrows its limit by no more
\* than its callers, every flow is counted and passed on once under its name,
\* and a queue message is handled once for each delete.
THEOREM InputsAreSound == FairSpec => []InputsInv
<1>1. Init => FlowIInv /\ CloudIInv
  BY FlowStart, CloudStart DEF Init
<1>2. FlowIInv /\ CloudIInv /\ [Next]_vars => FlowIInv' /\ CloudIInv'
  BY EachAlone, FlowStep, CloudStep
<1>3. FlowIInv /\ CloudIInv => InputsInv
  BY FlowIInvEnough, CloudIInvEnough DEF InputsInv
<1> QED BY <1>1, <1>2, <1>3, PTL DEF FairSpec

\* For any number of threads, names, tags, samples and payloads, and every
\* room on a channel, whether exports block or not and whenever the SDK
\* collects: each sample is in one place and the SDK sees those of a thread
\* and a name in the order they were made; a vector is given the labels it
\* was made with and each value under its own; each payload of the S3 sink is
\* in one object, in order.
THEOREM OutputsAreSound == FairSpec => []OutputsInv
<1>1. Init => OtelIInv /\ PromIInv /\ S3IInv
  BY OtelStart, PromStart, S3Start DEF Init
<1>2. OtelIInv /\ PromIInv /\ S3IInv /\ [Next]_vars => OtelIInv' /\ PromIInv' /\ S3IInv'
  BY EachAlone, OtelKept, PromStep, S3Step
<1>3. OtelIInv /\ PromIInv /\ S3IInv => OutputsInv
  BY OtelIInvEnough, PromIInvEnough, S3IInvEnough DEF OutputsInv
<1> QED BY <1>1, <1>2, <1>3, PTL DEF FairSpec
=============================================================================
