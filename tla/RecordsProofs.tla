--------------------------- MODULE RecordsProofs ---------------------------
(***************************************************************************)
(* For every capacity and every set of keys and values: the ring buffer,   *)
(* used by one goroutine, keeps its shape and its map never leads to the   *)
(* value of another key; and the stitcher built on it never pairs flows of *)
(* different keys nor pairs a flow twice, for any number of threads whose  *)
(* calls on the buffer do not overlap. For every configuration, set of     *)
(* flows and order in which Go ranges over a map: a JCHF object exports    *)
(* the values of the flow it carries, and the formats judge, bound and     *)
(* name what they send as they should. For any batches and limits: the sum *)
(* rollup counts each value once, and the cache rollup keeps to its limit  *)
(* by removing its oldest entries.                                         *)
(***************************************************************************)
EXTENDS Records, Rollup, SequenceTheorems, FiniteSetTheorems, WellFoundedInduction, TLAPS

\* The slot after s is a slot.
LEMMA AfterType ==
  ASSUME NEW s \in Slots
  PROVE  /\ After(s) \in Slots
         /\ s + 1 < Capacity => After(s) = s + 1
         /\ s + 1 = Capacity => After(s) = 0
<1>1. Capacity \in Nat /\ Capacity > 0 /\ s \in Nat /\ s < Capacity
  BY RingAssumption DEF Slots
<1>2. CASE s + 1 < Capacity
  <2>1. (s + 1) % Capacity = s + 1
    BY <1>1, <1>2
  <2> QED BY <2>1, <1>1, <1>2 DEF After, Slots
<1>3. CASE s + 1 = Capacity
  <2>1. (s + 1) % Capacity = 0
    BY <1>1, <1>3
  <2> QED BY <2>1, <1>1, <1>3 DEF After, Slots
<1> QED BY <1>1, <1>2, <1>3

RingInv == RingTypeOK /\ RingShape /\ IndexSound

LEMMA RingInitial == RingInit => RingInv
BY RingAssumption DEF RingInit, RingInv, RingTypeOK, RingShape, IndexSound, Contains,
   Slots, NoSlot

\* An update changes the value of its key and of no other.
LEMMA UpdateKeeps ==
  ASSUME RingInv, NEW k \in Keys, NEW v \in Values, Put(k, v), Update(k, v)
  PROVE  RingInv'
<1>1. index[k] \in Slots
  BY DEF Update, Contains, RingInv, RingTypeOK, NoSlot
<1>2. RingTypeOK' /\ RingShape'
  BY <1>1 DEF Update, Put, RingInv, RingTypeOK, RingShape
<1>3. ASSUME NEW j \in Keys, Contains(j)'
      PROVE  (keyAt[index[j]] = j)' /\ (valueAt[index[j]] = last[j])'
  <2>1. Contains(j) /\ index[j] \in Slots
    BY <1>3 DEF Update, Contains, RingInv, RingTypeOK, NoSlot
  <2>2. keyAt[index[j]] = j /\ valueAt[index[j]] = last[j] /\ keyAt[index[k]] = k
    BY <2>1 DEF Update, RingInv, IndexSound
  <2>3. CASE j = k
    BY <2>1, <2>2, <2>3 DEF Update, Put, RingInv, RingTypeOK
  <2>4. CASE j # k
    BY <2>1, <2>2, <2>4 DEF Update, Put, RingInv, RingTypeOK
  <2> QED BY <2>3, <2>4
<1> QED BY <1>2, <1>3 DEF RingInv, IndexSound

\* What an insertion does to the map: the new key is at tail, every other key
\* that is still there is where it was, and it is not at tail.
LEMMA InsertIndex ==
  ASSUME RingInv, NEW k \in Keys, NEW v \in Values, Insert(k, v)
  PROVE  /\ index' \in [Keys -> Slots \cup {NoSlot}]
         /\ index'[k] = tail
         /\ \A j \in Keys \ {k} : Contains(j)' =>
              Contains(j) /\ index'[j] = index[j] /\ index[j] # tail
<1>1. tail \in Slots /\ head \in Slots /\ index \in [Keys -> Slots \cup {NoSlot}]
  BY DEF RingInv, RingTypeOK
<1>2. CASE size = Capacity
  <2>1. tail = head
    BY <1>2 DEF RingInv, RingShape
  <2>2. index' = [Evicted(keyAt[head]) EXCEPT ![k] = tail]
    BY <1>2 DEF Insert, Place
  <2>3. Evicted(keyAt[head]) \in [Keys -> Slots \cup {NoSlot}]
    BY <1>1 DEF Evicted
  <2>4. ASSUME NEW j \in Keys \ {k}, Contains(j)'
        PROVE  Contains(j) /\ index'[j] = index[j] /\ index[j] # tail
    <3>1. index'[j] = Evicted(keyAt[head])[j] /\ index'[j] # NoSlot
      BY <2>2, <2>3, <2>4 DEF Contains
    <3>2. j # keyAt[head] /\ index'[j] = index[j]
      BY <3>1 DEF Evicted
    <3>3. Contains(j) /\ keyAt[index[j]] = j
      BY <3>1, <3>2 DEF Contains, RingInv, IndexSound
    <3> QED BY <3>2, <3>3, <2>1
  <2> QED BY <2>2, <2>3, <2>4, <1>1
<1>3. CASE size # Capacity
  <2>1. tail = size /\ index' = [index EXCEPT ![k] = tail]
    BY <1>3 DEF Insert, Place, RingInv, RingShape
  <2>2. ASSUME NEW j \in Keys \ {k}, Contains(j)'
        PROVE  Contains(j) /\ index'[j] = index[j] /\ index[j] # tail
    <3>1. Contains(j) /\ index'[j] = index[j]
      BY <2>1, <2>2, <1>1 DEF Contains
    <3>2. keyAt[index[j]] = j
      BY <3>1 DEF RingInv, IndexSound
    <3>3. keyAt[tail] = NoKey
      BY <2>1, <1>1 DEF RingInv, RingShape, RingTypeOK, Slots
    <3> QED BY <3>1, <3>2, <3>3, RingAssumption
  <2> QED BY <2>1, <2>2, <1>1
<1> QED BY <1>2, <1>3

LEMMA InsertKeeps ==
  ASSUME RingInv, NEW k \in Keys, NEW v \in Values, Put(k, v), Insert(k, v)
  PROVE  RingInv'
<1>1. /\ tail \in Slots /\ head \in Slots /\ size \in 0 .. Capacity
      /\ keyAt \in [Slots -> Keys \cup {NoKey}]
      /\ valueAt \in [Slots -> Values \cup {NoValue}]
      /\ last \in [Keys -> Values \cup {NoValue}]
  BY DEF RingInv, RingTypeOK
<1>2. /\ keyAt' = [keyAt EXCEPT ![tail] = k]
      /\ valueAt' = [valueAt EXCEPT ![tail] = v]
      /\ last' = [last EXCEPT ![k] = v]
      /\ tail' = After(tail)
  BY DEF Insert, Place, Put
<1>3. size' \in 0 .. Capacity /\ head' \in Slots /\ tail' \in Slots /\ RingShape'
  <2>1. CASE size = Capacity
    <3>1. tail = head /\ tail' = head' /\ size' = Capacity /\ head' \in Slots
      BY <2>1, <1>1, <1>2, AfterType DEF Insert, Place, RingInv, RingShape
    <3>2. \A s \in Slots : ~(s >= Capacity)
      BY RingAssumption DEF Slots
    <3> QED BY <3>1, <3>2, <1>1, RingAssumption DEF RingShape
  <2>2. CASE size # Capacity
    <3>1. head' = 0 /\ size' = size + 1 /\ tail = size /\ size < Capacity
      BY <2>2, <1>1, RingAssumption DEF Insert, Place, RingInv, RingShape
    <3>2. /\ tail' = IF size' = Capacity THEN head' ELSE size'
          /\ tail' \in Slots /\ head' \in Slots /\ size' \in 0 .. Capacity
      BY <3>1, <1>1, <1>2, AfterType, RingAssumption DEF Slots
    <3>3. ASSUME NEW s \in Slots, s >= size'
          PROVE  keyAt'[s] = NoKey
      <4>1. s # tail /\ s >= size
        BY <3>1, <3>3, <1>1 DEF Slots
      <4> QED BY <4>1, <1>1, <1>2 DEF RingInv, RingShape
    <3> QED BY <3>1, <3>2, <3>3 DEF RingShape
  <2> QED BY <2>1, <2>2
<1>4. RingTypeOK'
  BY <1>1, <1>2, <1>3, InsertIndex DEF RingTypeOK
<1>5. ASSUME NEW j \in Keys, Contains(j)'
      PROVE  (keyAt[index[j]] = j)' /\ (valueAt[index[j]] = last[j])'
  <2>1. CASE j = k
    BY <2>1, <1>1, <1>2, InsertIndex
  <2>2. CASE j # k
    <3>1. Contains(j) /\ index'[j] = index[j] /\ index[j] # tail
      BY <1>5, <2>2, InsertIndex
    <3>2. index[j] \in Slots /\ keyAt[index[j]] = j /\ valueAt[index[j]] = last[j]
      BY <3>1 DEF RingInv, RingTypeOK, IndexSound, Contains
    <3> QED BY <3>1, <3>2, <1>1, <1>2, <2>2
  <2> QED BY <2>1, <2>2
<1> QED BY <1>3, <1>4, <1>5 DEF RingInv, IndexSound

LEMMA PutKeeps ==
  ASSUME RingInv, NEW k \in Keys, NEW v \in Values, Put(k, v)
  PROVE  RingInv'
BY UpdateKeeps, InsertKeeps DEF Put

LEMMA DeleteKeeps ==
  ASSUME RingInv, NEW k \in Keys, Delete(k)
  PROVE  RingInv'
<1>1. RingTypeOK' /\ RingShape'
  BY DEF RingInv, RingTypeOK, RingShape, Delete
<1>2. ASSUME NEW j \in Keys, Contains(j)'
      PROVE  (keyAt[index[j]] = j)' /\ (valueAt[index[j]] = last[j])'
  <2>1. Contains(j) /\ index'[j] = index[j]
    BY <1>2 DEF Contains, Delete, RingInv, RingTypeOK
  <2> QED BY <2>1 DEF Delete, RingInv, IndexSound
<1> QED BY <1>1, <1>2 DEF RingInv, IndexSound

LEMMA RingStutter == RingInv /\ UNCHANGED ringVars => RingInv'
BY DEF RingInv, RingTypeOK, RingShape, IndexSound, Contains, ringVars

-----------------------------------------------------------------------------
(* The stitcher: what holds whatever overlaps.                             *)

Calling == {"value", "delete", "update", "room", "grow", "oldest", "evict", "head", "write", "link", "tail"}

StitchTypeOK ==
  /\ keyAt \in [Slots -> Keys \cup {NoKey}]
  /\ valueAt \in [Slots -> Values \cup {NoValue}]
  /\ index \in [Keys -> Slots \cup {NoSlot}]
  /\ head \in Slots /\ tail \in Slots /\ size \in Nat
  /\ pc \in [Threads -> {"out", "between"} \cup Calling]
  /\ mine \in [Threads -> Values \cup {NoValue}]
  /\ spot \in [Threads -> Int]
  /\ got \in [Threads -> Values \cup {NoValue} \cup Keys \cup {NoKey}]
  /\ keyOf \in [Values -> Keys \cup {NoKey}]
  /\ mate \in [Values -> Values \cup {NoValue}]
  /\ flows \in 0 .. MaxFlows
  /\ overlapped \in BOOLEAN

\* What a thread has read is of the kind it takes it for.
ReadOK ==
  \A t \in Threads :
    /\ pc[t] \in {"value", "update", "evict", "head", "link", "tail"} => spot[t] \in Slots
    /\ pc[t] = "grow" => spot[t] \in Nat
    /\ pc[t] = "delete" => got[t] \in Values \cup {NoValue}

\* A thread has a flow of its own, that no other has and that has no mate yet.
OwnFlow ==
  \A t \in Threads :
    IF pc[t] = "out" THEN mine[t] = NoValue
    ELSE /\ mine[t] \in Values /\ mine[t] <= flows /\ keyOf[mine[t]] \in Keys
         /\ mate[mine[t]] = NoValue
         /\ \A u \in Threads : u # t => mine[u] # mine[t]

\* A flow that has found no snapshot, and will not: its own may be left.
Left(f) ==
  /\ f \in Values /\ f <= flows /\ mate[f] = NoValue
  /\ \A t \in Threads : mine[t] = f => pc[t] \notin {"value", "delete"}

AllLeft ==
  /\ \A s \in Slots : valueAt[s] # NoValue => Left(valueAt[s])
  /\ \A t \in Threads : pc[t] = "delete" /\ got[t] # NoValue => Left(got[t])
  /\ \A f \in Values : mate[f] # NoValue => Left(mate[f])

\* A flow not seen yet has no mate.
Unseen == \A f \in Values : f > flows => mate[f] = NoValue

FreeInv == StitchTypeOK /\ ReadOK /\ OwnFlow /\ AllLeft /\ Unseen

LEMMA FreeInitial == StitchInit => FreeInv
<1> SUFFICES ASSUME StitchInit PROVE FreeInv
  OBVIOUS
<1>1. NoSlot \in Int /\ 0 \in Slots /\ 0 \in 0 .. MaxFlows
  BY RingAssumption, StitchAssumption DEF Slots, NoSlot
<1>2. StitchTypeOK
  BY <1>1 DEF StitchInit, RingInit, StitchTypeOK
<1>3. ReadOK /\ OwnFlow
  BY DEF StitchInit, ReadOK, OwnFlow
<1>4. AllLeft /\ Unseen
  BY DEF StitchInit, RingInit, AllLeft, Unseen
<1> QED BY <1>2, <1>3, <1>4 DEF FreeInv

\* Types, whatever a thread does inside Put.
LEMMA PutStepTypes ==
  ASSUME FreeInv, NEW t \in Threads, PutStep(t)
  PROVE  StitchTypeOK' /\ ReadOK'
<1>1. /\ StitchTypeOK /\ ReadOK
      /\ \A s \in Slots : After(s) \in Slots
      /\ pc[t] # "out" => mine[t] \in Values /\ keyOf[mine[t]] \in Keys
      /\ Slots \subseteq Int /\ NoSlot \in Int /\ NoSlot \notin Slots
  BY AfterType, RingAssumption DEF FreeInv, OwnFlow, Slots, NoSlot
<1>2. CASE PutStart(t)
  BY <1>1, <1>2 DEF PutStart, Begins, Reads, KeyOf, Contains, ringVars, StitchTypeOK, ReadOK, Calling
<1>3. CASE UpdateSlot(t)
  BY <1>1, <1>3 DEF UpdateSlot, Return, StitchTypeOK, ReadOK, Calling
<1>4. CASE Room(t)
  BY <1>1, <1>4 DEF Room, Step, Reads, dataVars, StitchTypeOK, ReadOK, Calling
<1>5. CASE Grow(t)
  <2>1. spot[t] + 1 \in Nat /\ size + 1 \in Nat
    BY <1>1, <1>5 DEF Grow, Step, StitchTypeOK, ReadOK
  <2>2. size' \in Nat
    BY <2>1, <1>5 DEF Grow
  <2> QED BY <1>1, <1>5, <2>2 DEF Grow, Step, dataVars, StitchTypeOK, ReadOK, Calling
<1>6. CASE ReadOldest(t)
  BY <1>1, <1>6 DEF ReadOldest, Step, dataVars, StitchTypeOK, ReadOK, Calling
<1>7. CASE Evict(t)
  BY <1>1, <1>7 DEF Evict, Evicted, Step, dataVars, StitchTypeOK, ReadOK, Calling
<1>8. CASE MoveHead(t)
  BY <1>1, <1>8 DEF MoveHead, Step, dataVars, StitchTypeOK, ReadOK, Calling
<1>9. CASE WriteSlot(t)
  BY <1>1, <1>9 DEF WriteSlot, Step, Reads, KeyOf, StitchTypeOK, ReadOK, Calling
<1>10. CASE Link(t)
  BY <1>1, <1>10 DEF Link, Step, Reads, KeyOf, dataVars, StitchTypeOK, ReadOK, Calling
<1>11. CASE MoveTail(t)
  BY <1>1, <1>11 DEF MoveTail, Return, dataVars, StitchTypeOK, ReadOK, Calling
<1> QED BY <1>2, <1>3, <1>4, <1>5, <1>6, <1>7, <1>8, <1>9, <1>10, <1>11 DEF PutStep

\* What a step of Put does to the flows: nothing, but that the thread may be done
\* with its own and may have written its snapshot.
LEMMA PutStepFlows ==
  ASSUME FreeInv, NEW t \in Threads, PutStep(t)
  PROVE  /\ keyOf' = keyOf /\ mate' = mate /\ flows' = flows
         /\ pc[t] \notin {"out", "value", "delete"} /\ pc'[t] \notin {"value", "delete"}
         /\ \A u \in Threads : u # t => pc'[u] = pc[u] /\ mine'[u] = mine[u] /\ got'[u] = got[u]
         /\ mine'[t] = IF pc'[t] = "out" THEN NoValue ELSE mine[t]
         /\ \A s \in Slots : valueAt'[s] \in {valueAt[s], mine[t]}
<1>1. /\ StitchTypeOK /\ \A q : [pc EXCEPT ![t] = q][t] = q
      /\ \A q : \A u \in Threads : u # t => [pc EXCEPT ![t] = q][u] = pc[u]
      /\ mine \in [Threads -> Values \cup {NoValue}] /\ spot \in [Threads -> Int]
      /\ got \in [Threads -> Values \cup {NoValue} \cup Keys \cup {NoKey}]
      /\ valueAt \in [Slots -> Values \cup {NoValue}]
  BY DEF FreeInv, StitchTypeOK
<1>2. CASE PutStart(t)
  <2>1. /\ \E q \in {"update", "room"} : pc' = [pc EXCEPT ![t] = q]
        /\ got' = got /\ pc[t] = "between" /\ mine' = mine /\ keyOf' = keyOf /\ mate' = mate /\ flows' = flows
        /\ valueAt' = valueAt
    BY <1>2 DEF PutStart, Reads, ringVars
  <2>2. PICK q \in {"update", "room"} : pc' = [pc EXCEPT ![t] = q]
    BY <2>1
  <2>3. pc'[t] = q /\ \A u \in Threads : u # t => pc'[u] = pc[u]
    BY <1>1, <2>2
  <2> QED BY <1>1, <2>1, <2>3
<1>3. CASE UpdateSlot(t)
  BY <1>1, <1>3 DEF UpdateSlot, Return
<1>4. CASE Room(t)
  <2>1. /\ \E q \in {"grow", "oldest"} : pc' = [pc EXCEPT ![t] = q]
        /\ got' = got /\ pc[t] = "room" /\ mine' = mine /\ keyOf' = keyOf /\ mate' = mate /\ flows' = flows
        /\ valueAt' = valueAt
    BY <1>4 DEF Room, Step, Reads, dataVars
  <2>2. PICK q \in {"grow", "oldest"} : pc' = [pc EXCEPT ![t] = q]
    BY <2>1
  <2>3. pc'[t] = q /\ \A u \in Threads : u # t => pc'[u] = pc[u]
    BY <1>1, <2>2
  <2> QED BY <1>1, <2>1, <2>3
<1>5. CASE Grow(t)
  BY <1>1, <1>5 DEF Grow, Step, dataVars
<1>6. CASE ReadOldest(t)
  BY <1>1, <1>6 DEF ReadOldest, Step, dataVars
<1>7. CASE Evict(t)
  BY <1>1, <1>7 DEF Evict, Step, dataVars
<1>8. CASE MoveHead(t)
  BY <1>1, <1>8 DEF MoveHead, Step, dataVars
<1>9. CASE WriteSlot(t)
  BY <1>1, <1>9 DEF WriteSlot, Step, Reads
<1>10. CASE Link(t)
  BY <1>1, <1>10 DEF Link, Step, Reads, dataVars
<1>11. CASE MoveTail(t)
  BY <1>1, <1>11 DEF MoveTail, Return, dataVars
<1> QED BY <1>2, <1>3, <1>4, <1>5, <1>6, <1>7, <1>8, <1>9, <1>10, <1>11 DEF PutStep

LEMMA PutStepFree ==
  ASSUME FreeInv, NEW t \in Threads, PutStep(t)
  PROVE  FreeInv'
<1> USE PutStepFlows
<1>1. StitchTypeOK' /\ ReadOK'
  BY PutStepTypes
<1>2. mine[t] \in Values /\ mine[t] <= flows /\ mate[mine[t]] = NoValue /\ Left(mine[t])
  BY DEF FreeInv, OwnFlow, Left
<1>3. OwnFlow'
  <2>1. ASSUME NEW u \in Threads, pc'[u] # "out"
        PROVE  /\ mine'[u] = mine[u] /\ pc[u] # "out"
               /\ \A w \in Threads : w # u => mine'[w] # mine[u]
    BY <2>1, RingAssumption DEF FreeInv, OwnFlow
  <2>2. ASSUME NEW u \in Threads, pc'[u] = "out"
        PROVE  mine'[u] = NoValue
    BY <2>2 DEF FreeInv, OwnFlow
  <2> QED BY <2>1, <2>2 DEF FreeInv, OwnFlow
<1>4. ASSUME NEW f, Left(f) PROVE Left(f)'
  BY <1>4, RingAssumption DEF Left
<1>5. AllLeft'
  <2>1. ASSUME NEW s \in Slots, valueAt'[s] # NoValue PROVE Left(valueAt'[s])
    BY <2>1, <1>2 DEF FreeInv, AllLeft
  <2>2. ASSUME NEW u \in Threads, pc'[u] = "delete", got'[u] # NoValue PROVE u # t /\ Left(got'[u])
    BY <2>2 DEF FreeInv, AllLeft
  <2>3. (\A s \in Slots : valueAt[s] # NoValue => Left(valueAt[s]))'
    BY <2>1, <1>4 DEF Left
  <2>4. (\A u \in Threads : pc[u] = "delete" /\ got[u] # NoValue => Left(got[u]))'
    BY <2>2, <1>4 DEF Left
  <2>5. (\A f \in Values : mate[f] # NoValue => Left(mate[f]))'
    BY <1>4 DEF Left, FreeInv, AllLeft
  <2> QED BY <2>3, <2>4, <2>5 DEF AllLeft
<1> QED BY <1>1, <1>3, <1>5 DEF FreeInv, Unseen

LEMMA LookUpFree ==
  ASSUME FreeInv, NEW t \in Threads, NEW k \in Keys, LookUp(t, k)
  PROVE  FreeInv'
<1>0. flows \in Nat /\ flows < MaxFlows /\ flows + 1 \in Values
  BY StitchAssumption DEF LookUp, FreeInv, StitchTypeOK
<1> PICK n \in Values : n = flows + 1
  BY <1>0
<1>1. /\ flows \in Nat /\ flows < MaxFlows /\ flows' = n /\ n = flows + 1 /\ Values \subseteq Nat
      /\ keyOf' = [keyOf EXCEPT ![n] = k] /\ mine' = [mine EXCEPT ![t] = n]
      /\ mate' = mate /\ UNCHANGED ringVars /\ got' = got /\ pc[t] = "out"
      /\ \E q \in {"value", "between"} : pc' = [pc EXCEPT ![t] = q]
  BY <1>0, StitchAssumption DEF LookUp, Reads
<1>2. StitchTypeOK
  BY DEF FreeInv
<1>3. \A u \in Threads : u # t => pc'[u] = pc[u] /\ mine'[u] = mine[u]
  BY <1>1, <1>2 DEF StitchTypeOK
<1>4. mine'[t] = n /\ pc'[t] \in {"value", "between"}
  BY <1>1, <1>2 DEF StitchTypeOK
<1>5. \A f \in Values : f # n => keyOf'[f] = keyOf[f]
  BY <1>1, <1>2 DEF StitchTypeOK
<1>6. keyOf'[n] = k /\ mate[n] = NoValue
  BY <1>1, <1>2 DEF StitchTypeOK, FreeInv, Unseen
<1>7. StitchTypeOK' /\ ReadOK'
  <2>1. CASE Contains(k)
    <3>1. index[k] \in Slots /\ Slots \subseteq Int
      BY <2>1, <1>2 DEF StitchTypeOK, Contains, Slots
    <3>2. pc' = [pc EXCEPT ![t] = "value"] /\ spot' = [spot EXCEPT ![t] = index[k]]
      BY <2>1 DEF LookUp, Reads
    <3>3. flows' \in 0 .. MaxFlows /\ overlapped' \in BOOLEAN
      BY <1>1, StitchAssumption, <1>2 DEF LookUp, Begins, StitchTypeOK
    <3> QED BY <3>1, <3>2, <3>3, <1>1, <1>2 DEF StitchTypeOK, ReadOK, FreeInv, Calling, ringVars
  <2>2. CASE ~Contains(k)
    <3>2. pc' = [pc EXCEPT ![t] = "between"] /\ spot' = spot
      BY <2>2 DEF LookUp
    <3>3. flows' \in 0 .. MaxFlows /\ overlapped' \in BOOLEAN
      BY <1>1, StitchAssumption, <1>2 DEF LookUp, Begins, StitchTypeOK
    <3> QED BY <3>2, <3>3, <1>1, <1>2 DEF StitchTypeOK, ReadOK, FreeInv, Calling, ringVars
  <2> QED BY <2>1, <2>2
<1>8. \A u \in Threads : mine[u] # n
  BY <1>1, <1>2, RingAssumption DEF FreeInv, OwnFlow
<1>9. OwnFlow'
  <2>1. ASSUME NEW u \in Threads, u # t, pc'[u] # "out"
        PROVE  /\ mine'[u] \in Values /\ mine'[u] <= flows' /\ keyOf'[mine'[u]] \in Keys
               /\ mate'[mine'[u]] = NoValue
               /\ \A w \in Threads : w # u => mine'[w] # mine'[u]
    <3>1. /\ mine'[u] = mine[u] /\ pc[u] # "out" /\ mine[u] # n
          /\ mine[u] \in Values /\ mine[u] <= flows /\ keyOf[mine[u]] \in Keys
          /\ mate[mine[u]] = NoValue /\ \A w \in Threads : w # u => mine[w] # mine[u]
      BY <2>1, <1>3, <1>8 DEF FreeInv, OwnFlow
    <3>2. mine[u] <= n
      <4>1. \A m \in Nat : m <= flows => m <= n
        BY <1>1
      <4> QED BY <3>1, <4>1, <1>1
    <3>3. keyOf'[mine[u]] = keyOf[mine[u]] /\ mate' = mate
      BY <3>1, <1>1, <1>5
    <3>4. \A w \in Threads : w # u => mine'[w] # mine[u]
      BY <3>1, <1>3, <1>4
    <3>5. flows' = n
      BY <1>1
    <3> QED BY ONLY <3>1, <3>2, <3>3, <3>4, <3>5
  <2>2. /\ n <= flows' /\ keyOf'[n] \in Keys /\ mate'[n] = NoValue
        /\ \A w \in Threads : w # t => mine'[w] # n
    BY <1>1, <1>3, <1>6, <1>8
  <2>3. ASSUME NEW u \in Threads, pc'[u] = "out" PROVE mine'[u] = NoValue
    BY <2>3, <1>3, <1>4 DEF FreeInv, OwnFlow
  <2> QED BY <2>1, <2>2, <2>3, <1>4 DEF OwnFlow
<1>10. ASSUME NEW f, Left(f) PROVE Left(f)'
  <2>1. f # n
    BY <1>10, <1>1 DEF Left
  <2> QED BY <2>1, <1>10, <1>1, <1>3, <1>4 DEF Left
<1>11. AllLeft'
  <2>1. (\A s \in Slots : valueAt[s] # NoValue => Left(valueAt[s]))'
    BY <1>1, <1>10 DEF FreeInv, AllLeft, ringVars, Left
  <2>2. (\A u \in Threads : pc[u] = "delete" /\ got[u] # NoValue => Left(got[u]))'
    BY <1>1, <1>3, <1>4, <1>10 DEF FreeInv, AllLeft, Left
  <2>3. (\A f \in Values : mate[f] # NoValue => Left(mate[f]))'
    BY <1>1, <1>10 DEF FreeInv, AllLeft, Left
  <2> QED BY <2>1, <2>2, <2>3 DEF AllLeft
<1>12. Unseen'
  BY <1>1 DEF FreeInv, Unseen
<1> QED BY <1>7, <1>9, <1>11, <1>12 DEF FreeInv

LEMMA ReadValueFree ==
  ASSUME FreeInv, NEW t \in Threads, ReadValue(t)
  PROVE  FreeInv'
<1>1. /\ pc[t] = "value" /\ pc' = [pc EXCEPT ![t] = "delete"]
      /\ got' = [got EXCEPT ![t] = valueAt[spot[t]]]
      /\ UNCHANGED <<keyAt, valueAt, index, head, tail, size, spot, mate, mine, keyOf, flows, overlapped>>
      /\ spot[t] \in Slots
  BY DEF ReadValue, Step, dataVars, FreeInv, ReadOK
<1>2. StitchTypeOK /\ ReadOK /\ OwnFlow /\ AllLeft /\ Unseen
  BY DEF FreeInv
<1>3. valueAt[spot[t]] \in Values \cup {NoValue}
  BY <1>1, <1>2 DEF StitchTypeOK
<1>4. StitchTypeOK' /\ ReadOK'
  BY <1>1, <1>2, <1>3 DEF StitchTypeOK, ReadOK, Calling
<1>5. \A u \in Threads : pc'[u] = IF u = t THEN "delete" ELSE pc[u]
  BY <1>1, <1>2 DEF StitchTypeOK
<1>6. OwnFlow'
  BY <1>1, <1>2, <1>5 DEF OwnFlow
<1>7. ASSUME NEW f, Left(f) PROVE Left(f)'
  BY <1>7, <1>1, <1>5 DEF Left
<1>8. AllLeft'
  <2>1. (\A s \in Slots : valueAt[s] # NoValue => Left(valueAt[s]))'
    BY <1>1, <1>2, <1>7 DEF AllLeft, Left
  <2>2. ASSUME NEW u \in Threads, pc'[u] = "delete", got'[u] # NoValue PROVE Left(got'[u])
    BY <2>2, <1>1, <1>2, <1>5 DEF AllLeft, StitchTypeOK
  <2>3. (\A u \in Threads : pc[u] = "delete" /\ got[u] # NoValue => Left(got[u]))'
    BY <2>2, <1>7 DEF Left
  <2>4. (\A f \in Values : mate[f] # NoValue => Left(mate[f]))'
    BY <1>1, <1>2, <1>7 DEF AllLeft, Left
  <2> QED BY <2>1, <2>3, <2>4 DEF AllLeft
<1> QED BY <1>1, <1>2, <1>4, <1>6, <1>8 DEF FreeInv, Unseen

LEMMA DeleteKeyFree ==
  ASSUME FreeInv, NEW t \in Threads, DeleteKey(t)
  PROVE  FreeInv'
<1>1. /\ pc[t] = "delete" /\ pc' = [pc EXCEPT ![t] = "out"]
      /\ mine' = [mine EXCEPT ![t] = NoValue] /\ spot' = [spot EXCEPT ![t] = NoSlot]
      /\ got' = [got EXCEPT ![t] = NoValue]
      /\ index' = [index EXCEPT ![keyOf[mine[t]]] = NoSlot]
      /\ mate' = [mate EXCEPT ![mine[t]] = got[t]]
      /\ UNCHANGED <<keyAt, valueAt, head, tail, size, keyOf, flows, overlapped>>
  BY DEF DeleteKey, Return, dataVars, KeyOf
<1>2. StitchTypeOK /\ ReadOK /\ OwnFlow /\ AllLeft /\ Unseen
  BY DEF FreeInv
<1>3. /\ mine[t] \in Values /\ mine[t] <= flows /\ got[t] \in Values \cup {NoValue}
      /\ \A u \in Threads : u # t => mine[u] # mine[t]
  BY <1>1, <1>2 DEF OwnFlow, ReadOK
<1>4. StitchTypeOK' /\ ReadOK'
  <2>1. NoSlot \in Int
    BY DEF NoSlot
  <2> QED BY <2>1, <1>1, <1>2, <1>3 DEF StitchTypeOK, ReadOK, Calling
<1>5. /\ \A u \in Threads : pc'[u] = IF u = t THEN "out" ELSE pc[u]
      /\ \A u \in Threads : mine'[u] = IF u = t THEN NoValue ELSE mine[u]
      /\ \A u \in Threads : u # t => got'[u] = got[u]
      /\ \A f \in Values : mate'[f] = IF f = mine[t] THEN got[t] ELSE mate[f]
  BY <1>1, <1>2, <1>3 DEF StitchTypeOK
<1>6. OwnFlow'
  <2>1. ASSUME NEW u \in Threads, u # t, pc[u] # "out"
        PROVE  /\ mine[u] \in Values /\ mine[u] <= flows /\ keyOf[mine[u]] \in Keys
               /\ mate'[mine[u]] = NoValue
               /\ \A w \in Threads : w # u => mine'[w] # mine[u]
    BY <2>1, <1>2, <1>3, <1>5, RingAssumption DEF OwnFlow
  <2> QED BY <2>1, <1>1, <1>2, <1>5 DEF OwnFlow
<1>7. ASSUME NEW f, Left(f) PROVE Left(f)'
  <2>1. f # mine[t] /\ f \in Values
    BY <1>7, <1>1 DEF Left
  <2> QED BY <2>1, <1>7, <1>1, <1>5, RingAssumption DEF Left
<1>8. AllLeft'
  <2>1. (\A s \in Slots : valueAt[s] # NoValue => Left(valueAt[s]))'
    BY <1>1, <1>2, <1>7 DEF AllLeft, Left
  <2>2. (\A u \in Threads : pc[u] = "delete" /\ got[u] # NoValue => Left(got[u]))'
    BY <1>2, <1>5, <1>7 DEF AllLeft, Left
  <2>3. ASSUME NEW f \in Values, mate'[f] # NoValue PROVE Left(mate'[f])
    BY <2>3, <1>1, <1>2, <1>5 DEF AllLeft
  <2>4. (\A f \in Values : mate[f] # NoValue => Left(mate[f]))'
    BY <2>3, <1>7 DEF Left
  <2> QED BY <2>1, <2>2, <2>4 DEF AllLeft
<1>9. Unseen'
  <2>1. flows \in Nat /\ Values \subseteq Nat
    BY <1>2, StitchAssumption DEF StitchTypeOK
  <2> QED BY <2>1, <1>1, <1>2, <1>3, <1>5 DEF Unseen
<1> QED BY <1>4, <1>6, <1>8, <1>9 DEF FreeInv

LEMMA FreeStutter == FreeInv /\ UNCHANGED <<ringVars, stitchVars>> => FreeInv'
<1> SUFFICES ASSUME FreeInv, UNCHANGED <<ringVars, stitchVars>> PROVE FreeInv'
  OBVIOUS
<1> USE DEF ringVars, stitchVars
<1>1. StitchTypeOK' /\ ReadOK'
  BY DEF FreeInv, StitchTypeOK, ReadOK
<1>2. OwnFlow' /\ Unseen'
  BY DEF FreeInv, OwnFlow, Unseen
<1>3. AllLeft'
  BY DEF FreeInv, AllLeft, Left
<1> QED BY <1>1, <1>2, <1>3 DEF FreeInv

LEMMA FreeInductive == FreeInv /\ [StitchNext]_<<ringVars, stitchVars>> => FreeInv'
BY LookUpFree, ReadValueFree, DeleteKeyFree, PutStepFree, FreeStutter DEF StitchNext

-----------------------------------------------------------------------------
(* The stitcher: what holds while no two calls overlap.                    *)

\* A flow that has been seen and is in no pair.
Open(f) ==
  /\ f \in Values /\ f <= flows
  /\ mate[f] = NoValue
  /\ \A g \in Values : mate[g] # f

\* No two threads are inside a call.
Alone == \A t, u \in Threads : InCall(t) /\ InCall(u) => t = u

\* The map leads to slots of its keys, with snapshots of open flows of theirs.
MapOwn ==
  \A k \in Keys : Contains(k) => /\ keyAt[index[k]] = k
                                 /\ Open(valueAt[index[k]])
                                 /\ keyOf[valueAt[index[k]]] = k

\* The slots not in use yet are blank.
Blank == size <= Capacity /\ \A s \in Slots : s >= size => keyAt[s] = NoKey

Meet == IF size = Capacity THEN tail = head ELSE head = 0 /\ tail = size

\* Head or size has moved on and tail has not: the slot at tail is being written.
Ahead == (head = After(tail) /\ size = Capacity) \/ (head = 0 /\ size = tail + 1)

AtTail == {"write", "link", "tail"}

Settled == (\A t \in Threads : pc[t] \notin AtTail) => Meet

\* What a thread has read still holds, and where the ring is in its call.
PhaseOK(t) ==
  /\ pc[t] \in {"value", "update"} => Contains(KeyOf(t)) /\ spot[t] = index[KeyOf(t)]
  /\ pc[t] = "value" => valueAt[index[KeyOf(t)]] < mine[t]
  /\ pc[t] = "delete" => /\ Contains(KeyOf(t)) /\ got[t] = valueAt[index[KeyOf(t)]]
                         /\ got[t] < mine[t]
  /\ pc[t] \in {"room", "grow", "oldest", "evict", "head", "write", "link"} => ~Contains(KeyOf(t))
  /\ pc[t] = "grow" => spot[t] = size /\ size # Capacity
  /\ pc[t] \in {"oldest", "evict", "head"} => size = Capacity
  /\ pc[t] \in {"evict", "head"} => spot[t] = head
  /\ pc[t] = "evict" => got[t] = keyAt[head]
  /\ pc[t] \in {"head", "write", "link"} => \A j \in Keys : index[j] # tail
  /\ pc[t] \in AtTail => Ahead
  /\ pc[t] \in {"link", "tail"} => spot[t] = tail
  /\ pc[t] = "link" => keyAt[tail] = KeyOf(t) /\ valueAt[tail] = mine[t]

\* The flow of a thread is open and not in the map, until its call links it.
HeldOpen ==
  \A t \in Threads : pc[t] \notin {"out", "tail"} =>
    /\ Open(mine[t])
    /\ \A k \in Keys : Contains(k) => valueAt[index[k]] # mine[t]

Pairs ==
  /\ \A f \in Values : Paired(f) => keyOf[mate[f]] = keyOf[f] /\ mate[f] < f
  /\ TakenOnce

QuietInv == Alone /\ MapOwn /\ Blank /\ Settled /\ (\A t \in Threads : PhaseOK(t)) /\ HeldOpen /\ Pairs

StitchInv == FreeInv /\ (~overlapped => QuietInv)

LEMMA QuietInitial == StitchInit => QuietInv
<1> SUFFICES ASSUME StitchInit PROVE QuietInv
  OBVIOUS
<1>1. Alone /\ MapOwn /\ HeldOpen /\ Pairs
  BY DEF StitchInit, RingInit, Alone, InCall, MapOwn, Contains, HeldOpen, Pairs, TakenOnce, Paired
<1>2. Blank /\ Settled
  BY RingAssumption DEF StitchInit, RingInit, Blank, Settled, Meet, Slots
<1>3. \A t \in Threads : PhaseOK(t)
  BY DEF StitchInit, PhaseOK, AtTail
<1> QED BY <1>1, <1>2, <1>3 DEF QuietInv

\* While thread t is inside a call, or begins one that overlaps no other, the
\* other threads are outside and stay there.
LEMMA Around ==
  ASSUME FreeInv, NEW t \in Threads, \A u \in Threads : u # t => ~InCall(u),
         NEW q, pc' = [pc EXCEPT ![t] = q]
  PROVE  /\ pc'[t] = q /\ Alone'
         /\ \A u \in Threads : u # t => /\ pc'[u] = pc[u] /\ pc[u] \in {"out", "between"}
                                        /\ PhaseOK(u)'
<1>1. /\ pc'[t] = q
      /\ \A u \in Threads : u # t => pc'[u] = pc[u] /\ pc[u] \in {"out", "between"}
  BY DEF FreeInv, StitchTypeOK, InCall
<1>2. Alone'
  BY <1>1 DEF Alone, InCall
<1>3. ASSUME NEW u \in Threads, u # t PROVE PhaseOK(u)'
  <2>1. pc'[u] \in {"out", "between"}
    BY <1>1, <1>3
  <2> QED BY <2>1 DEF PhaseOK, AtTail
<1> QED BY <1>1, <1>2, <1>3

LEMMA InsideAlone ==
  ASSUME QuietInv, NEW t \in Threads, InCall(t)
  PROVE  \A u \in Threads : u # t => ~InCall(u)
BY DEF QuietInv, Alone

\* A step that leaves the ring and the pairs as they are.
LEMMA RingSame ==
  ASSUME QuietInv, UNCHANGED <<keyAt, valueAt, index, size, keyOf, mate, flows>>
  PROVE  MapOwn' /\ Blank' /\ Pairs' /\ \A f : Open(f)' = Open(f)
<1>1. \A f : Open(f)' = Open(f)
  BY DEF Open
<1>2. MapOwn'
  BY DEF QuietInv, MapOwn, Contains, Open
<1>3. Blank' /\ Pairs'
  BY DEF QuietInv, Blank, Pairs, TakenOnce, Paired
<1> QED BY <1>1, <1>2, <1>3

LEMMA ReadValueQuiet ==
  ASSUME FreeInv, QuietInv, NEW t \in Threads, ReadValue(t)
  PROVE  QuietInv'
<1>1. /\ pc[t] = "value" /\ pc' = [pc EXCEPT ![t] = "delete"]
      /\ got' = [got EXCEPT ![t] = valueAt[spot[t]]]
      /\ UNCHANGED <<keyAt, valueAt, index, head, tail, size, spot, mate, mine, keyOf, flows>>
  BY DEF ReadValue, Step, dataVars
<1>2. \A u \in Threads : u # t => ~InCall(u)
  BY <1>1, InsideAlone DEF InCall
<1>3. /\ pc'[t] = "delete" /\ Alone'
      /\ \A u \in Threads : u # t => pc'[u] = pc[u] /\ pc[u] \in {"out", "between"} /\ PhaseOK(u)'
  BY <1>1, <1>2, Around
<1>4. MapOwn' /\ Blank' /\ Pairs' /\ \A f : Open(f)' = Open(f)
  BY <1>1, RingSame
<1>5. got'[t] = valueAt[spot[t]] /\ PhaseOK(t)
  BY <1>1 DEF FreeInv, StitchTypeOK, QuietInv
<1>6. PhaseOK(t)'
  BY <1>1, <1>3, <1>5 DEF PhaseOK, Contains, KeyOf, AtTail
<1>7. Settled'
  BY <1>1, <1>3 DEF QuietInv, Settled, Meet, AtTail
<1>8. HeldOpen'
  BY <1>1, <1>3, <1>4 DEF QuietInv, HeldOpen, Contains, Open
<1> QED BY <1>3, <1>4, <1>6, <1>7, <1>8 DEF QuietInv

LEMMA DeleteKeyQuiet ==
  ASSUME FreeInv, QuietInv, NEW t \in Threads, DeleteKey(t)
  PROVE  QuietInv'
<1> PICK n \in Values : n = mine[t]
  BY DEF DeleteKey, Return, FreeInv, OwnFlow
<1> PICK k \in Keys : k = keyOf[n]
  BY DEF DeleteKey, Return, FreeInv, OwnFlow
<1> PICK m : m = got[t]
  OBVIOUS
<1>1. /\ pc[t] = "delete" /\ pc' = [pc EXCEPT ![t] = "out"]
      /\ mine' = [mine EXCEPT ![t] = NoValue]
      /\ index' = [index EXCEPT ![k] = NoSlot]
      /\ mate' = [mate EXCEPT ![n] = m]
      /\ UNCHANGED <<keyAt, valueAt, head, tail, size, keyOf, flows>>
  BY DEF DeleteKey, Return, dataVars, KeyOf
<1>2. \A u \in Threads : u # t => ~InCall(u)
  BY <1>1, InsideAlone DEF InCall
<1>3. /\ pc'[t] = "out" /\ Alone'
      /\ \A u \in Threads : u # t => pc'[u] = pc[u] /\ pc[u] \in {"out", "between"} /\ PhaseOK(u)'
  BY <1>1, <1>2, Around
<1>4. PhaseOK(t)'
  BY <1>3 DEF PhaseOK, AtTail
<1>5. /\ Contains(k) /\ m = valueAt[index[k]] /\ m < n
      /\ Open(m) /\ keyOf[m] = k /\ m \in Values
      /\ Open(n) /\ (\A j \in Keys : Contains(j) => valueAt[index[j]] # n)
  BY <1>1 DEF QuietInv, PhaseOK, KeyOf, MapOwn, HeldOpen, Open
<1>6. /\ \A f \in Values : mate'[f] = IF f = n THEN m ELSE mate[f]
      /\ \A u \in Threads : u # t => mine'[u] = mine[u] /\ mine[u] # n
      /\ \A j \in Keys : index'[j] = IF j = k THEN NoSlot ELSE index[j]
  BY <1>1 DEF FreeInv, StitchTypeOK, OwnFlow
<1>7. ASSUME NEW f, Open(f), f # m, f # n PROVE Open(f)'
  BY <1>7, <1>1, <1>6 DEF Open
<1>8. \A j \in Keys : Contains(j)' => Contains(j) /\ j # k /\ index'[j] = index[j]
  BY <1>6 DEF Contains
<1>9. MapOwn'
  <2>1. ASSUME NEW j \in Keys, Contains(j)'
        PROVE  /\ keyAt'[index'[j]] = j /\ Open(valueAt[index[j]])' /\ index'[j] = index[j]
               /\ keyOf'[valueAt'[index'[j]]] = j
    <3>1. /\ Contains(j) /\ j # k /\ index'[j] = index[j]
          /\ keyAt[index[j]] = j /\ Open(valueAt[index[j]]) /\ keyOf[valueAt[index[j]]] = j
      BY <2>1, <1>8 DEF QuietInv, MapOwn
    <3>2. valueAt[index[j]] # m /\ valueAt[index[j]] # n
      BY <3>1, <1>5
    <3>3. Open(valueAt[index[j]])'
      BY <3>1, <3>2, <1>1, <1>7 DEF Open
    <3> QED BY <3>1, <3>3, <1>1
  <2> QED BY <2>1, <1>1 DEF MapOwn, Open
<1>10. Blank' /\ Settled'
  <2>1. Blank'
    BY <1>1 DEF QuietInv, Blank
  <2>2. Meet
    BY <1>1, <1>3 DEF QuietInv, Settled, AtTail
  <2> QED BY <2>1, <2>2, <1>1 DEF Settled, Meet
<1>11. HeldOpen'
  <2>1. ASSUME NEW u \in Threads, pc'[u] \notin {"out", "tail"}
        PROVE  /\ Open(mine[u])' /\ mine'[u] = mine[u]
               /\ \A j \in Keys : Contains(j)' => valueAt'[index'[j]] # mine'[u]
    <3>1. /\ u # t /\ pc[u] \notin {"out", "tail"} /\ mine'[u] = mine[u] /\ mine[u] # n
          /\ Open(mine[u]) /\ \A j \in Keys : Contains(j) => valueAt[index[j]] # mine[u]
      BY <2>1, <1>3, <1>6 DEF QuietInv, HeldOpen
    <3>2. mine[u] # m
      BY <3>1, <1>5
    <3>3. Open(mine[u])'
      BY <3>1, <3>2, <1>7 DEF Open
    <3> QED BY <3>1, <3>3, <1>1, <1>8
  <2> QED BY <2>1 DEF HeldOpen, Open
<1>12. Pairs'
  <2>1. ASSUME NEW f \in Values, mate'[f] # NoValue
        PROVE  keyOf[mate'[f]] = keyOf[f] /\ mate'[f] < f
    BY <2>1, <1>5, <1>6 DEF QuietInv, Pairs, Paired
  <2>2. ASSUME NEW f \in Values, NEW g \in Values, mate'[f] # NoValue, mate'[f] = mate'[g]
        PROVE  f = g
    BY <2>2, <1>5, <1>6 DEF QuietInv, Pairs, TakenOnce, Paired, Open
  <2> QED BY <2>1, <2>2, <1>1 DEF Pairs, TakenOnce, Paired
<1> QED BY <1>3, <1>4, <1>9, <1>10, <1>11, <1>12 DEF QuietInv

\* A new flow is open and in no slot.
LEMMA LookUpQuiet ==
  ASSUME FreeInv, QuietInv, NEW t \in Threads, NEW k \in Keys, LookUp(t, k), ~overlapped'
  PROVE  QuietInv'
<1>0. flows \in Nat /\ flows < MaxFlows /\ flows + 1 \in Values
  BY StitchAssumption DEF LookUp, FreeInv, StitchTypeOK
<1> PICK n \in Values : n = flows + 1
  BY <1>0
<1>1. /\ flows \in Nat /\ flows' = n /\ n = flows + 1 /\ Values \subseteq Nat
      /\ keyOf' = [keyOf EXCEPT ![n] = k] /\ mine' = [mine EXCEPT ![t] = n] /\ mate' = mate
      /\ UNCHANGED <<keyAt, valueAt, index, head, tail, size>> /\ pc[t] = "out"
      /\ \/ Contains(k) /\ pc' = [pc EXCEPT ![t] = "value"] /\ spot' = [spot EXCEPT ![t] = index[k]]
         \/ ~Contains(k) /\ pc' = [pc EXCEPT ![t] = "between"]
  BY <1>0, StitchAssumption DEF LookUp, Reads, ringVars
<1>2. \A u \in Threads : u # t => ~InCall(u)
  BY DEF LookUp, Begins
<1> PICK q \in {"value", "between"} :
      /\ pc' = [pc EXCEPT ![t] = q]
      /\ q = "value" => Contains(k) /\ spot' = [spot EXCEPT ![t] = index[k]]
  BY <1>1
<1>3. /\ pc'[t] = q /\ Alone'
      /\ \A u \in Threads : u # t => pc'[u] = pc[u] /\ pc[u] \in {"out", "between"} /\ PhaseOK(u)'
  BY <1>2, Around
<1>4. /\ \A f \in Values : keyOf'[f] = IF f = n THEN k ELSE keyOf[f]
      /\ \A u \in Threads : mine'[u] = IF u = t THEN n ELSE mine[u]
  BY <1>1 DEF FreeInv, StitchTypeOK
<1>5. mate[n] = NoValue /\ \A g \in Values : mate[g] # n
  <2>1. mate[n] = NoValue
    BY <1>1 DEF FreeInv, Unseen
  <2>2. ASSUME NEW g \in Values, mate[g] = n PROVE FALSE
    <3>1. Left(n)
      BY <2>2, RingAssumption DEF FreeInv, AllLeft
    <3> QED BY <3>1, <1>1 DEF Left
  <2> QED BY <2>1, <2>2
<1>6. ASSUME NEW f, Open(f) PROVE Open(f)' /\ f # n /\ f < n /\ keyOf'[f] = keyOf[f]
  <2>1. f \in Values /\ f \in Nat /\ f <= flows
    BY <1>6, <1>1 DEF Open
  <2>2. f < n /\ f # n /\ f <= n
    BY ONLY <2>1, <1>1
  <2> QED BY <2>1, <2>2, <1>1, <1>4, <1>6 DEF Open
<1>7. Open(n)'
  BY <1>1, <1>5 DEF Open
<1>8. MapOwn' /\ \A j \in Keys : Contains(j) => valueAt[index[j]] # n /\ valueAt[index[j]] < n
  <2>1. ASSUME NEW j \in Keys, Contains(j)
        PROVE  /\ keyAt[index[j]] = j /\ Open(valueAt[index[j]])' /\ keyOf'[valueAt[index[j]]] = j
               /\ valueAt[index[j]] # n /\ valueAt[index[j]] < n
    <3> PICK v : v = valueAt[index[j]]
      OBVIOUS
    <3>1. keyAt[index[j]] = j /\ Open(v) /\ keyOf[v] = j
      BY <2>1 DEF QuietInv, MapOwn
    <3>2. Open(v)' /\ v # n /\ v < n /\ keyOf'[v] = j
      BY <3>1, <1>6
    <3>3. Open(valueAt[index[j]])'
      BY <3>2, <1>1 DEF Open
    <3> QED BY <3>1, <3>2, <3>3
  <2> QED BY <2>1, <1>1 DEF MapOwn, Open, Contains
<1>9. PhaseOK(t)'
  <2>1. CASE q = "between"
    BY <2>1, <1>3 DEF PhaseOK, AtTail
  <2>2. CASE q = "value"
    <3>1. spot'[t] = index[k] /\ mine'[t] = n /\ keyOf'[n] = k /\ Contains(k)
      BY <2>2, <1>4 DEF FreeInv, StitchTypeOK
    <3> QED BY <3>1, <2>2, <1>1, <1>3, <1>8 DEF PhaseOK, KeyOf, Contains, AtTail
  <2> QED BY <2>1, <2>2
<1>10. Blank' /\ Settled'
  <2>1. Blank'
    BY <1>1 DEF QuietInv, Blank
  <2>2. Meet
    BY <1>1, <1>3 DEF QuietInv, Settled, AtTail
  <2> QED BY <2>1, <2>2, <1>1 DEF Settled, Meet
<1>11. HeldOpen'
  <2>1. ASSUME NEW u \in Threads, u # t, pc'[u] \notin {"out", "tail"}
        PROVE  /\ Open(mine[u])' /\ mine'[u] = mine[u]
               /\ \A j \in Keys : Contains(j)' => valueAt'[index'[j]] # mine'[u]
    BY <2>1, <1>1, <1>3, <1>4, <1>6 DEF QuietInv, HeldOpen, Contains
  <2>2. mine'[t] = n /\ \A j \in Keys : Contains(j)' => valueAt'[index'[j]] # n
    BY <1>1, <1>4, <1>8 DEF Contains
  <2> QED BY <2>1, <2>2, <1>7 DEF HeldOpen, Open
<1>12. Pairs'
  <2>1. ASSUME NEW f \in Values, mate[f] # NoValue
        PROVE  keyOf'[mate[f]] = keyOf'[f] /\ mate[f] < f
    <3>1. f # n /\ mate[f] # n /\ mate[f] \in Values
      BY <2>1, <1>5 DEF FreeInv, StitchTypeOK
    <3> QED BY <3>1, <2>1, <1>4 DEF QuietInv, Pairs, Paired
  <2> QED BY <2>1, <1>1 DEF QuietInv, Pairs, TakenOnce, Paired
<1> QED BY <1>3, <1>8, <1>9, <1>10, <1>11, <1>12 DEF QuietInv

\* What every step of Put leaves alone while no calls overlap.
LEMMA PutStepQuiet ==
  ASSUME FreeInv, QuietInv, NEW t \in Threads, PutStep(t), ~overlapped'
  PROVE  /\ Alone' /\ Pairs' /\ KeyOf(t) \in Keys /\ mine[t] \in Values
         /\ \A f : Open(f)' = Open(f)
         /\ \A u \in Threads : u # t => /\ pc'[u] = pc[u] /\ pc[u] \in {"out", "between"}
                                        /\ mine'[u] = mine[u] /\ mine[u] # mine[t] /\ PhaseOK(u)'
         /\ pc[t] \notin AtTail => Meet
<1>1. /\ keyOf' = keyOf /\ mate' = mate /\ flows' = flows
      /\ pc[t] \notin {"out", "value", "delete"}
      /\ \A u \in Threads : u # t => pc'[u] = pc[u] /\ mine'[u] = mine[u]
  BY PutStepFlows
<1>2. \A u \in Threads : u # t => ~InCall(u)
  <2>1. CASE pc[t] = "between"
    BY <2>1 DEF PutStep, PutStart, UpdateSlot, Room, Grow, ReadOldest, Evict, MoveHead, WriteSlot, Link, MoveTail,
                Step, Return, Begins
  <2>2. CASE pc[t] # "between"
    BY <2>2, <1>1, InsideAlone DEF InCall
  <2> QED BY <2>1, <2>2
<1>3. \A u \in Threads : u # t => pc[u] \in {"out", "between"}
  BY <1>2 DEF InCall
<1>4. Alone'
  BY <1>1, <1>3 DEF Alone, InCall
<1>5. ASSUME NEW u \in Threads, u # t PROVE PhaseOK(u)'
  <2>1. pc'[u] \in {"out", "between"}
    BY <1>1, <1>3, <1>5
  <2> QED BY <2>1 DEF PhaseOK, AtTail
<1>6. Pairs' /\ \A f : Open(f)' = Open(f)
  BY <1>1 DEF QuietInv, Pairs, TakenOnce, Paired, Open
<1>7. KeyOf(t) \in Keys /\ mine[t] \in Values /\ \A u \in Threads : u # t => mine[u] # mine[t]
  BY <1>1 DEF FreeInv, OwnFlow, KeyOf
<1>8. pc[t] \notin AtTail => Meet
  BY <1>3 DEF QuietInv, Settled, AtTail
<1> QED BY <1>1, <1>3, <1>4, <1>5, <1>6, <1>7, <1>8

\* The flows that are held stay held if the map leads to no new snapshot, other
\* than that of the thread that steps.
LEMMA HeldStays ==
  ASSUME FreeInv, QuietInv, NEW t \in Threads, PutStep(t), ~overlapped',
         \A k \in Keys : Contains(k)' =>
           \/ valueAt'[index'[k]] = mine[t]
           \/ Contains(k) /\ valueAt'[index'[k]] = valueAt[index[k]],
         \/ pc'[t] \in {"out", "tail"}
         \/ /\ pc[t] # "tail" /\ mine' = mine
            /\ \A k \in Keys : Contains(k)' => valueAt'[index'[k]] # mine[t]
  PROVE  HeldOpen'
<1>1. /\ \A f : Open(f)' = Open(f)
      /\ \A u \in Threads : u # t => /\ pc'[u] = pc[u] /\ mine'[u] = mine[u] /\ mine[u] # mine[t]
      /\ pc[t] # "out"
  BY PutStepQuiet, PutStepFlows
<1>2. ASSUME NEW u \in Threads, pc'[u] \notin {"out", "tail"}
      PROVE  /\ Open(mine[u]) /\ mine'[u] = mine[u]
             /\ \A k \in Keys : Contains(k)' => valueAt'[index'[k]] # mine[u]
  <2>1. CASE u = t
    BY <2>1, <1>1, <1>2 DEF QuietInv, HeldOpen
  <2>2. CASE u # t
    BY <2>2, <1>1, <1>2 DEF QuietInv, HeldOpen
  <2> QED BY <2>1, <2>2
<1>3. mate' = mate /\ flows' = flows
  BY PutStepFlows
<1> QED BY <1>2, <1>3 DEF HeldOpen, Open

\* The conjuncts of QuietInv that a step of Put can disturb.
LEMMA PutStepRest ==
  ASSUME FreeInv, QuietInv, NEW t \in Threads, PutStep(t), ~overlapped',
         MapOwn', Blank', HeldOpen', PhaseOK(t)', pc'[t] \notin AtTail => Meet'
  PROVE  QuietInv'
<1>1. /\ Alone' /\ Pairs' /\ \A u \in Threads : u # t => PhaseOK(u)'
  BY PutStepQuiet
<1>2. Settled'
  BY DEF Settled
<1> QED BY <1>1, <1>2 DEF QuietInv

LEMMA ReadsQuiet ==
  ASSUME FreeInv, QuietInv, NEW t \in Threads, PutStep(t), ~overlapped',
         PutStart(t) \/ Room(t) \/ ReadOldest(t)
  PROVE  QuietInv'
<1>1. /\ UNCHANGED <<keyAt, valueAt, index, head, tail, size, mine, keyOf, mate, flows>>
      /\ pc[t] \in {"between", "room", "oldest"} /\ PhaseOK(t)
  BY DEF PutStart, Room, ReadOldest, Step, dataVars, ringVars, QuietInv
<1>2. MapOwn' /\ Blank'
  BY <1>1, RingSame
<1>3. Meet'
  BY <1>1, PutStepQuiet DEF Meet, AtTail
<1>4. HeldOpen'
  <2>1. \A k \in Keys : Contains(k)' => Contains(k) /\ valueAt'[index'[k]] = valueAt[index[k]]
    BY <1>1 DEF Contains
  <2>2. \A k \in Keys : Contains(k)' => valueAt'[index'[k]] # mine[t]
    BY <1>1, <2>1 DEF QuietInv, HeldOpen
  <2> QED BY <1>1, <2>1, <2>2, HeldStays
<1>5. PhaseOK(t)'
  <2>1. CASE PutStart(t)
    <3>1. CASE Contains(KeyOf(t))
      <4>1. pc'[t] = "update" /\ spot'[t] = index[KeyOf(t)] /\ KeyOf(t)' = KeyOf(t)
        BY <2>1, <3>1, <1>1 DEF PutStart, Reads, KeyOf, FreeInv, StitchTypeOK
      <4> QED BY <4>1, <3>1, <1>1 DEF PhaseOK, Contains, AtTail
    <3>2. CASE ~Contains(KeyOf(t))
      <4>1. pc'[t] = "room" /\ KeyOf(t)' = KeyOf(t)
        BY <2>1, <3>2, <1>1 DEF PutStart, KeyOf, FreeInv, StitchTypeOK
      <4> QED BY <4>1, <3>2, <1>1 DEF PhaseOK, Contains, AtTail
    <3> QED BY <3>1, <3>2
  <2>2. CASE Room(t)
    <3>1. ~Contains(KeyOf(t))' /\ KeyOf(t)' = KeyOf(t)
      BY <2>2, <1>1 DEF Room, Step, PhaseOK, KeyOf, Contains
    <3>2. CASE size # Capacity
      <4>1. pc'[t] = "grow" /\ spot'[t] = size
        BY <2>2, <3>2 DEF Room, Step, Reads, FreeInv, StitchTypeOK
      <4> QED BY <4>1, <3>1, <3>2, <1>1 DEF PhaseOK, AtTail
    <3>3. CASE size = Capacity
      <4>1. pc'[t] = "oldest"
        BY <2>2, <3>3 DEF Room, Step, FreeInv, StitchTypeOK
      <4> QED BY <4>1, <3>1, <3>3, <1>1 DEF PhaseOK, AtTail
    <3> QED BY <3>2, <3>3
  <2>3. CASE ReadOldest(t)
    <3>1. ~Contains(KeyOf(t))' /\ size = Capacity
      BY <2>3, <1>1 DEF ReadOldest, Step, PhaseOK, KeyOf, Contains
    <3>2. pc'[t] = "evict" /\ spot'[t] = head /\ got'[t] = keyAt[head]
      BY <2>3 DEF ReadOldest, Step, FreeInv, StitchTypeOK
    <3> QED BY <3>1, <3>2, <1>1 DEF PhaseOK, AtTail
  <2> QED BY <2>1, <2>2, <2>3
<1> QED BY <1>2, <1>3, <1>4, <1>5, PutStepRest

LEMMA UpdateSlotQuiet ==
  ASSUME FreeInv, QuietInv, NEW t \in Threads, PutStep(t), ~overlapped', UpdateSlot(t)
  PROVE  QuietInv'
<1> PICK k \in Keys : k = KeyOf(t)
  BY PutStepQuiet
<1>1. /\ Contains(k) /\ spot[t] = index[k] /\ pc[t] = "update" /\ index[k] \in Slots
      /\ valueAt' = [valueAt EXCEPT ![index[k]] = mine[t]] /\ valueAt \in [Slots -> Values \cup {NoValue}]
      /\ UNCHANGED <<keyAt, index, head, tail, size, keyOf, mate, flows>> /\ pc'[t] = "out"
  <2>1. pc[t] = "update" /\ PhaseOK(t) /\ StitchTypeOK
    BY DEF UpdateSlot, Return, QuietInv, FreeInv
  <2>2. Contains(k) /\ spot[t] = index[k]
    BY <2>1 DEF PhaseOK
  <2>3. index[k] \in Slots /\ valueAt \in [Slots -> Values \cup {NoValue}]
    BY <2>1, <2>2 DEF StitchTypeOK, Contains
  <2> QED BY <2>1, <2>2, <2>3 DEF UpdateSlot, Return, StitchTypeOK
<1>2. Open(mine[t]) /\ keyOf[mine[t]] = k /\ \A f : Open(f)' = Open(f)
  BY <1>1, PutStepQuiet DEF QuietInv, HeldOpen, KeyOf
<1>3. ASSUME NEW j \in Keys, Contains(j)'
      PROVE  /\ Contains(j) /\ index'[j] = index[j] /\ keyAt'[index[j]] = j
             /\ valueAt'[index[j]] = IF j = k THEN mine[t] ELSE valueAt[index[j]]
  <2>1. Contains(j) /\ index'[j] = index[j] /\ keyAt[index[j]] = j /\ keyAt[index[k]] = k
    BY <1>1, <1>3 DEF Contains, QuietInv, MapOwn
  <2>2. index[j] \in Slots
    BY <2>1 DEF FreeInv, StitchTypeOK, Contains
  <2> QED BY <2>1, <2>2, <1>1
<1>4. MapOwn'
  <2>1. ASSUME NEW j \in Keys, Contains(j)'
        PROVE  keyAt'[index'[j]] = j /\ Open(valueAt'[index'[j]]) /\ keyOf'[valueAt'[index'[j]]] = j
    BY <2>1, <1>1, <1>2, <1>3 DEF QuietInv, MapOwn
  <2> QED BY <2>1, <1>1 DEF MapOwn, Open
<1>5. Blank' /\ Meet'
  BY <1>1, PutStepQuiet DEF QuietInv, Blank, Meet, AtTail
<1>6. HeldOpen'
  BY <1>1, <1>3, HeldStays
<1>7. PhaseOK(t)'
  BY <1>1 DEF PhaseOK, AtTail
<1> QED BY <1>4, <1>5, <1>6, <1>7, PutStepRest

LEMMA GrowQuiet ==
  ASSUME FreeInv, QuietInv, NEW t \in Threads, PutStep(t), ~overlapped', Grow(t)
  PROVE  QuietInv'
<1>1. /\ pc[t] = "grow" /\ spot[t] = size /\ size # Capacity /\ ~Contains(KeyOf(t))
      /\ size' = size + 1 /\ pc'[t] = "write" /\ mine' = mine
      /\ UNCHANGED <<keyAt, valueAt, index, head, tail, keyOf, mate, flows>>
  BY DEF Grow, Step, dataVars, QuietInv, PhaseOK, FreeInv, StitchTypeOK
<1>2. head = 0 /\ tail = size /\ size \in Nat /\ tail \in Slots /\ Capacity \in Nat /\ size < Capacity
  BY <1>1, PutStepQuiet, RingAssumption DEF Meet, AtTail, FreeInv, StitchTypeOK, QuietInv, Blank
<1>3. MapOwn'
  BY <1>1 DEF QuietInv, MapOwn, Contains, Open
<1>4. Blank'
  <2>1. size' <= Capacity /\ \A s \in Slots : s >= size' => s >= size
    BY <1>1, <1>2 DEF Slots
  <2> QED BY <2>1, <1>1 DEF QuietInv, Blank
<1>5. HeldOpen'
  <2>1. \A k \in Keys : Contains(k)' => Contains(k) /\ valueAt'[index'[k]] = valueAt[index[k]]
    BY <1>1 DEF Contains
  <2>2. \A k \in Keys : Contains(k)' => valueAt'[index'[k]] # mine[t]
    BY <1>1, <2>1 DEF QuietInv, HeldOpen
  <2> QED BY <1>1, <2>1, <2>2, HeldStays
<1>6. ASSUME NEW j \in Keys PROVE index[j] # tail
  <2>1. keyAt[tail] = NoKey /\ NoSlot # tail
    BY <1>2 DEF QuietInv, Blank, Slots, NoSlot
  <2> QED BY <2>1, RingAssumption DEF QuietInv, MapOwn, Contains
<1>7. PhaseOK(t)'
  BY <1>1, <1>2, <1>6 DEF PhaseOK, KeyOf, Contains, AtTail, Ahead
<1> QED BY <1>1, <1>3, <1>4, <1>5, <1>7, PutStepRest DEF AtTail

LEMMA EvictQuiet ==
  ASSUME FreeInv, QuietInv, NEW t \in Threads, PutStep(t), ~overlapped', Evict(t)
  PROVE  QuietInv'
<1>1. /\ pc[t] = "evict" /\ spot[t] = head /\ size = Capacity /\ ~Contains(KeyOf(t))
      /\ index' = Evicted(keyAt[head]) /\ pc'[t] = "head" /\ mine' = mine /\ spot' = spot
      /\ UNCHANGED <<keyAt, valueAt, head, tail, size, keyOf, mate, flows>>
  BY DEF Evict, Step, dataVars, QuietInv, PhaseOK, FreeInv, StitchTypeOK
<1>2. tail = head /\ NoSlot # tail
  <2>1. Meet /\ tail \in Slots
    BY <1>1, PutStepQuiet DEF AtTail, FreeInv, StitchTypeOK
  <2>2. \A s \in Slots : NoSlot # s
    BY RingAssumption DEF Slots, NoSlot
  <2> QED BY <2>1, <2>2, <1>1 DEF Meet
<1>3. ASSUME NEW j \in Keys
      PROVE  /\ Contains(j)' => Contains(j) /\ index'[j] = index[j] /\ j # keyAt[head]
             /\ index'[j] # tail
  <2>1. index'[j] = IF j = keyAt[head] THEN NoSlot ELSE index[j]
    BY <1>1 DEF Evicted
  <2>2. j # keyAt[head] => index[j] # tail
    BY <1>2 DEF QuietInv, MapOwn, Contains
  <2> QED BY <2>1, <2>2, <1>2 DEF Contains
<1>4. MapOwn'
  BY <1>1, <1>3 DEF QuietInv, MapOwn, Open
<1>5. Blank' /\ Meet'
  BY <1>1, PutStepQuiet DEF QuietInv, Blank, Meet, AtTail
<1>6. HeldOpen'
  <2>1. \A k \in Keys : Contains(k)' => Contains(k) /\ valueAt'[index'[k]] = valueAt[index[k]]
    BY <1>1, <1>3
  <2>2. \A k \in Keys : Contains(k)' => valueAt'[index'[k]] # mine[t]
    BY <1>1, <2>1 DEF QuietInv, HeldOpen
  <2> QED BY <1>1, <2>1, <2>2, HeldStays
<1>7. KeyOf(t)' = KeyOf(t) /\ ~Contains(KeyOf(t))'
  <2>1. KeyOf(t)' = KeyOf(t) /\ KeyOf(t) \in Keys
    BY <1>1, PutStepQuiet DEF KeyOf
  <2> QED BY <2>1, <1>1, <1>3 DEF Contains
<1>8. PhaseOK(t)'
  BY <1>1, <1>3, <1>7 DEF PhaseOK, AtTail
<1> QED BY <1>4, <1>5, <1>6, <1>8, PutStepRest

LEMMA MoveHeadQuiet ==
  ASSUME FreeInv, QuietInv, NEW t \in Threads, PutStep(t), ~overlapped', MoveHead(t)
  PROVE  QuietInv'
<1>1. /\ pc[t] = "head" /\ spot[t] = head /\ size = Capacity /\ ~Contains(KeyOf(t))
      /\ head' = After(head) /\ pc'[t] = "write" /\ mine' = mine
      /\ UNCHANGED <<keyAt, valueAt, index, tail, size, keyOf, mate, flows>>
      /\ \A j \in Keys : index[j] # tail
  BY DEF MoveHead, Step, dataVars, QuietInv, PhaseOK, FreeInv, StitchTypeOK
<1>2. tail = head
  BY <1>1, PutStepQuiet DEF Meet, AtTail
<1>3. MapOwn' /\ Blank'
  BY <1>1, RingSame
<1>4. HeldOpen'
  <2>1. \A k \in Keys : Contains(k)' => Contains(k) /\ valueAt'[index'[k]] = valueAt[index[k]]
    BY <1>1 DEF Contains
  <2>2. \A k \in Keys : Contains(k)' => valueAt'[index'[k]] # mine[t]
    BY <1>1, <2>1 DEF QuietInv, HeldOpen
  <2> QED BY <1>1, <2>1, <2>2, HeldStays
<1>5. PhaseOK(t)'
  <2>1. Ahead'
    BY <1>1, <1>2 DEF Ahead, After
  <2> QED BY <2>1, <1>1 DEF PhaseOK, KeyOf, Contains, AtTail
<1> QED BY <1>1, <1>3, <1>4, <1>5, PutStepRest DEF AtTail

LEMMA WriteSlotQuiet ==
  ASSUME FreeInv, QuietInv, NEW t \in Threads, PutStep(t), ~overlapped', WriteSlot(t)
  PROVE  QuietInv'
<1>1. /\ pc[t] = "write" /\ Ahead /\ ~Contains(KeyOf(t)) /\ \A j \in Keys : index[j] # tail
      /\ keyAt' = [keyAt EXCEPT ![tail] = KeyOf(t)] /\ valueAt' = [valueAt EXCEPT ![tail] = mine[t]]
      /\ pc'[t] = "link" /\ spot'[t] = tail /\ mine' = mine /\ tail \in Slots
      /\ UNCHANGED <<index, head, tail, size, keyOf, mate, flows>>
  BY DEF WriteSlot, Step, Reads, QuietInv, PhaseOK, FreeInv, StitchTypeOK, AtTail
<1>2. /\ keyAt'[tail] = KeyOf(t) /\ valueAt'[tail] = mine[t]
      /\ \A s \in Slots : s # tail => keyAt'[s] = keyAt[s] /\ valueAt'[s] = valueAt[s]
  BY <1>1 DEF FreeInv, StitchTypeOK
<1>3. ASSUME NEW j \in Keys, Contains(j)'
      PROVE  /\ Contains(j) /\ index'[j] = index[j] /\ index[j] \in Slots
             /\ keyAt'[index[j]] = keyAt[index[j]] /\ valueAt'[index[j]] = valueAt[index[j]]
  <2>1. Contains(j) /\ index'[j] = index[j] /\ index[j] \in Slots /\ index[j] # tail
    BY <1>1, <1>3 DEF Contains, FreeInv, StitchTypeOK
  <2> QED BY <2>1, <1>2
<1>4. MapOwn'
  BY <1>1, <1>3 DEF QuietInv, MapOwn, Open
<1>5. Blank'
  <2>1. tail < size /\ \A s \in Slots : s >= size => s # tail
    BY <1>1, RingAssumption DEF Ahead, Slots
  <2> QED BY <2>1, <1>1, <1>2 DEF QuietInv, Blank
<1>6. HeldOpen'
  <2>1. \A k \in Keys : Contains(k)' => valueAt'[index'[k]] # mine[t]
    BY <1>1, <1>3 DEF QuietInv, HeldOpen
  <2> QED BY <1>1, <1>3, <2>1, HeldStays
<1>7. KeyOf(t)' = KeyOf(t)
  BY <1>1 DEF KeyOf
<1>8. PhaseOK(t)'
  <2>1. Ahead'
    BY <1>1 DEF Ahead, After
  <2> QED BY <2>1, <1>1, <1>2, <1>7 DEF PhaseOK, Contains, AtTail
<1> QED BY <1>1, <1>4, <1>5, <1>6, <1>8, PutStepRest DEF AtTail

LEMMA LinkQuiet ==
  ASSUME FreeInv, QuietInv, NEW t \in Threads, PutStep(t), ~overlapped', Link(t)
  PROVE  QuietInv'
<1> PICK k \in Keys : k = KeyOf(t)
  BY PutStepQuiet
<1>1. /\ pc[t] = "link" /\ Ahead /\ spot[t] = tail /\ keyAt[tail] = k /\ valueAt[tail] = mine[t]
      /\ \A j \in Keys : index[j] # tail
      /\ index' = [index EXCEPT ![k] = tail] /\ spot'[t] = tail
      /\ pc'[t] = "tail" /\ mine' = mine
      /\ UNCHANGED <<keyAt, valueAt, head, tail, size, keyOf, mate, flows>>
  BY DEF Link, Step, Reads, dataVars, QuietInv, PhaseOK, FreeInv, StitchTypeOK, AtTail
<1>2. \A j \in Keys : index'[j] = IF j = k THEN tail ELSE index[j]
  BY <1>1 DEF FreeInv, StitchTypeOK
<1>3. Open(mine[t]) /\ keyOf[mine[t]] = k
  BY <1>1 DEF QuietInv, HeldOpen, KeyOf
<1>4. MapOwn'
  <2>1. ASSUME NEW j \in Keys, Contains(j)'
        PROVE  keyAt'[index'[j]] = j /\ Open(valueAt'[index'[j]]) /\ keyOf'[valueAt'[index'[j]]] = j
    BY <2>1, <1>1, <1>2, <1>3 DEF QuietInv, MapOwn, Contains
  <2> QED BY <2>1, <1>1 DEF MapOwn, Open
<1>5. Blank'
  BY <1>1 DEF QuietInv, Blank
<1>6. HeldOpen'
  <2>1. \A j \in Keys : Contains(j)' =>
           \/ valueAt'[index'[j]] = mine[t]
           \/ Contains(j) /\ valueAt'[index'[j]] = valueAt[index[j]]
    BY <1>1, <1>2 DEF Contains
  <2> QED BY <1>1, <2>1, HeldStays
<1>7. PhaseOK(t)'
  <2>1. Ahead'
    BY <1>1 DEF Ahead, After
  <2> QED BY <2>1, <1>1 DEF PhaseOK, AtTail
<1> QED BY <1>1, <1>4, <1>5, <1>6, <1>7, PutStepRest DEF AtTail

LEMMA MoveTailQuiet ==
  ASSUME FreeInv, QuietInv, NEW t \in Threads, PutStep(t), ~overlapped', MoveTail(t)
  PROVE  QuietInv'
<1>1. /\ pc[t] = "tail" /\ Ahead /\ spot[t] = tail /\ tail' = After(tail) /\ pc'[t] = "out"
      /\ UNCHANGED <<keyAt, valueAt, index, head, size, keyOf, mate, flows>>
      /\ tail \in Slots /\ size \in Nat /\ Capacity \in Nat /\ size <= Capacity
  BY RingAssumption DEF MoveTail, Return, dataVars, QuietInv, PhaseOK, FreeInv, StitchTypeOK, AtTail, Blank
<1>2. MapOwn' /\ Blank'
  BY <1>1, RingSame
<1>3. Meet'
  <2>1. CASE head = After(tail) /\ size = Capacity
    BY <2>1, <1>1 DEF Meet
  <2>2. CASE head = 0 /\ size = tail + 1
    BY <2>2, <1>1, AfterType DEF Meet, Slots
  <2> QED BY <2>1, <2>2, <1>1 DEF Ahead
<1>4. HeldOpen'
  <2>1. \A k \in Keys : Contains(k)' => Contains(k) /\ valueAt'[index'[k]] = valueAt[index[k]]
    BY <1>1 DEF Contains
  <2> QED BY <1>1, <2>1, HeldStays
<1>5. PhaseOK(t)'
  BY <1>1 DEF PhaseOK, AtTail
<1> QED BY <1>2, <1>3, <1>4, <1>5, PutStepRest

LEMMA QuietStutter == QuietInv /\ UNCHANGED <<ringVars, stitchVars>> => QuietInv'
<1> SUFFICES ASSUME QuietInv, UNCHANGED <<ringVars, stitchVars>> PROVE QuietInv'
  OBVIOUS
<1>1. UNCHANGED <<keyAt, valueAt, index, head, tail, size, pc, mine, spot, got, keyOf, mate, flows>>
  BY DEF ringVars, stitchVars
<1>2. MapOwn' /\ Blank' /\ Pairs'
  BY <1>1, RingSame
<1>3. Alone' /\ Settled'
  BY <1>1 DEF QuietInv, Alone, InCall, Settled, Meet
<1>4. ASSUME NEW t \in Threads PROVE PhaseOK(t)'
  <2>1. PhaseOK(t) /\ (Ahead' = Ahead)
    BY <1>1 DEF QuietInv, Ahead, After
  <2> QED BY <2>1, <1>1 DEF PhaseOK, Contains, KeyOf
<1>5. HeldOpen'
  BY <1>1 DEF QuietInv, HeldOpen, Contains, Open
<1> QED BY <1>2, <1>3, <1>4, <1>5 DEF QuietInv

LEMMA StitchInitial == StitchInit => StitchInv
BY FreeInitial, QuietInitial DEF StitchInv

LEMMA StitchInductive == StitchInv /\ [StitchNext]_<<ringVars, stitchVars>> => StitchInv'
<1> SUFFICES ASSUME StitchInv, [StitchNext]_<<ringVars, stitchVars>> PROVE StitchInv'
  OBVIOUS
<1>1. FreeInv /\ FreeInv'
  BY FreeInductive DEF StitchInv
<1>2. ASSUME ~overlapped' PROVE QuietInv'
  <2>1. ~overlapped /\ QuietInv
    <3>1. overlapped => overlapped'
      BY DEF StitchNext, LookUp, ReadValue, DeleteKey, PutStep, PutStart, UpdateSlot, Room, Grow, ReadOldest, Evict,
             MoveHead, WriteSlot, Link, MoveTail, Step, Return, Begins, stitchVars
    <3> QED BY <3>1, <1>2 DEF StitchInv
  <2>2. ASSUME NEW t \in Threads, PutStep(t) PROVE QuietInv'
    BY <1>1, <1>2, <2>1, <2>2, ReadsQuiet, UpdateSlotQuiet, GrowQuiet, EvictQuiet, MoveHeadQuiet, WriteSlotQuiet,
       LinkQuiet, MoveTailQuiet DEF PutStep
  <2> QED BY <1>1, <1>2, <2>1, <2>2, LookUpQuiet, ReadValueQuiet, DeleteKeyQuiet, QuietStutter DEF StitchNext
<1> QED BY <1>1, <1>2 DEF StitchInv

\* For any number of threads, keys and flows and any capacity: as long as no two
\* calls on the ring buffer overlap, and however the threads take turns between
\* them, Stitch never pairs a flow with one of another key or with a later one.
THEOREM StitchSharesKeys == StitchSpec => []MatesShareKey
<1>1. StitchInv => MatesShareKey
  BY DEF StitchInv, QuietInv, Pairs, MatesShareKey
<1> QED BY StitchInitial, StitchInductive, <1>1, PTL DEF StitchSpec

\* As long as no two calls overlap Stitch gives no snapshot to two flows; and
\* whatever overlaps, a flow that took a snapshot leaves none.
THEOREM StitchPairsOnce == StitchSpec => []PairedOnce
<1>1. StitchInv => PairedOnce
  <2>1. FreeInv => LeavesNone
    BY DEF FreeInv, AllLeft, Left, LeavesNone, Paired
  <2> QED BY <2>1 DEF StitchInv, QuietInv, Pairs, PairedOnce
<1> QED BY StitchInitial, StitchInductive, <1>1, PTL DEF StitchSpec

-----------------------------------------------------------------------------
(* The refinement: a client that only Puts sees the store of EvictingMap.  *)

Abstract == INSTANCE EvictingMap WITH entries <- Entries

\* The slot of the i-th oldest entry.
SlotOf(h, i) == (h + i - 1) % Capacity

LEMMA SlotOfValue ==
  ASSUME NEW h \in Slots, NEW i \in 1 .. Capacity
  PROVE  SlotOf(h, i) = IF h + i - 1 < Capacity THEN h + i - 1 ELSE h + i - 1 - Capacity
<1>1. Capacity \in Nat \ {0} /\ h \in Nat /\ h < Capacity /\ i \in Nat /\ i <= Capacity /\ 1 <= i
  BY RingAssumption DEF Slots
<1>2. ASSUME NEW M \in Nat \ {0}, NEW b \in Nat, b < M PROVE b % M = b
  BY <1>2
<1>3. ASSUME NEW M \in Nat \ {0}, NEW b \in Nat, NEW r \in Nat, r < M, b = M + r PROVE b % M = r
  <2>1. b = M * 1 + r
    BY <1>3
  <2>2. ASSUME NEW q \in Nat, b = M * q + r PROVE b % M = r
    BY <1>3, <2>2
  <2> QED
    BY <2>1, <2>2
<1>4. h + i - 1 \in Nat
  BY <1>1
<1>5. CASE h + i - 1 < Capacity
  BY <1>1, <1>2, <1>4, <1>5 DEF SlotOf
<1>6. CASE ~(h + i - 1 < Capacity)
  <2>1. h + i - 1 - Capacity \in Nat /\ h + i - 1 - Capacity < Capacity
        /\ h + i - 1 = Capacity + (h + i - 1 - Capacity)
    BY <1>1, <1>6
  <2> QED
    BY <1>1, <1>3, <1>4, <1>6, <2>1 DEF SlotOf
<1> QED
  BY <1>5, <1>6

\* Every slot that was written holds a key that the map leads back to it.
Complete == \A s \in Slots : s < size => keyAt[s] \in Keys /\ index[keyAt[s]] = s

LEMMA EntriesAre ==
  ASSUME RingInv
  PROVE  /\ size \in Nat /\ DOMAIN Entries = 1 .. size
         /\ \A i \in 1 .. size : /\ SlotOf(head, i) \in Slots /\ SlotOf(head, i) < size
                                 /\ Entries[i] = [key |-> keyAt[SlotOf(head, i)],
                                                  value |-> valueAt[SlotOf(head, i)]]
         /\ \A i, j \in 1 .. size : SlotOf(head, i) = SlotOf(head, j) => i = j
         /\ \A s \in Slots : s < size => \E i \in 1 .. size : SlotOf(head, i) = s
<1>1. /\ Capacity \in Nat \ {0} /\ head \in Slots /\ head \in Nat /\ head < Capacity
      /\ size \in Nat /\ size <= Capacity /\ 1 .. size \subseteq 1 .. Capacity
      /\ size # Capacity => head = 0
  BY RingAssumption DEF RingInv, RingTypeOK, RingShape, Slots
<1>2. \A i \in 1 .. size :
        SlotOf(head, i) = IF head + i - 1 < Capacity THEN head + i - 1 ELSE head + i - 1 - Capacity
  BY <1>1, SlotOfValue
<1>3. \A i \in 1 .. size : SlotOf(head, i) \in Slots /\ SlotOf(head, i) < size
  BY <1>1, <1>2 DEF Slots
<1>4. \A i, j \in 1 .. size : SlotOf(head, i) = SlotOf(head, j) => i = j
  BY <1>1, <1>2
<1>5. ASSUME NEW s \in Slots, s < size PROVE \E i \in 1 .. size : SlotOf(head, i) = s
  <2>1. CASE s >= head
    <3>1. s - head + 1 \in 1 .. size
      BY <1>1, <1>5, <2>1 DEF Slots
    <3>2. SlotOf(head, s - head + 1) = s
      BY <1>1, <1>2, <1>5, <2>1, <3>1 DEF Slots
    <3> QED
      BY <3>1, <3>2
  <2>2. CASE s < head
    <3>1. size = Capacity /\ s + Capacity - head + 1 \in 1 .. size
      BY <1>1, <1>5, <2>2 DEF Slots
    <3>2. SlotOf(head, s + Capacity - head + 1) = s
      BY <1>1, <1>2, <1>5, <2>2, <3>1 DEF Slots
    <3> QED
      BY <3>1, <3>2
  <2> QED
    BY <1>1, <2>1, <2>2 DEF Slots
<1>6. /\ DOMAIN Entries = 1 .. size
      /\ \A i \in 1 .. size : Entries[i] = [key |-> keyAt[SlotOf(head, i)],
                                            value |-> valueAt[SlotOf(head, i)]]
  BY DEF Entries, SlotOf
<1> QED
  BY <1>1, <1>3, <1>4, <1>5, <1>6

\* Which entry a key has.
LEMMA HoldingIs ==
  ASSUME RingInv, Complete, NEW k \in Keys
  PROVE  /\ Contains(k) => \E i \in 1 .. size : SlotOf(head, i) = index[k] /\ Entries[i].key = k
         /\ \A i \in 1 .. size : Entries[i].key = k => Contains(k)
<1>1. CASE Contains(k)
  <2>1. index[k] \in Slots /\ keyAt[index[k]] = k
    BY <1>1 DEF RingInv, RingTypeOK, IndexSound, Contains
  <2>2. index[k] < size
    BY <2>1, RingAssumption DEF RingInv, RingShape, RingTypeOK, Slots
  <2> QED
    BY <1>1, <2>1, <2>2, EntriesAre
<1>2. ASSUME NEW i \in 1 .. size, Entries[i].key = k PROVE Contains(k)
  <2>1. SlotOf(head, i) \in Slots /\ SlotOf(head, i) < size /\ keyAt[SlotOf(head, i)] = k
    BY <1>2, EntriesAre
  <2>2. index[k] = SlotOf(head, i)
    BY <2>1 DEF Complete
  <2> QED
    BY <2>1, <2>2 DEF Contains, NoSlot, Slots
<1> QED
  BY <1>1, <1>2

LEMMA CompleteKept ==
  ASSUME RingInv, Complete, NEW k \in Keys, NEW v \in Values, Put(k, v) PROVE Complete'
<1>1. /\ keyAt \in [Slots -> Keys \cup {NoKey}] /\ index \in [Keys -> Slots \cup {NoSlot}]
      /\ tail \in Slots /\ head \in Slots /\ size \in 0 .. Capacity /\ Capacity \in Nat \ {0}
  BY RingAssumption DEF RingInv, RingTypeOK
<1>2. CASE Update(k, v)
  BY <1>2 DEF Update, Complete
<1>3. CASE Insert(k, v)
  <2>1. keyAt' = [keyAt EXCEPT ![tail] = k] /\ ~Contains(k)
    BY <1>3 DEF Insert, Place
  <2>2. CASE size = Capacity
    <3>1. /\ tail = head /\ size' = size /\ index' = [Evicted(keyAt[head]) EXCEPT ![k] = tail]
      BY <1>3, <2>2 DEF Insert, Place, RingInv, RingShape
    <3>2. ASSUME NEW s \in Slots PROVE keyAt'[s] \in Keys /\ index'[keyAt'[s]] = s
      <4>1. CASE s = tail
        BY <1>1, <2>1, <3>1, <4>1 DEF Evicted
      <4>2. CASE s # tail
        <5>1. keyAt[s] \in Keys /\ index[keyAt[s]] = s /\ index[keyAt[tail]] = tail
          BY <1>1, <2>2 DEF Complete, Slots
        <5>2. keyAt[s] # keyAt[tail] /\ keyAt[s] # k
          BY <2>1, <4>2, <5>1 DEF Contains, NoSlot, Slots
        <5>3. keyAt'[s] = keyAt[s]
          BY <1>1, <2>1, <4>2
        <5>4. index'[keyAt[s]] = index[keyAt[s]]
          BY <1>1, <3>1, <5>1, <5>2 DEF Evicted
        <5> QED
          BY <5>1, <5>3, <5>4
      <4> QED
        BY <4>1, <4>2
    <3> QED
      BY <3>2 DEF Complete
  <2>3. CASE size # Capacity
    <3>1. tail = size /\ size' = size + 1 /\ index' = [index EXCEPT ![k] = tail]
      BY <1>3, <2>3 DEF Insert, Place, RingInv, RingShape
    <3>2. ASSUME NEW s \in Slots, s < size' PROVE keyAt'[s] \in Keys /\ index'[keyAt'[s]] = s
      <4>1. CASE s = tail
        BY <1>1, <2>1, <3>1, <4>1
      <4>2. CASE s # tail
        <5>1. s < size
          BY <1>1, <3>1, <3>2, <4>2 DEF Slots
        <5>2. keyAt[s] \in Keys /\ index[keyAt[s]] = s
          BY <5>1 DEF Complete
        <5>3. keyAt[s] # k
          BY <2>1, <5>2 DEF Contains, NoSlot, Slots
        <5> QED
          BY <1>1, <2>1, <3>1, <4>2, <5>2, <5>3
      <4> QED
        BY <4>1, <4>2
    <3> QED
      BY <3>2 DEF Complete
  <2> QED
    BY <2>2, <2>3
<1> QED
  BY <1>2, <1>3 DEF Put

\* An element of the abstract queue, and that Entries is a queue of them.
Entry == [key : Keys \cup {NoKey}, value : Values \cup {NoValue}]

\* Entries reads the live slots as a sequence of entries, as long as size.
LEMMA EntriesType == RingInv => Entries \in Seq(Entry) /\ Len(Entries) = size
<1> HAVE RingInv
<1>1. Entries \in [1 .. size -> Entry] /\ size \in Nat
  <2>1. /\ size \in Nat /\ \A i \in 1 .. size : SlotOf(head, i) \in Slots
    BY EntriesAre
  <2>2. \A s \in Slots : [key |-> keyAt[s], value |-> valueAt[s]] \in Entry
    BY DEF RingInv, RingTypeOK, Entry
  <2> QED
    BY <2>1, <2>2 DEF Entries, SlotOf
<1> QED
  BY <1>1

\* An update replaces the value of the key's entry, in its place.
LEMMA UpdateRefines ==
  ASSUME RingInv, Complete, NEW k \in Keys, NEW v \in Values, Put(k, v), Update(k, v)
  PROVE  Abstract!Update(k, v)
<1>1. PICK i \in 1 .. size : SlotOf(head, i) = index[k] /\ Entries[i].key = k
  BY HoldingIs DEF Update
<1>2. /\ UNCHANGED <<keyAt, index, head, tail, size>> /\ index[k] \in Slots
      /\ valueAt' = [valueAt EXCEPT ![index[k]] = v] /\ keyAt[index[k]] = k
      /\ valueAt \in [Slots -> Values \cup {NoValue}]
  BY DEF Update, RingInv, RingTypeOK, Contains, IndexSound
<1>3. ASSUME NEW j \in 1 .. size
      PROVE  Entries'[j] = IF j = i THEN [key |-> k, value |-> v] ELSE Entries[j]
  <2>1. Entries'[j] = [key |-> keyAt[SlotOf(head, j)], value |-> valueAt'[SlotOf(head, j)]]
    BY <1>2 DEF Entries, SlotOf
  <2>2. SlotOf(head, j) \in Slots /\ (SlotOf(head, j) = index[k] <=> j = i)
        /\ Entries[j] = [key |-> keyAt[SlotOf(head, j)], value |-> valueAt[SlotOf(head, j)]]
    BY <1>1, EntriesAre
  <2> QED
    BY <1>2, <2>1, <2>2
<1>4. Entries' = [Entries EXCEPT ![i] = [key |-> k, value |-> v]]
  <2>1. Entries' = [j \in 1 .. size |-> Entries'[j]]
    BY <1>2 DEF Entries
  <2>2. Entries = [j \in 1 .. size |-> Entries[j]]
    BY DEF Entries
  <2> QED
    BY <1>3, <2>1, <2>2
<1>5. i \in Abstract!Holding(k)
  BY <1>1, EntriesAre DEF Abstract!Holding
<1> QED
  BY <1>4, <1>5 DEF Abstract!Update

\* An insertion appends, and drops the oldest entry of a full buffer.
LEMMA InsertRefines ==
  ASSUME RingInv, Complete, RingInv', NEW k \in Keys, NEW v \in Values, Put(k, v), Insert(k, v)
  PROVE  Abstract!Insert(k, v)
<1> DEFINE e == [key |-> k, value |-> v]
<1>1. Abstract!Holding(k) = {}
  <2>1. \A i \in 1 .. size : Entries[i].key # k
    BY HoldingIs DEF Insert
  <2> QED
    BY <2>1, EntriesAre DEF Abstract!Holding
<1>2. /\ Capacity \in Nat \ {0} /\ head \in Slots /\ tail \in Slots /\ size \in 0 .. Capacity
      /\ keyAt \in [Slots -> Keys \cup {NoKey}] /\ valueAt \in [Slots -> Values \cup {NoValue}]
      /\ keyAt' = [keyAt EXCEPT ![tail] = k] /\ valueAt' = [valueAt EXCEPT ![tail] = v]
  BY RingAssumption DEF RingInv, RingTypeOK, Insert, Place
<1>3. Entries \in Seq(Entry) /\ Len(Entries) = size /\ Entries' \in Seq(Entry) /\ Len(Entries') = size'
  <2>1. Entries \in Seq(Entry) /\ Len(Entries) = size
    BY EntriesType
  <2>2. (Entries \in Seq(Entry) /\ Len(Entries) = size)'
    BY EntriesType, PTL
  <2> QED
    BY <2>1, <2>2 DEF Entry
<1>4. e \in Entry
  BY DEF Entry
<1>5. \A i \in 1 .. size' : Entries'[i] = [key |-> keyAt'[SlotOf(head', i)],
                                           value |-> valueAt'[SlotOf(head', i)]]
  BY DEF Entries, SlotOf
<1>6. \A s \in Slots : IF s = tail THEN [key |-> keyAt'[s], value |-> valueAt'[s]] = e
                       ELSE keyAt'[s] = keyAt[s] /\ valueAt'[s] = valueAt[s]
  BY <1>2
<1> HIDE DEF e
<1>7. CASE size = Capacity
  <2>1. tail = head /\ head' = After(head) /\ size' = size
    BY <1>7 DEF Insert, Place, RingInv, RingShape
  <2>2. /\ head' \in Slots
        /\ head' = IF head + 1 = Capacity THEN 0 ELSE head + 1
    BY <1>2, <2>1, AfterType DEF Slots
  <2> DEFINE t == Append(Tail(Entries), e)
  <2>3. /\ t \in Seq(Entry) /\ Len(t) = size /\ t[size] = e
        /\ \A i \in 1 .. size - 1 : t[i] = Entries[i + 1]
    <3>1. /\ Tail(Entries) \in Seq(Entry) /\ Len(Tail(Entries)) = size - 1
          /\ \A i \in 1 .. size - 1 : Tail(Entries)[i] = Entries[i + 1]
      BY <1>2, <1>3, <1>7
    <3> QED
      BY <1>2, <1>4, <1>7, <3>1
  <2> HIDE DEF t
  <2>4. ASSUME NEW i \in 1 .. size - 1 PROVE Entries'[i] = t[i]
    <3>1. i \in 1 .. Capacity /\ i + 1 \in 1 .. Capacity /\ i \in 1 .. size' /\ i + 1 \in 1 .. size
      BY <1>2, <1>7, <2>1
    <3>2. SlotOf(head', i) = SlotOf(head, i + 1) /\ SlotOf(head, i + 1) # head
          /\ SlotOf(head, i + 1) \in Slots
      BY <1>2, <2>2, <3>1, SlotOfValue DEF Slots
    <3>3. Entries[i + 1] = [key |-> keyAt[SlotOf(head, i + 1)],
                            value |-> valueAt[SlotOf(head, i + 1)]]
      BY <3>1, EntriesAre
    <3>4. Entries'[i] = [key |-> keyAt'[SlotOf(head', i)], value |-> valueAt'[SlotOf(head', i)]]
      BY ONLY <1>5, <3>1
    <3>5. /\ keyAt'[SlotOf(head, i + 1)] = keyAt[SlotOf(head, i + 1)]
          /\ valueAt'[SlotOf(head, i + 1)] = valueAt[SlotOf(head, i + 1)]
      BY ONLY <1>6, <2>1, <3>2
    <3>6. t[i] = Entries[i + 1]
      BY ONLY <2>3, i \in 1 .. size - 1
    <3> QED
      BY ONLY <3>2, <3>3, <3>4, <3>5, <3>6
  <2>5. Entries'[size] = t[size]
    <3>1. size \in 1 .. Capacity /\ size \in 1 .. size'
      BY <1>2, <1>7, <2>1
    <3>2. SlotOf(head', size) = head
      BY <1>2, <1>7, <2>2, <3>1, SlotOfValue DEF Slots
    <3>3. Entries'[size] = [key |-> keyAt'[SlotOf(head', size)],
                            value |-> valueAt'[SlotOf(head', size)]]
      BY ONLY <1>5, <3>1
    <3>4. [key |-> keyAt'[head], value |-> valueAt'[head]] = e
      BY ONLY <1>2, <1>6, <2>1
    <3> QED
      BY ONLY <2>3, <3>2, <3>3, <3>4
  <2>6. \A i \in 1 .. size : Entries'[i] = t[i]
    BY <1>2, <1>7, <2>4, <2>5
  <2>7. Entries' = t
    BY <1>3, <2>1, <2>3, <2>6, SeqEqual
  <2> QED
    BY <1>1, <1>3, <1>7, <2>7 DEF t, e, Abstract!Insert
<1>8. CASE size # Capacity
  <2>1. tail = size /\ head = 0 /\ head' = 0 /\ size' = size + 1
    BY <1>8 DEF Insert, Place, RingInv, RingShape
  <2> DEFINE t == Append(Entries, e)
  <2>3. /\ t \in Seq(Entry) /\ Len(t) = size + 1 /\ t[size + 1] = e
        /\ \A i \in 1 .. size : t[i] = Entries[i]
    BY <1>2, <1>3, <1>4
  <2> HIDE DEF t
  <2>4. ASSUME NEW i \in 1 .. size PROVE Entries'[i] = t[i]
    <3>1. i \in 1 .. Capacity /\ i \in 1 .. size' /\ 0 \in Slots
      BY <1>2, <2>1 DEF Slots
    <3>2. SlotOf(head, i) = i - 1 /\ i - 1 \in Slots /\ i - 1 # tail /\ head' = head
      BY <1>2, <1>8, <2>1, <3>1, SlotOfValue DEF Slots
    <3>3. Entries[i] = [key |-> keyAt[i - 1], value |-> valueAt[i - 1]]
      BY <3>2, EntriesAre
    <3>4. Entries'[i] = [key |-> keyAt'[SlotOf(head', i)], value |-> valueAt'[SlotOf(head', i)]]
      BY ONLY <1>5, <3>1
    <3>5. keyAt'[i - 1] = keyAt[i - 1] /\ valueAt'[i - 1] = valueAt[i - 1]
      BY ONLY <1>6, <3>2
    <3>6. t[i] = Entries[i]
      BY ONLY <2>3, i \in 1 .. size
    <3> QED
      BY ONLY <3>2, <3>3, <3>4, <3>5, <3>6
  <2>5. Entries'[size + 1] = t[size + 1]
    <3>1. size + 1 \in 1 .. Capacity /\ size + 1 \in 1 .. size'
      BY <1>2, <1>8, <2>1
    <3>2. SlotOf(head', size + 1) = tail
      BY <1>2, <1>8, <2>1, <3>1, SlotOfValue DEF Slots
    <3>3. Entries'[size + 1] = [key |-> keyAt'[SlotOf(head', size + 1)],
                                value |-> valueAt'[SlotOf(head', size + 1)]]
      BY ONLY <1>5, <3>1
    <3>4. [key |-> keyAt'[tail], value |-> valueAt'[tail]] = e
      BY ONLY <1>2, <1>6
    <3> QED
      BY ONLY <2>3, <3>2, <3>3, <3>4
  <2>6. \A i \in 1 .. size + 1 : Entries'[i] = t[i]
    BY <1>2, <2>4, <2>5
  <2>7. Entries' = t
    BY <1>3, <2>1, <2>3, <2>6, SeqEqual
  <2> QED
    BY <1>1, <1>3, <1>8, <2>7 DEF t, e, Abstract!Insert
<1> QED
  BY <1>7, <1>8

\* The ring buffer alone: the parts in which one goroutine uses it, and in the one
\* that only Puts every slot in use has its key in the map.
RingPartInv == (part \in {"put", "ring"} => RingInv) /\ (part = "put" => Complete)

LEMMA RingPartInitial == RecordsInit => RingPartInv
<1>1. RingInit => RingInv /\ Complete
  BY RingInitial DEF RingInit, Complete, Slots
<1> QED BY <1>1 DEF RecordsInit, StitchInit, RingPartInv

LEMMA RingPartKept == RingPartInv /\ [RecordsNext]_recordsVars => RingPartInv'
<1> SUFFICES ASSUME RingPartInv, [RecordsNext]_recordsVars PROVE RingPartInv'
  OBVIOUS
<1>1. part' = part
  BY DEF RecordsNext, OfRing, OfStitch, OfRecord, OfMetrics, recordsVars
<1>2. ASSUME part \in {"put", "ring"} PROVE RingInv' /\ (part = "put" => Complete')
  <2>1. /\ RingInv /\ (part = "put" => Complete)
        /\ \/ UNCHANGED ringVars
           \/ PutNext
           \/ part = "ring" /\ RingNext
    BY <1>2 DEF RingPartInv, RecordsNext, OfRing, OfStitch, OfRecord, OfMetrics, recordsVars, flowStitchVars
  <2>2. CASE UNCHANGED ringVars
    BY <2>1, <2>2, RingStutter DEF ringVars, Complete
  <2>3. CASE PutNext
    BY <2>1, <2>3, PutKeeps, CompleteKept DEF PutNext
  <2>4. CASE part = "ring" /\ RingNext
    BY <2>1, <2>4, PutKeeps, DeleteKeeps DEF RingNext, PutNext
  <2> QED BY <2>1, <2>2, <2>3, <2>4
<1> QED BY <1>1, <1>2 DEF RingPartInv

\* For every capacity and every sequence of Put and GetAndDelete that one goroutine
\* makes, Get and GetAndDelete return what their key was last Put with, and Put
\* writes only to a blank slot or to the one it has just evicted.
THEOREM MapLeadsToOwnValue == RecordsSpec => []MapSound
<1>1. RingPartInv => MapSound
  BY DEF RingPartInv, RingInv, MapSound
<1> QED BY RingPartInitial, RingPartKept, <1>1, PTL DEF RecordsSpec

\* For every capacity the ring buffer, filled by Put alone, implements a map that
\* evicts its oldest entry when it is full.
THEOREM RingRefinesEvictingMap == RecordsSpec => ImplementsEvictingMap
<1> DEFINE E == IF part = "put" THEN Entries ELSE <<>>
<1>1. RecordsInit => Store!Init
  <2>1. RingInit => Entries = <<>>
    BY DEF RingInit, Entries
  <2> QED BY <2>1 DEF RecordsInit, StitchInit, Store!Init
<1>2. RingPartInv /\ RingPartInv' /\ [RecordsNext]_recordsVars => [Store!Next]_E
  <2> SUFFICES ASSUME RingPartInv, RingPartInv', [RecordsNext]_recordsVars
               PROVE  Store!Next \/ UNCHANGED E
    OBVIOUS
  <2>1. part' = part
    BY DEF RecordsNext, OfRing, OfStitch, OfRecord, OfMetrics, recordsVars
  <2>2. CASE part # "put"
    BY <2>1, <2>2
  <2>3. CASE part = "put"
    <3>1. /\ RingInv /\ RingInv' /\ Complete
          /\ UNCHANGED ringVars \/ PutNext
      BY <2>1, <2>3 DEF RingPartInv, RecordsNext, OfRing, OfStitch, OfRecord, OfMetrics, recordsVars, flowStitchVars
    <3>2. CASE UNCHANGED ringVars
      BY <2>1, <3>2 DEF ringVars, Entries
    <3>3. CASE PutNext
      <4>1. PICK k \in Keys, v \in Values : Put(k, v)
        BY <3>3 DEF PutNext
      <4>2. Abstract!Update(k, v) \/ Abstract!Insert(k, v)
        BY <3>1, <4>1, UpdateRefines, InsertRefines DEF Put
      <4>3. E = Entries /\ E' = Entries'
        BY <2>1, <2>3
      <4>4. CASE Abstract!Update(k, v)
        BY <4>3, <4>4 DEF Abstract!Update, Abstract!Holding, Store!Next, Store!Update, Store!Holding
      <4>5. CASE Abstract!Insert(k, v)
        BY <4>3, <4>5 DEF Abstract!Insert, Abstract!Holding, Store!Next, Store!Insert, Store!Holding
      <4> QED BY <4>2, <4>4, <4>5
    <3> QED BY <3>1, <3>2, <3>3
  <2> QED BY <2>2, <2>3
<1> QED
  BY <1>1, <1>2, RingPartInitial, RingPartKept, PTL DEF RecordsSpec, ImplementsEvictingMap, Store!Spec

------------------------------------------------------------------------------
\* The JCHF object that carries a flow.

\* The keys kicked out of the custom fields of flow f.
Kicked(f) == IF f.device /\ f.sub \in DOMAIN Foreign THEN Foreign[f.sub] ELSE {}
Had == DOMAIN UdrFields(recFlow, CustomFields(recFlow, recNum))
KeptKeys == Had \ Kicked(recFlow)

\* The object is a record whose custom fields and map are functions.
ObjOK ==
  LET o == recObj
  IN  /\ o = [fixed |-> o.fixed, rate |-> o.rate, custom |-> o.custom, type |-> o.type, cached |-> o.cached,
              boxed |-> o.boxed, map |-> o.map, mapRate |-> o.mapRate]
      /\ o.fixed = [k \in FixedKeys |-> o.fixed[k]]
      /\ o.custom = [k \in DOMAIN o.custom |-> o.custom[k]]
      /\ o.map = [k \in DOMAIN o.map |-> o.map[k]]
      /\ o.cached \in BOOLEAN /\ o.boxed \in BOOLEAN

\* What the object carries is of its flow, from when it is filled to when it is given back.
CarriesOwn ==
  recPc # "free" =>
    /\ recNum >= 1
    /\ recObj.fixed["addr"] = recNum
    /\ recFlow.geo => recObj.fixed["geo"] \in {recNum, Private}
    /\ recFlow.device /\ recFlow.iface => recObj.fixed["desc"] = recNum
    /\ \A k \in DOMAIN recObj.custom : recObj.custom[k] = recNum \/ (k = "src_as_name" /\ recObj.custom[k] = Private)
    /\ recPc \in {"remap", "enrich", "roll"} => recObj.rate = <<recNum, 1>>
    /\ \E r : recObj.rate = <<recNum, r>>

\* The map is written from this flow where the rollups have asked for it.
CacheOwn ==
  /\ recPc \in {"free", "remap", "enrich", "roll"} => ~recObj.cached
  /\ recPc \in {"sample", "format"} =>
       IF recOpts.rollups
       THEN /\ recObj.cached /\ recObj.boxed /\ recObj.mapRate = <<recNum, 1>> /\ FixedKeys \subseteq DOMAIN recObj.map
            /\ \A k \in FixedKeys : recObj.map[k] = recObj.fixed[k]
       ELSE ~recObj.cached

\* Where the loop over CustomStr has got to.
Remapping ==
  recPc = "remap" =>
    /\ \A k \in DOMAIN recObj.custom : recObj.custom[k] = recNum
    /\ \A k \in KeptKeys \cap DOMAIN RemapTo :
         RemapTo[k] \notin DOMAIN RemapTo =>
           \/ RemapTo[k] \in DOMAIN recObj.custom
           \/ \E j \in recTodo \cap KeptKeys \cap DOMAIN RemapTo : RemapTo[j] = RemapTo[k]
    /\ \A k \in KeptKeys \ DOMAIN RemapTo : k \in DOMAIN recObj.custom
    /\ DOMAIN recObj.custom \cap Kicked(recFlow) \subseteq recTodo

\* The inductive invariant: RecordInv speaks of what is exported, the others of the
\* object that it is exported from.
RecIInv ==
  /\ RecordInv /\ ObjOK /\ CarriesOwn /\ CacheOwn /\ Remapping
  /\ recOpts \in [enrich : BOOLEAN, rollups : BOOLEAN, sample : BOOLEAN]
  /\ recPc # "remap" => recTodo = {}

\* getEventType has one of its five answers for every flow.
LEMMA EventTypes == ASSUME NEW f PROVE GetEventType(f) \in {"flow", "snmp", "synth", "trace", "gest"}
BY DEF GetEventType

\* Init and the steps of a record.
LEMMA RecordInitial == RecordInit => RecIInv
<1> SUFFICES ASSUME RecordInit PROVE RecIInv
  OBVIOUS
<1>1. recFlow \in FlowSet
  BY RecordAssumption, Zenon DEF RecordInit
<1>2. RecordTypeOK
  BY <1>1, RecordAssumption DEF RecordInit, RecordTypeOK
<1>3. OwnValuesExported /\ RateExported /\ RemapKeeps
  BY DEF RecordInit, OwnValuesExported, RateExported, RemapKeeps
<1>4. ObjOK
  BY DEF RecordInit, ObjOK, NoCustoms
<1>5. CarriesOwn /\ CacheOwn /\ Remapping
  BY DEF RecordInit, CarriesOwn, CacheOwn, Remapping
<1> QED BY <1>2, <1>3, <1>4, <1>5, Zenon DEF RecIInv, RecordInv, RecordInit

\* Nothing changes and nothing is said anew.
LEMMA RecordStutter == RecIInv /\ UNCHANGED recordVars => RecIInv'
BY DEF RecIInv, RecordInv, RecordTypeOK, OwnValuesExported, RateExported, RemapKeeps, ObjOK, CarriesOwn, CacheOwn,
  Remapping, KeptKeys, Had, recordVars

\* f ++ g is f, and g where f says nothing.
LEMMA OverLaw ==
  ASSUME NEW f, NEW g
  PROVE  /\ DOMAIN (f ++ g) = DOMAIN f \cup DOMAIN g
         /\ (f ++ g) = [k \in DOMAIN (f ++ g) |-> (f ++ g)[k]]
         /\ \A k \in DOMAIN f : (f ++ g)[k] = f[k]
         /\ \A k \in DOMAIN g \ DOMAIN f : (f ++ g)[k] = g[k]
BY DEF ++

\* What is true of all values of two maps is true of all values of one over the other.
LEMMA OverAll ==
  ASSUME NEW f, NEW g, NEW V, \A k \in DOMAIN f : f[k] \in V, \A k \in DOMAIN g : g[k] \in V
  PROVE  \A k \in DOMAIN (f ++ g) : (f ++ g)[k] \in V
BY DEF ++

LEMMA OneLaw == ASSUME NEW k, NEW v PROVE DOMAIN Only(k, v) = {k} /\ Only(k, v)[k] = v
BY DEF Only

\* All custom fields of a flow have its number.
LEMMA CustomOwn ==
  ASSUME NEW f, NEW n
  PROVE  LET c == UdrFields(f, CustomFields(f, n)) ++ DeviceFields(f, n) ++ HostFields(n)
         IN  /\ c = [k \in DOMAIN c |-> c[k]]
             /\ \A k \in DOMAIN c : c[k] = n
             /\ DOMAIN UdrFields(f, CustomFields(f, n)) \subseteq DOMAIN c
<1> DEFINE cf == CustomFields(f, n)
           u == UdrFields(f, CustomFields(f, n))
           d == DeviceFields(f, n)
           h == HostFields(n)
<1>1. \A k \in DOMAIN cf : cf[k] = n
  BY DEF CustomFields
<1>2. \A k \in DOMAIN u : u[k] = n
  <2> HIDE DEF cf
  <2> DEFINE names == UdrNames(f)
             to(k) == IF k \in DOMAIN names THEN names[k] ELSE k
  <2> HIDE DEF names
  <2>1. UdrFields(f, cf) = [t \in {to(k) : k \in DOMAIN cf} |-> cf[CHOOSE k \in DOMAIN cf : to(k) = t]]
    BY Zenon DEF UdrFields, names
  <2> DEFINE from(t) == CHOOSE k \in DOMAIN cf : to(k) = t
  <2>2. ASSUME NEW t \in {to(k) : k \in DOMAIN cf} PROVE cf[from(t)] = n
    <3>1. \E k \in DOMAIN cf : to(k) = t
      BY <2>2
    <3> HIDE DEF to
    <3>2. from(t) \in DOMAIN cf
      BY <3>1, Zenon
    <3> HIDE DEF from
    <3> QED BY <3>2, <1>1
  <2> HIDE DEF from
  <2>3. UdrFields(f, cf) = [t \in {to(k) : k \in DOMAIN cf} |-> cf[from(t)]]
    BY <2>1, Zenon DEF from
  <2>4. \A k \in DOMAIN UdrFields(f, cf) : UdrFields(f, cf)[k] = n
    BY <2>2, <2>3
  <2> QED BY <2>4, Zenon DEF cf
<1>3. \A k \in DOMAIN d : d[k] = n
  BY DEF DeviceFields, NoCustoms
<1>4. \A k \in DOMAIN h : h[k] = n
  BY DEF HostFields, NoCustoms
<1> HIDE DEF cf, u, d, h
<1>5. \A k \in DOMAIN (u ++ d) : (u ++ d)[k] \in {n}
  BY <1>2, <1>3, OverAll
<1> DEFINE ud == u ++ d
<1> HIDE DEF ud
<1>6. \A k \in DOMAIN (ud ++ h) : (ud ++ h)[k] \in {n}
  BY <1>4, <1>5, OverAll DEF ud
<1>7. DOMAIN u \subseteq DOMAIN (ud ++ h) /\ (ud ++ h) = [k \in DOMAIN (ud ++ h) |-> (ud ++ h)[k]]
  BY DEF ++, ud
<1>8. \A k \in DOMAIN (ud ++ h) : (ud ++ h)[k] = n
  BY <1>6
<1> QED BY <1>7, <1>8, Zenon DEF ud, u, d, h

\* The common names of the flow are there, and no key of another cloud is.
Remapped ==
  /\ \A k \in KeptKeys \cap DOMAIN RemapTo :
       RemapTo[k] \notin DOMAIN RemapTo => RemapTo[k] \in DOMAIN recObj.custom /\ recObj.custom[RemapTo[k]] = recNum
  /\ \A k \in KeptKeys \ DOMAIN RemapTo : k \in DOMAIN recObj.custom
  /\ DOMAIN recObj.custom \cap (Had \cap Kicked(recFlow)) = {}

LEMMA RemapKeepsIs == RemapKeeps <=> (recPc \in {"enrich", "roll", "sample", "format", "give"} => Remapped)
<1> DEFINE had   == DOMAIN UdrFields(recFlow, CustomFields(recFlow, recNum))
           kept  == had \ (IF recFlow.device /\ recFlow.sub \in DOMAIN Foreign THEN Foreign[recFlow.sub] ELSE {})
           final == {t \in {RemapTo[k] : k \in kept \cap DOMAIN RemapTo} : t \notin DOMAIN RemapTo}
           body  == /\ \A t \in final : t \in DOMAIN recObj.custom /\ recObj.custom[t] = recNum
                    /\ \A k \in kept \ DOMAIN RemapTo : k \in DOMAIN recObj.custom
                    /\ DOMAIN recObj.custom \cap (had \ kept) = {}
<1>1. had = Had /\ kept = KeptKeys
  BY DEF Had, KeptKeys, Kicked
<1>2. RemapKeeps <=> (recPc \in {"enrich", "roll", "sample", "format", "give"} => body)
  BY Zenon DEF RemapKeeps
<1>3. had \ kept = Had \cap Kicked(recFlow)
  BY <1>1 DEF KeptKeys
<1> HIDE DEF had, kept
<1>4. body <=> Remapped
  <2>1. (\A t \in final : t \in DOMAIN recObj.custom /\ recObj.custom[t] = recNum)
         <=> \A k \in KeptKeys \cap DOMAIN RemapTo :
               RemapTo[k] \notin DOMAIN RemapTo => RemapTo[k] \in DOMAIN recObj.custom /\ recObj.custom[RemapTo[k]] = recNum
    BY <1>1
  <2> QED BY <2>1, <1>1, <1>3, Zenon DEF Remapped
<1> QED BY <1>2, <1>4, Zenon

\* flowToJCHF fills the object from the flow alone.
LEMMA FlowToJCHFKeeps == ASSUME RecIInv, NEW f \in FlowSet, FlowToJCHF(f) PROVE RecIInv'
<1> DEFINE n == recNum + 1
           c == UdrFields(f, CustomFields(f, n)) ++ DeviceFields(f, n) ++ HostFields(n)
<1>0. /\ recPc = "free" /\ n <= MaxRecords /\ recPc' = "remap" /\ recFlow' = f /\ recNum' = n /\ recTodo' = DOMAIN c
      /\ recObj' = [recObj EXCEPT !.fixed = FlowFields(recObj.fixed, f, n), !.rate = <<n, 1>>, !.custom = c]
      /\ UNCHANGED <<recOpts, recOut>>
  BY Zenon DEF FlowToJCHF
<1>1. c = [k \in DOMAIN c |-> c[k]] /\ (\A k \in DOMAIN c : c[k] = n) /\ Had' \subseteq DOMAIN c
  BY <1>0, CustomOwn, Zenon DEF Had
<1>2. n \in 1..MaxRecords
  BY <1>0, RecordAssumption DEF RecIInv, RecordInv, RecordTypeOK
<1> HIDE DEF c, n
<1>3. recObj' = [recObj EXCEPT !.fixed = recObj'.fixed, !.rate = <<n, 1>>, !.custom = c]
      /\ recObj'.fixed = FlowFields(recObj.fixed, f, n)
  BY <1>0 DEF RecIInv, ObjOK
<1>4. /\ recObj'.fixed = [k \in FixedKeys |-> recObj'.fixed[k]] /\ recObj'.fixed["addr"] = n
      /\ f.geo => recObj'.fixed["geo"] = n
      /\ f.device /\ f.iface => recObj'.fixed["desc"] = n
  <2> DEFINE old == recObj.fixed
  <2>1. FlowFields(old, f, n) =
          [k \in FixedKeys |->
             CASE k = "addr" -> n [] k = "tags" -> TagFields(old) [] k = "geo" -> (IF f.geo THEN n ELSE old[k])
               [] k = "desc" -> (IF f.device /\ f.iface THEN n ELSE old[k])]
    BY Zenon DEF FlowFields
  <2> DEFINE F == FlowFields(old, f, n)
  <2> HIDE DEF old
  <2>2. DOMAIN F = FixedKeys /\ F = [k \in FixedKeys |-> F[k]]
    BY <2>1, Zenon
  <2>3. F["addr"] = n
    BY <2>1, Zenon DEF FixedKeys
  <2>4. F["geo"] = IF f.geo THEN n ELSE old["geo"]
    BY <2>1, Zenon DEF FixedKeys
  <2>5. F["desc"] = IF f.device /\ f.iface THEN n ELSE old["desc"]
    BY <2>1, Zenon DEF FixedKeys
  <2> HIDE DEF F
  <2>6. recObj'.fixed = F
    BY <1>3 DEF F, old
  <2> QED BY <2>2, <2>3, <2>4, <2>5, <2>6
<1>5. RecordTypeOK'
  BY <1>0, <1>2, <1>3 DEF RecIInv, RecordInv, RecordTypeOK, ObjOK
<1>6. ObjOK'
  BY <1>1, <1>3, <1>4 DEF RecIInv, ObjOK
<1>7. CarriesOwn'
  BY <1>0, <1>1, <1>2, <1>3, <1>4 DEF CarriesOwn, RecIInv, ObjOK
<1>8. CacheOwn'
  BY <1>0, <1>3 DEF CacheOwn, RecIInv, ObjOK
<1>9. Remapping'
  <2>1. recObj'.custom = c /\ KeptKeys' \subseteq DOMAIN c
    BY <1>1, <1>3 DEF RecIInv, ObjOK, KeptKeys
  <2> QED BY <1>0, <1>1, <2>1 DEF Remapping
<1>10. (OwnValuesExported /\ RateExported)' /\ RemapKeeps'
  BY <1>0 DEF OwnValuesExported, RateExported, RemapKeeps
<1>11. recOpts' \in [enrich : BOOLEAN, rollups : BOOLEAN, sample : BOOLEAN] /\ (recPc' # "remap" => recTodo' = {})
  BY <1>0 DEF RecIInv
<1> QED BY <1>5, <1>6, <1>7, <1>8, <1>9, <1>10, <1>11 DEF RecIInv, RecordInv

\* One turn of the loop over CustomStr: what it deletes is under its common name, or
\* another source of that name is still to come.
LEMMA RemapKeyKeeps == ASSUME RecIInv, NEW k \in recTodo, RemapKey(k) PROVE RecIInv'
<1> DEFINE c  == recObj.custom
           to == IF k \in DOMAIN RemapTo THEN RemapTo[k] ELSE k
           d  == recObj'.custom
<1>1. /\ recPc = "remap" /\ recPc' = "remap" /\ k \in recTodo
      /\ recFlow' = recFlow /\ recNum' = recNum /\ recOpts' = recOpts /\ recOut' = recOut
      /\ Had' = Had /\ KeptKeys' = KeptKeys
  BY DEF RemapKey, KeptKeys, Had
<1>2. recTodo \subseteq DOMAIN c
  BY DEF RecIInv, RecordInv, RecordTypeOK
<1>3. \/ /\ k \in Kicked(recFlow)
         /\ recObj' = [recObj EXCEPT !.custom = Without(c, {k})] /\ recTodo' = recTodo \ {k}
      \/ /\ k \notin Kicked(recFlow) /\ k \in DOMAIN RemapTo
         /\ recObj' = [recObj EXCEPT !.custom = Without(Only(to, c[k]) ++ c, {k})]
         /\ \E new \in SUBSET ({to} \ DOMAIN c) : recTodo' = (recTodo \ {k}) \cup new
      \/ /\ k \notin Kicked(recFlow) /\ k \notin DOMAIN RemapTo
         /\ recTodo' = recTodo \ {k} /\ UNCHANGED recObj
  BY Zenon DEF RemapKey, Kicked
<1>4. recObj' = [recObj EXCEPT !.custom = d] /\ d = [x \in DOMAIN d |-> d[x]]
  <2>1. ASSUME NEW e, recObj' = [recObj EXCEPT !.custom = Without(e, {k})]
        PROVE  recObj' = [recObj EXCEPT !.custom = d] /\ d = [x \in DOMAIN d |-> d[x]]
    BY <2>1 DEF RecIInv, ObjOK, Without
  <2>2. UNCHANGED recObj => recObj' = [recObj EXCEPT !.custom = d] /\ d = [x \in DOMAIN d |-> d[x]]
    BY DEF RecIInv, ObjOK
  <2> QED BY <1>3, <2>1, <2>2
<1>5. \/ k \in Kicked(recFlow) /\ DOMAIN d = DOMAIN c \ {k} /\ recTodo' = recTodo \ {k}
      \/ /\ k \notin Kicked(recFlow) /\ k \in DOMAIN RemapTo /\ DOMAIN d = (DOMAIN c \cup {RemapTo[k]}) \ {k}
         /\ recTodo' \subseteq (recTodo \ {k}) \cup ({RemapTo[k]} \ DOMAIN c) /\ recTodo \ {k} \subseteq recTodo'
      \/ k \notin Kicked(recFlow) /\ k \notin DOMAIN RemapTo /\ DOMAIN d = DOMAIN c /\ recTodo' = recTodo \ {k}
  <2>1. ASSUME NEW e, recObj' = [recObj EXCEPT !.custom = e] PROVE d = e
    BY <2>1 DEF RecIInv, ObjOK
  <2>2. CASE k \in Kicked(recFlow)
    BY <1>3, <2>1, <2>2 DEF Without
  <2>3. CASE k \notin Kicked(recFlow) /\ k \in DOMAIN RemapTo
    <3>1. d = Without(Only(RemapTo[k], c[k]) ++ c, {k})
      BY <1>3, <2>1, <2>3
    <3>2. DOMAIN d = (DOMAIN c \cup {RemapTo[k]}) \ {k}
      BY <3>1 DEF Without, ++, Only
    <3> QED BY <1>3, <2>3, <3>2
  <2>4. CASE k \notin Kicked(recFlow) /\ k \notin DOMAIN RemapTo
    BY <1>3, <2>4
  <2> QED BY <2>2, <2>3, <2>4
<1>6. \A x \in DOMAIN d : d[x] = recNum
  <2>0. (\A x \in DOMAIN c : c[x] = recNum) /\ c[k] = recNum
    BY <1>1, <1>2 DEF RecIInv, Remapping
  <2>1. ASSUME NEW e, recObj' = [recObj EXCEPT !.custom = e] PROVE d = e
    BY <2>1 DEF RecIInv, ObjOK
  <2>2. CASE k \in Kicked(recFlow)
    <3>1. d = Without(c, {k})
      BY <1>3, <2>1, <2>2
    <3> QED BY <2>0, <3>1 DEF Without
  <2>3. CASE k \notin Kicked(recFlow) /\ k \in DOMAIN RemapTo
    <3>1. d = Without(Only(RemapTo[k], c[k]) ++ c, {k})
      BY <1>3, <2>1, <2>3
    <3> QED BY <2>0, <3>1 DEF Without, ++, Only
  <2>4. CASE k \notin Kicked(recFlow) /\ k \notin DOMAIN RemapTo
    BY <1>3, <2>4, <2>0
  <2> QED BY <2>2, <2>3, <2>4
<1>7. recTodo' \subseteq DOMAIN d
  BY <1>2, <1>5
<1> HIDE DEF d
<1>8. RecordTypeOK'
  BY <1>1, <1>4, <1>7 DEF RecIInv, RecordInv, RecordTypeOK, ObjOK, d
<1>9. ObjOK'
  BY <1>4 DEF RecIInv, ObjOK, d
<1>10. CarriesOwn'
  BY <1>1, <1>4, <1>6 DEF RecIInv, ObjOK, CarriesOwn, d
<1>11. CacheOwn'
  BY <1>1, <1>4 DEF RecIInv, ObjOK, CacheOwn
<1>12. Remapping'
  <2>1. Kicked(recFlow) \cap {RemapTo[j] : j \in DOMAIN RemapTo} = {}
    BY RecordAssumption DEF Kicked
  <2>2. ASSUME NEW j \in KeptKeys \cap DOMAIN RemapTo, RemapTo[j] \notin DOMAIN RemapTo
        PROVE  \/ RemapTo[j] \in DOMAIN d
               \/ \E i \in recTodo' \cap KeptKeys \cap DOMAIN RemapTo : RemapTo[i] = RemapTo[j]
    <3>0. RemapTo[j] \notin Kicked(recFlow)
      BY <2>1
    <3>1. CASE RemapTo[j] \in DOMAIN c
      BY <3>0, <3>1, <2>2, <1>5
    <3>2. CASE RemapTo[j] \notin DOMAIN c
      <4>1. PICK i \in recTodo \cap KeptKeys \cap DOMAIN RemapTo : RemapTo[i] = RemapTo[j]
        BY <3>2, <2>2, <1>1 DEF RecIInv, Remapping
      <4>2. CASE i = k
        <5>1. k \notin Kicked(recFlow)
          BY <4>1, <4>2 DEF KeptKeys
        <5> QED BY <5>1, <4>1, <4>2, <1>5, <2>2
      <4>3. CASE i # k
        <5>1. i \in recTodo'
          BY <4>1, <4>3, <1>5
        <5> QED BY <5>1, <4>1
      <4> QED BY <4>2, <4>3
    <3> QED BY <3>1, <3>2
  <2>3. \A j \in KeptKeys \ DOMAIN RemapTo : j \in DOMAIN d
    <3>1. \A j \in KeptKeys \ DOMAIN RemapTo : j \in DOMAIN c /\ j \notin Kicked(recFlow)
      BY <1>1 DEF RecIInv, Remapping, KeptKeys
    <3> QED BY <3>1, <1>5
  <2>4. DOMAIN d \cap Kicked(recFlow) \subseteq recTodo'
    <3>1. DOMAIN c \cap Kicked(recFlow) \subseteq recTodo
      BY <1>1 DEF RecIInv, Remapping
    <3> QED BY <3>1, <2>1, <1>5
  <2> QED BY <1>1, <1>6, <2>2, <2>3, <2>4 DEF Remapping, d
<1>13. (OwnValuesExported /\ RateExported)' /\ RemapKeeps'
  BY <1>1 DEF OwnValuesExported, RateExported, RemapKeeps
<1>14. recOpts' \in [enrich : BOOLEAN, rollups : BOOLEAN, sample : BOOLEAN] /\ (recPc' # "remap" => recTodo' = {})
  BY <1>1 DEF RecIInv
<1> QED BY <1>8, <1>9, <1>10, <1>11, <1>12, <1>13, <1>14 DEF RecIInv, RecordInv

LEMMA FilledKeeps == ASSUME RecIInv, Filled PROVE RecIInv'
<1> DEFINE c == recObj.custom
           d == Only("src_endpoint", recNum) ++ c
<1>1. /\ recPc = "remap" /\ recTodo = {} /\ recPc' \in {"enrich", "roll"}
      /\ recObj' = [recObj EXCEPT !.type = GetEventType(recFlow), !.custom = d]
      /\ UNCHANGED <<recOpts, recFlow, recNum, recTodo, recOut>>
  BY DEF Filled
<1>2. /\ d = [x \in DOMAIN d |-> d[x]] /\ DOMAIN d = DOMAIN c \cup {"src_endpoint"}
      /\ \A x \in DOMAIN d : d[x] = recNum
  <2>1. \A x \in DOMAIN c : c[x] = recNum
    BY <1>1 DEF RecIInv, Remapping
  <2> QED BY <2>1 DEF Only, ++
<1> HIDE DEF d
<1>3. recObj'.custom = d /\ recObj'.type = GetEventType(recFlow)
      /\ \A x \in {"fixed", "rate", "cached", "boxed", "map", "mapRate"} : recObj'[x] = recObj[x]
  BY <1>1 DEF RecIInv, ObjOK
<1>4. RecordTypeOK'
  BY <1>1, <1>3, EventTypes DEF RecIInv, RecordInv, RecordTypeOK
<1>5. ObjOK'
  BY <1>1, <1>2 DEF RecIInv, ObjOK
<1>6. CarriesOwn'
  BY <1>1, <1>2, <1>3 DEF RecIInv, CarriesOwn
<1>7. CacheOwn'
  BY <1>1, <1>3 DEF RecIInv, CacheOwn
<1>8. Remapped'
  <2>1. Had' = Had /\ KeptKeys' = KeptKeys
    BY <1>1 DEF Had, KeptKeys
  <2>2. "src_endpoint" \notin Kicked(recFlow)
    BY RecordAssumption DEF Kicked, LateKeys
  <2>3. ASSUME NEW k \in KeptKeys \cap DOMAIN RemapTo, RemapTo[k] \notin DOMAIN RemapTo PROVE RemapTo[k] \in DOMAIN c
    BY <1>1, <2>3 DEF RecIInv, Remapping
  <2>4. \A k \in KeptKeys \ DOMAIN RemapTo : k \in DOMAIN c
    BY <1>1 DEF RecIInv, Remapping
  <2>5. DOMAIN c \cap Kicked(recFlow) = {}
    BY <1>1 DEF RecIInv, Remapping
  <2> QED BY <1>1, <1>2, <1>3, <2>1, <2>2, <2>3, <2>4, <2>5 DEF Remapped
<1>9. RemapKeeps'
  <2>1. (recPc \in {"enrich", "roll", "sample", "format", "give"} => Remapped)'
    BY <1>8
  <2>2. RemapKeeps' <=> (recPc \in {"enrich", "roll", "sample", "format", "give"} => Remapped)'
    BY RemapKeepsIs, PTL
  <2> QED BY <2>1, <2>2
<1>10. (OwnValuesExported /\ RateExported)' /\ Remapping'
  BY <1>1 DEF OwnValuesExported, RateExported, Remapping
<1> QED BY <1>1, <1>4, <1>5, <1>6, <1>7, <1>9, <1>10 DEF RecIInv, RecordInv

\* A step after the loop that takes no custom field away, and adds only late keys.
LEMMA RemappedStays ==
  ASSUME RecIInv, recPc \in {"enrich", "roll", "sample", "format", "give"}, recFlow' = recFlow, recNum' = recNum,
         DOMAIN recObj.custom \subseteq DOMAIN recObj'.custom,
         DOMAIN recObj'.custom \subseteq DOMAIN recObj.custom \cup LateKeys,
         \A k \in DOMAIN recObj.custom \ {"src_as_name"} : recObj'.custom[k] = recNum
  PROVE  RemapKeeps'
<1>1. Remapped
  BY RemapKeepsIs DEF RecIInv, RecordInv
<1>2. Had' = Had /\ KeptKeys' = KeptKeys
  BY DEF Had, KeptKeys
<1>3. Kicked(recFlow) \cap LateKeys = {} /\ \A k \in DOMAIN RemapTo : RemapTo[k] # "src_as_name"
  BY RecordAssumption DEF Kicked
<1>4. Remapped'
  BY <1>1, <1>2, <1>3 DEF Remapped
<1>5. RemapKeeps' <=> (recPc \in {"enrich", "roll", "sample", "format", "give"} => Remapped)'
  BY RemapKeepsIs, PTL
<1> QED BY <1>4, <1>5

LEMMA DoEnrichmentsKeeps == ASSUME RecIInv, DoEnrichments PROVE RecIInv'
<1>1. PICK found \in BOOLEAN :
       recObj' = [recObj EXCEPT
         !.fixed.geo = IF recFlow.internal THEN Private ELSE IF found THEN recNum ELSE @,
         !.custom = (IF recFlow.internal \/ found THEN Only("src_as_name", IF recFlow.internal THEN Private ELSE recNum)
                     ELSE NoCustoms) ++ HostFields(recNum) ++ @]
  BY DEF DoEnrichments
<1>2. recPc = "enrich" /\ recPc' = "roll" /\ UNCHANGED <<recOpts, recFlow, recNum, recTodo, recOut>>
  BY DEF DoEnrichments
<1> DEFINE c == recObj.custom
           as == IF recFlow.internal \/ found THEN Only("src_as_name", IF recFlow.internal THEN Private ELSE recNum)
                 ELSE NoCustoms
           h == HostFields(recNum)
           d == as ++ h ++ c
           geo == IF recFlow.internal THEN Private ELSE IF found THEN recNum ELSE recObj.fixed["geo"]
<1>3. recObj' = [recObj EXCEPT !.fixed = [recObj.fixed EXCEPT !["geo"] = geo], !.custom = d]
  BY <1>1 DEF RecIInv, ObjOK
<1>4. /\ DOMAIN as \subseteq {"src_as_name"} /\ \A k \in DOMAIN as : as[k] \in {recNum, Private}
      /\ DOMAIN h \subseteq {"src_host", "dst_host"} /\ \A k \in DOMAIN h : h[k] = recNum
  BY DEF Only, NoCustoms, HostFields
<1>5. \A k \in DOMAIN c : c[k] = recNum \/ (k = "src_as_name" /\ c[k] = Private)
  BY <1>2 DEF RecIInv, CarriesOwn
<1> HIDE DEF as, h, c, geo
<1>6. /\ d = [x \in DOMAIN d |-> d[x]] /\ DOMAIN c \subseteq DOMAIN d /\ DOMAIN d \subseteq DOMAIN c \cup LateKeys
      /\ \A k \in DOMAIN d : d[k] = recNum \/ (k = "src_as_name" /\ d[k] = Private)
  BY <1>4, <1>5 DEF ++, LateKeys
<1> HIDE DEF d
<1>7. /\ recObj'.custom = d /\ recObj'.fixed = [recObj.fixed EXCEPT !["geo"] = geo]
      /\ \A x \in {"type", "rate", "cached", "boxed", "map", "mapRate"} : recObj'[x] = recObj[x]
  BY <1>3 DEF RecIInv, ObjOK
<1>8. RecordTypeOK'
  BY <1>2, <1>6, <1>7 DEF RecIInv, RecordInv, RecordTypeOK
<1>9. ObjOK'
  BY <1>3, <1>6 DEF RecIInv, ObjOK
<1>10. CarriesOwn'
  <2>1. geo \in {recNum, Private, recObj.fixed["geo"]}
    BY DEF geo
  <2> QED BY <1>2, <1>6, <1>7, <2>1 DEF RecIInv, CarriesOwn, ObjOK, FixedKeys
<1>11. CacheOwn'
  BY <1>2, <1>7 DEF RecIInv, CacheOwn
<1>12. RemapKeeps'
  <2>1. \A k \in DOMAIN recObj.custom \ {"src_as_name"} : recObj'.custom[k] = recNum
    BY <1>6, <1>7 DEF c
  <2> QED BY <1>2, <1>6, <1>7, <2>1, RemappedStays DEF c
<1>13. (OwnValuesExported /\ RateExported)' /\ Remapping'
  BY <1>2 DEF OwnValuesExported, RateExported, Remapping
<1> QED BY <1>2, <1>8, <1>9, <1>10, <1>11, <1>12, <1>13 DEF RecIInv, RecordInv

\* ToMap leaves an object whose map has the fixed fields as they are, if it had not
\* been asked before.
LEMMA ToMapLaw ==
  ASSUME ObjOK, ~recObj.cached
  PROVE  LET o == ToMap(recObj)
         IN  /\ o = [fixed |-> recObj.fixed, rate |-> recObj.rate, custom |-> recObj.custom, type |-> recObj.type,
                     cached |-> TRUE, boxed |-> TRUE, map |-> recObj.fixed ++ recObj.map, mapRate |-> recObj.rate]
             /\ o.map = [k \in DOMAIN o.map |-> o.map[k]]
             /\ FixedKeys \subseteq DOMAIN o.map
             /\ \A k \in FixedKeys : o.map[k] = recObj.fixed[k]
<1> DEFINE o == ToMap(recObj)
<1>1. o = [recObj EXCEPT !.map = recObj.fixed ++ recObj.map, !.mapRate = recObj.rate, !.boxed = TRUE, !.cached = TRUE]
  BY DEF ToMap
<1> HIDE DEF o
<1>2. o = [fixed |-> recObj.fixed, rate |-> recObj.rate, custom |-> recObj.custom, type |-> recObj.type,
           cached |-> TRUE, boxed |-> TRUE, map |-> recObj.fixed ++ recObj.map, mapRate |-> recObj.rate]
  BY <1>1 DEF ObjOK
<1>3. DOMAIN recObj.fixed = FixedKeys
  BY DEF ObjOK
<1>4. /\ o.map = [k \in DOMAIN o.map |-> o.map[k]] /\ FixedKeys \subseteq DOMAIN o.map
      /\ \A k \in FixedKeys : o.map[k] = recObj.fixed[k]
  BY <1>2, <1>3 DEF ++
<1> QED BY <1>2, <1>4 DEF o

LEMMA AddToRollupsKeeps == ASSUME RecIInv, AddToRollups PROVE RecIInv'
<1>1. /\ recPc = "roll" /\ recPc' = "sample" /\ UNCHANGED <<recOpts, recFlow, recNum, recTodo, recOut>>
      /\ recObj' = IF recOpts.rollups THEN ToMap(recObj) ELSE recObj
  BY DEF AddToRollups
<1>2. ~recObj.cached /\ ObjOK /\ recObj.rate = <<recNum, 1>>
  BY <1>1 DEF RecIInv, CacheOwn, CarriesOwn
<1>3. /\ \A x \in {"fixed", "rate", "custom", "type"} : recObj'[x] = recObj[x]
      /\ ObjOK'
      /\ IF recOpts.rollups
         THEN /\ recObj'.cached /\ recObj'.boxed /\ recObj'.mapRate = <<recNum, 1>> /\ FixedKeys \subseteq DOMAIN recObj'.map
              /\ \A k \in FixedKeys : recObj'.map[k] = recObj'.fixed[k]
         ELSE ~recObj'.cached
  <2>1. CASE recOpts.rollups
    <3> DEFINE o == ToMap(recObj)
    <3>1. recObj' = o
      BY <1>1, <2>1
    <3>2. /\ o = [fixed |-> recObj.fixed, rate |-> recObj.rate, custom |-> recObj.custom, type |-> recObj.type,
                  cached |-> TRUE, boxed |-> TRUE, map |-> recObj.fixed ++ recObj.map, mapRate |-> recObj.rate]
          /\ o.map = [k \in DOMAIN o.map |-> o.map[k]]
          /\ FixedKeys \subseteq DOMAIN o.map
          /\ \A k \in FixedKeys : o.map[k] = recObj.fixed[k]
      BY <1>2, ToMapLaw
    <3> HIDE DEF o
    <3>3. \A x \in {"fixed", "rate", "custom", "type"} : recObj'[x] = recObj[x]
      BY <3>1, <3>2
    <3>4. ObjOK'
      BY <3>1, <3>2, <1>2 DEF ObjOK
    <3> QED BY <3>1, <3>2, <3>3, <3>4, <1>2, <2>1
  <2>2. CASE ~recOpts.rollups
    <3>1. recObj' = recObj
      BY <1>1, <2>2
    <3>2. ObjOK'
      BY <1>2, <3>1 DEF ObjOK
    <3> QED BY <1>2, <2>2, <3>1, <3>2
  <2> QED BY <2>1, <2>2
<1>4. RecordTypeOK'
  BY <1>1, <1>3 DEF RecIInv, RecordInv, RecordTypeOK
<1>5. CarriesOwn'
  BY <1>1, <1>3 DEF RecIInv, CarriesOwn
<1>6. CacheOwn'
  BY <1>1, <1>3 DEF CacheOwn
<1>7. RemapKeeps'
  <2>1. \A k \in DOMAIN recObj.custom \ {"src_as_name"} : recObj'.custom[k] = recNum
    BY <1>1, <1>3 DEF RecIInv, CarriesOwn
  <2> QED BY <1>1, <1>3, <2>1, RemappedStays
<1>8. (OwnValuesExported /\ RateExported)' /\ Remapping'
  BY <1>1 DEF OwnValuesExported, RateExported, Remapping
<1> QED BY <1>1, <1>3, <1>4, <1>5, <1>6, <1>7, <1>8 DEF RecIInv, RecordInv

LEMMA SampleKeeps == ASSUME RecIInv, Sample PROVE RecIInv'
<1>1. /\ recPc = "sample" /\ recPc' = "format" /\ UNCHANGED <<recOpts, recFlow, recNum, recTodo, recOut>>
      /\ recObj' = IF recOpts.sample THEN [recObj EXCEPT !.rate[2] = 2] ELSE recObj
  BY DEF Sample
<1>2. PICK r : recObj.rate = <<recNum, r>>
  BY <1>1 DEF RecIInv, CarriesOwn
<1>3. /\ \A x \in {"fixed", "custom", "type", "cached", "boxed", "map", "mapRate"} : recObj'[x] = recObj[x]
      /\ ObjOK' /\ \E q : recObj'.rate = <<recNum, q>>
  <2>1. CASE recOpts.sample
    <3>1. recObj' = [recObj EXCEPT !.rate = [recObj.rate EXCEPT ![2] = 2]]
      BY <1>1, <2>1 DEF RecIInv, ObjOK
    <3>2. [recObj.rate EXCEPT ![2] = 2] = <<recNum, 2>>
      BY <1>2
    <3>3. recObj' = [recObj EXCEPT !.rate = <<recNum, 2>>]
      BY <3>1, <3>2
    <3>4. recObj'.rate = <<recNum, 2>>
      BY <3>3 DEF RecIInv, ObjOK
    <3>5. \A x \in {"fixed", "custom", "type", "cached", "boxed", "map", "mapRate"} : recObj'[x] = recObj[x]
      BY <3>3 DEF RecIInv, ObjOK
    <3>6. ObjOK'
      BY <3>3 DEF RecIInv, ObjOK
    <3> QED BY <3>4, <3>5, <3>6
  <2>2. CASE ~recOpts.sample
    <3>1. recObj' = recObj
      BY <1>1, <2>2
    <3>2. ObjOK'
      BY <3>1 DEF ObjOK, RecIInv
    <3> QED BY <3>1, <3>2, <1>2
  <2> QED BY <2>1, <2>2
<1>4. RecordTypeOK'
  BY <1>1, <1>3 DEF RecIInv, RecordInv, RecordTypeOK
<1>5. CarriesOwn'
  BY <1>1, <1>3 DEF RecIInv, CarriesOwn
<1>6. CacheOwn'
  BY <1>1, <1>3 DEF RecIInv, CacheOwn
<1>7. RemapKeeps'
  <2>1. \A k \in DOMAIN recObj.custom \ {"src_as_name"} : recObj'.custom[k] = recNum
    BY <1>1, <1>3 DEF RecIInv, CarriesOwn
  <2> QED BY <1>1, <1>3, <2>1, RemappedStays
<1>8. (OwnValuesExported /\ RateExported)' /\ Remapping'
  BY <1>1 DEF OwnValuesExported, RateExported, Remapping
<1> QED BY <1>1, <1>3, <1>4, <1>5, <1>6, <1>7, <1>8 DEF RecIInv, RecordInv

\* Flatten and strip of an object whose map, if it is cached, has the fixed fields and is
\* not flattened: the map has each fixed field and each custom one that is not blank or
\* dropped, and the custom ones go first.
LEMMA FlattenLaw ==
  ASSUME ObjOK,
         recObj.cached => /\ recObj.boxed /\ FixedKeys \subseteq DOMAIN recObj.map
                          /\ \A k \in FixedKeys : recObj.map[k] = recObj.fixed[k]
  PROVE  LET m == Flatten(recObj)
         IN  /\ \A x \in {"fixed", "rate", "custom", "type"} : m[x] = recObj[x]
             /\ m = [fixed |-> m.fixed, rate |-> m.rate, custom |-> m.custom, type |-> m.type, cached |-> TRUE,
                     boxed |-> FALSE, map |-> m.map, mapRate |-> m.mapRate]
             /\ m.mapRate = IF recObj.cached THEN recObj.mapRate ELSE recObj.rate
             /\ m.map = [k \in DOMAIN m.map |-> m.map[k]]
             /\ \A k \in FixedKeys \ DOMAIN recObj.custom : k \in DOMAIN m.map /\ m.map[k] = recObj.fixed[k]
             /\ \A k \in DOMAIN recObj.custom : k \in DOMAIN m.map /\ m.map[k] = recObj.custom[k]
<1> DEFINE t == ToMap(recObj)
           m == Flatten(recObj)
<1>1. /\ \A x \in {"fixed", "rate", "custom", "type"} : t[x] = recObj[x]
      /\ t = [fixed |-> t.fixed, rate |-> t.rate, custom |-> t.custom, type |-> t.type, cached |-> TRUE,
              boxed |-> TRUE, map |-> t.map, mapRate |-> t.mapRate]
      /\ t.mapRate = IF recObj.cached THEN recObj.mapRate ELSE recObj.rate
      /\ FixedKeys \subseteq DOMAIN t.map
      /\ \A k \in FixedKeys : t.map[k] = recObj.fixed[k]
  <2>1. CASE recObj.cached
    <3>1. t = recObj
      BY <2>1 DEF ToMap
    <3> HIDE DEF t
    <3> QED BY <2>1, <3>1 DEF ObjOK
  <2>2. CASE ~recObj.cached
    <3>1. /\ t = [fixed |-> recObj.fixed, rate |-> recObj.rate, custom |-> recObj.custom, type |-> recObj.type,
                  cached |-> TRUE, boxed |-> TRUE, map |-> recObj.fixed ++ recObj.map, mapRate |-> recObj.rate]
          /\ FixedKeys \subseteq DOMAIN t.map
          /\ \A k \in FixedKeys : t.map[k] = recObj.fixed[k]
      BY <2>2, ToMapLaw
    <3> HIDE DEF t
    <3> QED BY <2>2, <3>1
  <2> QED BY <2>1, <2>2
<1>2. m = IF t.boxed THEN [t EXCEPT !.map = t.custom ++ t.map, !.boxed = FALSE] ELSE t
  BY DEF Flatten
<1> HIDE DEF t, m
<1>3. t.boxed
  BY <1>1
<1>4. m = [fixed |-> t.fixed, rate |-> t.rate, custom |-> t.custom, type |-> t.type, cached |-> TRUE,
           boxed |-> FALSE, map |-> t.custom ++ t.map, mapRate |-> t.mapRate]
  <2> DEFINE new == t.custom ++ t.map
  <2>1. t = [fixed |-> t.fixed, rate |-> t.rate, custom |-> t.custom, type |-> t.type, cached |-> TRUE,
             boxed |-> TRUE, map |-> t.map, mapRate |-> t.mapRate]
    BY <1>1
  <2>2. m = [t EXCEPT !.map = new, !.boxed = FALSE]
    BY <1>2, <1>3
  <2> HIDE DEF new
  <2>3. PICK a, b, c, d, e, f : t = [fixed |-> a, rate |-> b, custom |-> c, type |-> d, cached |-> TRUE,
                                     boxed |-> TRUE, map |-> e, mapRate |-> f]
    BY <2>1, Zenon
  <2>4. m = [fixed |-> a, rate |-> b, custom |-> c, type |-> d, cached |-> TRUE, boxed |-> FALSE, map |-> new, mapRate |-> f]
    BY ONLY <2>2, <2>3
  <2>5. t.fixed = a /\ t.rate = b /\ t.custom = c /\ t.type = d /\ t.mapRate = f
    BY ONLY <2>3
  <2> QED BY <2>4, <2>5, Zenon DEF new
<1> DEFINE c == recObj.custom
           mm == c ++ t.map
<1>5. mm = [k \in DOMAIN mm |-> mm[k]] /\ DOMAIN mm = DOMAIN c \cup DOMAIN t.map
      /\ (\A k \in DOMAIN c : mm[k] = c[k]) /\ \A k \in DOMAIN t.map \ DOMAIN c : mm[k] = t.map[k]
  BY DEF ++
<1> HIDE DEF mm
<1>6. m.map = mm /\ t.custom = c
  BY <1>1, <1>4 DEF mm
<1>7. m = [fixed |-> m.fixed, rate |-> m.rate, custom |-> m.custom, type |-> m.type, cached |-> TRUE,
           boxed |-> FALSE, map |-> m.map, mapRate |-> m.mapRate]
      /\ m.fixed = t.fixed /\ m.rate = t.rate /\ m.custom = t.custom /\ m.type = t.type /\ m.mapRate = t.mapRate
  BY <1>4
<1>8. m.map = [k \in DOMAIN m.map |-> m.map[k]]
  BY <1>5, <1>6
<1>9. \A k \in FixedKeys \ DOMAIN c : k \in DOMAIN m.map /\ m.map[k] = recObj.fixed[k]
  BY <1>1, <1>5, <1>6
<1>10. \A k \in DOMAIN c : k \in DOMAIN m.map /\ m.map[k] = c[k]
  BY <1>5, <1>6
<1> QED BY <1>1, <1>7, <1>8, <1>9, <1>10 DEF m

\* strip deletes what is blank or to be dropped, and nothing else.
LEMMA StripLaw ==
  ASSUME NEW o, o = [fixed |-> o.fixed, rate |-> o.rate, custom |-> o.custom, type |-> o.type, cached |-> o.cached,
                     boxed |-> o.boxed, map |-> o.map, mapRate |-> o.mapRate]
  PROVE  LET s == Strip(o)
         IN  /\ s = [fixed |-> o.fixed, rate |-> o.rate, custom |-> o.custom, type |-> o.type, cached |-> o.cached,
                     boxed |-> o.boxed, map |-> s.map, mapRate |-> o.mapRate]
             /\ s.map = [k \in DOMAIN s.map |-> s.map[k]]
             /\ \A k \in DOMAIN o.map \ DroppedAttrs : o.map[k] # 0 => k \in DOMAIN s.map /\ s.map[k] = o.map[k]
<1> DEFINE ks == {k \in DOMAIN o.map : o.map[k] = 0 \/ k \in DroppedAttrs}
           w == Without(o.map, ks)
           s == Strip(o)
<1>1. s = [o EXCEPT !.map = w]
  BY DEF Strip
<1>2. /\ w = [k \in DOMAIN w |-> w[k]]
      /\ \A k \in DOMAIN o.map \ DroppedAttrs : o.map[k] # 0 => k \in DOMAIN w /\ w[k] = o.map[k]
  BY DEF Without
<1> HIDE DEF w, s
<1>3. s = [fixed |-> o.fixed, rate |-> o.rate, custom |-> o.custom, type |-> o.type, cached |-> o.cached,
           boxed |-> o.boxed, map |-> s.map, mapRate |-> o.mapRate] /\ s.map = w
  BY <1>1
<1> QED BY <1>2, <1>3 DEF s

\* What the JSON format exports is what the object has, through the cached map or not.
LEMMA JsonToKeeps == ASSUME RecIInv, JsonTo PROVE RecIInv'
<1>1. recPc = "format" /\ recPc' = "give" /\ UNCHANGED <<recOpts, recFlow, recNum, recTodo>>
  BY DEF JsonTo
<1>2. ObjOK /\ recNum >= 1 /\ recNum \in Nat
  BY <1>1, RecordAssumption DEF RecIInv, CarriesOwn, RecordInv, RecordTypeOK
<1>3. /\ \A x \in {"fixed", "rate", "custom", "type"} : recObj'[x] = recObj[x]
      /\ ObjOK'
      /\ (OwnValuesExported /\ RateExported)'
  <2>1. CASE recObj.type = "snmp"
    <3>1. recObj' = recObj
      BY <2>1 DEF JsonTo
    <3>2. ObjOK'
      BY <1>2, <3>1 DEF ObjOK
    <3> QED BY <3>1, <3>2, <2>1 DEF OwnValuesExported, RateExported
  <2>2. CASE recObj.type # "snmp"
    <3> DEFINE m == Flatten(recObj)
               s == Strip(m)
               c == recObj.custom
    <3>1. recObj' = s /\ recOut' = s.map
      BY <2>2 DEF JsonTo
    <3>2. IF recOpts.rollups
          THEN /\ recObj.cached /\ recObj.boxed /\ recObj.mapRate = <<recNum, 1>> /\ FixedKeys \subseteq DOMAIN recObj.map
               /\ \A k \in FixedKeys : recObj.map[k] = recObj.fixed[k]
          ELSE ~recObj.cached
      BY <1>1 DEF RecIInv, CacheOwn
    <3>3. /\ \A x \in {"fixed", "rate", "custom", "type"} : m[x] = recObj[x]
          /\ m = [fixed |-> m.fixed, rate |-> m.rate, custom |-> m.custom, type |-> m.type, cached |-> TRUE,
                  boxed |-> FALSE, map |-> m.map, mapRate |-> m.mapRate]
          /\ m.mapRate = IF recObj.cached THEN recObj.mapRate ELSE recObj.rate
          /\ \A k \in FixedKeys \ DOMAIN c : k \in DOMAIN m.map /\ m.map[k] = recObj.fixed[k]
          /\ \A k \in DOMAIN c : k \in DOMAIN m.map /\ m.map[k] = c[k]
      <4>1. recObj.cached => /\ recObj.boxed /\ FixedKeys \subseteq DOMAIN recObj.map
                             /\ \A k \in FixedKeys : recObj.map[k] = recObj.fixed[k]
        BY <3>2
      <4> QED BY <1>2, <4>1, FlattenLaw
    <3> HIDE DEF m
    <3>4. m = [fixed |-> m.fixed, rate |-> m.rate, custom |-> m.custom, type |-> m.type, cached |-> m.cached,
               boxed |-> m.boxed, map |-> m.map, mapRate |-> m.mapRate]
      BY <3>3
    <3>5. /\ s = [fixed |-> m.fixed, rate |-> m.rate, custom |-> m.custom, type |-> m.type, cached |-> m.cached,
                  boxed |-> m.boxed, map |-> s.map, mapRate |-> m.mapRate]
          /\ s.map = [k \in DOMAIN s.map |-> s.map[k]]
          /\ \A k \in DOMAIN m.map \ DroppedAttrs : m.map[k] # 0 => k \in DOMAIN s.map /\ s.map[k] = m.map[k]
      BY <3>4, StripLaw
    <3> HIDE DEF s
    <3>6. \A x \in {"fixed", "rate", "custom", "type"} : recObj'[x] = recObj[x]
      BY <3>1, <3>3, <3>5
    <3>7. recObj'.mapRate = IF recOpts.rollups THEN <<recNum, 1>> ELSE recObj.rate
      <4>1. s.mapRate = m.mapRate
        BY ONLY <3>5
      <4> QED BY <3>1, <3>2, <3>3, <4>1
    <3>8. ObjOK'
      <4>1. recObj' = [fixed |-> recObj.fixed, rate |-> recObj.rate, custom |-> recObj.custom, type |-> recObj.type,
                       cached |-> TRUE, boxed |-> FALSE, map |-> s.map, mapRate |-> m.mapRate]
        <5>1. m.cached = TRUE /\ m.boxed = FALSE
          BY <3>3
        <5>2. m.fixed = recObj.fixed /\ m.rate = recObj.rate /\ m.custom = recObj.custom /\ m.type = recObj.type
          BY <3>3
        <5> QED BY <3>1, <3>5, <5>1, <5>2
      <4>2. s.map = [k \in DOMAIN s.map |-> s.map[k]]
        BY <3>5
      <4> QED BY <1>2, <4>1, <4>2 DEF ObjOK
    <3>9. RateExported'
      BY <1>1, <3>6, <3>7 DEF RateExported
    <3>10. \A k \in DOMAIN c : c[k] # 0 /\ (k # "src_as_name" => c[k] = recNum)
      BY <1>1, <1>2 DEF RecIInv, CarriesOwn, Private
    <3>11. \A k \in DOMAIN c \ DroppedAttrs : s.map[k] = c[k]
      BY <3>3, <3>5, <3>10
    <3>12. FixedKeys \cap DroppedAttrs = {} /\ "src_as_name" \notin FixedKeys
      BY RecordAssumption DEF FixedKeys
    <3>13. ASSUME NEW k \in FixedKeys, recObj.fixed[k] \in {recNum, Private} PROVE s.map[k] \in {recNum, recObj.fixed[k]}
      <4>1. CASE k \in DOMAIN c
        BY <4>1, <3>10, <3>11, <3>12
      <4>2. CASE k \notin DOMAIN c
        <5>1. k \in DOMAIN m.map \ DroppedAttrs /\ m.map[k] = recObj.fixed[k]
          BY <3>3, <3>12, <4>2
        <5>2. recObj.fixed[k] # 0
          BY <3>13, <1>2 DEF Private
        <5> QED BY <5>1, <5>2, <3>5
      <4> QED BY <4>1, <4>2
    <3>14. /\ s.map["addr"] = recNum
           /\ recFlow.geo => s.map["geo"] \in {recNum, Private}
           /\ recFlow.device /\ recFlow.iface => s.map["desc"] = recNum
      <4>1. /\ recObj.fixed["addr"] = recNum
            /\ recFlow.geo => recObj.fixed["geo"] \in {recNum, Private}
            /\ recFlow.device /\ recFlow.iface => recObj.fixed["desc"] = recNum
        BY <1>1 DEF RecIInv, CarriesOwn
      <4>2. {"addr", "geo", "desc"} \subseteq FixedKeys
        BY DEF FixedKeys
      <4> QED BY <4>1, <4>2, <3>13
    <3>15. OwnValuesExported'
      BY <1>1, <3>1, <3>6, <3>11, <3>14 DEF OwnValuesExported
    <3> QED BY <3>6, <3>8, <3>9, <3>15
  <2> QED BY <2>1, <2>2
<1>4. RecordTypeOK'
  BY <1>1, <1>3 DEF RecIInv, RecordInv, RecordTypeOK
<1>5. CarriesOwn'
  BY <1>1, <1>3 DEF RecIInv, CarriesOwn
<1>6. CacheOwn' /\ Remapping'
  BY <1>1 DEF CacheOwn, Remapping
<1>7. RemapKeeps'
  <2>1. \A k \in DOMAIN recObj.custom \ {"src_as_name"} : recObj'.custom[k] = recNum
    BY <1>1, <1>3 DEF RecIInv, CarriesOwn
  <2> QED BY <1>1, <1>3, <2>1, RemappedStays
<1> QED BY <1>1, <1>3, <1>4, <1>5, <1>6, <1>7 DEF RecIInv, RecordInv

LEMMA GiveRecordKeeps == ASSUME RecIInv, GiveRecord PROVE RecIInv'
<1>1. /\ recPc = "give" /\ recPc' = "free" /\ UNCHANGED <<recOpts, recFlow, recNum, recTodo>>
      /\ recObj' = [recObj EXCEPT !.cached = FALSE]
  BY DEF GiveRecord, ResetRecord
<1>2. ObjOK /\ ~recObj'.cached /\ \A x \in {"fixed", "rate", "custom", "type", "boxed", "map", "mapRate"} : recObj'[x] = recObj[x]
  BY <1>1 DEF RecIInv, ObjOK
<1>3. RecordTypeOK'
  BY <1>1, <1>2 DEF RecIInv, RecordInv, RecordTypeOK
<1>4. ObjOK'
  BY <1>1, <1>2 DEF ObjOK
<1>5. CarriesOwn' /\ CacheOwn' /\ Remapping' /\ (OwnValuesExported /\ RateExported /\ RemapKeeps)'
  BY <1>1, <1>2 DEF CarriesOwn, CacheOwn, Remapping, OwnValuesExported, RateExported, RemapKeeps
<1> QED BY <1>1, <1>3, <1>4, <1>5 DEF RecIInv, RecordInv

LEMMA RecordKeeps == RecIInv /\ [RecordNext]_recordVars => RecIInv'
<1> SUFFICES ASSUME RecIInv, [RecordNext]_recordVars PROVE RecIInv'
  OBVIOUS
<1>1. CASE UNCHANGED recordVars
  BY <1>1, RecordStutter
<1>2. CASE RecordNext
  <2>1. ASSUME NEW k \in recTodo, RemapKey(k) PROVE RecIInv'
    BY <2>1, RemapKeyKeeps
  <2>2. ASSUME NEW f \in FlowSet, FlowToJCHF(f) PROVE RecIInv'
    BY <2>2, FlowToJCHFKeeps
  <2> QED BY <1>2, <2>1, <2>2, FilledKeeps, DoEnrichmentsKeeps, AddToRollupsKeeps, SampleKeeps, JsonToKeeps, GiveRecordKeeps
          DEF RecordNext, RecordStep
<1> QED BY <1>1, <1>2

\* For any custom fields, common names, columns and any number of flows: a record
\* exports its own flow's fields, sample rate and renamed custom fields, although the
\* object and the map cached in it are used again for flow after flow, and in whatever
\* order Go visits the map that the loop over CustomStr changes (flowToJCHF, ToMap,
\* Flatten, strip, Reset).
THEOREM RecordInvariant == RecordsSpec => [](part = "record" => RecordInv)
<1>1. RecordsInit => RecIInv
  BY RecordInitial DEF RecordsInit
<1>2. RecIInv /\ [RecordsNext]_recordsVars => RecIInv'
  <2> SUFFICES ASSUME RecIInv, [RecordsNext]_recordsVars PROVE RecIInv'
    OBVIOUS
  <2>1. [RecordNext]_recordVars
    BY DEF RecordsNext, OfRing, OfStitch, OfRecord, OfMetrics, recordsVars
  <2> QED BY <2>1, RecordKeeps
<1>3. RecIInv => RecordInv
  BY DEF RecIInv
<1> QED BY <1>1, <1>2, <1>3, PTL DEF RecordsSpec

------------------------------------------------------------------------------
\* The formats.

\* A set of natural numbers has a least element.
LEMMA LeastNat ==
  ASSUME NEW T \in SUBSET Nat, T # {}
  PROVE  \E n \in T : \A m \in T : n <= m
<1>1. PICK n \in T : \A m \in T : ~(<<m, n>> \in OpToRel(<, Nat))
  BY NatLessThanWellFounded, WFMin, Zenon
<1>2. ASSUME NEW m \in T PROVE n <= m
  <2>1. ~(<<m, n>> \in OpToRel(<, Nat))
    BY <1>1
  <2> QED BY <2>1 DEF OpToRel
<1> QED BY <1>2

\* Induction, with a set in the place of the predicate.
LEMMA Induct ==
  ASSUME NEW S \in SUBSET Nat, 0 \in S, \A n \in S : n + 1 \in S
  PROVE  S = Nat
<1> SUFFICES ASSUME Nat \ S # {} PROVE FALSE
  OBVIOUS
<1>1. PICK n \in Nat \ S : \A m \in Nat \ S : n <= m
  BY LeastNat
<1>2. n # 0 /\ n - 1 \in Nat
  BY <1>1
<1>3. n - 1 \in S
  BY <1>1, <1>2
<1> QED BY <1>1, <1>2, <1>3

LEMMA OneTo == ASSUME NEW n \in Nat PROVE IsFiniteSet(1 .. n) /\ Cardinality(1 .. n) = n
BY FS_Interval

\* Of the names in a finite set at most `most' have fewer than that many before them.
LEMMA FirstFew ==
  ASSUME NEW keys, keys \subseteq DOMAIN KeyRank, NEW most \in Nat
  PROVE  LET first == {k \in keys : Cardinality(Before(keys, k)) < most}
         IN  IsFiniteSet(first) /\ Cardinality(first) <= most
<1> DEFINE first == {k \in keys : Cardinality(Before(keys, k)) < most}
           place == [k \in first |-> Cardinality(Before(keys, k)) + 1]
<1>0. /\ IsFiniteSet(DOMAIN KeyRank) /\ \A k \in DOMAIN KeyRank : KeyRank[k] \in Nat
      /\ \A j, k \in DOMAIN KeyRank : KeyRank[j] = KeyRank[k] => j = k
  BY NamesAssumption
<1>1. IsFiniteSet(keys) /\ IsFiniteSet(first)
  BY <1>0, FS_Subset
<1>2. ASSUME NEW k \in keys PROVE IsFiniteSet(Before(keys, k)) /\ Cardinality(Before(keys, k)) \in Nat
  BY <1>1, FS_Subset, FS_CardinalityType DEF Before
<1>3. ASSUME NEW j \in keys, NEW k \in keys, KeyRank[j] < KeyRank[k]
      PROVE  Cardinality(Before(keys, j)) < Cardinality(Before(keys, k))
  <2>1. Before(keys, j) \subseteq Before(keys, k) /\ j \in Before(keys, k) /\ j \notin Before(keys, j)
    BY <1>0, <1>3 DEF Before
  <2>2. Before(keys, j) # Before(keys, k)
    BY <2>1
  <2>3. IsFiniteSet(Before(keys, k))
    BY <1>2
  <2>4. Cardinality(Before(keys, j)) <= Cardinality(Before(keys, k))
        /\ (Cardinality(Before(keys, j)) = Cardinality(Before(keys, k)) => Before(keys, j) = Before(keys, k))
    BY <2>1, <2>3, FS_Subset
  <2> QED BY <2>2, <2>4, <1>2
<1>4. ASSUME NEW j \in first, NEW k \in first, place[j] = place[k] PROVE j = k
  <2>1. Cardinality(Before(keys, j)) = Cardinality(Before(keys, k))
    BY <1>2, <1>4
  <2>2. ~(KeyRank[j] < KeyRank[k]) /\ ~(KeyRank[k] < KeyRank[j])
    BY <2>1, <1>2, <1>3
  <2> QED BY <2>2, <1>0
<1>5. place \in [first -> 1 .. most]
  BY <1>2
<1>6. place \in Injection(first, 1 .. most)
  BY <1>4, <1>5 DEF Injection, IsInjective
<1>7. IsFiniteSet(1 .. most) /\ Cardinality(1 .. most) = most
  BY FS_Interval
<1>8. Cardinality(first) <= Cardinality(1 .. most)
  BY <1>6, <1>7, FS_Injection DEF ExistsInjection
<1> QED BY <1>1, <1>7, <1>8

\* However many names there are, no more than New Relic takes are left.
LEMMA PruneLaw ==
  ASSUME NEW keys, keys \subseteq DOMAIN KeyRank, keys \cap RemoveForSnmp = {}, IdKeys \subseteq keys
  PROVE  LET p == Prune(keys, MaxAttrs - 3)
         IN  /\ IsFiniteSet(p) /\ Cardinality(p) <= MaxAttrs
             /\ IdKeys \subseteq p /\ p \cap RemoveForSnmp = {}
<1> DEFINE few == {k \in keys : Cardinality(Before(keys, k)) < MaxAttrs - 3}
           p == Prune(keys, MaxAttrs - 3)
<1>1. MaxAttrs - 3 \in Nat /\ MaxAttrs \in Nat
  BY FormatsAssumption
<1>2. IsFiniteSet(keys)
  BY NamesAssumption, FS_Subset
<1>3. IsFiniteSet(few) /\ Cardinality(few) <= MaxAttrs - 3
  BY <1>1, FirstFew
<1>4. IsFiniteSet(IdKeys) /\ Cardinality(IdKeys) <= 3
  <2> DEFINE f == [i \in 1 .. 3 |-> IF i = 1 THEN "objectIdentifier" ELSE IF i = 2 THEN "mib-name" ELSE "instrumentation.name"]
  <2>1. f \in Surjection(1 .. 3, IdKeys)
    BY DEF Surjection, IdKeys
  <2>2. IsFiniteSet(1 .. 3) /\ Cardinality(1 .. 3) = 3
    BY OneTo, 3 \in Nat, Zenon
  <2> QED BY <2>1, <2>2, FS_Surjection DEF ExistsSurjection
<1>5. IsFiniteSet(few \cup IdKeys) /\ Cardinality(few \cup IdKeys) <= MaxAttrs
  <2>1. /\ IsFiniteSet(few \cup IdKeys) /\ IsFiniteSet(few \cap IdKeys)
        /\ Cardinality(few \cup IdKeys) = Cardinality(few) + Cardinality(IdKeys) - Cardinality(few \cap IdKeys)
    BY <1>3, <1>4, FS_Union, FS_Subset
  <2>2. Cardinality(few) \in Nat /\ Cardinality(IdKeys) \in Nat /\ Cardinality(few \cap IdKeys) \in Nat
    BY <1>3, <1>4, <2>1, FS_CardinalityType
  <2> QED BY <1>1, <1>3, <1>4, <2>1, <2>2
<1>6. IdKeys \cap RemoveForSnmp = {}
  BY NamesAssumption
<1> QED BY <1>2, <1>5, <1>6 DEF Prune

LEMMA KeysForSnmpLaw ==
  ASSUME NEW new, new \subseteq DOMAIN KeyRank, NEW m, NEW attr, NEW gentle, gentle = TRUE
  PROVE  LET ks == KeysForSnmp(new, m, attr, gentle)
         IN  /\ Cardinality(ks) <= MaxAttrs
             /\ {"objectIdentifier", "instrumentation.name"} \subseteq ks
             /\ ks \cap RemoveForSnmp = {}
<1> DEFINE foreign == {k \in DOMAIN attr : k # m.name /\ k \notin KeepAcross}
           all == new \cup IdKeys \cup (IF m.table # "" /\ foreign # {} THEN {"mib-table"} ELSE {})
           p == Prune(all \ RemoveForSnmp, MaxAttrs - 3)
           off == IF m.mib THEN {} ELSE {"mib-name"}
           ks == KeysForSnmp(new, m, attr, gentle)
<1>1. ks = p \ off
  BY Zenon DEF KeysForSnmp
<1>2. all \subseteq DOMAIN KeyRank /\ IdKeys \subseteq all \ RemoveForSnmp
  BY NamesAssumption
<1> HIDE DEF all, ks
<1>3. IsFiniteSet(p) /\ Cardinality(p) <= MaxAttrs /\ IdKeys \subseteq p /\ p \cap RemoveForSnmp = {}
  BY <1>2, PruneLaw
<1> HIDE DEF p
<1>4. IsFiniteSet(ks) /\ Cardinality(ks) <= Cardinality(p)
  BY <1>1, <1>3, FS_Subset
<1>5. Cardinality(ks) \in Nat /\ Cardinality(p) \in Nat /\ MaxAttrs \in Nat
  BY <1>3, <1>4, FS_CardinalityType, FormatsAssumption
<1>6. Cardinality(ks) <= MaxAttrs
  BY <1>3, <1>4, <1>5
<1>7. {"objectIdentifier", "instrumentation.name"} \subseteq ks /\ ks \cap RemoveForSnmp = {}
  BY <1>1, <1>3 DEF IdKeys
<1> QED BY <1>6, <1>7 DEF ks

LEMMA CopyAttrLaw ==
  ASSUME NEW attr, {Renamed(k) : k \in DOMAIN attr} \subseteq DOMAIN KeyRank, NEW m, NEW lm, NEW gentle, gentle = TRUE, NEW drops
  PROVE  LET ks == DOMAIN CopyAttrForSnmp(attr, m, lm, gentle, drops)
         IN  /\ Cardinality(ks) <= MaxAttrs
             /\ {"objectIdentifier", "instrumentation.name"} \subseteq ks
             /\ ks \cap RemoveForSnmp = {}
<1> DEFINE allowed(k) == m.name \in AllowSys \/ ~(k \in SysKeys \/ (drops /\ k = "src_addr"))
           src(n) == {k \in DOMAIN attr : Renamed(k) = n /\ allowed(k)}
           new == {n \in {Renamed(k) : k \in DOMAIN attr} : src(n) # {} /\ OfTable(n, m, lm)}
<1>1. CopyAttrForSnmp(attr, m, lm, gentle, drops) =
        [n \in KeysForSnmp(new, m, attr, gentle) |-> IF n \in new THEN attr[CHOOSE k \in src(n) : TRUE] ELSE "id"]
  BY Zenon DEF CopyAttrForSnmp
<1>2. new \subseteq DOMAIN KeyRank
  OBVIOUS
<1> HIDE DEF new, src
<1>3. DOMAIN CopyAttrForSnmp(attr, m, lm, gentle, drops) = KeysForSnmp(new, m, attr, gentle)
  BY <1>1, Zenon
<1> QED BY <1>2, <1>3, KeysForSnmpLaw, Zenon

------------------------------------------------------------------------------
\* Rollups.

RollupName(names, d) == IF d \in DOMAIN names THEN names[d] ELSE d
RollupPut(a, name, pt, blank, fold) ==
  IF pt \in blank THEN Without(a, {name}) ELSE Set(a, name, IF fold THEN Folded(name, pt) ELSE pt)
RollupDef(f, n, in, names, blank, fold) ==
  f = [i \in 0 .. n |-> IF i = 0 THEN NoAttrs
                        ELSE RollupPut(f[i - 1], RollupName(names, in.dims[i]), in.pts[i], blank, fold)]

LEMMA RollupAttrsIs ==
  ASSUME NEW in, NEW names, NEW blank, NEW fold
  PROVE  RollupAttrs(in, names, blank, fold) = (CHOOSE f : RollupDef(f, Len(in.dims), in, names, blank, fold))[Len(in.dims)]
BY Zenon DEF RollupAttrs, RollupDef, RollupPut, RollupName

\* The recursive function of RollupAttrs exists.
LEMMA RollupExists ==
  ASSUME NEW in, NEW names, NEW blank, NEW fold, NEW n \in Nat
  PROVE  \E f : RollupDef(f, n, in, names, blank, fold)
<1> DEFINE step(a, i) == RollupPut(a, RollupName(names, in.dims[i]), in.pts[i], blank, fold)
           Part(k) == \E f : f = [i \in 0 .. k |-> IF i = 0 THEN NoAttrs ELSE step(f[i - 1], i)]
<1> HIDE DEF step
<1>1. Part(0)
  <2> DEFINE g == [i \in 0 .. 0 |-> NoAttrs]
  <2>1. g = [i \in 0 .. 0 |-> IF i = 0 THEN NoAttrs ELSE step(g[i - 1], i)]
    OBVIOUS
  <2> QED BY <2>1
<1>2. ASSUME NEW k \in Nat, Part(k) PROVE Part(k + 1)
  <2>1. PICK f : f = [i \in 0 .. k |-> IF i = 0 THEN NoAttrs ELSE step(f[i - 1], i)]
    BY <1>2
  <2> DEFINE g == [i \in 0 .. (k + 1) |-> IF i <= k THEN f[i] ELSE step(f[k], k + 1)]
  <2>2. ASSUME NEW i \in 0 .. (k + 1) PROVE g[i] = IF i = 0 THEN NoAttrs ELSE step(g[i - 1], i)
    <3>1. CASE i = 0
      BY <2>1, <3>1
    <3>2. CASE i # 0 /\ i <= k
      BY <2>1, <3>2
    <3>3. CASE i = k + 1
      BY <2>1, <3>3
    <3> QED BY <3>1, <3>2, <3>3
  <2>3. g = [i \in 0 .. (k + 1) |-> IF i = 0 THEN NoAttrs ELSE step(g[i - 1], i)]
    BY <2>2
  <2> QED BY <2>3
<1>3. {k \in Nat : Part(k)} = Nat
  <2> DEFINE S == {k \in Nat : Part(k)}
  <2> HIDE DEF Part
  <2>1. S \in SUBSET Nat /\ 0 \in S /\ \A k \in S : k + 1 \in S
    BY <1>1, <1>2
  <2> QED BY <2>1, Induct, Zenon
<1>4. Part(n)
  <2> HIDE DEF Part
  <2> QED BY <1>3
<1> QED BY <1>4, Zenon DEF RollupDef, step

\* A dimension whose name no other has, and whose value is not blank, is there.
LEMMA RollupKeepsDim ==
  ASSUME NEW in, in.dims \in Seq(STRING), NEW names, NEW blank, NEW fold, NEW i \in DOMAIN in.dims,
         \A j \in DOMAIN in.dims : RollupName(names, in.dims[j]) = RollupName(names, in.dims[i]) => j = i,
         in.pts[i] \notin blank
  PROVE  LET attr == RollupAttrs(in, names, blank, fold)
             name == RollupName(names, in.dims[i])
         IN  name \in DOMAIN attr /\ attr[name] \in {in.pts[i], "32768"}
<1> DEFINE n == Len(in.dims)
           name(j) == RollupName(names, in.dims[j])
           at == CHOOSE f : RollupDef(f, n, in, names, blank, fold)
           Has(j) == name(i) \in DOMAIN at[j] /\ at[j][name(i)] \in {in.pts[i], "32768"}
<1>0. n \in Nat /\ DOMAIN in.dims = 1 .. n /\ i \in 1 .. n
  OBVIOUS
<1> HIDE DEF n
<1>1. RollupDef(at, n, in, names, blank, fold)
  BY <1>0, RollupExists, Zenon
<1> HIDE DEF at, name
<1>2. ASSUME NEW j \in 1 .. n PROVE at[j] = RollupPut(at[j - 1], name(j), in.pts[j], blank, fold)
  BY <1>0, <1>1 DEF RollupDef, name
<1>3. Has(i)
  <2>1. at[i] = Set(at[i - 1], name(i), IF fold THEN Folded(name(i), in.pts[i]) ELSE in.pts[i])
    BY <1>0, <1>2 DEF RollupPut
  <2>2. (IF fold THEN Folded(name(i), in.pts[i]) ELSE in.pts[i]) \in {in.pts[i], "32768"}
    BY DEF Folded
  <2> QED BY <2>1, <2>2 DEF Set, Only, ++
<1>4. ASSUME NEW j \in i .. n, j + 1 <= n, Has(j) PROVE Has(j + 1)
  <2>1. name(j + 1) # name(i)
    BY <1>0, <1>4 DEF name
  <2>2. at[j + 1] = RollupPut(at[j], name(j + 1), in.pts[j + 1], blank, fold)
    <3>1. j + 1 \in 1 .. n /\ (j + 1) - 1 = j
      BY <1>0, <1>4
    <3> QED BY <1>2, <3>1
  <2> HIDE DEF Has
  <2>3. Has(j + 1)
    <3> DEFINE a == at[j]
               b == at[j + 1]
               v == IF fold THEN Folded(name(j + 1), in.pts[j + 1]) ELSE in.pts[j + 1]
    <3>1. b = Without(a, {name(j + 1)}) \/ b = Set(a, name(j + 1), v)
      BY <2>2 DEF RollupPut
    <3> HIDE DEF a, b, v
    <3>2. name(i) \in DOMAIN a /\ a[name(i)] \in {in.pts[i], "32768"}
      BY <1>4 DEF Has, a
    <3>3. name(i) \in DOMAIN b /\ b[name(i)] = a[name(i)]
      BY <2>1, <3>1, <3>2 DEF Without, Set, Only, ++
    <3> QED BY <3>2, <3>3 DEF Has, b
  <2> QED BY <2>3
<1>5. \A k \in Nat : i + k <= n => Has(i + k)
  <2> DEFINE S == {k \in Nat : i + k <= n => Has(i + k)}
  <2> HIDE DEF Has
  <2>1. 0 \in S
    BY <1>0, <1>3
  <2>2. ASSUME NEW k \in S PROVE k + 1 \in S
    <3>1. SUFFICES ASSUME i + (k + 1) <= n PROVE Has(i + (k + 1))
      OBVIOUS
    <3>2. i + k \in i .. n /\ (i + k) + 1 <= n /\ Has(i + k) /\ i + (k + 1) = (i + k) + 1
      BY <1>0, <3>1
    <3> QED BY <1>4, <3>2
  <2>3. S \in SUBSET Nat
    OBVIOUS
  <2> HIDE DEF S
  <2>4. S = Nat
    BY <2>1, <2>2, <2>3, Induct, Zenon
  <2> QED BY <2>4 DEF S
<1>6. Has(n)
  <2> HIDE DEF Has
  <2>1. n - i \in Nat /\ i + (n - i) = n /\ n <= n
    BY <1>0
  <2> QED BY <1>5, <2>1
<1>7. RollupAttrs(in, names, blank, fold) = at[n]
  BY RollupAttrsIs, Zenon DEF at, n
<1> QED BY <1>6, <1>7 DEF name

------------------------------------------------------------------------------
\* Filters with one name each.

Bare(fs, isIf) == {f \in fs : ~f.negate /\ (isIf \/ f.keys[1] \notin InterfaceKeys)}
HasName(attr, f) == f.keys[1] \in DOMAIN attr /\ attr[f.keys[1]] \notin Numeric
Meets(attr, f) == HasName(attr, f) /\ attr[f.keys[1]] \in f.re
Judged(fs, attr, isIf) == {f \in Bare(fs, isIf) : f.keys[1] # AdminStatus /\ HasName(attr, f)}
AdminOff(fs, attr, isIf) == \E f \in Bare(fs, isIf) : f.keys[1] = AdminStatus /\ HasName(attr, f) /\ ~Meets(attr, f)
ForcedOut(fs, attr, isIf) == \E f \in Bare(fs, isIf) : f.force /\ f.keys[1] \notin DOMAIN attr

VerdictOf(admin, keep, seen, negate, br) == [admin |-> admin, keep |-> keep, seen |-> seen, negate |-> negate, br |-> br]

\* What the loop knows after the filters fs: if it was left, then because of the admin
\* status or of a forced name; if not, there is none of these among them, and it knows if
\* there was a name to look at, if one matched and if the filters are negated.
VerdictAfter(fs, attr, isIf, s) ==
  \E admin \in BOOLEAN, keep \in BOOLEAN, seen \in Nat, negate \in BOOLEAN, br \in BOOLEAN :
    /\ s = VerdictOf(admin, keep, seen, negate, br)
    /\ br => \/ admin /\ AdminOff(fs, attr, isIf)
             \/ ForcedOut(fs, attr, isIf) /\ seen > 0 /\ ~keep /\ ~negate
    /\ ~br => /\ ~admin /\ ~AdminOff(fs, attr, isIf) /\ ~ForcedOut(fs, attr, isIf)
              /\ seen > 0 <=> Judged(fs, attr, isIf) # {}
              /\ keep <=> \E f \in Judged(fs, attr, isIf) : Meets(attr, f)
              /\ negate <=> \E f \in fs : f.negate

LEMMA FilteredIs ==
  ASSUME NEW attr, NEW isIf, NEW st, NEW f, f.keys \in Seq(STRING), Len(f.keys) = 1
  PROVE  Filtered(attr, isIf, st, f) =
           IF st.br THEN st ELSE IF f.negate THEN [st EXCEPT !.negate = TRUE]
           ELSE CheckFilter(attr, f, f.force /\ f.keys[1] \in DOMAIN attr, isIf, st, f.keys[1])
<1> DEFINE any == f.force /\ \E i \in DOMAIN f.keys : f.keys[i] \in DOMAIN attr
           step(s, i) == CheckFilter(attr, f, any, isIf, s, f.keys[i])
           def(g, n) == g = [i \in 0 .. n |-> IF i = 0 THEN st ELSE step(g[i - 1], i)]
           after == CHOOSE g : def(g, Len(f.keys))
<1>1. Filtered(attr, isIf, st, f) = IF st.br THEN st ELSE IF f.negate THEN [st EXCEPT !.negate = TRUE] ELSE after[Len(f.keys)]
  BY Zenon DEF Filtered
<1>2. any = (f.force /\ f.keys[1] \in DOMAIN attr)
  <2>1. DOMAIN f.keys = {1}
    OBVIOUS
  <2> QED BY <2>1
<1> HIDE DEF step
<1>3. \E g : def(g, 1)
  <2> DEFINE h == [i \in 0 .. 1 |-> IF i = 0 THEN st ELSE step(st, 1)]
  <2>1. def(h, 1)
    OBVIOUS
  <2> QED BY <2>1
<1>4. def(after, 1)
  <2> HIDE DEF def
  <2> QED BY <1>3, Zenon
<1> HIDE DEF after
<1>5. after[1] = step(st, 1)
  BY <1>4
<1> HIDE DEF any
<1>6. step(st, 1) = CheckFilter(attr, f, f.force /\ f.keys[1] \in DOMAIN attr, isIf, st, f.keys[1])
  BY <1>2, Zenon DEF step
<1> QED BY <1>1, <1>5, <1>6, Zenon

LEMMA NoVerdictIs == ASSUME NEW attr, NEW isIf PROVE VerdictAfter({}, attr, isIf, NoVerdict)
<1>1. NoVerdict = VerdictOf(FALSE, FALSE, 0, FALSE, FALSE)
  BY DEF NoVerdict, VerdictOf
<1>2. Bare({}, isIf) = {} /\ Judged({}, attr, isIf) = {} /\ ~AdminOff({}, attr, isIf) /\ ~ForcedOut({}, attr, isIf)
  BY DEF Bare, Judged, AdminOff, ForcedOut
<1>3. ~(0 > 0) /\ 0 \in Nat /\ FALSE \in BOOLEAN
  OBVIOUS
<1>4. ~(\E f \in Judged({}, attr, isIf) : Meets(attr, f)) /\ ~\E f \in {} : f.negate
  BY <1>2
<1> QED BY <1>1, <1>2, <1>3, <1>4, Zenon DEF VerdictAfter

\* One more filter.
LEMMA FilteredAfter ==
  ASSUME NEW attr, NEW isIf \in BOOLEAN, NEW gs, NEW f, NEW s, VerdictAfter(gs, attr, isIf, s),
         f.keys \in Seq(STRING), Len(f.keys) = 1, f.negate \in BOOLEAN, f.force \in BOOLEAN,
         f.force => \A g \in gs : ~g.negate
  PROVE  VerdictAfter(gs \cup {f}, attr, isIf, Filtered(attr, isIf, s, f))
<1> DEFINE fs == gs \cup {f}
           k == f.keys[1]
           r == Filtered(attr, isIf, s, f)
           skip == ~isIf /\ k \in InterfaceKeys
           match == attr[k] \in f.re
<1>1. PICK admin \in BOOLEAN, keep \in BOOLEAN, seen \in Nat, negate \in BOOLEAN, br \in BOOLEAN :
         /\ s = VerdictOf(admin, keep, seen, negate, br)
         /\ br => \/ admin /\ AdminOff(gs, attr, isIf)
                  \/ ForcedOut(gs, attr, isIf) /\ seen > 0 /\ ~keep /\ ~negate
         /\ ~br => /\ ~admin /\ ~AdminOff(gs, attr, isIf) /\ ~ForcedOut(gs, attr, isIf)
                   /\ seen > 0 <=> Judged(gs, attr, isIf) # {}
                   /\ keep <=> \E g \in Judged(gs, attr, isIf) : Meets(attr, g)
                   /\ negate <=> \E g \in gs : g.negate
  BY DEF VerdictAfter
<1>2. s.br = br /\ s.keep = keep /\ s = [admin |-> admin, keep |-> keep, seen |-> seen, negate |-> negate, br |-> br]
  <2>1. s = VerdictOf(admin, keep, seen, negate, br)
    BY <1>1
  <2> QED BY ONLY <2>1 DEF VerdictOf
<1>s. s = VerdictOf(admin, keep, seen, negate, br)
  BY <1>1
<1>3. r = IF br THEN s ELSE IF f.negate THEN [s EXCEPT !.negate = TRUE]
          ELSE CheckFilter(attr, f, f.force /\ k \in DOMAIN attr, isIf, s, k)
  <2>1. r = IF s.br THEN s ELSE IF f.negate THEN [s EXCEPT !.negate = TRUE]
            ELSE CheckFilter(attr, f, f.force /\ f.keys[1] \in DOMAIN attr, isIf, s, f.keys[1])
    BY FilteredIs, Zenon
  <2>2. s.br = br
    BY <1>2
  <2> QED BY <2>1, <2>2, Zenon
<1>4. /\ AdminOff(gs, attr, isIf) => AdminOff(fs, attr, isIf)
      /\ ForcedOut(gs, attr, isIf) => ForcedOut(fs, attr, isIf)
  BY DEF AdminOff, ForcedOut, Bare
<1>5. CASE br
  BY <1>1, <1>3, <1>4, <1>5, ZenonT(30) DEF VerdictAfter
<1>6. ASSUME ~br, f \notin Bare({f}, isIf), f.negate = FALSE, r = VerdictOf(admin, keep, seen, negate, FALSE)
      PROVE  VerdictAfter(fs, attr, isIf, r)
  <2>1. Bare(fs, isIf) = Bare(gs, isIf)
    BY <1>6 DEF Bare
  <2>2. /\ AdminOff(fs, attr, isIf) <=> AdminOff(gs, attr, isIf)
        /\ ForcedOut(fs, attr, isIf) <=> ForcedOut(gs, attr, isIf)
        /\ Judged(fs, attr, isIf) = Judged(gs, attr, isIf)
    BY <2>1 DEF AdminOff, ForcedOut, Judged
  <2>3. (\E g \in fs : g.negate) <=> \E g \in gs : g.negate
    BY <1>6
  <2> QED BY <1>1, <1>6, <2>2, <2>3 DEF VerdictAfter
<1>7. CASE ~br /\ f.negate
  <2>1. Bare(fs, isIf) = Bare(gs, isIf)
    BY <1>7 DEF Bare
  <2>2. /\ AdminOff(fs, attr, isIf) <=> AdminOff(gs, attr, isIf)
        /\ ForcedOut(fs, attr, isIf) <=> ForcedOut(gs, attr, isIf)
        /\ Judged(fs, attr, isIf) = Judged(gs, attr, isIf)
    BY <2>1 DEF AdminOff, ForcedOut, Judged
  <2>3. r = VerdictOf(admin, keep, seen, TRUE, br)
    <3>1. r = [s EXCEPT !.negate = TRUE]
      BY <1>3, <1>7, Zenon
    <3> QED BY ONLY <1>s, <3>1 DEF VerdictOf
  <2>4. \E g \in fs : g.negate
    BY <1>7
  <2> QED BY <1>1, <1>7, <2>2, <2>3, <2>4 DEF VerdictAfter
<1>8. CASE ~br /\ ~f.negate
  <2> DEFINE any == f.force /\ k \in DOMAIN attr
  <2>0. r = CheckFilter(attr, f, any, isIf, s, k)
    BY <1>3, <1>8
  <2> HIDE DEF any
  <2>n. (\E g \in fs : g.negate) <=> \E g \in gs : g.negate
    BY <1>8
  <2>1. CASE skip
    <3>1. r = VerdictOf(admin, keep, seen, negate, FALSE)
      <4>1. r = [s EXCEPT !.br = FALSE]
        BY <2>0, <2>1, Zenon DEF CheckFilter
      <4> QED BY ONLY <1>s, <4>1 DEF VerdictOf
    <3>2. f \notin Bare({f}, isIf)
      BY <2>1 DEF Bare
    <3> QED BY <1>6, <1>8, <3>1, <3>2
  <2>2. CASE ~skip
    <3>b. Bare(fs, isIf) = Bare(gs, isIf) \cup {f}
      BY <1>8, <2>2 DEF Bare
    <3>1. CASE k \in DOMAIN attr
      <4>0. r = IF attr[k] \in Numeric THEN [s EXCEPT !.br = FALSE]
                ELSE IF k = AdminStatus THEN [s EXCEPT !.admin = ~match, !.br = ~match]
                ELSE IF s.keep THEN [s EXCEPT !.seen = @ + 1, !.br = FALSE]
                ELSE [s EXCEPT !.seen = @ + 1, !.keep = match, !.br = ~match /\ (f.force /\ ~any)]
        BY <2>0, <2>2, <3>1, Zenon DEF CheckFilter
      <4>f. ForcedOut(fs, attr, isIf) <=> ForcedOut(gs, attr, isIf)
        BY <3>b, <3>1 DEF ForcedOut
      <4>1. CASE attr[k] \in Numeric
        <5>1. ~HasName(attr, f)
          BY <4>1 DEF HasName
        <5>2. /\ AdminOff(fs, attr, isIf) <=> AdminOff(gs, attr, isIf)
              /\ Judged(fs, attr, isIf) = Judged(gs, attr, isIf)
          BY <3>b, <5>1 DEF AdminOff, Judged
        <5>3. r = VerdictOf(admin, keep, seen, negate, FALSE)
          <6>1. r = [s EXCEPT !.br = FALSE]
            BY <4>0, <4>1, Zenon
          <6> QED BY ONLY <1>s, <6>1 DEF VerdictOf
        <5> QED BY <1>1, <1>8, <2>n, <4>f, <5>2, <5>3 DEF VerdictAfter
      <4>2. CASE attr[k] \notin Numeric /\ k = AdminStatus
        <5>1. HasName(attr, f) /\ (Meets(attr, f) <=> match)
          BY <3>1, <4>2 DEF HasName, Meets
        <5>2. /\ AdminOff(fs, attr, isIf) <=> (AdminOff(gs, attr, isIf) \/ ~match)
              /\ Judged(fs, attr, isIf) = Judged(gs, attr, isIf)
          BY <3>b, <4>2, <5>1 DEF AdminOff, Judged
        <5>3. r = VerdictOf(~match, keep, seen, negate, ~match)
          <6>1. r = [s EXCEPT !.admin = ~match, !.br = ~match]
            BY <4>0, <4>2, Zenon
          <6> DEFINE off == ~match
          <6>2. r = [s EXCEPT !.admin = off, !.br = off]
            BY <6>1
          <6> HIDE DEF off
          <6>3. r = VerdictOf(off, keep, seen, negate, off)
            BY ONLY <1>s, <6>2 DEF VerdictOf
          <6> QED BY <6>3 DEF off
        <5>4. match \in BOOLEAN
          OBVIOUS
        <5> HIDE DEF match
        <5> QED BY <1>1, <1>8, <2>n, <4>f, <5>2, <5>3, <5>4 DEF VerdictAfter
      <4>3. CASE attr[k] \notin Numeric /\ k # AdminStatus
        <5>1. HasName(attr, f) /\ (Meets(attr, f) <=> match)
          BY <3>1, <4>3 DEF HasName, Meets
        <5>2. /\ AdminOff(fs, attr, isIf) <=> AdminOff(gs, attr, isIf)
              /\ Judged(fs, attr, isIf) = Judged(gs, attr, isIf) \cup {f}
          BY <3>b, <4>3, <5>1 DEF AdminOff, Judged
        <5>3. r = VerdictOf(admin, keep \/ match, seen + 1, negate, FALSE)
          <6>1. CASE keep
            <7>1. s.keep = TRUE
              BY <1>2, <6>1
            <7>2. r = [s EXCEPT !.seen = @ + 1, !.br = FALSE]
              BY <4>0, <4>3, <7>1, Zenon
            <7>3. r = VerdictOf(admin, keep, seen + 1, negate, FALSE)
              BY ONLY <1>s, <7>2 DEF VerdictOf
            <7>4. (keep \/ match) = keep
              BY <6>1
            <7> QED BY <7>3, <7>4, Zenon
          <6>2. CASE ~keep
            <7>1. (~match /\ (f.force /\ ~any)) = FALSE
              BY <3>1 DEF any
            <7>2. r = VerdictOf(admin, match, seen + 1, negate, FALSE)
              <8>1. s.keep = FALSE
                BY <1>2, <6>2
              <8>2. r = [s EXCEPT !.seen = @ + 1, !.keep = match, !.br = ~match /\ (f.force /\ ~any)]
                BY <4>0, <4>3, <8>1, Zenon
              <8>3. r = [s EXCEPT !.seen = @ + 1, !.keep = match, !.br = FALSE]
                BY <7>1, <8>2, Zenon
              <8> HIDE DEF match
              <8> QED BY ONLY <1>s, <8>3 DEF VerdictOf
            <7>3. (keep \/ match) = match
              BY <6>2
            <7> QED BY <7>2, <7>3, Zenon
          <6> QED BY <6>1, <6>2
        <5>4. (keep \/ match) <=> \E g \in Judged(fs, attr, isIf) : Meets(attr, g)
          BY <1>1, <1>8, <5>1, <5>2
        <5>5. (keep \/ match) \in BOOLEAN /\ seen + 1 \in Nat /\ seen + 1 > 0 /\ Judged(fs, attr, isIf) # {}
          <6>1. (keep \/ match) \in BOOLEAN
            BY Zenon
          <6>2. seen + 1 \in Nat /\ seen + 1 > 0
            OBVIOUS
          <6>3. Judged(fs, attr, isIf) # {}
            BY <5>2
          <6> QED BY <6>1, <6>2, <6>3, Zenon
        <5> QED BY <1>1, <1>8, <2>n, <4>f, <5>2, <5>3, <5>4, <5>5 DEF VerdictAfter
      <4> QED BY <4>1, <4>2, <4>3
    <3>2. CASE k \notin DOMAIN attr
      <4>0. r = IF f.force /\ ~any THEN [s EXCEPT !.seen = @ + 1, !.keep = FALSE, !.br = TRUE] ELSE [s EXCEPT !.br = FALSE]
        BY <2>0, <2>2, <3>2, Zenon DEF CheckFilter
      <4>h. ~HasName(attr, f)
        BY <3>2 DEF HasName
      <4>1. CASE f.force
        <5>1. r = VerdictOf(admin, FALSE, seen + 1, negate, TRUE)
          <6>1. f.force /\ ~any
            BY <3>2, <4>1 DEF any
          <6>2. r = [s EXCEPT !.seen = @ + 1, !.keep = FALSE, !.br = TRUE]
            BY <4>0, <6>1, Zenon
          <6> QED BY ONLY <1>s, <6>2 DEF VerdictOf
        <5>2. ForcedOut(fs, attr, isIf)
          BY <3>b, <3>2, <4>1 DEF ForcedOut
        <5>3. ~negate
          BY <1>1, <1>8, <4>1
        <5>4. seen + 1 \in Nat /\ seen + 1 > 0
          OBVIOUS
        <5> QED BY <1>1, <5>1, <5>2, <5>3, <5>4 DEF VerdictAfter
      <4>2. CASE ~f.force
        <5>1. r = VerdictOf(admin, keep, seen, negate, FALSE)
          <6>1. r = [s EXCEPT !.br = FALSE]
            BY <4>0, <4>2, Zenon
          <6> QED BY ONLY <1>s, <6>1 DEF VerdictOf
        <5>2. /\ AdminOff(fs, attr, isIf) <=> AdminOff(gs, attr, isIf)
              /\ Judged(fs, attr, isIf) = Judged(gs, attr, isIf)
              /\ ForcedOut(fs, attr, isIf) <=> ForcedOut(gs, attr, isIf)
          BY <3>b, <4>h, <4>2 DEF AdminOff, Judged, ForcedOut
        <5> QED BY <1>1, <1>8, <2>n, <5>1, <5>2 DEF VerdictAfter
      <4> QED BY <4>1, <4>2
    <3> QED BY <3>1, <3>2
  <2> QED BY <2>1, <2>2
<1> QED BY <1>5, <1>7, <1>8

\* The loop over the filters fs, if g is what the loops over fewer of them lead to.
VerdictStep(g, fs, attr, isIf) ==
  IF fs = {} THEN {NoVerdict} ELSE UNION {{Filtered(attr, isIf, s, f) : s \in g[fs \ {f}]} : f \in fs}

VerdictFun(g, M, attr, isIf) == g = [fs \in SUBSET M |-> VerdictStep(g, fs, attr, isIf)]

LEMMA VerdictStepSame ==
  ASSUME NEW g, NEW h, NEW fs, NEW attr, NEW isIf, \A f \in fs : g[fs \ {f}] = h[fs \ {f}]
  PROVE  VerdictStep(g, fs, attr, isIf) = VerdictStep(h, fs, attr, isIf)
<1> DEFINE A(f) == {Filtered(attr, isIf, s, f) : s \in g[fs \ {f}]}
           B(f) == {Filtered(attr, isIf, s, f) : s \in h[fs \ {f}]}
<1>1. \A f \in fs : A(f) = B(f)
  BY Zenon
<1>2. {A(f) : f \in fs} = {B(f) : f \in fs}
  <2> HIDE DEF A, B
  <2> QED BY <1>1
<1> QED BY <1>2, Zenon DEF VerdictStep

LEMMA Smaller ==
  ASSUME NEW M, IsFiniteSet(M), NEW fs \in SUBSET M
  PROVE  /\ IsFiniteSet(fs) /\ Cardinality(fs) \in Nat /\ (Cardinality(fs) = 0 <=> fs = {})
         /\ \A f \in fs : fs \ {f} \in SUBSET M /\ Cardinality(fs \ {f}) = Cardinality(fs) - 1
BY FS_Subset, FS_CardinalityType, FS_EmptySet, FS_RemoveElement

\* So does that of Verdicts, by induction on the number of filters.
LEMMA VerdictsExist ==
  ASSUME NEW M, IsFiniteSet(M), NEW attr, NEW isIf
  PROVE  \E g : VerdictFun(g, M, attr, isIf)
<1> DEFINE D(n) == {fs \in SUBSET M : Cardinality(fs) <= n}
           Part(n) == \E g : g = [fs \in D(n) |-> VerdictStep(g, fs, attr, isIf)]
<1>1. Part(0)
  <2> DEFINE g == [fs \in D(0) |-> {NoVerdict}]
  <2>1. ASSUME NEW fs \in D(0) PROVE VerdictStep(g, fs, attr, isIf) = {NoVerdict}
    <3>1. fs = {}
      BY Smaller
    <3> QED BY <3>1 DEF VerdictStep
  <2>2. g = [fs \in D(0) |-> VerdictStep(g, fs, attr, isIf)]
    BY <2>1
  <2> QED BY <2>2
<1>2. ASSUME NEW n \in Nat, Part(n) PROVE Part(n + 1)
  <2>1. PICK g : g = [fs \in D(n) |-> VerdictStep(g, fs, attr, isIf)]
    BY <1>2
  <2> DEFINE h == [fs \in D(n + 1) |-> IF Cardinality(fs) <= n THEN g[fs] ELSE VerdictStep(g, fs, attr, isIf)]
  <2>2. ASSUME NEW fs \in D(n + 1) PROVE h[fs] = VerdictStep(h, fs, attr, isIf)
    <3>1. h[fs] = VerdictStep(g, fs, attr, isIf)
      <4>1. CASE Cardinality(fs) <= n
        <5>1. fs \in D(n) /\ h[fs] = g[fs]
          BY <4>1
        <5> QED BY <2>1, <5>1
      <4>2. CASE ~(Cardinality(fs) <= n)
        BY <4>2
      <4> QED BY <4>1, <4>2
    <3>2. ASSUME NEW f \in fs PROVE g[fs \ {f}] = h[fs \ {f}]
      <4>1. fs \ {f} \in SUBSET M /\ Cardinality(fs \ {f}) = Cardinality(fs) - 1 /\ Cardinality(fs) \in Nat
        BY Smaller
      <4>2. Cardinality(fs \ {f}) <= n /\ Cardinality(fs \ {f}) <= n + 1
        BY <4>1
      <4> QED BY <4>1, <4>2
    <3> HIDE DEF h
    <3>3. VerdictStep(g, fs, attr, isIf) = VerdictStep(h, fs, attr, isIf)
      BY <3>2, VerdictStepSame
    <3> QED BY <3>1, <3>3
  <2>3. h = [fs \in D(n + 1) |-> h[fs]]
    OBVIOUS
  <2> HIDE DEF h
  <2>4. h = [fs \in D(n + 1) |-> VerdictStep(h, fs, attr, isIf)]
    BY <2>2, <2>3
  <2> QED BY <2>4
<1>3. \A n \in Nat : Part(n)
  <2> DEFINE S == {n \in Nat : Part(n)}
  <2> HIDE DEF Part
  <2>1. S \in SUBSET Nat /\ 0 \in S /\ \A n \in S : n + 1 \in S
    BY <1>1, <1>2
  <2>2. S = Nat
    BY <2>1, Induct, Zenon
  <2> QED BY <2>2
<1>4. Cardinality(M) \in Nat /\ D(Cardinality(M)) = SUBSET M
  <2>1. Cardinality(M) \in Nat /\ \A fs \in SUBSET M : Cardinality(fs) <= Cardinality(M)
    BY FS_CardinalityType, FS_Subset
  <2> QED BY <2>1
<1>5. Part(Cardinality(M))
  <2> HIDE DEF Part, D
  <2> QED BY <1>3, <1>4
<1> QED BY <1>4, <1>5 DEF VerdictFun

\* In whatever order the filters are met: what the loop knows in the end.
LEMMA VerdictsAre ==
  ASSUME NEW attr, NEW lm, NEW isIf \in BOOLEAN, IsFiniteSet(lm.match),
         \A f \in lm.match : f.keys \in Seq(STRING) /\ Len(f.keys) = 1 /\ f.negate \in BOOLEAN /\ f.force \in BOOLEAN,
         \A f, g \in lm.match : ~(f.negate /\ g.force)
  PROVE  \A s \in Verdicts(attr, lm, isIf) : VerdictAfter(lm.match, attr, isIf, s)
<1> DEFINE M == lm.match
           st == CHOOSE h : VerdictFun(h, M, attr, isIf)
<1>1. Verdicts(attr, lm, isIf) = st[M]
  BY Zenon DEF Verdicts, VerdictStep, VerdictFun
<1>2. \E h : VerdictFun(h, M, attr, isIf)
  BY VerdictsExist
<1>3. VerdictFun(st, M, attr, isIf)
  BY <1>2, Zenon
<1> HIDE DEF st
<1>4. ASSUME NEW fs \in SUBSET M PROVE st[fs] = VerdictStep(st, fs, attr, isIf)
  BY <1>3, Zenon DEF VerdictFun
<1> DEFINE Right(n) == \A fs \in SUBSET M : Cardinality(fs) <= n => \A s \in st[fs] : VerdictAfter(fs, attr, isIf, s)
<1>5. Right(0)
  <2> SUFFICES ASSUME NEW fs \in SUBSET M, Cardinality(fs) <= 0, NEW s \in st[fs] PROVE VerdictAfter(fs, attr, isIf, s)
    OBVIOUS
  <2>1. fs = {}
    BY Smaller
  <2>2. s = NoVerdict
    BY <1>4, <2>1 DEF VerdictStep
  <2> QED BY <2>1, <2>2, NoVerdictIs
<1>6. ASSUME NEW n \in Nat, Right(n) PROVE Right(n + 1)
  <2> SUFFICES ASSUME NEW fs \in SUBSET M, Cardinality(fs) <= n + 1, NEW s \in st[fs] PROVE VerdictAfter(fs, attr, isIf, s)
    OBVIOUS
  <2>1. CASE fs = {}
    <3>1. s = NoVerdict
      BY <1>4, <2>1 DEF VerdictStep
    <3> QED BY <2>1, <3>1, NoVerdictIs
  <2>2. CASE fs # {}
    <3>1. s \in UNION {{Filtered(attr, isIf, x, f) : x \in st[fs \ {f}]} : f \in fs}
      BY <1>4, <2>2, Zenon DEF VerdictStep
    <3>2. PICK f \in fs : s \in {Filtered(attr, isIf, x, f) : x \in st[fs \ {f}]}
      BY <3>1, Zenon
    <3>3. PICK x \in st[fs \ {f}] : s = Filtered(attr, isIf, x, f)
      BY <3>2, Zenon
    <3>4. fs \ {f} \in SUBSET M /\ Cardinality(fs \ {f}) <= n
      <4>1. Cardinality(fs \ {f}) = Cardinality(fs) - 1 /\ Cardinality(fs) \in Nat
        BY Smaller
      <4> QED BY <4>1
    <3>5. VerdictAfter(fs \ {f}, attr, isIf, x)
      BY <1>6, <3>3, <3>4
    <3>6. f.keys \in Seq(STRING) /\ Len(f.keys) = 1 /\ f.negate \in BOOLEAN /\ f.force \in BOOLEAN
      OBVIOUS
    <3>7. f.force => \A g \in fs \ {f} : ~g.negate
      OBVIOUS
    <3>8. VerdictAfter((fs \ {f}) \cup {f}, attr, isIf, s)
      BY <3>3, <3>5, <3>6, <3>7, FilteredAfter, Zenon
    <3>9. (fs \ {f}) \cup {f} = fs
      OBVIOUS
    <3> QED BY <3>8, <3>9, Zenon
  <2> QED BY <2>1, <2>2
<1>7. \A n \in Nat : Right(n)
  <2> DEFINE S == {n \in Nat : Right(n)}
  <2> HIDE DEF Right
  <2>1. S \in SUBSET Nat /\ 0 \in S /\ \A n \in S : n + 1 \in S
    BY <1>5, <1>6
  <2>2. S = Nat
    BY <2>1, Induct, Zenon
  <2> QED BY <2>2
<1>8. Cardinality(M) \in Nat /\ Cardinality(M) <= Cardinality(M) /\ M \in SUBSET M
  BY FS_CardinalityType
<1> QED BY <1>1, <1>7, <1>8

\* What the filters should say, with the names of above.
Rightly(M, attr, isIf) ==
  \/ AdminOff(M, attr, isIf)
  \/ IF \E f \in M : f.negate
     THEN Judged(M, attr, isIf) = {} \/ \E f \in Judged(M, attr, isIf) : Meets(attr, f)
     ELSE \/ ForcedOut(M, attr, isIf)
          \/ Judged(M, attr, isIf) # {} /\ \A f \in Judged(M, attr, isIf) : ~Meets(attr, f)

LEMMA ExpectedIs == ASSUME NEW out PROVE Expected(out) <=> Rightly(out.lm.match, out.attr, out.kind = "int")
BY Zenon DEF Expected, Rightly, AdminOff, ForcedOut, Judged, Bare, Meets, HasName

\* Every verdict that some order of the filters gives is the expected one.
LEMMA VerdictRight ==
  ASSUME NEW M, NEW attr, NEW isIf, NEW s, VerdictAfter(M, attr, isIf, s), \A f, g \in M : ~(f.negate /\ g.force)
  PROVE  (s.admin \/ (IF s.seen > 0 THEN s.keep = s.negate ELSE s.negate)) <=> Rightly(M, attr, isIf)
<1>1. PICK admin \in BOOLEAN, keep \in BOOLEAN, seen \in Nat, negate \in BOOLEAN, br \in BOOLEAN :
         /\ s = VerdictOf(admin, keep, seen, negate, br)
         /\ br => \/ admin /\ AdminOff(M, attr, isIf)
                  \/ ForcedOut(M, attr, isIf) /\ seen > 0 /\ ~keep /\ ~negate
         /\ ~br => /\ ~admin /\ ~AdminOff(M, attr, isIf) /\ ~ForcedOut(M, attr, isIf)
                   /\ seen > 0 <=> Judged(M, attr, isIf) # {}
                   /\ keep <=> \E f \in Judged(M, attr, isIf) : Meets(attr, f)
                   /\ negate <=> \E f \in M : f.negate
  BY DEF VerdictAfter
<1>2. s.admin = admin /\ s.keep = keep /\ s.seen = seen /\ s.negate = negate
  <2>1. s = VerdictOf(admin, keep, seen, negate, br)
    BY <1>1
  <2> QED BY ONLY <2>1 DEF VerdictOf
<1>3. ForcedOut(M, attr, isIf) => ~\E f \in M : f.negate
  BY DEF ForcedOut, Bare
<1>4. (admin \/ (IF seen > 0 THEN keep = negate ELSE negate)) <=> Rightly(M, attr, isIf)
  <2>1. CASE br /\ admin /\ AdminOff(M, attr, isIf)
    BY <2>1, Zenon DEF Rightly
  <2>2. CASE ForcedOut(M, attr, isIf) /\ seen > 0 /\ ~keep /\ ~negate
    <3>1. Rightly(M, attr, isIf)
      BY <1>3, <2>2, Zenon DEF Rightly
    <3>2. keep = negate
      BY <2>2
    <3> QED BY <2>2, <3>1, <3>2, Zenon
  <2>3. CASE ~br
    <3>1. /\ ~admin /\ ~AdminOff(M, attr, isIf) /\ ~ForcedOut(M, attr, isIf)
          /\ seen > 0 <=> Judged(M, attr, isIf) # {}
          /\ keep <=> \E f \in Judged(M, attr, isIf) : Meets(attr, f)
          /\ negate <=> \E f \in M : f.negate
      BY <1>1, <2>3
    <3>2. CASE negate
      <4>1. (keep = negate) <=> keep
        BY <3>2
      <4>2. Rightly(M, attr, isIf) <=> (Judged(M, attr, isIf) = {} \/ keep)
        BY <3>1, <3>2, Zenon DEF Rightly
      <4> QED BY <3>1, <3>2, <4>1, <4>2, Zenon
    <3>3. CASE ~negate
      <4>1. (keep = negate) <=> ~keep
        BY <3>3
      <4>2. Rightly(M, attr, isIf) <=> (Judged(M, attr, isIf) # {} /\ ~keep)
        BY <3>1, <3>3, Zenon DEF Rightly
      <4> QED BY <3>1, <3>3, <4>1, <4>2, Zenon
    <3> QED BY <3>2, <3>3
  <2> QED BY <1>1, <2>1, <2>2, <2>3
<1> QED BY <1>2, <1>4, Zenon

\* If no name has alternatives, and negation is not mixed with forced names, there is one
\* verdict, and it is the right one.
LEMMA DropRight ==
  ASSUME NEW attr, NEW lm \in MetadataSet, lm # NoMetadata, NEW isIf \in BOOLEAN, NEW drop \in DropOnFilter(attr, lm, isIf),
         \A f \in lm.match : Len(f.keys) <= 1, \A f, g \in lm.match : ~(f.negate /\ g.force)
  PROVE  drop \in BOOLEAN /\ (drop <=> Rightly(lm.match, attr, isIf))
<1> DEFINE of(st) == st.admin \/ (IF st.seen > 0 THEN st.keep = st.negate ELSE st.negate)
<1>1. drop \in {of(st) : st \in Verdicts(attr, lm, isIf)}
  BY Zenon DEF DropOnFilter
<1>2. PICK st \in Verdicts(attr, lm, isIf) : drop = of(st)
  BY <1>1, Zenon
<1>3. /\ IsFiniteSet(lm.match)
      /\ \A f \in lm.match : f.keys \in Seq(STRING) /\ Len(f.keys) = 1 /\ f.negate \in BOOLEAN /\ f.force \in BOOLEAN
  <2>1. IsFiniteSet(lm.match) /\ \A f \in lm.match :
          f.keys \in Seq(STRING) /\ Len(f.keys) >= 1 /\ f.negate \in BOOLEAN /\ f.force \in BOOLEAN
    BY InputsAssumption, Zenon
  <2>2. ASSUME NEW f \in lm.match PROVE Len(f.keys) = 1
    <3>1. Len(f.keys) \in Nat /\ Len(f.keys) >= 1 /\ Len(f.keys) <= 1
      BY <2>1
    <3> DEFINE l == Len(f.keys)
    <3> HIDE DEF l
    <3>2. l \in Nat /\ l >= 1 /\ l <= 1 => l = 1
      OBVIOUS
    <3> QED BY <3>1, <3>2 DEF l
  <2> QED BY <2>1, <2>2
<1>4. VerdictAfter(lm.match, attr, isIf, st)
  BY <1>3, VerdictsAre
<1>5. of(st) <=> Rightly(lm.match, attr, isIf)
  BY <1>4, VerdictRight, Zenon
<1> QED BY <1>2, <1>5, Zenon

------------------------------------------------------------------------------
\* The formats.

\* A thread that has metadata has what a poller made; the attributes it collected have
\* names that are ranked.
ThreadsOK ==
  /\ fmtIn = [t \in FormatThreads |-> fmtIn[t]] /\ fmtAttr = [t \in FormatThreads |-> fmtAttr[t]]
  /\ fmtSeen = [t \in FormatThreads |-> fmtSeen[t]] /\ fmtTodo = [t \in FormatThreads |-> fmtTodo[t]]
  /\ \A t \in FormatThreads : fmtPc[t] = "setmd" => fmtIn[t].md \in MetadataSet
  /\ \A t \in FormatThreads : fmtPc[t] = "metrics" =>
       /\ fmtIn[t].kind \in {"dev", "int"}
       /\ {Renamed(k) : k \in DOMAIN fmtAttr[t]} \subseteq DOMAIN KeyRank

OutRight == OneVerdict /\ AttrsBounded /\ OutcomeKept /\ DimsKept

FormatsIInv == FormatsTypeOK /\ OneMetadata /\ ThreadsOK /\ OutRight

\* Init and the steps of the formats.
LEMMA FormatsInitial == FormatsInit => FormatsIInv
<1> SUFFICES ASSUME FormatsInit PROVE FormatsIInv
  OBVIOUS
<1>1. FormatsTypeOK /\ OneMetadata /\ ThreadsOK
  BY FormatsAssumption DEF FormatsInit, FormatsTypeOK, OneMetadata, ThreadsOK, Holds
<1>2. fmtOut.kind = "none"
  BY DEF FormatsInit, NoOut
<1>3. OutRight
  BY <1>2 DEF OutRight, OneVerdict, AttrsBounded, OutcomeKept, DimsKept
<1> QED BY <1>1, <1>3 DEF FormatsIInv

\* Nothing new is said if the format and what it has sent stay.
LEMMA OutStays == ASSUME OutRight, UNCHANGED <<fmtOut, fmtKind>> PROVE OutRight'
<1>1. OneVerdict'
  BY Zenon DEF OutRight, OneVerdict, Expected
<1>2. AttrsBounded' /\ OutcomeKept' /\ DimsKept'
  BY DEF OutRight, AttrsBounded, OutcomeKept, DimsKept, Gentle
<1> QED BY <1>1, <1>2 DEF OutRight

\* Nor if nothing is sent.
LEMMA OutNone == ASSUME fmtOut' = NoOut PROVE OutRight'
BY DEF OutRight, OneVerdict, AttrsBounded, OutcomeKept, DimsKept, NoOut

LEMMA FormatsStutter == FormatsIInv /\ UNCHANGED formatVars => FormatsIInv'
<1> SUFFICES ASSUME FormatsIInv, UNCHANGED formatVars PROVE FormatsIInv'
  OBVIOUS
<1>1. UNCHANGED <<fmtKind, lastMetadata, fmtPc, fmtIn, fmtAttr, fmtSeen, fmtTodo, fmtOut, fmtEvents, fmtNum>>
  BY DEF formatVars
<1>2. OutRight'
  BY <1>1, OutStays DEF FormatsIInv
<1>3. FormatsTypeOK' /\ OneMetadata' /\ ThreadsOK'
  BY <1>1 DEF FormatsIInv, FormatsTypeOK, OneMetadata, ThreadsOK, Holds
<1> QED BY <1>2, <1>3 DEF FormatsIInv

\* A metric is sent as it should be.
LEMMA EmitRight ==
  ASSUME FormatsIInv, NEW t \in FormatThreads, fmtPc[t] = "metrics", NEW m, Emit(t, m), fmtKind' = fmtKind
  PROVE  OutRight'
<1> DEFINE in == fmtIn[t]
           ge == Gentle(in.kind)
           ss == StripsStrings(in.kind)
<1>1. PICK attr \in {IF fmtKind = "prom" THEN fmtAttr[t]
                     ELSE CopyAttrForSnmp(fmtAttr[t], m, lastMetadata, ge, ss)} :
         \E drop \in IF fmtKind = "prom" THEN {FALSE} ELSE DropOnFilter(attr, lastMetadata, in.kind = "int") :
           fmtOut' = [kind |-> in.kind, attr |-> attr, drop |-> drop, lm |-> lastMetadata]
  BY Zenon DEF Emit
<1>d. PICK drop \in IF fmtKind = "prom" THEN {FALSE} ELSE DropOnFilter(attr, lastMetadata, in.kind = "int") :
         fmtOut' = [kind |-> in.kind, attr |-> attr, drop |-> drop, lm |-> lastMetadata]
  BY <1>1
<1>2. in.kind \in {"dev", "int"} /\ {Renamed(k) : k \in DOMAIN fmtAttr[t]} \subseteq DOMAIN KeyRank
  BY DEF FormatsIInv, ThreadsOK
<1>3. lastMetadata \in MetadataSet \cup {NoMetadata}
  BY DEF FormatsIInv, FormatsTypeOK
<1>4. fmtOut'.kind = in.kind /\ fmtOut'.attr = attr /\ fmtOut'.drop = drop /\ fmtOut'.lm = lastMetadata
  BY <1>d
<1>5. OutcomeKept' /\ DimsKept'
  BY <1>2, <1>4 DEF OutcomeKept, DimsKept
<1>6. AttrsBounded'
  <2> SUFFICES ASSUME fmtKind # "prom", Gentle(in.kind)
               PROVE  /\ Cardinality(DOMAIN attr) <= MaxAttrs
                      /\ {"objectIdentifier", "instrumentation.name"} \subseteq DOMAIN attr
                      /\ DOMAIN attr \cap RemoveForSnmp = {}
    BY <1>4 DEF AttrsBounded, Gentle
  <2>1. ge = TRUE
    BY DEF Gentle
  <2>2. attr = CopyAttrForSnmp(fmtAttr[t], m, lastMetadata, ge, ss)
    BY <1>1
  <2> HIDE DEF ge, ss
  <2> QED BY <1>2, <2>1, <2>2, CopyAttrLaw, ZenonT(30)
<1>7. OneVerdict'
  <2> SUFFICES ASSUME fmtKind # "prom", lastMetadata # NoMetadata,
                      ~\E f \in lastMetadata.match : Len(f.keys) > 1,
                      ~\E f, g \in lastMetadata.match : f.negate /\ g.force
               PROVE  fmtOut'.drop = Expected(fmtOut')
    BY <1>4, Zenon DEF OneVerdict, Expected
  <2> DEFINE isIf == in.kind = "int"
             out == fmtOut'
  <2>1. isIf \in BOOLEAN /\ drop \in DropOnFilter(attr, lastMetadata, isIf) /\ lastMetadata \in MetadataSet
    BY <1>d, <1>3
  <2>2. ASSUME NEW f \in lastMetadata.match PROVE Len(f.keys) <= 1
    <3>1. Len(f.keys) \in Nat /\ ~(Len(f.keys) > 1)
      BY <2>1, InputsAssumption
    <3> QED BY ONLY <3>1
  <2> HIDE DEF isIf
  <2>3. drop \in BOOLEAN /\ (drop <=> Rightly(lastMetadata.match, attr, isIf))
    BY <2>1, <2>2, DropRight, Zenon
  <2>4. Expected(out) <=> Rightly(out.lm.match, out.attr, out.kind = "int")
    BY ExpectedIs, Zenon
  <2>5. Expected(out) <=> Rightly(lastMetadata.match, attr, isIf)
    BY <1>4, <2>4, Zenon DEF isIf
  <2>6. Expected(out) \in BOOLEAN
    BY Zenon DEF Expected
  <2> QED BY <1>4, <2>3, <2>5, <2>6, Zenon
<1> QED BY <1>5, <1>6, <1>7 DEF OutRight

LEMMA ToMetadataKeeps ==
  ASSUME FormatsIInv, NEW t \in FormatThreads, NEW in \in Inputs, ToMetadata(t, in) PROVE FormatsIInv'
<1>1. /\ fmtPc[t] = "idle" /\ in.kind = "metadata" /\ fmtNum < MaxInputs /\ fmtNum' = fmtNum + 1
      /\ fmtPc' = [fmtPc EXCEPT ![t] = "setmd"] /\ fmtIn' = [fmtIn EXCEPT ![t] = in] /\ fmtOut' = NoOut
      /\ UNCHANGED <<fmtKind, lastMetadata, fmtAttr, fmtSeen, fmtTodo, fmtEvents>>
  BY DEF ToMetadata
<1>2. in.md \in MetadataSet
  BY <1>1, InputsAssumption
<1>3. OutRight'
  BY <1>1, OutNone
<1>4. FormatsTypeOK'
  BY <1>1, FormatsAssumption DEF FormatsIInv, FormatsTypeOK
<1>5. OneMetadata'
  BY <1>1 DEF FormatsIInv, FormatsTypeOK, OneMetadata, Holds, ThreadsOK
<1>6. ThreadsOK'
  BY <1>1, <1>2 DEF FormatsIInv, FormatsTypeOK, ThreadsOK
<1> QED BY <1>3, <1>4, <1>5, <1>6 DEF FormatsIInv

LEMMA StoreMetadataKeeps == ASSUME FormatsIInv, NEW t \in FormatThreads, StoreMetadata(t) PROVE FormatsIInv'
<1>1. /\ fmtPc[t] = "setmd" /\ NoReader /\ lastMetadata' \in {fmtIn[t].md, lastMetadata}
      /\ fmtPc' = [fmtPc EXCEPT ![t] = "idle"] /\ fmtIn' = [fmtIn EXCEPT ![t] = NoOut]
      /\ UNCHANGED <<fmtKind, fmtAttr, fmtSeen, fmtTodo, fmtOut, fmtEvents, fmtNum>>
  BY DEF StoreMetadata
<1>2. OutRight'
  BY <1>1, OutStays DEF FormatsIInv
<1>3. FormatsTypeOK'
  BY <1>1 DEF FormatsIInv, FormatsTypeOK, ThreadsOK
<1>4. OneMetadata'
  BY <1>1 DEF FormatsIInv, FormatsTypeOK, OneMetadata, Holds, ThreadsOK, NoReader
<1>5. ThreadsOK'
  BY <1>1 DEF FormatsIInv, FormatsTypeOK, ThreadsOK
<1> QED BY <1>2, <1>3, <1>4, <1>5 DEF FormatsIInv

LEMMA ToSnmpKeeps ==
  ASSUME FormatsIInv, NEW t \in FormatThreads, NEW in \in Inputs, ToSnmp(t, in) PROVE FormatsIInv'
<1> DEFINE attr == SetAttr(in, lastMetadata, StripsStrings(in.kind))
           todo == Metrics(in)
<1>1. /\ fmtPc[t] = "idle" /\ in.kind \in {"dev", "int"} /\ fmtNum < MaxInputs /\ fmtNum' = fmtNum + 1
      /\ fmtPc' = [fmtPc EXCEPT ![t] = "metrics"] /\ fmtIn' = [fmtIn EXCEPT ![t] = in]
      /\ fmtAttr' = [fmtAttr EXCEPT ![t] = attr]
      /\ fmtSeen' = [fmtSeen EXCEPT ![t] = lastMetadata]
      /\ fmtTodo' = [fmtTodo EXCEPT ![t] = todo]
      /\ fmtOut' = NoOut
      /\ UNCHANGED <<fmtKind, lastMetadata, fmtEvents>>
  BY DEF ToSnmp
<1>2. {Renamed(k) : k \in DOMAIN attr} \subseteq DOMAIN KeyRank
  <2> DEFINE strip == StripsStrings(in.kind)
  <2>1. strip \in BOOLEAN /\ lastMetadata \in MetadataSet \cup {NoMetadata}
    BY DEF StripsStrings, FormatsIInv, FormatsTypeOK
  <2> HIDE DEF strip
  <2>2. {Renamed(k) : k \in DOMAIN SetAttr(in, lastMetadata, strip)} \subseteq DOMAIN KeyRank
    BY <1>1, <2>1, NamesAssumption
  <2> QED BY <2>2 DEF strip
<1> HIDE DEF attr, todo
<1>3. OutRight'
  BY <1>1, OutNone
<1>4. FormatsTypeOK'
  BY <1>1, FormatsAssumption DEF FormatsIInv, FormatsTypeOK, ThreadsOK
<1>5. OneMetadata'
  BY <1>1 DEF FormatsIInv, FormatsTypeOK, OneMetadata, Holds, ThreadsOK
<1>6. ThreadsOK'
  BY <1>1, <1>2 DEF FormatsIInv, FormatsTypeOK, ThreadsOK
<1> QED BY <1>3, <1>4, <1>5, <1>6 DEF FormatsIInv

LEMMA EmitMetricKeeps == ASSUME FormatsIInv, NEW t \in FormatThreads, EmitMetric(t) PROVE FormatsIInv'
<1>1. PICK m \in fmtTodo[t] : Emit(t, m) /\ fmtTodo' = [fmtTodo EXCEPT ![t] = @ \ {m}]
  BY DEF EmitMetric
<1>2. fmtPc[t] = "metrics" /\ UNCHANGED <<fmtKind, lastMetadata, fmtPc, fmtIn, fmtAttr, fmtSeen, fmtEvents, fmtNum>>
  BY DEF EmitMetric
<1>3. OutRight'
  BY <1>1, <1>2, EmitRight
<1>4. FormatsTypeOK'
  BY <1>1, <1>2 DEF FormatsIInv, FormatsTypeOK, ThreadsOK
<1>5. OneMetadata'
  BY <1>2 DEF FormatsIInv, OneMetadata, Holds
<1>6. ThreadsOK'
  BY <1>1, <1>2 DEF FormatsIInv, ThreadsOK
<1> QED BY <1>3, <1>4, <1>5, <1>6 DEF FormatsIInv

LEMMA EmitRatesKeeps == ASSUME FormatsIInv, NEW t \in FormatThreads, EmitRates(t) PROVE FormatsIInv'
<1>1. /\ fmtPc[t] = "metrics" /\ fmtTodo[t] = {}
      /\ IF HasRate(fmtIn[t]) THEN Emit(t, RateMetric) ELSE UNCHANGED fmtOut
      /\ fmtPc' = [fmtPc EXCEPT ![t] = "idle"] /\ fmtAttr' = [fmtAttr EXCEPT ![t] = NoAttrs]
      /\ fmtIn' = [fmtIn EXCEPT ![t] = NoOut] /\ fmtSeen' = [fmtSeen EXCEPT ![t] = NoMetadata]
      /\ UNCHANGED <<fmtKind, lastMetadata, fmtTodo, fmtEvents, fmtNum>>
  BY Zenon DEF EmitRates
<1>2. Emit(t, RateMetric) \/ UNCHANGED fmtOut
  BY <1>1, Zenon
<1>3. OutRight'
  <2>1. CASE Emit(t, RateMetric)
    BY <1>1, <2>1, EmitRight
  <2>2. CASE UNCHANGED fmtOut
    BY <1>1, <2>2, OutStays DEF FormatsIInv
  <2> QED BY <1>2, <2>1, <2>2
<1>4. FormatsTypeOK'
  BY <1>1 DEF FormatsIInv, FormatsTypeOK, ThreadsOK
<1>5. OneMetadata'
  BY <1>1 DEF FormatsIInv, FormatsTypeOK, OneMetadata, Holds, ThreadsOK
<1>6. ThreadsOK'
  BY <1>1 DEF FormatsIInv, FormatsTypeOK, ThreadsOK
<1> QED BY <1>3, <1>4, <1>5, <1>6 DEF FormatsIInv

LEMMA ToOtherKeeps ==
  ASSUME FormatsIInv, NEW t \in FormatThreads, NEW in \in Inputs, ToOther(t, in) PROVE FormatsIInv'
<1> DEFINE out == CASE in.kind = "synth" -> SynthOut(in) [] in.kind = "flow" -> FlowOut(in)
                    [] in.kind = "ktrans" -> KtransOut(in) [] in.kind = "syngest" -> SyngestOut(in)
                    [] OTHER -> {}
<1>1. /\ fmtPc[t] = "idle" /\ in.kind \in ElasticKinds /\ fmtNum < MaxInputs /\ fmtNum' = fmtNum + 1
      /\ fmtEvents' = IF SendsEvent(in) THEN fmtEvents + 1 ELSE fmtEvents
      /\ fmtOut' = IF ~Known(in) THEN NoOut ELSE [kind |-> in.kind, in |-> in, out |-> out]
      /\ UNCHANGED <<fmtKind, lastMetadata, fmtPc, fmtIn, fmtAttr, fmtSeen, fmtTodo>>
  BY Zenon DEF ToOther
<1>2. in.kind = "synth" => out = SynthOut(in)
  BY Zenon
<1> HIDE DEF out
<1>3. OutRight'
  <2>1. CASE ~Known(in)
    BY <1>1, <2>1, OutNone
  <2>2. CASE Known(in)
    <3>1. fmtOut' = [kind |-> in.kind, in |-> in, out |-> out]
      BY <1>1, <2>2
    <3>2. fmtOut'.kind = in.kind /\ fmtOut'.in = in /\ fmtOut'.out = out /\ in.kind \notin {"dev", "int", "rollup"}
      BY <1>1, <3>1 DEF ElasticKinds
    <3>3. OutcomeKept'
      <4> SUFFICES ASSUME in.kind = "synth", fmtKind # "carbon"
                   PROVE  out.outcome # {} /\ (out.outcome = {0} <=> in.rt \notin {0, 1})
        BY <1>1, <3>2 DEF OutcomeKept
      <4>1. out.outcome = {GetSynthOutcome(in.rt)}
        BY <1>2 DEF SynthOut
      <4>2. GetSynthOutcome(in.rt) = 0 <=> in.rt \notin {0, 1}
        <5>1. in.rt = 0 => GetSynthOutcome(in.rt) = 2
          BY Zenon DEF GetSynthOutcome
        <5>2. in.rt = 1 => GetSynthOutcome(in.rt) = 1
          BY 0 # 1, Zenon DEF GetSynthOutcome
        <5>3. in.rt \notin {0, 1} => GetSynthOutcome(in.rt) = 0
          BY Zenon DEF GetSynthOutcome
        <5> QED BY <5>1, <5>2, <5>3
      <4> QED BY <4>1, <4>2
    <3> QED BY <3>2, <3>3 DEF OutRight, OneVerdict, AttrsBounded, DimsKept
  <2> QED BY <2>1, <2>2
<1>4. FormatsTypeOK'
  <2>1. fmtEvents' \in 0 .. EventRoomNr
    BY <1>1, FormatsAssumption DEF SendsEvent, FormatsIInv, FormatsTypeOK
  <2> QED BY <1>1, <2>1, FormatsAssumption DEF FormatsIInv, FormatsTypeOK
<1>5. OneMetadata' /\ ThreadsOK'
  BY <1>1 DEF FormatsIInv, OneMetadata, Holds, ThreadsOK
<1> QED BY <1>3, <1>4, <1>5 DEF FormatsIInv

LEMMA ToRollupKeeps ==
  ASSUME FormatsIInv, NEW t \in FormatThreads, NEW in \in Inputs, ToRollup(t, in) PROVE FormatsIInv'
<1> DEFINE out == CASE fmtKind = "nrm" -> NrmRollup(in) [] fmtKind = "otel" -> OtelRollup(in)
                    [] fmtKind = "influx" -> InfluxRollup(in) [] fmtKind = "prom" -> PromRollup(in)
                    [] fmtKind = "elastic" -> ElasticRollup(in) [] OTHER -> {}
           names == IF fmtKind = "nrm" THEN NrmNames ELSE IF fmtKind = "otel" THEN OtelNames ELSE NoAttrs
           to(i) == RollupName(names, in.dims[i])
<1>1. /\ fmtPc[t] = "idle" /\ in.kind = "rollup" /\ fmtNum < MaxInputs /\ fmtNum' = fmtNum + 1
      /\ fmtOut' = [kind |-> "rollup", in |-> in, out |-> out]
      /\ UNCHANGED <<fmtKind, lastMetadata, fmtPc, fmtIn, fmtAttr, fmtSeen, fmtTodo, fmtEvents>>
  BY Zenon DEF ToRollup
<1>2. in.dims \in Seq(STRING) /\ \A i \in DOMAIN in.dims : in.dims[i] # "vpc_identification"
  BY <1>1, InputsAssumption
<1>3. \/ fmtKind = "nrm" /\ out = NrmRollup(in)
      \/ fmtKind = "otel" /\ out = OtelRollup(in)
      \/ names = NoAttrs /\ out \subseteq {PlainAttrs(in)}
  <2>1. fmtKind = "nrm" => out = NrmRollup(in)
    BY Zenon
  <2>2. fmtKind = "otel" => out = OtelRollup(in)
    BY Zenon
  <2>3. fmtKind = "influx" => out = InfluxRollup(in)
    BY Zenon
  <2>4. fmtKind = "prom" => out = PromRollup(in)
    BY Zenon
  <2>5. fmtKind = "elastic" => out = ElasticRollup(in)
    BY Zenon
  <2>6. fmtKind \notin {"nrm", "otel", "influx", "prom", "elastic"} => out = {}
    BY Zenon
  <2> HIDE DEF out
  <2>7. fmtKind \notin {"nrm", "otel"} => out \subseteq {PlainAttrs(in)}
    BY <2>3, <2>4, <2>5, <2>6 DEF InfluxRollup, PromRollup, ElasticRollup
  <2> QED BY <2>1, <2>2, <2>7
<1> HIDE DEF out
<1>4. ASSUME NEW attr \in out, NEW i \in DOMAIN in.dims, \A j \in DOMAIN in.dims : to(j) = to(i) => j = i,
             in.pts[i] \notin BlankPts
      PROVE  to(i) \in DOMAIN attr /\ attr[to(i)] \in {in.pts[i], "32768"}
  <2>1. CASE fmtKind = "nrm" /\ out = NrmRollup(in)
    <3> DEFINE a == RollupAttrs(in, NrmNames, BlankPts, TRUE)
    <3>0. names = NrmNames
      BY <2>1
    <3>1. attr = a \/ attr = Set(a, "vpc_identification", "both")
      BY <2>1, Zenon DEF NrmRollup
    <3>2. \A j \in DOMAIN in.dims : RollupName(NrmNames, in.dims[j]) = RollupName(NrmNames, in.dims[i]) => j = i
      BY <1>4, <3>0
    <3>3. RollupName(NrmNames, in.dims[i]) \in DOMAIN a /\ a[RollupName(NrmNames, in.dims[i])] \in {in.pts[i], "32768"}
      BY <1>2, <1>4, <3>2, RollupKeepsDim, Zenon
    <3>4. RollupName(NrmNames, in.dims[i]) # "vpc_identification"
      BY <1>2, InputsAssumption DEF RollupName
    <3> HIDE DEF a
    <3>5. RollupName(NrmNames, in.dims[i]) \in DOMAIN attr
          /\ attr[RollupName(NrmNames, in.dims[i])] \in {in.pts[i], "32768"}
      BY <3>1, <3>3, <3>4 DEF Set, Only, ++
    <3> QED BY <3>0, <3>5
  <2>2. CASE fmtKind = "otel" /\ out = OtelRollup(in)
    <3>0. names = OtelNames
      BY <2>2
    <3>1. attr = RollupAttrs(in, OtelNames, {}, TRUE)
      BY <2>2, Zenon DEF OtelRollup
    <3>2. \A j \in DOMAIN in.dims : RollupName(OtelNames, in.dims[j]) = RollupName(OtelNames, in.dims[i]) => j = i
      BY <1>4, <3>0
    <3>3. in.pts[i] \notin {}
      OBVIOUS
    <3>4. RollupName(OtelNames, in.dims[i]) \in DOMAIN attr
          /\ attr[RollupName(OtelNames, in.dims[i])] \in {in.pts[i], "32768"}
      BY <1>2, <3>1, <3>2, <3>3, RollupKeepsDim, Zenon
    <3> QED BY <3>0, <3>4
  <2>3. CASE names = NoAttrs /\ out \subseteq {PlainAttrs(in)}
    <3>1. attr = RollupAttrs(in, NoAttrs, {}, FALSE)
      BY <2>3 DEF PlainAttrs
    <3>2. \A j \in DOMAIN in.dims : RollupName(NoAttrs, in.dims[j]) = RollupName(NoAttrs, in.dims[i]) => j = i
      BY <1>4, <2>3
    <3>3. in.pts[i] \notin {}
      OBVIOUS
    <3>4. RollupName(NoAttrs, in.dims[i]) \in DOMAIN attr
          /\ attr[RollupName(NoAttrs, in.dims[i])] \in {in.pts[i], "32768"}
      BY <1>2, <3>1, <3>2, <3>3, RollupKeepsDim, Zenon
    <3> QED BY <2>3, <3>4
  <2> QED BY <1>3, <2>1, <2>2, <2>3
<1>5. fmtOut'.kind = "rollup" /\ fmtOut'.in = in /\ fmtOut'.out = out
  BY <1>1
<1>6. DimsKept'
  BY <1>1, <1>4, <1>5 DEF DimsKept, RollupName
<1>7. OutRight'
  BY <1>5, <1>6 DEF OutRight, OneVerdict, AttrsBounded, OutcomeKept
<1>8. FormatsTypeOK'
  BY <1>1, FormatsAssumption DEF FormatsIInv, FormatsTypeOK
<1>9. OneMetadata' /\ ThreadsOK'
  BY <1>1 DEF FormatsIInv, OneMetadata, Holds, ThreadsOK
<1> QED BY <1>7, <1>8, <1>9 DEF FormatsIInv

LEMMA TakeEventKeeps == ASSUME FormatsIInv, TakeEvent PROVE FormatsIInv'
<1>1. /\ fmtEvents > 0 /\ fmtEvents' = fmtEvents - 1
      /\ UNCHANGED <<fmtKind, lastMetadata, fmtPc, fmtIn, fmtAttr, fmtSeen, fmtTodo, fmtOut, fmtNum>>
  BY DEF TakeEvent
<1>2. OutRight'
  BY <1>1, OutStays DEF FormatsIInv
<1>3. FormatsTypeOK'
  BY <1>1, FormatsAssumption DEF FormatsIInv, FormatsTypeOK
<1>4. OneMetadata' /\ ThreadsOK'
  BY <1>1 DEF FormatsIInv, OneMetadata, Holds, ThreadsOK
<1> QED BY <1>2, <1>3, <1>4 DEF FormatsIInv

LEMMA FormatsKeeps == FormatsIInv /\ [FormatsNext]_formatVars => FormatsIInv'
<1> SUFFICES ASSUME FormatsIInv, [FormatsNext]_formatVars PROVE FormatsIInv'
  OBVIOUS
<1>1. CASE UNCHANGED formatVars
  BY <1>1, FormatsStutter
<1>2. CASE FormatsNext
  <2>1. ASSUME NEW t \in FormatThreads, StoreMetadata(t) \/ EmitMetric(t) \/ EmitRates(t) PROVE FormatsIInv'
    BY <2>1, StoreMetadataKeeps, EmitMetricKeeps, EmitRatesKeeps
  <2>2. ASSUME NEW t \in FormatThreads, NEW in \in Inputs,
               ToMetadata(t, in) \/ ToSnmp(t, in) \/ ToOther(t, in) \/ ToRollup(t, in)
        PROVE  FormatsIInv'
    BY <2>2, ToMetadataKeeps, ToSnmpKeeps, ToOtherKeeps, ToRollupKeeps
  <2> QED BY <1>2, <2>1, <2>2, TakeEventKeeps, Zenon DEF FormatsNext, FormatStep
<1> QED BY <1>1, <1>2

\* For any records, metadata, filters and number of threads, and for every order in
\* which Go visits the map of filters: the verdict on a metric is that of the filters
\* taken together, the attributes stay within the limit and keep what identifies the
\* metric, the outcome of a test and the dimensions of a rollup are exported
\* (DropOnFilter, CopyAttrForSnmp, GetSynthOutcome and the formats).
THEOREM FormatsInvariant == RecordsSpec => [](part = "metrics" => MetricFormatsInv)
<1>1. RecordsInit => FormatsIInv
  BY FormatsInitial DEF RecordsInit
<1>2. FormatsIInv /\ [RecordsNext]_recordsVars => FormatsIInv'
  <2> SUFFICES ASSUME FormatsIInv, [RecordsNext]_recordsVars PROVE FormatsIInv'
    OBVIOUS
  <2>1. [FormatsNext]_formatVars
    BY DEF RecordsNext, OfRing, OfStitch, OfRecord, OfMetrics, recordsVars
  <2> QED BY <2>1, FormatsKeeps
<1>3. FormatsIInv => MetricFormatsInv
  BY DEF FormatsIInv, OutRight, MetricFormatsInv
<1> QED BY <1>1, <1>2, <1>3, PTL DEF RecordsSpec

\* What RecordInvariant and FormatsInvariant say, as the run checks it.
THEOREM RecordsInvariant == RecordsSpec => []RecordsInv
BY RecordInvariant, FormatsInvariant, PTL DEF RecordsInv

------------------------------------------------------------------------------
\* The rollups: sums that are handed on, and a cache that throws entries away.

\* Induction up to n.
LEMMA InductTo ==
  ASSUME NEW n \in Nat, NEW S, 0 \in S, \A i \in 0 .. n - 1 : i \in S => i + 1 \in S
  PROVE  \A i \in 0 .. n : i \in S
<1> DEFINE T == {i \in Nat : i <= n => i \in S}
<1>1. T \in SUBSET Nat /\ 0 \in T /\ \A i \in T : i + 1 \in T
  OBVIOUS
<1> HIDE DEF T
<1>2. T = Nat
  BY <1>1, Induct, Zenon
<1> QED BY <1>2 DEF T

\* The recursive functions of Queued, BatchSums and AddBatch.
QueuedDef(f, n, q, k) == f = [i \in 0 .. n |-> IF i = 0 THEN 0 ELSE f[i - 1] + q[i][k]]
SumsWith(s, r) == [s EXCEPT ![r.key] = @ + r.value]
SumsDef(f, n, b) == f = [i \in 0 .. n |-> IF i = 0 THEN Nothing ELSE SumsWith(f[i - 1], b[i])]
AfterDef(f, n, b, now) ==
  f = [i \in 0 .. n |-> IF i = 0 THEN [cache |-> cache, memory |-> memory] ELSE AddRecord(f[i - 1], b[i], now)]

LEMMA QueuedIs == ASSUME NEW q, NEW k PROVE Queued(q, k) = (CHOOSE f : QueuedDef(f, Len(q), q, k))[Len(q)]
BY Zenon DEF Queued, QueuedDef
LEMMA SumsAre == ASSUME NEW b PROVE BatchSums(b) = (CHOOSE f : SumsDef(f, Len(b), b))[Len(b)]
BY Zenon DEF BatchSums, SumsDef, SumsWith
LEMMA BatchIs == ASSUME NEW b, NEW now PROVE AddBatch(b, now) = (CHOOSE f : AfterDef(f, Len(b), b, now))[Len(b)]
BY Zenon DEF AddBatch, AfterDef

LEMMA QueuedExists == ASSUME NEW q, NEW k, NEW n \in Nat PROVE \E f : QueuedDef(f, n, q, k)
<1> DEFINE step(a, i) == a + q[i][k]
           Part(m) == \E f : f = [i \in 0 .. m |-> IF i = 0 THEN 0 ELSE step(f[i - 1], i)]
<1> HIDE DEF step
<1>1. Part(0)
  <2> DEFINE g == [i \in 0 .. 0 |-> 0]
  <2>1. g = [i \in 0 .. 0 |-> IF i = 0 THEN 0 ELSE step(g[i - 1], i)]
    OBVIOUS
  <2> QED BY <2>1
<1>2. ASSUME NEW m \in Nat, Part(m) PROVE Part(m + 1)
  <2>1. PICK f : f = [i \in 0 .. m |-> IF i = 0 THEN 0 ELSE step(f[i - 1], i)]
    BY <1>2
  <2> DEFINE g == [i \in 0 .. (m + 1) |-> IF i <= m THEN f[i] ELSE step(f[m], m + 1)]
  <2>2. ASSUME NEW i \in 0 .. (m + 1) PROVE g[i] = IF i = 0 THEN 0 ELSE step(g[i - 1], i)
    <3>1. CASE i = 0
      BY <2>1, <3>1
    <3>2. CASE i # 0 /\ i <= m
      BY <2>1, <3>2
    <3>3. CASE i = m + 1
      BY <2>1, <3>3
    <3> QED BY <3>1, <3>2, <3>3
  <2>3. g = [i \in 0 .. (m + 1) |-> IF i = 0 THEN 0 ELSE step(g[i - 1], i)]
    BY <2>2
  <2> QED BY <2>3
<1>3. Part(n)
  <2> DEFINE S == {m \in Nat : Part(m)}
  <2> HIDE DEF Part
  <2>1. S \in SUBSET Nat /\ 0 \in S /\ \A m \in S : m + 1 \in S
    BY <1>1, <1>2
  <2>2. S = Nat
    BY <2>1, Induct, Zenon
  <2> QED BY <2>2
<1> QED BY <1>3, Zenon DEF QueuedDef, step

LEMMA SumsExist == ASSUME NEW b, NEW n \in Nat PROVE \E f : SumsDef(f, n, b)
<1> DEFINE step(a, i) == SumsWith(a, b[i])
           Part(m) == \E f : f = [i \in 0 .. m |-> IF i = 0 THEN Nothing ELSE step(f[i - 1], i)]
<1> HIDE DEF step
<1>1. Part(0)
  <2> DEFINE g == [i \in 0 .. 0 |-> Nothing]
  <2>1. g = [i \in 0 .. 0 |-> IF i = 0 THEN Nothing ELSE step(g[i - 1], i)]
    OBVIOUS
  <2> QED BY <2>1
<1>2. ASSUME NEW m \in Nat, Part(m) PROVE Part(m + 1)
  <2>1. PICK f : f = [i \in 0 .. m |-> IF i = 0 THEN Nothing ELSE step(f[i - 1], i)]
    BY <1>2
  <2> DEFINE g == [i \in 0 .. (m + 1) |-> IF i <= m THEN f[i] ELSE step(f[m], m + 1)]
  <2>2. ASSUME NEW i \in 0 .. (m + 1) PROVE g[i] = IF i = 0 THEN Nothing ELSE step(g[i - 1], i)
    <3>1. CASE i = 0
      BY <2>1, <3>1
    <3>2. CASE i # 0 /\ i <= m
      BY <2>1, <3>2
    <3>3. CASE i = m + 1
      BY <2>1, <3>3
    <3> QED BY <3>1, <3>2, <3>3
  <2>3. g = [i \in 0 .. (m + 1) |-> IF i = 0 THEN Nothing ELSE step(g[i - 1], i)]
    BY <2>2
  <2> QED BY <2>3
<1>3. Part(n)
  <2> DEFINE S == {m \in Nat : Part(m)}
  <2> HIDE DEF Part
  <2>1. S \in SUBSET Nat /\ 0 \in S /\ \A m \in S : m + 1 \in S
    BY <1>1, <1>2
  <2>2. S = Nat
    BY <2>1, Induct, Zenon
  <2> QED BY <2>2
<1> QED BY <1>3, Zenon DEF SumsDef, step

LEMMA AfterExists == ASSUME NEW b, NEW now, NEW n \in Nat PROVE \E f : AfterDef(f, n, b, now)
<1> DEFINE first == [cache |-> cache, memory |-> memory]
           step(a, i) == AddRecord(a, b[i], now)
           Part(m) == \E f : f = [i \in 0 .. m |-> IF i = 0 THEN first ELSE step(f[i - 1], i)]
<1> HIDE DEF step, first
<1>1. Part(0)
  <2> DEFINE g == [i \in 0 .. 0 |-> first]
  <2>1. g = [i \in 0 .. 0 |-> IF i = 0 THEN first ELSE step(g[i - 1], i)]
    OBVIOUS
  <2> QED BY <2>1
<1>2. ASSUME NEW m \in Nat, Part(m) PROVE Part(m + 1)
  <2>1. PICK f : f = [i \in 0 .. m |-> IF i = 0 THEN first ELSE step(f[i - 1], i)]
    BY <1>2
  <2> DEFINE g == [i \in 0 .. (m + 1) |-> IF i <= m THEN f[i] ELSE step(f[m], m + 1)]
  <2>2. ASSUME NEW i \in 0 .. (m + 1) PROVE g[i] = IF i = 0 THEN first ELSE step(g[i - 1], i)
    <3>1. CASE i = 0
      BY <2>1, <3>1
    <3>2. CASE i # 0 /\ i <= m
      BY <2>1, <3>2
    <3>3. CASE i = m + 1
      BY <2>1, <3>3
    <3> QED BY <3>1, <3>2, <3>3
  <2>3. g = [i \in 0 .. (m + 1) |-> IF i = 0 THEN first ELSE step(g[i - 1], i)]
    BY <2>2
  <2> QED BY <2>3
<1>3. Part(n)
  <2> DEFINE S == {m \in Nat : Part(m)}
  <2> HIDE DEF Part
  <2>1. S \in SUBSET Nat /\ 0 \in S /\ \A m \in S : m + 1 \in S
    BY <1>1, <1>2
  <2>2. S = Nat
    BY <2>1, Induct, Zenon
  <2> QED BY <2>2
<1> QED BY <1>3, Zenon DEF AfterDef, step, first

\* addSum's sum set has a number for every key.
LEMMA SumsType == ASSUME NEW b \in Seq([key : AllKeys, value : RollupValues]) PROVE BatchSums(b) \in [AllKeys -> Nat]
<1> DEFINE n == Len(b)
<1>0. n \in Nat /\ \A i \in 1 .. n : b[i] \in [key : AllKeys, value : RollupValues]
  <2> DEFINE R == [key : AllKeys, value : RollupValues]
  <2>1. b \in Seq(R)
    OBVIOUS
  <2> HIDE DEF R
  <2>2. n \in Nat /\ \A i \in 1 .. n : b[i] \in R
    BY <2>1
  <2> QED BY <2>2 DEF R
<1> HIDE DEF n
<1> DEFINE at == CHOOSE f : SumsDef(f, n, b)
           S == {i \in 0 .. n : at[i] \in [AllKeys -> Nat]}
<1>1. SumsDef(at, n, b)
  BY <1>0, SumsExist, Zenon
<1> HIDE DEF at
<1>2. at[0] = Nothing /\ \A i \in 1 .. n : at[i] = SumsWith(at[i - 1], b[i])
  BY <1>0, <1>1 DEF SumsDef
<1>3. 0 \in S
  BY <1>0, <1>2 DEF Nothing
<1>4. ASSUME NEW i \in 0 .. n - 1, i \in S PROVE i + 1 \in S
  <2>1. i + 1 \in 1 .. n /\ (i + 1) - 1 = i /\ i + 1 \in 0 .. n
    BY <1>0
  <2>2. at[i + 1] = SumsWith(at[i], b[i + 1])
    BY <1>2, <2>1
  <2>3. b[i + 1] \in [key : AllKeys, value : RollupValues]
    BY <1>0, <2>1
  <2>4. b[i + 1].key \in AllKeys /\ b[i + 1].value \in Nat
    BY <2>3, RollupAssumption
  <2>5. at[i] \in [AllKeys -> Nat]
    BY <1>4
  <2>6. at[i + 1] \in [AllKeys -> Nat]
    <3> DEFINE f == at[i]
               k == b[i + 1].key
               v == b[i + 1].value
    <3>1. at[i + 1] = [f EXCEPT ![k] = f[k] + v]
      BY ONLY <2>2, Zenon DEF SumsWith
    <3>2. f \in [AllKeys -> Nat] /\ k \in AllKeys /\ v \in Nat
      BY ONLY <2>4, <2>5
    <3> HIDE DEF f, k, v
    <3>3. [f EXCEPT ![k] = f[k] + v] \in [AllKeys -> Nat]
      BY ONLY <3>2
    <3> QED BY ONLY <3>1, <3>3
  <2> QED BY <2>1, <2>6
<1>5. n \in S
  <2> HIDE DEF S
  <2>1. \A i \in 0 .. n : i \in S
    BY <1>0, <1>3, <1>4, InductTo
  <2> QED BY <2>1, <1>0
<1>6. BatchSums(b) = at[n]
  BY SumsAre, Zenon DEF at, n
<1> QED BY <1>5, <1>6

\* Two sums of the same numbers that begin at a distance c end at that distance.
InStep(f, g, n, c) ==
  /\ f[0] \in Int /\ g[0] = f[0] + c
  /\ \A i \in 1 .. n : \E w \in Int : f[i] = f[i - 1] + w /\ g[i] = g[i - 1] + w
LEMMA Ladder ==
  ASSUME NEW f, NEW g, NEW n \in Nat, NEW c \in Int, InStep(f, g, n, c)
  PROVE  f[n] \in Int /\ g[n] = f[n] + c
<1> USE DEF InStep
<1> DEFINE S == {i \in 0 .. n : f[i] \in Int /\ g[i] = f[i] + c}
<1>1. 0 \in S
  OBVIOUS
<1>2. ASSUME NEW i \in 0 .. n - 1, i \in S PROVE i + 1 \in S
  <2>1. i + 1 \in 1 .. n /\ (i + 1) - 1 = i /\ i + 1 \in 0 .. n
    OBVIOUS
  <2>2. PICK w \in Int : f[i + 1] = f[i] + w /\ g[i + 1] = g[i] + w
    BY <2>1
  <2> QED BY <1>2, <2>1, <2>2
<1>3. n \in S
  <2> HIDE DEF S
  <2>1. \A i \in 0 .. n : i \in S
    BY <1>1, <1>2, InductTo
  <2> QED BY <2>1
<1> QED BY <1>3

\* An empty queue holds nothing, and what enters at the end or leaves at the head of
\* kvs counts once.
LEMMA QueuedEmpty == ASSUME NEW k PROVE Queued(<<>>, k) = 0
<1>1. QueuedDef(CHOOSE f : QueuedDef(f, 0, <<>>, k), 0, <<>>, k)
  BY QueuedExists, Zenon
<1>2. Len(<<>>) = 0
  OBVIOUS
<1>3. Queued(<<>>, k) = (CHOOSE f : QueuedDef(f, 0, <<>>, k))[0]
  BY <1>2, QueuedIs
<1> DEFINE at == CHOOSE f : QueuedDef(f, 0, <<>>, k)
<1> HIDE DEF at
<1>4. QueuedDef(at, 0, <<>>, k) /\ Queued(<<>>, k) = at[0]
  BY <1>1, <1>3, Zenon DEF at
<1> QED BY <1>4 DEF QueuedDef

LEMMA QueuedHas ==
  ASSUME NEW q \in Seq([AllKeys -> Nat]), NEW k \in AllKeys
  PROVE  \E f : /\ f[0] = 0 /\ \A i \in 1 .. Len(q) : f[i] = f[i - 1] + q[i][k] /\ q[i][k] \in Nat
                /\ Queued(q, k) = f[Len(q)]
<1> DEFINE n == Len(q)
           at == CHOOSE f : QueuedDef(f, n, q, k)
<1>0. n \in Nat /\ DOMAIN q = 1 .. n
  OBVIOUS
<1>1. Queued(q, k) = at[n]
  BY QueuedIs, Zenon
<1>2. \A i \in 1 .. n : q[i][k] \in Nat
  OBVIOUS
<1> HIDE DEF n
<1>3. QueuedDef(at, n, q, k)
  BY <1>0, QueuedExists, Zenon
<1> HIDE DEF at
<1>4. at[0] = 0 /\ \A i \in 1 .. n : at[i] = at[i - 1] + q[i][k]
  BY <1>0, <1>3 DEF QueuedDef
<1> QED BY <1>1, <1>2, <1>4 DEF n

LEMMA QueuedAppend ==
  ASSUME NEW q \in Seq([AllKeys -> Nat]), NEW s \in [AllKeys -> Nat], NEW k \in AllKeys
  PROVE  Queued(q, k) \in Int /\ Queued(Append(q, s), k) = Queued(q, k) + s[k]
<1> DEFINE n == Len(q)
           p == Append(q, s)
<1>0. n \in Nat /\ p \in Seq([AllKeys -> Nat]) /\ Len(p) = n + 1 /\ p[n + 1] = s /\ \A i \in 1 .. n : p[i] = q[i]
  OBVIOUS
<1>1. PICK f : /\ f[0] = 0 /\ \A i \in 1 .. n : f[i] = f[i - 1] + q[i][k] /\ q[i][k] \in Nat
               /\ Queued(q, k) = f[n]
  BY QueuedHas
<1>2. PICK g : /\ g[0] = 0 /\ \A i \in 1 .. n + 1 : g[i] = g[i - 1] + p[i][k] /\ p[i][k] \in Nat
               /\ Queued(p, k) = g[n + 1]
  <2> HIDE DEF p
  <2>1. \E h : /\ h[0] = 0 /\ \A i \in 1 .. Len(p) : h[i] = h[i - 1] + p[i][k] /\ p[i][k] \in Nat
               /\ Queued(p, k) = h[Len(p)]
    BY <1>0, QueuedHas, Zenon
  <2> QED BY <1>0, <2>1
<1> HIDE DEF n, p
<1>3. \A i \in 1 .. n : \E w \in Int : f[i] = f[i - 1] + w /\ g[i] = g[i - 1] + w
  <2> SUFFICES ASSUME NEW i \in 1 .. n PROVE \E w \in Int : f[i] = f[i - 1] + w /\ g[i] = g[i - 1] + w
    OBVIOUS
  <2>1. i \in 1 .. n + 1
    BY <1>0
  <2>2. f[i] = f[i - 1] + q[i][k] /\ q[i][k] \in Int
    BY <1>1
  <2>3. g[i] = g[i - 1] + q[i][k]
    BY <1>0, <1>2, <2>1
  <2> QED BY <2>2, <2>3
<1>4. f[n] \in Int /\ g[n] = f[n] + 0
  <2>1. f[0] \in Int /\ g[0] = f[0] + 0 /\ 0 \in Int
    BY <1>1, <1>2
  <2>2. InStep(f, g, n, 0)
    BY <1>3, <2>1, Zenon DEF InStep
  <2> QED BY <1>0, <2>1, <2>2, Ladder, Zenon
<1>5. g[n + 1] = g[n] + s[k]
  BY <1>0, <1>2
<1> QED BY <1>1, <1>2, <1>4, <1>5 DEF p

LEMMA QueuedTail ==
  ASSUME NEW q \in Seq([AllKeys -> Nat]), q # <<>>, NEW k \in AllKeys
  PROVE  Queued(q, k) = Queued(Tail(q), k) + Head(q)[k]
<1> DEFINE n == Len(q) - 1
           p == Tail(q)
<1>0. n \in Nat /\ Len(q) = n + 1 /\ p \in Seq([AllKeys -> Nat]) /\ Len(p) = n /\ Head(q) = q[1]
      /\ \A i \in 1 .. n : p[i] = q[i + 1]
  OBVIOUS
<1>1. PICK f : /\ f[0] = 0 /\ \A i \in 1 .. n + 1 : f[i] = f[i - 1] + q[i][k] /\ q[i][k] \in Nat
               /\ Queued(q, k) = f[n + 1]
  <2>1. \E f : /\ f[0] = 0 /\ \A i \in 1 .. Len(q) : f[i] = f[i - 1] + q[i][k] /\ q[i][k] \in Nat
               /\ Queued(q, k) = f[Len(q)]
    BY QueuedHas
  <2> QED BY <1>0, <2>1
<1>2. PICK g : /\ g[0] = 0 /\ \A i \in 1 .. n : g[i] = g[i - 1] + p[i][k] /\ p[i][k] \in Nat
               /\ Queued(p, k) = g[n]
  <2> HIDE DEF p
  <2>1. \E h : /\ h[0] = 0 /\ \A i \in 1 .. Len(p) : h[i] = h[i - 1] + p[i][k] /\ p[i][k] \in Nat
               /\ Queued(p, k) = h[Len(p)]
    BY <1>0, QueuedHas, Zenon
  <2> QED BY <1>0, <2>1
<1> DEFINE h == [i \in 0 .. n |-> f[i + 1]]
           c == q[1][k]
<1>3. c \in Int /\ h[0] = g[0] + c /\ g[0] \in Int /\ h[n] = f[n + 1]
  <2>1. f[1] = f[1 - 1] + q[1][k] /\ q[1][k] \in Nat
    BY <1>0, <1>1
  <2> QED BY <1>0, <1>1, <1>2, <2>1
<1>4. \A i \in 1 .. n : \E w \in Int : g[i] = g[i - 1] + w /\ h[i] = h[i - 1] + w
  <2> SUFFICES ASSUME NEW i \in 1 .. n PROVE \E w \in Int : g[i] = g[i - 1] + w /\ h[i] = h[i - 1] + w
    OBVIOUS
  <2>1. i + 1 \in 1 .. n + 1 /\ (i + 1) - 1 = i /\ i - 1 \in 0 .. n /\ i \in 0 .. n /\ (i - 1) + 1 = i
    BY <1>0
  <2>2. h[i] = f[i + 1] /\ h[i - 1] = f[i]
    BY ONLY <2>1
  <2>3. g[i] = g[i - 1] + p[i][k] /\ p[i][k] \in Int
    BY <1>2
  <2>4. p[i] = q[i + 1]
    BY <1>0
  <2>5. f[i + 1] = f[i] + q[i + 1][k]
    BY <1>1, <2>1
  <2> HIDE DEF h, p
  <2> QED BY <2>2, <2>3, <2>4, <2>5
<1> HIDE DEF h, c, n, p
<1>5. g[n] \in Int /\ h[n] = g[n] + c
  <2>1. InStep(g, h, n, c)
    BY <1>3, <1>4, Zenon DEF InStep
  <2> QED BY <1>0, <1>3, <2>1, Ladder, Zenon
<1> QED BY <1>0, <1>1, <1>2, <1>3, <1>5 DEF c, p

------------------------------------------------------------------------------
\* The cache: its entries are entries, and the estimate of its memory is not above what
\* they take.
CacheOK(c, x, now) ==
  /\ method \in Methods /\ DOMAIN c \subseteq RollupKeys /\ IsFiniteSet(DOMAIN c) /\ IsFiniteSet(Held(c, DOMAIN c))
  /\ \A k \in DOMAIN c : /\ c[k].vals \subseteq RollupValues /\ (method = "cache" => c[k].vals = {})
                         /\ c[k].updated \in Nat /\ c[k].updated <= now
  /\ x \in Int /\ x <= SizeOf(c, DOMAIN c)
  /\ method = "cache" => x = Cardinality(DOMAIN c)

FewKeys(c) == EmergencyCleanup /\ MaxKeys > 0 => Cardinality(DOMAIN c) <= MaxKeys

\* c came from c0: what is still there was not made older, and what is gone was not
\* younger than anything that is there.
Since(c0, c) ==
  \A k \in DOMAIN c0 : IF k \in DOMAIN c THEN c0[k].updated <= c[k].updated
                       ELSE \A j \in DOMAIN c : c0[k].updated <= c[j].updated

\* In a cache without unique values the entries alone count.
LEMMA HeldNone ==
  ASSUME NEW c, NEW K, \A k \in K : c[k].vals = {} PROVE Held(c, K) = {}
BY DEF Held

\* Equal entries hold the same.
LEMMA HeldSame ==
  ASSUME NEW c, NEW d, NEW K, \A k \in K : c[k].vals = d[k].vals PROVE Held(c, K) = Held(d, K)
BY DEF Held

\* What the entries K take is what those in L and the others take.
LEMMA SizeSplit ==
  ASSUME NEW c, NEW K, NEW L \in SUBSET K, IsFiniteSet(K), IsFiniteSet(Held(c, K))
  PROVE  /\ IsFiniteSet(Held(c, L)) /\ IsFiniteSet(Held(c, K \ L)) /\ IsFiniteSet(K \ L)
         /\ SizeOf(c, L) \in Nat /\ SizeOf(c, K \ L) \in Nat
         /\ SizeOf(c, K) = SizeOf(c, L) + SizeOf(c, K \ L)
         /\ Cardinality(K \ L) = Cardinality(K) - Cardinality(L)
         /\ Cardinality(K) \in Nat /\ Cardinality(L) \in Nat
<1>1. IsFiniteSet(L) /\ IsFiniteSet(K \ L)
  BY FS_Subset
<1>2. Held(c, L) \cap Held(c, K \ L) = {} /\ Held(c, K) = Held(c, L) \cup Held(c, K \ L)
  BY DEF Held
<1>3. IsFiniteSet(Held(c, L)) /\ IsFiniteSet(Held(c, K \ L))
  BY <1>2, FS_Subset
<1>4. Cardinality(Held(c, K)) = Cardinality(Held(c, L)) + Cardinality(Held(c, K \ L)) - Cardinality({})
  BY <1>2, <1>3, FS_Union
<1>5. L \cap (K \ L) = {} /\ L \cup (K \ L) = K
  OBVIOUS
<1>6. Cardinality(K) = Cardinality(L) + Cardinality(K \ L) - Cardinality({})
  BY <1>1, <1>5, FS_Union
<1>7. /\ Cardinality({}) = 0 /\ Cardinality(L) \in Nat /\ Cardinality(K \ L) \in Nat
      /\ Cardinality(Held(c, L)) \in Nat /\ Cardinality(Held(c, K \ L)) \in Nat
  BY <1>1, <1>3, FS_EmptySet, FS_CardinalityType
<1> QED BY <1>1, <1>3, <1>4, <1>6, <1>7 DEF SizeOf

\* A new entry: one key and one unit of memory more.
LEMMA EnteredKeeps ==
  ASSUME NEW c, NEW x, NEW now \in Nat, CacheOK(c, x, now), NEW k \in RollupKeys, k \notin DOMAIN c
  PROVE  LET d == c ++ Only(k, [vals |-> {}, updated |-> now])
         IN  /\ CacheOK(d, x + 1, now)
             /\ DOMAIN d = DOMAIN c \cup {k} /\ Cardinality(DOMAIN d) = Cardinality(DOMAIN c) + 1
             /\ \A c0 : (\A j \in DOMAIN c0 : c0[j].updated <= now) /\ Since(c0, c) => Since(c0, d)
<1> DEFINE e == [vals |-> {}, updated |-> now]
           d == c ++ Only(k, e)
<1>1. DOMAIN d = DOMAIN c \cup {k} /\ d[k] = e /\ \A j \in DOMAIN c : d[j] = c[j]
  BY DEF ++, Only
<1>2. e.vals = {} /\ e.updated = now
  OBVIOUS
<1> HIDE DEF d, e
<1>3. Held(d, DOMAIN d) = Held(c, DOMAIN c)
  <2>1. Held(d, DOMAIN c \cup {k}) = Held(d, DOMAIN c) \cup Held(d, {k})
    BY DEF Held
  <2>2. Held(d, {k}) = {}
    BY <1>1, <1>2, HeldNone
  <2>3. Held(d, DOMAIN c) = Held(c, DOMAIN c)
    BY <1>1, HeldSame
  <2> QED BY <1>1, <2>1, <2>2, <2>3
<1>4. IsFiniteSet(DOMAIN c) /\ IsFiniteSet(Held(c, DOMAIN c))
  BY DEF CacheOK
<1>5. IsFiniteSet(DOMAIN d) /\ Cardinality(DOMAIN d) = Cardinality(DOMAIN c) + 1
  BY <1>1, <1>4, FS_AddElement
<1>6. Cardinality(DOMAIN c) \in Nat /\ Cardinality(Held(c, DOMAIN c)) \in Nat
  BY <1>4, FS_CardinalityType
<1>7. SizeOf(d, DOMAIN d) = SizeOf(c, DOMAIN c) + 1
  BY <1>3, <1>5, <1>6 DEF SizeOf
<1>8. /\ x \in Int /\ x <= SizeOf(c, DOMAIN c) /\ (method = "cache" => x = Cardinality(DOMAIN c))
      /\ SizeOf(c, DOMAIN c) \in Int
  BY <1>6 DEF CacheOK, SizeOf
<1>9. x + 1 \in Int /\ x + 1 <= SizeOf(d, DOMAIN d) /\ (method = "cache" => x + 1 = Cardinality(DOMAIN d))
  BY <1>5, <1>7, <1>8
<1>10. /\ DOMAIN d \subseteq RollupKeys
       /\ \A j \in DOMAIN d : /\ d[j].vals \subseteq RollupValues /\ (method = "cache" => d[j].vals = {})
                              /\ d[j].updated \in Nat /\ d[j].updated <= now
  BY <1>1, <1>2 DEF CacheOK
<1>11. CacheOK(d, x + 1, now)
  BY <1>3, <1>4, <1>5, <1>9, <1>10 DEF CacheOK
<1>12. ASSUME NEW c0, \A j \in DOMAIN c0 : c0[j].updated <= now, Since(c0, c) PROVE Since(c0, d)
  BY <1>1, <1>2, <1>12 DEF Since
<1> QED BY <1>1, <1>5, <1>11, <1>12 DEF d, e

\* What the cleanup removes is not younger than what it leaves.
LEMMA StaleOld ==
  ASSUME NEW c, \A k \in DOMAIN c : c[k].updated \in Nat
  PROVE  /\ Stale(c) \subseteq DOMAIN c
         /\ \A k \in Stale(c), j \in DOMAIN c \ Stale(c) : c[k].updated <= c[j].updated
<1> DEFINE UpTo(t) == {k \in DOMAIN c : c[k].updated <= t}
           place == IF Cardinality(DOMAIN c) \div 2 < 1 THEN 1 ELSE Cardinality(DOMAIN c) \div 2
           At == {j \in DOMAIN c : /\ Cardinality(UpTo(c[j].updated)) > place
                                   /\ Cardinality(UpTo(c[j].updated - 1)) <= place}
<1>1. Stale(c) = UNION {UpTo(c[j].updated) : j \in At}
  BY Zenon DEF Stale
<1> HIDE DEF place
<1>2. At \subseteq DOMAIN c
  OBVIOUS
<1> HIDE DEF At
<1>3. \A k : k \in Stale(c) <=> \E j \in At : k \in DOMAIN c /\ c[k].updated <= c[j].updated
  BY <1>1
<1> QED BY <1>2, <1>3

\* It removes something if there are two entries or more: of the times up to which there
\* are more than `place' entries the least is that of an entry.
LEMMA StaleRemoves ==
  ASSUME NEW c, NEW now \in Nat, IsFiniteSet(DOMAIN c), Cardinality(DOMAIN c) >= 2,
         \A k \in DOMAIN c : c[k].updated \in Nat /\ c[k].updated <= now
  PROVE  Stale(c) # {}
<1> DEFINE UpTo(t) == {k \in DOMAIN c : c[k].updated <= t}
           n == Cardinality(DOMAIN c)
           place == IF n \div 2 < 1 THEN 1 ELSE n \div 2
           T == {t \in Nat : Cardinality(UpTo(t)) > place}
<1>1. Stale(c) = UNION {UpTo(c[j].updated) : j \in
        {j \in DOMAIN c : /\ Cardinality(UpTo(c[j].updated)) > place
                          /\ Cardinality(UpTo(c[j].updated - 1)) <= place}}
  BY Zenon DEF Stale
<1>2. n \in Nat /\ n >= 2
  BY FS_CardinalityType
<1>3. place \in Nat /\ place >= 1 /\ place < n
  BY <1>2
<1> HIDE DEF place, n
<1>4. \A t : IsFiniteSet(UpTo(t)) /\ Cardinality(UpTo(t)) \in Nat
  BY FS_Subset, FS_CardinalityType
<1>5. UpTo(now) = DOMAIN c
  OBVIOUS
<1>6. now \in T
  BY <1>3, <1>5 DEF n
<1>7. PICK t \in T : \A u \in T : t <= u
  BY <1>6, LeastNat
<1>8. t \in Nat /\ Cardinality(UpTo(t)) > place
  BY <1>7
<1>9. Cardinality(UpTo(t - 1)) <= place
  <2>1. CASE t = 0
    <3>1. UpTo(t - 1) = {}
      BY <2>1
    <3>2. Cardinality({}) = 0
      BY FS_EmptySet
    <3> HIDE DEF UpTo
    <3>3. Cardinality(UpTo(t - 1)) = 0
      BY <3>1, <3>2
    <3> QED BY <1>3, <3>3
  <2>2. CASE t # 0
    <3>1. t - 1 \in Nat /\ ~(t <= t - 1)
      BY <1>8, <2>2
    <3>2. t - 1 \notin T
      BY <1>7, <3>1
    <3>3. Cardinality(UpTo(t - 1)) \in Nat
      BY <1>4
    <3> HIDE DEF UpTo
    <3> QED BY <1>3, <3>1, <3>2, <3>3
  <2> QED BY <2>1, <2>2
<1>10. UpTo(t) # UpTo(t - 1)
  BY <1>3, <1>4, <1>8, <1>9
<1>11. PICK j \in DOMAIN c : c[j].updated <= t /\ ~(c[j].updated <= t - 1)
  <2>1. UpTo(t - 1) \subseteq UpTo(t)
    BY <1>8
  <2>2. PICK j \in UpTo(t) : j \notin UpTo(t - 1)
    BY <1>10, <2>1
  <2> QED BY <2>2
<1>12. c[j].updated = t
  <2>1. c[j].updated \in Nat
    OBVIOUS
  <2> QED BY ONLY <2>1, <1>8, <1>11
<1>13. j \in UpTo(c[j].updated)
  BY <1>12, <1>8
<1>14. Cardinality(UpTo(c[j].updated)) > place /\ Cardinality(UpTo(c[j].updated - 1)) <= place
  BY <1>8, <1>9, <1>12
<1> HIDE DEF UpTo
<1> QED BY <1>1, <1>13, <1>14

\* The cleanup takes from the estimate what the entries it removes take.
LEMMA CleanedKeeps ==
  ASSUME NEW c, NEW x, NEW now \in Nat, CacheOK(c, x, now)
  PROVE  LET d == Without(c, Stale(c))
         IN  /\ CacheOK(d, x - SizeOf(c, Stale(c)), now)
             /\ DOMAIN d \subseteq DOMAIN c
             /\ Cardinality(DOMAIN c) >= 2 => Cardinality(DOMAIN d) < Cardinality(DOMAIN c)
             /\ Cardinality(DOMAIN d) <= Cardinality(DOMAIN c)
             /\ \A c0 : (\A j \in DOMAIN c0 : c0[j].updated \in Nat) /\ Since(c0, c) => Since(c0, d)
<1> DEFINE K == DOMAIN c
           L == Stale(c)
           d == Without(c, L)
<1>1. IsFiniteSet(K) /\ IsFiniteSet(Held(c, K)) /\ \A k \in K : c[k].updated \in Nat /\ c[k].updated <= now
  BY DEF CacheOK
<1>2. L \subseteq K /\ \A k \in L, j \in K \ L : c[k].updated <= c[j].updated
  BY <1>1, StaleOld
<1>3. K = DOMAIN c /\ DOMAIN d = K \ L /\ \A k \in K \ L : d[k] = c[k]
  BY DEF Without
<1>4. Cardinality(K) >= 2 => L # {}
  BY <1>1, StaleRemoves
<1> HIDE DEF d, L, K
<1>5. /\ IsFiniteSet(Held(c, L)) /\ IsFiniteSet(Held(c, K \ L)) /\ IsFiniteSet(K \ L) /\ IsFiniteSet(L)
      /\ SizeOf(c, L) \in Nat /\ SizeOf(c, K \ L) \in Nat
      /\ SizeOf(c, K) = SizeOf(c, L) + SizeOf(c, K \ L)
      /\ Cardinality(K \ L) = Cardinality(K) - Cardinality(L)
      /\ Cardinality(K) \in Nat /\ Cardinality(L) \in Nat
  <2>1. L \in SUBSET K
    BY <1>2
  <2>2. IsFiniteSet(L)
    BY <1>1, <2>1, FS_Subset
  <2>3. /\ IsFiniteSet(Held(c, L)) /\ IsFiniteSet(Held(c, K \ L)) /\ IsFiniteSet(K \ L)
        /\ SizeOf(c, L) \in Nat /\ SizeOf(c, K \ L) \in Nat
        /\ SizeOf(c, K) = SizeOf(c, L) + SizeOf(c, K \ L)
        /\ Cardinality(K \ L) = Cardinality(K) - Cardinality(L)
        /\ Cardinality(K) \in Nat /\ Cardinality(L) \in Nat
    BY <1>1, <2>1, SizeSplit, Zenon
  <2> QED BY <2>2, <2>3
<1>6. Held(d, DOMAIN d) = Held(c, K \ L)
  BY <1>3, HeldSame
<1>7. SizeOf(d, DOMAIN d) = SizeOf(c, K \ L)
  BY <1>3, <1>6 DEF SizeOf
<1>8. method = "cache" => SizeOf(c, L) = Cardinality(L)
  <2> SUFFICES ASSUME method = "cache" PROVE SizeOf(c, L) = Cardinality(L)
    OBVIOUS
  <2>1. \A k \in L : c[k].vals = {}
    BY <1>2, <1>3 DEF CacheOK
  <2>2. Held(c, L) = {} /\ Cardinality({}) = 0
    BY <2>1, HeldNone, FS_EmptySet
  <2> QED BY <1>5, <2>2 DEF SizeOf
<1>9. x \in Int /\ x <= SizeOf(c, K) /\ (method = "cache" => x = Cardinality(K))
  BY <1>3 DEF CacheOK
<1>10. /\ x - SizeOf(c, L) \in Int /\ x - SizeOf(c, L) <= SizeOf(d, DOMAIN d)
       /\ method = "cache" => x - SizeOf(c, L) = Cardinality(DOMAIN d)
  BY <1>3, <1>5, <1>7, <1>8, <1>9
<1>11. CacheOK(d, x - SizeOf(c, L), now)
  <2>1. /\ DOMAIN d \subseteq RollupKeys
        /\ \A k \in DOMAIN d : /\ d[k].vals \subseteq RollupValues /\ (method = "cache" => d[k].vals = {})
                               /\ d[k].updated \in Nat /\ d[k].updated <= now
    BY <1>3 DEF CacheOK
  <2> QED BY <1>3, <1>5, <1>6, <1>10, <2>1 DEF CacheOK
<1>12. ASSUME Cardinality(K) >= 2 PROVE Cardinality(DOMAIN d) < Cardinality(K)
  <2>1. Cardinality(L) # 0
    BY <1>4, <1>5, <1>12, FS_EmptySet
  <2> QED BY <1>3, <1>5, <2>1
<1>13. Cardinality(DOMAIN d) <= Cardinality(K)
  BY <1>3, <1>5
<1>14. ASSUME NEW c0, \A j \in DOMAIN c0 : c0[j].updated \in Nat, Since(c0, c) PROVE Since(c0, d)
  <2> SUFFICES ASSUME NEW k \in DOMAIN c0
               PROVE  IF k \in DOMAIN d THEN c0[k].updated <= d[k].updated
                      ELSE \A j \in DOMAIN d : c0[k].updated <= d[j].updated
    BY DEF Since
  <2>0. c0[k].updated \in Nat
    BY <1>14
  <2>1. CASE k \in DOMAIN d
    BY <1>3, <1>14, <2>1 DEF Since
  <2>2. CASE k \notin K
    BY <1>3, <1>14, <2>2 DEF Since
  <2>3. CASE k \in L
    <3>1. c0[k].updated <= c[k].updated
      BY <1>2, <1>3, <1>14, <2>3 DEF Since
    <3>2. c[k].updated \in Nat
      BY <1>1, <1>2, <1>3, <2>3
    <3>3. ASSUME NEW j \in DOMAIN d PROVE c0[k].updated <= d[j].updated
      <4>1. c[k].updated <= c[j].updated /\ d[j] = c[j] /\ c[j].updated \in Nat
        BY <1>1, <1>2, <1>3, <2>3
      <4> QED BY <2>0, <3>1, <3>2, <4>1
    <3> QED BY <1>3, <2>3, <3>3
  <2> QED BY <1>3, <2>1, <2>2, <2>3
<1> QED BY <1>3, <1>11, <1>12, <1>13, <1>14 DEF d, L, K

\* The entry of a record counts it.
LEMMA CountedKeeps ==
  ASSUME NEW c, NEW x, NEW now \in Nat, CacheOK(c, x, now), NEW r \in [key : AllKeys, value : RollupValues]
  PROVE  LET d == Counted(c, r, now)
         IN  /\ CacheOK(d, x, now) /\ DOMAIN d = DOMAIN c
             /\ \A c0 : (\A j \in DOMAIN c0 : c0[j].updated \in Nat /\ c0[j].updated <= now) /\ Since(c0, c) => Since(c0, d)
<1> DEFINE d == Counted(c, r, now)
           K == DOMAIN c
<1>1. r.key \in AllKeys /\ r.value \in RollupValues
  OBVIOUS
<1>2. DOMAIN d = K
  BY DEF Counted
<1>3. ASSUME NEW k \in K
      PROVE  /\ k # r.key => d[k] = c[k]
             /\ k = r.key => /\ d[k].updated = now
                             /\ d[k].vals = IF method = "cache_unique" THEN c[k].vals \cup {r.value} ELSE {}
  BY DEF Counted
<1>4. /\ IsFiniteSet(K) /\ IsFiniteSet(Held(c, K)) /\ K \subseteq RollupKeys
      /\ \A k \in K : /\ c[k].vals \subseteq RollupValues /\ (method = "cache" => c[k].vals = {})
                      /\ c[k].updated \in Nat /\ c[k].updated <= now
  BY DEF CacheOK
<1>5. method \in Methods /\ (method = "cache" \/ method = "cache_unique")
  BY RollupAssumption DEF CacheOK
<1> HIDE DEF d
<1>6. ASSUME NEW k \in K
      PROVE  /\ d[k].vals \subseteq RollupValues /\ (method = "cache" => d[k].vals = {})
             /\ d[k].updated \in Nat /\ d[k].updated <= now /\ c[k].updated <= d[k].updated
             /\ d[k].vals \subseteq c[k].vals \cup {r.value} /\ c[k].vals \subseteq d[k].vals
             /\ k # r.key => d[k].vals = c[k].vals
  <2>1. CASE k # r.key
    <3>1. d[k] = c[k]
      BY <1>3, <2>1
    <3> QED BY <1>4, <2>1, <3>1
  <2>2. CASE k = r.key
    <3>1. d[k].updated = now /\ d[k].vals = IF method = "cache_unique" THEN c[k].vals \cup {r.value} ELSE {}
      BY <1>3, <2>2
    <3>2. /\ c[k].vals \subseteq RollupValues /\ (method = "cache" => c[k].vals = {})
          /\ c[k].updated \in Nat /\ c[k].updated <= now
      BY <1>4
    <3> QED BY <1>1, <1>5, <2>2, <3>1, <3>2
  <2> QED BY <2>1, <2>2
<1>7. Held(d, K) \subseteq Held(c, K) \cup {<<r.key, r.value>>} /\ Held(c, K) \subseteq Held(d, K)
  BY <1>6 DEF Held
<1>8. IsFiniteSet(Held(d, K))
  <2>1. IsFiniteSet(Held(c, K) \cup {<<r.key, r.value>>})
    BY <1>4, FS_AddElement
  <2> QED BY <1>7, <2>1, FS_Subset
<1>9. Cardinality(Held(c, K)) <= Cardinality(Held(d, K))
  BY <1>7, <1>8, FS_Subset
<1>10. Cardinality(K) \in Nat /\ Cardinality(Held(c, K)) \in Nat /\ Cardinality(Held(d, K)) \in Nat
  BY <1>4, <1>8, FS_CardinalityType
<1>11. x \in Int /\ x <= SizeOf(c, K) /\ (method = "cache" => x = Cardinality(K))
  BY DEF CacheOK
<1> HIDE DEF K
<1>12. x <= SizeOf(d, K)
  BY <1>9, <1>10, <1>11 DEF SizeOf
<1>13. CacheOK(d, x, now)
  BY <1>2, <1>4, <1>5, <1>6, <1>8, <1>11, <1>12 DEF CacheOK
<1>14. ASSUME NEW c0, \A j \in DOMAIN c0 : c0[j].updated \in Nat /\ c0[j].updated <= now, Since(c0, c) PROVE Since(c0, d)
  <2> SUFFICES ASSUME NEW k \in DOMAIN c0
               PROVE  IF k \in DOMAIN d THEN c0[k].updated <= d[k].updated
                      ELSE \A j \in DOMAIN d : c0[k].updated <= d[j].updated
    BY DEF Since
  <2>0. c0[k].updated \in Nat
    BY <1>14
  <2>1. CASE k \in K
    <3>1. c0[k].updated <= c[k].updated /\ c[k].updated \in Nat /\ d[k].updated \in Nat /\ c[k].updated <= d[k].updated
      BY <1>4, <1>6, <1>14, <2>1 DEF Since, K
    <3> QED BY <1>2, <2>0, <2>1, <3>1
  <2>2. CASE k \notin K
    <3>1. ASSUME NEW j \in K PROVE c0[k].updated <= d[j].updated
      <4>1. c0[k].updated <= c[j].updated /\ c[j].updated \in Nat /\ d[j].updated \in Nat /\ c[j].updated <= d[j].updated
        BY <1>4, <1>6, <1>14, <2>2 DEF Since, K
      <4> QED BY <2>0, <4>1
    <3> QED BY <1>2, <2>2, <3>1
  <2> QED BY <2>1, <2>2
<1> QED BY <1>2, <1>13, <1>14 DEF d, K

\* One record: the cache stays right and within its limit, and forgets only what is old.
LEMMA AddRecordKeeps ==
  ASSUME NEW c, NEW x, NEW now \in Nat, CacheOK(c, x, now), FewKeys(c),
         NEW r \in [key : AllKeys, value : RollupValues]
  PROVE  \E d, y : /\ AddRecord([cache |-> c, memory |-> x], r, now) = [cache |-> d, memory |-> y]
                   /\ CacheOK(d, y, now) /\ FewKeys(d)
                   /\ \A c0 : (\A j \in DOMAIN c0 : c0[j].updated \in Nat /\ c0[j].updated <= now) /\ Since(c0, c)
                              => Since(c0, d)
<1> DEFINE m == [cache |-> c, memory |-> x]
           Goes(d) == \A c0 : (\A j \in DOMAIN c0 : c0[j].updated \in Nat /\ c0[j].updated <= now) /\ Since(c0, c)
                               => Since(c0, d)
           fresh == r.key \notin DOMAIN c
           e == c ++ Only(r.key, [vals |-> {}, updated |-> now])
           f == Without(e, Stale(e))
<1>1. CASE r.key = EmptyKey
  <2>1. AddRecord(m, r, now) = m
    BY <1>1 DEF AddRecord
  <2> QED BY <2>1
<1>2. CASE r.key # EmptyKey
  <2>0. r.key \in RollupKeys /\ IsFiniteSet(DOMAIN c) /\ Cardinality(DOMAIN c) \in Nat
    BY <1>2, FS_CardinalityType DEF AllKeys, CacheOK
  <2> DEFINE tidy == IF fresh /\ ShouldDoEmergencyCleanup([cache |-> e, memory |-> x + 1])
                       THEN [cache |-> f, memory |-> (x + 1) - SizeOf(e, Stale(e))]
                       ELSE IF fresh THEN [cache |-> e, memory |-> x + 1] ELSE m
  <2>1. AddRecord(m, r, now) = [cache |-> Counted(tidy.cache, r, now), memory |-> tidy.memory]
    <3>1. Entered(m, r.key, now) = [cache |-> e, memory |-> x + 1]
      BY DEF Entered
    <3>2. DoEmergencyCleanup([cache |-> e, memory |-> x + 1]) = [cache |-> f, memory |-> (x + 1) - SizeOf(e, Stale(e))]
      BY DEF DoEmergencyCleanup
    <3>3. m.cache = c
      OBVIOUS
    <3> HIDE DEF e, f, m
    <3> QED BY <1>2, <3>1, <3>2, <3>3, Zenon DEF AddRecord
  <2>2. ASSUME fresh
        PROVE  /\ CacheOK(e, x + 1, now) /\ DOMAIN e = DOMAIN c \cup {r.key}
               /\ Cardinality(DOMAIN e) = Cardinality(DOMAIN c) + 1 /\ Goes(e)
    <3> DEFINE k == r.key
               g(j) == c ++ Only(j, [vals |-> {}, updated |-> now])
    <3>1. k \in RollupKeys /\ k \notin DOMAIN c
      BY <2>0, <2>2
    <3>2. e = g(k)
      BY Zenon
    <3> HIDE DEF k, e
    <3>3. /\ CacheOK(g(k), x + 1, now)
          /\ DOMAIN g(k) = DOMAIN c \cup {k} /\ Cardinality(DOMAIN g(k)) = Cardinality(DOMAIN c) + 1
          /\ \A c0 : (\A j \in DOMAIN c0 : c0[j].updated <= now) /\ Since(c0, c) => Since(c0, g(k))
      BY <3>1, EnteredKeeps, Zenon
    <3> HIDE DEF g
    <3>4. Goes(e)
      BY <3>2, <3>3
    <3> QED BY <3>2, <3>3, <3>4 DEF k
  <2> HIDE DEF e
  <2>3. ASSUME fresh
        PROVE  /\ CacheOK(f, (x + 1) - SizeOf(e, Stale(e)), now) /\ Goes(f)
               /\ Cardinality(DOMAIN e) >= 2 => Cardinality(DOMAIN f) < Cardinality(DOMAIN e)
               /\ Cardinality(DOMAIN f) \in Nat
    <3>1. /\ CacheOK(f, (x + 1) - SizeOf(e, Stale(e)), now)
          /\ Cardinality(DOMAIN e) >= 2 => Cardinality(DOMAIN f) < Cardinality(DOMAIN e)
          /\ \A c0 : (\A j \in DOMAIN c0 : c0[j].updated \in Nat) /\ Since(c0, e) => Since(c0, f)
      BY <2>2, <2>3, CleanedKeeps
    <3> HIDE DEF f
    <3>2. Cardinality(DOMAIN f) \in Nat
      BY <3>1, FS_CardinalityType DEF CacheOK
    <3>3. Goes(f)
      BY <2>2, <2>3, <3>1
    <3> QED BY <3>1, <3>2, <3>3
  <2> HIDE DEF f
  <2>4. \E d, y : tidy = [cache |-> d, memory |-> y] /\ CacheOK(d, y, now) /\ FewKeys(d) /\ Goes(d)
    <3>1. CASE ~fresh
      <4>1. tidy = m /\ Goes(c)
        BY <3>1
      <4> HIDE DEF tidy, Goes
      <4> QED BY <4>1
    <3>2. CASE fresh /\ ShouldDoEmergencyCleanup([cache |-> e, memory |-> x + 1])
      <4>1. tidy = [cache |-> f, memory |-> (x + 1) - SizeOf(e, Stale(e))]
        BY <3>2
      <4>2. FewKeys(f)
        <5> SUFFICES ASSUME EmergencyCleanup, MaxKeys > 0 PROVE Cardinality(DOMAIN f) <= MaxKeys
          BY DEF FewKeys
        <5>1. Cardinality(DOMAIN c) <= MaxKeys /\ MaxKeys \in Nat
          BY RollupAssumption DEF FewKeys
        <5>2. CASE Cardinality(DOMAIN e) >= 2
          BY <2>0, <2>2, <2>3, <3>2, <5>1, <5>2
        <5>3. CASE ~(Cardinality(DOMAIN e) >= 2)
          <6>1. DOMAIN f \subseteq DOMAIN e /\ IsFiniteSet(DOMAIN e)
            BY <2>2, <3>2 DEF f, Without, CacheOK
          <6>2. Cardinality(DOMAIN f) <= Cardinality(DOMAIN e)
            BY <6>1, FS_Subset
          <6> QED BY <2>0, <2>2, <2>3, <3>2, <5>1, <5>3, <6>2
        <5> QED BY <5>2, <5>3
      <4>3. CacheOK(f, (x + 1) - SizeOf(e, Stale(e)), now) /\ Goes(f)
        BY <2>3, <3>2
      <4> HIDE DEF tidy, Goes
      <4> QED BY <4>1, <4>2, <4>3
    <3>3. CASE fresh /\ ~ShouldDoEmergencyCleanup([cache |-> e, memory |-> x + 1])
      <4>1. tidy = [cache |-> e, memory |-> x + 1]
        BY <3>3
      <4>2. FewKeys(e)
        BY <2>0, <2>2, <3>3, RollupAssumption DEF FewKeys, ShouldDoEmergencyCleanup
      <4>3. CacheOK(e, x + 1, now) /\ Goes(e)
        BY <2>2, <3>3
      <4> HIDE DEF tidy, Goes
      <4> QED BY <4>1, <4>2, <4>3
    <3> QED BY <3>1, <3>2, <3>3
  <2> HIDE DEF tidy
  <2>5. PICK d, y : tidy = [cache |-> d, memory |-> y] /\ CacheOK(d, y, now) /\ FewKeys(d) /\ Goes(d)
    BY <2>4
  <2> DEFINE g == Counted(d, r, now)
  <2>6. tidy.cache = d /\ tidy.memory = y
    BY <2>5
  <2>7. AddRecord(m, r, now) = [cache |-> g, memory |-> y]
    BY <2>1, <2>6
  <2>8. /\ CacheOK(g, y, now) /\ DOMAIN g = DOMAIN d
        /\ \A c0 : (\A j \in DOMAIN c0 : c0[j].updated \in Nat /\ c0[j].updated <= now) /\ Since(c0, d) => Since(c0, g)
    BY <2>5, CountedKeeps
  <2> HIDE DEF g
  <2>9. Goes(g)
    BY <2>5, <2>8
  <2>10. FewKeys(g)
    BY <2>5, <2>8 DEF FewKeys
  <2> HIDE DEF Goes
  <2>11. \E h, z : AddRecord(m, r, now) = [cache |-> h, memory |-> z] /\ CacheOK(h, z, now) /\ FewKeys(h) /\ Goes(h)
    BY <2>7, <2>8, <2>9, <2>10
  <2> QED BY <2>11, Zenon DEF m, Goes
<1> QED BY <1>1, <1>2

\* A batch of records does what its records do.
LEMMA AddBatchKeeps ==
  ASSUME NEW now \in Nat, CacheOK(cache, memory, now), FewKeys(cache), NEW b \in Seq([key : AllKeys, value : RollupValues])
  PROVE  /\ CacheOK(AddBatch(b, now).cache, AddBatch(b, now).memory, now)
         /\ FewKeys(AddBatch(b, now).cache) /\ Since(cache, AddBatch(b, now).cache)
<1> DEFINE n == Len(b)
<1>0. n \in Nat /\ \A i \in 1 .. n : b[i] \in [key : AllKeys, value : RollupValues]
  <2> DEFINE R == [key : AllKeys, value : RollupValues]
  <2>1. b \in Seq(R)
    OBVIOUS
  <2> HIDE DEF R
  <2>2. n \in Nat /\ \A i \in 1 .. n : b[i] \in R
    BY <2>1
  <2> QED BY <2>2 DEF R
<1> HIDE DEF n
<1> DEFINE at == CHOOSE f : AfterDef(f, n, b, now)
           Fine(m) == \E c, x : /\ m = [cache |-> c, memory |-> x]
                                /\ CacheOK(c, x, now) /\ FewKeys(c) /\ Since(cache, c)
           S == {i \in 0 .. n : Fine(at[i])}
<1>1. AfterDef(at, n, b, now)
  BY <1>0, AfterExists, Zenon
<1> HIDE DEF at
<1>2. at[0] = [cache |-> cache, memory |-> memory] /\ \A i \in 1 .. n : at[i] = AddRecord(at[i - 1], b[i], now)
  BY <1>0, <1>1 DEF AfterDef
<1>3. \A k \in DOMAIN cache : cache[k].updated \in Nat /\ cache[k].updated <= now
  BY DEF CacheOK
<1>4. Fine(at[0])
  <2>1. Since(cache, cache)
    BY <1>3 DEF Since
  <2> QED BY <1>2, <2>1
<1>5. ASSUME NEW i \in 0 .. n - 1, Fine(at[i]) PROVE Fine(at[i + 1])
  <2>1. i + 1 \in 1 .. n /\ (i + 1) - 1 = i
    BY <1>0
  <2>2. PICK c, x : /\ at[i] = [cache |-> c, memory |-> x]
                    /\ CacheOK(c, x, now) /\ FewKeys(c) /\ Since(cache, c)
    BY <1>5
  <2>3. at[i + 1] = AddRecord([cache |-> c, memory |-> x], b[i + 1], now) /\ b[i + 1] \in [key : AllKeys, value : RollupValues]
    BY <1>0, <1>2, <2>1, <2>2
  <2> DEFINE r == b[i + 1]
  <2> HIDE DEF r
  <2>4. r \in [key : AllKeys, value : RollupValues] /\ at[i + 1] = AddRecord([cache |-> c, memory |-> x], r, now)
    BY <2>3 DEF r
  <2>5. PICK d, y : /\ AddRecord([cache |-> c, memory |-> x], r, now) = [cache |-> d, memory |-> y]
                    /\ CacheOK(d, y, now) /\ FewKeys(d)
                    /\ \A c0 : (\A j \in DOMAIN c0 : c0[j].updated \in Nat /\ c0[j].updated <= now) /\ Since(c0, c)
                               => Since(c0, d)
    BY <2>2, <2>4, AddRecordKeeps
  <2>6. Since(cache, d)
    BY <1>3, <2>2, <2>5
  <2> QED BY <2>4, <2>5, <2>6
<1>6. Fine(at[n])
  <2> HIDE DEF Fine
  <2>1. 0 \in S /\ \A i \in 0 .. n - 1 : i \in S => i + 1 \in S
    BY <1>0, <1>4, <1>5
  <2> HIDE DEF S
  <2>2. \A i \in 0 .. n : i \in S
    BY <1>0, <2>1, InductTo
  <2> QED BY <1>0, <2>2 DEF S
<1>7. AddBatch(b, now) = at[n]
  BY BatchIs, Zenon DEF at, n
<1> QED BY <1>6, <1>7

------------------------------------------------------------------------------
\* The inductive invariant: the run's invariants with what the cache consists of, and
\* that sums are with exportSum only between a request for them and its reply.
RollupIInv ==
  /\ TypeOK /\ SumConserved /\ KeysBounded /\ CacheOK(cache, memory, clock) /\ clock \in Nat
  /\ loop # "reply" => exporting = Nothing

\* Its parts, by the variables they speak of.
BatchesOK == batch \in [Adders -> Batches]
SumsOK ==
  /\ kvs \in Seq([AllKeys -> Nat]) /\ Len(kvs) <= KvsCap
  /\ sums \in [AllKeys -> Nat] /\ exporting \in [AllKeys -> Nat] /\ entered \in [AllKeys -> Nat] /\ gone \in [AllKeys -> Nat]
LoopOK == loop \in {"select", "sum", "reply", "cache"} /\ (loop # "reply" => exporting = Nothing)
CachesOK == CacheOK(cache, memory, clock) /\ clock \in Nat /\ FewKeys(cache)

LEMMA IInvIs == RollupIInv <=> BatchesOK /\ SumsOK /\ SumConserved /\ LoopOK /\ CachesOK
BY DEF RollupIInv, TypeOK, BatchesOK, SumsOK, LoopOK, CachesOK, CacheOK, KeysBounded, FewKeys

\* A sum set may enter, move on or be exported: every value is counted once.
LEMMA MergeType ==
  ASSUME NEW s \in [AllKeys -> Nat], NEW t \in [AllKeys -> Nat]
  PROVE  Merge(s, t) \in [AllKeys -> Nat] /\ \A k \in AllKeys : Merge(s, t)[k] = s[k] + t[k]
BY DEF Merge

LEMMA NothingType == Nothing \in [AllKeys -> Nat] /\ \A k \in AllKeys : Nothing[k] = 0
BY DEF Nothing

LEMMA BatchesSeq == ASSUME NEW b \in Batches PROVE b \in Seq([key : AllKeys, value : RollupValues])
<1> DEFINE R == [key : AllKeys, value : RollupValues]
<1>1. PICK n \in 0 .. MaxBatch : b \in [1 .. n -> R]
  BY Zenon DEF Batches
<1>2. n \in Nat
  BY <1>1, RollupAssumption
<1> HIDE DEF R
<1>3. b \in Seq(R)
  BY <1>1, <1>2
<1> QED BY <1>3 DEF R

LEMMA EmptyBatch == <<>> \in Batches
<1> DEFINE R == [key : AllKeys, value : RollupValues]
<1>1. 0 \in 0 .. MaxBatch
  BY RollupAssumption
<1> HIDE DEF R
<1>2. <<>> \in [1 .. 0 -> R]
  OBVIOUS
<1> QED BY <1>1, <1>2, Zenon DEF Batches, R

LEMMA RollupInitial == Init => RollupIInv
<1> SUFFICES ASSUME Init PROVE BatchesOK /\ SumsOK /\ SumConserved /\ LoopOK /\ CachesOK
  BY IInvIs
<1>1. BatchesOK /\ LoopOK
  BY EmptyBatch DEF Init, BatchesOK, LoopOK
<1>2. SumsOK
  BY NothingType, RollupAssumption DEF Init, SumsOK
<1>3. SumConserved
  <2> SUFFICES ASSUME NEW k \in AllKeys PROVE entered[k] = gone[k] + exporting[k] + sums[k] + Queued(kvs, k)
    BY DEF SumConserved
  <2>1. entered[k] = 0 /\ gone[k] = 0 /\ exporting[k] = 0 /\ sums[k] = 0 /\ Queued(kvs, k) = 0
    BY NothingType, QueuedEmpty DEF Init
  <2> QED BY ONLY <2>1
<1>4. CachesOK
  <2>1. DOMAIN cache = {} /\ memory = 0 /\ clock = 0 /\ method \in Methods
    BY DEF Init
  <2>2. Held(cache, {}) = {} /\ IsFiniteSet({}) /\ Cardinality({}) = 0
    BY FS_EmptySet DEF Held
  <2>3. Held(cache, DOMAIN cache) = {} /\ SizeOf(cache, DOMAIN cache) = 0 /\ Cardinality(DOMAIN cache) = 0
    BY <2>1, <2>2 DEF SizeOf
  <2>4. CacheOK(cache, memory, clock)
    <3>1. DOMAIN cache \subseteq RollupKeys /\ IsFiniteSet(DOMAIN cache) /\ IsFiniteSet(Held(cache, DOMAIN cache))
      BY <2>1, <2>2, <2>3
    <3>2. memory \in Int /\ memory <= SizeOf(cache, DOMAIN cache) /\ memory = Cardinality(DOMAIN cache)
      BY <2>1, <2>3
    <3> QED BY <2>1, <3>1, <3>2, Zenon DEF CacheOK
  <2>5. FewKeys(cache)
    BY <2>1, <2>2, RollupAssumption DEF FewKeys
  <2> QED BY <2>1, <2>4, <2>5 DEF CachesOK
<1> QED BY <1>1, <1>2, <1>3, <1>4

LEMMA CacheStays == ASSUME CachesOK, UNCHANGED cacheVars PROVE CachesOK'
BY DEF CachesOK, CacheOK, FewKeys, SizeOf, Held, cacheVars

LEMMA SumsStay == ASSUME SumsOK, SumConserved, UNCHANGED sumVars PROVE (SumsOK /\ SumConserved)'
<1>1. SumsOK'
  BY DEF SumsOK, sumVars
<1>2. SumConserved'
  <2>1. kvs' = kvs /\ sums' = sums /\ exporting' = exporting /\ entered' = entered /\ gone' = gone
    BY DEF sumVars
  <2> QED BY <2>1 DEF SumConserved, Queued
<1> QED BY <1>1, <1>2

LEMMA AddSumKeeps == ASSUME RollupIInv, NEW a \in Adders, AddSum(a) PROVE RollupIInv'
<1>0. BatchesOK /\ SumsOK /\ SumConserved /\ LoopOK /\ CachesOK
  BY IInvIs
<1>1. PICK b \in Batches : /\ batch' = [batch EXCEPT ![a] = b]
                           /\ entered' = Merge(entered, BatchSums(b)) /\ Offer(BatchSums(b))
  BY DEF AddSum
<1>2. UNCHANGED <<sums, exporting, cacheVars, loopVars>>
  BY DEF AddSum
<1> DEFINE s == BatchSums(b)
<1>3. s \in [AllKeys -> Nat]
  BY BatchesSeq, SumsType
<1> HIDE DEF s
<1>4. /\ entered' = Merge(entered, s)
      /\ \/ kvs' = Append(kvs, s) /\ gone' = gone /\ Len(kvs) < KvsCap
         \/ gone' = Merge(gone, s) /\ kvs' = kvs
  BY <1>1 DEF Offer, s
<1>5. BatchesOK' /\ LoopOK' /\ CachesOK'
  BY <1>0, <1>1, <1>2, CacheStays DEF BatchesOK, LoopOK, loopVars
<1>6. SumsOK'
  <2>1. entered' \in [AllKeys -> Nat] /\ Merge(gone, s) \in [AllKeys -> Nat]
    BY <1>0, <1>3, <1>4, MergeType DEF SumsOK
  <2>2. kvs' \in Seq([AllKeys -> Nat]) /\ Len(kvs') <= KvsCap
    <3>1. kvs \in Seq([AllKeys -> Nat]) /\ Len(kvs) <= KvsCap /\ KvsCap \in Nat
      BY <1>0, RollupAssumption DEF SumsOK
    <3> DEFINE F == [AllKeys -> Nat]
    <3>2. kvs \in Seq(F) /\ s \in F
      BY <1>3, <3>1
    <3> HIDE DEF F
    <3>3. Append(kvs, s) \in Seq(F) /\ Len(Append(kvs, s)) = Len(kvs) + 1 /\ Len(kvs) \in Nat
      BY <3>2
    <3>4. kvs' \in Seq(F) /\ Len(kvs') <= KvsCap
      BY <1>4, <3>1, <3>2, <3>3
    <3> QED BY <3>4 DEF F
  <2> QED BY <1>0, <1>2, <1>4, <2>1, <2>2 DEF SumsOK
<1>7. SumConserved'
  <2> SUFFICES ASSUME NEW k \in AllKeys PROVE entered'[k] = gone'[k] + exporting'[k] + sums'[k] + Queued(kvs', k)
    BY DEF SumConserved
  <2>1. entered[k] = gone[k] + exporting[k] + sums[k] + Queued(kvs, k) /\ Queued(kvs, k) \in Int
        /\ Queued(Append(kvs, s), k) = Queued(kvs, k) + s[k]
    BY <1>0, <1>3, QueuedAppend DEF SumConserved, SumsOK
  <2>2. /\ entered[k] \in Nat /\ gone[k] \in Nat /\ exporting[k] \in Nat /\ sums[k] \in Nat /\ s[k] \in Nat
        /\ Merge(entered, s)[k] = entered[k] + s[k] /\ Merge(gone, s)[k] = gone[k] + s[k]
    BY <1>0, <1>3, MergeType DEF SumsOK
  <2>3. exporting' = exporting /\ sums' = sums
    BY <1>2
  <2>4. CASE kvs' = Append(kvs, s) /\ gone' = gone
    BY <1>4, <2>1, <2>2, <2>3, <2>4
  <2>5. CASE gone' = Merge(gone, s) /\ kvs' = kvs
    BY <1>4, <2>1, <2>2, <2>3, <2>5
  <2> QED BY <1>4, <2>4, <2>5
<1> QED BY <1>5, <1>6, <1>7, IInvIs, PTL

LEMMA SumKvsKeeps == ASSUME RollupIInv, SumKvs PROVE RollupIInv'
<1>0. BatchesOK /\ SumsOK /\ SumConserved /\ LoopOK /\ CachesOK
  BY IInvIs
<1>1. kvs # <<>> /\ sums' = Merge(sums, Head(kvs)) /\ kvs' = Tail(kvs)
  BY DEF SumKvs
<1>2. UNCHANGED <<exporting, entered, gone, addVars, cacheVars, loopVars>>
  BY DEF SumKvs
<1>3. BatchesOK' /\ LoopOK' /\ CachesOK'
  BY <1>0, <1>2, CacheStays DEF BatchesOK, LoopOK, addVars, loopVars
<1>4. Head(kvs) \in [AllKeys -> Nat] /\ Tail(kvs) \in Seq([AllKeys -> Nat]) /\ Len(Tail(kvs)) <= KvsCap
  BY <1>0, <1>1, RollupAssumption DEF SumsOK
<1>5. SumsOK'
  BY <1>0, <1>1, <1>2, <1>4, MergeType DEF SumsOK
<1>6. SumConserved'
  <2> SUFFICES ASSUME NEW k \in AllKeys PROVE entered'[k] = gone'[k] + exporting'[k] + sums'[k] + Queued(kvs', k)
    BY DEF SumConserved
  <2>1. entered[k] = gone[k] + exporting[k] + sums[k] + Queued(kvs, k)
        /\ Queued(kvs, k) = Queued(Tail(kvs), k) + Head(kvs)[k]
    BY <1>0, <1>1, QueuedTail DEF SumConserved, SumsOK
  <2>2. Queued(Tail(kvs), k) \in Int
    BY <1>4, QueuedAppend
  <2>3. /\ entered[k] \in Nat /\ gone[k] \in Nat /\ exporting[k] \in Nat /\ sums[k] \in Nat /\ Head(kvs)[k] \in Nat
        /\ Merge(sums, Head(kvs))[k] = sums[k] + Head(kvs)[k]
    BY <1>0, <1>4, MergeType DEF SumsOK
  <2>4. sums'[k] = sums[k] + Head(kvs)[k] /\ Queued(kvs', k) = Queued(Tail(kvs), k)
    BY <1>1, <2>3
  <2>5. entered'[k] = entered[k] /\ gone'[k] = gone[k] /\ exporting'[k] = exporting[k]
    BY <1>2
  <2> QED BY ONLY <2>1, <2>2, <2>3, <2>4, <2>5
<1> QED BY <1>3, <1>5, <1>6, IInvIs, PTL

LEMMA RollupTickKeeps == ASSUME RollupIInv, RollupTick PROVE RollupIInv'
<1>0. BatchesOK /\ SumsOK /\ SumConserved /\ LoopOK /\ CachesOK
  BY IInvIs
<1>1. UNCHANGED <<addVars, sumVars, cacheVars>> /\ loop = "select" /\ loop' = "sum"
  BY DEF RollupTick
<1>2. BatchesOK' /\ LoopOK'
  BY <1>0, <1>1 DEF BatchesOK, LoopOK, addVars, sumVars
<1>3. CachesOK' /\ (SumsOK /\ SumConserved)'
  BY <1>0, <1>1, CacheStays, SumsStay
<1> QED BY <1>2, <1>3, IInvIs, PTL

LEMMA ExportKvsKeeps == ASSUME RollupIInv, ExportKvs PROVE RollupIInv'
<1>0. BatchesOK /\ SumsOK /\ SumConserved /\ LoopOK /\ CachesOK
  BY IInvIs
<1>1. loop = "sum" /\ exporting' = sums /\ sums' = Nothing /\ loop' = "reply"
      /\ UNCHANGED <<kvs, entered, gone, addVars, cacheVars>>
  BY DEF ExportKvs
<1>2. BatchesOK' /\ LoopOK' /\ CachesOK'
  BY <1>0, <1>1, CacheStays DEF BatchesOK, LoopOK, addVars
<1>3. SumsOK'
  BY <1>0, <1>1, NothingType DEF SumsOK
<1>4. SumConserved'
  <2> SUFFICES ASSUME NEW k \in AllKeys PROVE entered'[k] = gone'[k] + exporting'[k] + sums'[k] + Queued(kvs', k)
    BY DEF SumConserved
  <2>1. entered[k] = gone[k] + exporting[k] + sums[k] + Queued(kvs, k) /\ Queued(kvs, k) \in Int
    BY <1>0, QueuedAppend DEF SumConserved, SumsOK
  <2>2. exporting[k] = 0 /\ sums'[k] = 0
    BY <1>0, <1>1, NothingType DEF LoopOK
  <2>3. sums[k] \in Nat /\ gone[k] \in Nat
    BY <1>0 DEF SumsOK
  <2>4. exporting'[k] = sums[k] /\ entered'[k] = entered[k] /\ gone'[k] = gone[k] /\ Queued(kvs', k) = Queued(kvs, k)
    BY <1>1
  <2> QED BY ONLY <2>1, <2>2, <2>3, <2>4
<1> QED BY <1>2, <1>3, <1>4, IInvIs, PTL

LEMMA ExportSumKeeps == ASSUME RollupIInv, ExportSum PROVE RollupIInv'
<1>0. BatchesOK /\ SumsOK /\ SumConserved /\ LoopOK /\ CachesOK
  BY IInvIs
<1>1. loop' = "cache" /\ gone' = Merge(gone, exporting) /\ exporting' = Nothing
      /\ UNCHANGED <<kvs, sums, entered, addVars, cacheVars>>
  BY DEF ExportSum
<1>2. BatchesOK' /\ LoopOK' /\ CachesOK'
  BY <1>0, <1>1, CacheStays DEF BatchesOK, LoopOK, addVars
<1>3. SumsOK'
  BY <1>0, <1>1, NothingType, MergeType DEF SumsOK
<1>4. SumConserved'
  <2> SUFFICES ASSUME NEW k \in AllKeys PROVE entered'[k] = gone'[k] + exporting'[k] + sums'[k] + Queued(kvs', k)
    BY DEF SumConserved
  <2>1. entered[k] = gone[k] + exporting[k] + sums[k] + Queued(kvs, k) /\ Queued(kvs, k) \in Int
    BY <1>0, QueuedAppend DEF SumConserved, SumsOK
  <2>2. exporting'[k] = 0 /\ gone'[k] = gone[k] + exporting[k]
    BY <1>0, <1>1, NothingType, MergeType DEF SumsOK
  <2>3. sums[k] \in Nat /\ gone[k] \in Nat /\ exporting[k] \in Nat
    BY <1>0 DEF SumsOK
  <2>4. sums'[k] = sums[k] /\ entered'[k] = entered[k] /\ Queued(kvs', k) = Queued(kvs, k)
    BY <1>1
  <2> QED BY ONLY <2>1, <2>2, <2>3, <2>4
<1> QED BY <1>2, <1>3, <1>4, IInvIs, PTL

\* A later time keeps the cache right.
LEMMA CacheLater == ASSUME NEW c, NEW x, NEW now \in Nat, CacheOK(c, x, now) PROVE CacheOK(c, x, now + 1)
BY DEF CacheOK

\* What a step of the cache does to it: only AddCache is not an export.
LEMMA AddCacheDoes ==
  ASSUME RollupIInv, NEW a \in Adders, AddCache(a)
  PROVE  /\ CacheOK(cache', memory', clock + 1) /\ FewKeys(cache') /\ Since(cache, cache')
         /\ clock' = clock + 1 /\ method' = method /\ BatchesOK' /\ UNCHANGED <<sumVars, loopVars>>
<1>0. BatchesOK /\ CachesOK
  BY IInvIs
<1> DEFINE now == clock + 1
           b == batch[a]
<1>1. b \in Batches
  BY <1>0 DEF BatchesOK
<1>2. b \in Seq([key : AllKeys, value : RollupValues]) /\ now \in Nat
  <2>1. now \in Nat
    BY <1>0 DEF CachesOK
  <2> HIDE DEF b, now
  <2>2. b \in Seq([key : AllKeys, value : RollupValues])
    BY <1>1, BatchesSeq
  <2> QED BY <2>1, <2>2
<1>3. CacheOK(cache, memory, now) /\ FewKeys(cache)
  BY <1>0, CacheLater DEF CachesOK
<1>4. /\ cache' = AddBatch(b, now).cache /\ memory' = AddBatch(b, now).memory /\ clock' = now
      /\ batch' = [batch EXCEPT ![a] = <<>>] /\ UNCHANGED <<adds, method, sumVars, loopVars>>
  BY DEF AddCache
<1> HIDE DEF b, now
<1>5. /\ CacheOK(AddBatch(b, now).cache, AddBatch(b, now).memory, now)
      /\ FewKeys(AddBatch(b, now).cache) /\ Since(cache, AddBatch(b, now).cache)
  BY <1>2, <1>3, AddBatchKeeps
<1>6. CacheOK(cache', memory', now) /\ FewKeys(cache') /\ Since(cache, cache')
  BY <1>4, <1>5
<1>7. BatchesOK'
  BY <1>0, <1>4, EmptyBatch DEF BatchesOK
<1> QED BY <1>4, <1>6, <1>7 DEF now

LEMMA AddCacheKeeps == ASSUME RollupIInv, NEW a \in Adders, AddCache(a) PROVE RollupIInv'
<1>0. BatchesOK /\ SumsOK /\ SumConserved /\ LoopOK /\ CachesOK
  BY IInvIs
<1>1. /\ CacheOK(cache', memory', clock + 1) /\ FewKeys(cache') /\ clock' = clock + 1 /\ method' = method /\ BatchesOK'
      /\ UNCHANGED <<sumVars, loopVars>>
  BY AddCacheDoes
<1>2. CachesOK'
  BY <1>0, <1>1 DEF CachesOK, CacheOK, FewKeys, SizeOf, Held
<1>3. LoopOK'
  BY <1>0, <1>1 DEF LoopOK, loopVars, sumVars
<1>4. (SumsOK /\ SumConserved)'
  BY <1>0, <1>1, SumsStay
<1> QED BY <1>1, <1>2, <1>3, <1>4, IInvIs, PTL

LEMMA ExportCacheKeeps == ASSUME RollupIInv, ExportCache PROVE RollupIInv'
<1>0. BatchesOK /\ SumsOK /\ SumConserved /\ LoopOK /\ CachesOK
  BY IInvIs
<1>1. loop = "cache" /\ cache' = <<>> /\ memory' = 0 /\ loop' = "select"
      /\ UNCHANGED <<method, clock, exports, addVars, sumVars>>
  BY DEF ExportCache
<1>2. BatchesOK' /\ LoopOK'
  BY <1>0, <1>1 DEF BatchesOK, LoopOK, addVars, sumVars
<1>3. (SumsOK /\ SumConserved)'
  BY <1>0, <1>1, SumsStay
<1>4. CachesOK'
  <2>1. DOMAIN cache' = {} /\ memory' = 0 /\ clock' = clock /\ clock \in Nat /\ method' = method /\ method \in Methods
    BY <1>0, <1>1 DEF CachesOK, CacheOK
  <2>2. Held(cache', {}) = {} /\ IsFiniteSet({}) /\ Cardinality({}) = 0
    BY FS_EmptySet DEF Held
  <2>3. Held(cache', DOMAIN cache') = {} /\ SizeOf(cache', DOMAIN cache') = 0 /\ Cardinality(DOMAIN cache') = 0
    BY <2>1, <2>2 DEF SizeOf
  <2>4. DOMAIN cache' \subseteq RollupKeys /\ IsFiniteSet(DOMAIN cache') /\ IsFiniteSet(Held(cache', DOMAIN cache'))
    BY <2>1, <2>2, <2>3
  <2>5. memory' \in Int /\ memory' <= SizeOf(cache', DOMAIN cache') /\ memory' = Cardinality(DOMAIN cache')
    BY <2>1, <2>3
  <2>6. CacheOK(cache, memory, clock)'
    BY <2>1, <2>4, <2>5, Zenon DEF CacheOK, SizeOf, Held
  <2>7. FewKeys(cache)'
    BY <2>3, RollupAssumption DEF FewKeys
  <2> QED BY <2>1, <2>6, <2>7 DEF CachesOK
<1> QED BY <1>2, <1>3, <1>4, IInvIs, PTL

LEMMA RollupKeeps == RollupIInv /\ [Next]_vars => RollupIInv'
<1> SUFFICES ASSUME RollupIInv, [Next]_vars PROVE RollupIInv'
  OBVIOUS
<1>1. CASE UNCHANGED vars
  <2>0. BatchesOK /\ SumsOK /\ SumConserved /\ LoopOK /\ CachesOK
    BY IInvIs
  <2>1. UNCHANGED <<addVars, sumVars, cacheVars, loopVars>>
    BY <1>1 DEF vars
  <2>2. BatchesOK' /\ LoopOK' /\ CachesOK' /\ (SumsOK /\ SumConserved)'
    BY <2>0, <2>1, CacheStays, SumsStay DEF BatchesOK, LoopOK, addVars, loopVars, sumVars
  <2> QED BY <2>2, IInvIs, PTL
<1>2. CASE Next
  BY <1>2, AddSumKeeps, AddCacheKeeps, SumKvsKeeps, RollupTickKeeps, ExportKvsKeeps, ExportSumKeeps, ExportCacheKeeps DEF Next
<1> QED BY <1>1, <1>2

\* For any keys, values, batches and any capacity of kvs: every value given to addSum is
\* counted in exactly one report, unless its batch was dropped at a full kvs (addSum,
\* sumKvs, exportSum).
THEOREM SumsAreConserved == Spec => []SumConserved
<1>1. RollupIInv => SumConserved
  BY DEF RollupIInv
<1> QED BY <1>1, RollupInitial, RollupKeeps, PTL DEF Spec

\* For any keys, limits and batches: the cache rollup never has more than MaxKeys entries
\* after an Add, because a cleanup always removes one, and its memoryUsage is never above
\* what the entries take (Add, doEmergencyCleanup).
THEOREM CacheStaysWithinLimits == Spec => []CacheInv
<1>1. RollupIInv => CacheInv
  BY DEF RollupIInv, CacheInv, MemoryAccounted, CacheOK
<1> QED BY <1>1, RollupInitial, RollupKeeps, PTL DEF Spec

\* For any batch: of the entries that were there, those that an Add throws away were not
\* updated after any that it keeps, however often it had to clean up (doEmergencyCleanup).
THEOREM CleanupRemovesOldest == Spec => OldestRemoved
<1> DEFINE Older == loop # "cache" =>
                      \A k \in DOMAIN cache \ DOMAIN cache', j \in DOMAIN cache \cap DOMAIN cache' :
                        cache[k].updated <= cache'[j].updated
<1>1. RollupIInv /\ [Next]_vars => [Older]_cache
  <2> SUFFICES ASSUME RollupIInv, Next, cache' # cache, loop # "cache" PROVE Older
    BY DEF vars, cacheVars
  <2>1. PICK a \in Adders : AddCache(a)
    BY DEF Next, AddSum, SumKvs, RollupTick, ExportKvs, ExportSum, ExportCache, cacheVars
  <2>2. Since(cache, cache')
    BY <2>1, AddCacheDoes
  <2> QED BY <2>2 DEF Since
<1> QED BY <1>1, RollupInitial, RollupKeeps, PTL DEF Spec, OldestRemoved
=============================================================================
