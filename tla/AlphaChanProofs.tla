-------------------------- MODULE AlphaChanProofs --------------------------
(***************************************************************************)
(* Proofs about AlphaChan for every number of threads, every capacity and  *)
(* every behaviour of the enricher and of the JSON clients.                *)
(***************************************************************************)
EXTENDS AlphaChan, FiniteSetTheorems, TLAPS

\* Where a thread holds a flow, and when objects of a batch have been given
\* back: the control facts that make the two balances below inductive.
Control ==
  \A i \in Threads :
    /\ pc[i] \in {"take", "convert", "requeue"} => f[i] # NoFlow
    /\ pc[i] \in {"select", "toss", "done"} => f[i] = NoFlow
    /\ given[i] <= Len(msgs[i])
    /\ pc[i] # "give" => given[i] = 0

IInv == TypeOK /\ Control /\ ObjectsConserved /\ FlowsAccounted

USE DEF NoFlow, NoCid, Threads

-----------------------------------------------------------------------------
(* Facts about the operators.                                              *)

\* The payloads of a batch are payloads: each names companies of the batch
\* and counts finitely many of its flows.
LEMMA SplitsType ==
  ASSUME NEW m \in Seq(Cids \cup {NoCid}), NEW K \in SUBSET (1 .. Len(m))
  PROVE  Splits(m, K) \subseteq Payload
<1>1. \A S \in SUBSET K : IsFiniteSet(S) /\ Cardinality(S) \in Nat
  <2>1. IsFiniteSet(1 .. Len(m))
    BY FS_Interval
  <2> QED
    BY <2>1, FS_Subset, FS_CardinalityType
<1>2. \A k \in K : m[k] \in Cids \cup {NoCid}
  OBVIOUS
<1> QED
  BY <1>1, <1>2 DEF Splits, Payload

\* Whatever the enricher answers is a batch.
LEMMA EnrichedType ==
  ASSUME NEW m \in Seq(Cids \cup {NoCid}), NEW e \in Enriched(m)
  PROVE  e \in Seq(Cids \cup {NoCid})
<1>1. PICK o \in EnrichOutcomes : e \in EnrichedAs(o, m)
  BY DEF Enriched
<1>2. o \in {"same", "drop", "grow"}
  BY AlphaAssumption
<1>3. CASE o = "same"
  BY <1>1, <1>3 DEF EnrichedAs
<1>4. CASE o = "drop"
  <2>1. PICK k \in 0 .. Len(m) - 1 : e \in [1 .. k -> Cids \cup {NoCid}]
    BY <1>1, <1>4 DEF EnrichedAs
  <2> QED
    BY <2>1
<1>5. CASE o = "grow"
  BY <1>1, <1>5 DEF EnrichedAs
<1> QED
  BY <1>2, <1>3, <1>4, <1>5

\* Sending on one of several channels.
LEMMA AppendType ==
  ASSUME NEW S, NEW q \in [Threads -> Seq(S)], NEW i \in Threads, NEW x \in S
  PROVE  [q EXCEPT ![i] = Append(@, x)] \in [Threads -> Seq(S)]
  OBVIOUS

\* Shrinking keeps MaxFlowsPerMessage a natural number.
LEMMA ShrunkType == ASSUME NEW n \in Nat PROVE Shrunk(n) \in Nat
  BY DEF Shrunk

-----------------------------------------------------------------------------
(* Type correctness.                                                       *)

LEMMA TypeInit == Init => TypeOK
<1> SUFFICES ASSUME Init PROVE TypeOK
  OBVIOUS
<1> USE AlphaAssumption DEF Init
<1>1. TypeReqs
  BY DEF TypeReqs, ReqPCs
<1>2. TypeThreads
  BY DEF TypeThreads, PCs
<1>3. TypeChans
  BY DEF TypeChans
<1>4. TypeCounts
  BY DEF TypeCounts
<1> QED
  BY <1>1, <1>2, <1>3, <1>4 DEF TypeOK

\* The parts of the type invariant a step does not touch.
LEMMA SameThreads ==
  ASSUME TypeThreads, UNCHANGED <<pc, f, msgs, pend, given>>
  PROVE  TypeThreads'
  BY DEF TypeThreads
LEMMA SameReqs == ASSUME TypeReqs, UNCHANGED reqVars PROVE TypeReqs'
  BY DEF TypeReqs, reqVars
LEMMA SameCounts ==
  ASSUME TypeCounts, UNCHANGED <<countVars, shipped>>
  PROVE  TypeCounts'
  BY DEF TypeCounts, countVars
LEMMA SameChans ==
  ASSUME TypeChans, UNCHANGED <<alpha, pool, msgsc, sender, maxFlows, ctx>>
  PROVE  TypeChans'
  BY DEF TypeChans

\* A request goroutine's step keeps the types.
LEMMA TypeRequest ==
  ASSUME TypeOK, NEW r \in Requests, RequestNext(r)
  PROVE  TypeOK'
<1> USE DEF batchVars, countVars, ReqGoto
<1>0. TypeReqs /\ TypeThreads /\ TypeChans /\ TypeCounts
  BY DEF TypeOK
<1>a. NumThreads \in Nat /\ 0 \in Threads /\ PoolCap \in Nat /\ Cids \subseteq Nat
  BY AlphaAssumption
<1>b. pool \in [Threads -> 0 .. PoolCap] /\ alpha \in [Threads -> Seq(Cids)]
  BY <1>0 DEF TypeChans
<1>1. CASE StartFlows(r)
  <2>1. TypeReqs'
    BY <1>0, <1>a, <1>1 DEF StartFlows, TypeReqs, ReqPCs
  <2> QED
    BY <1>0, <1>1, <2>1, SameThreads, SameChans, SameCounts DEF StartFlows, TypeOK
<1>2. CASE SkipBig(r)
  <2>1. TypeReqs'
    BY <1>0, <1>2 DEF SkipBig, OneMessageLess, TypeReqs, ReqPCs
  <2> QED
    BY <1>0, <1>2, <2>1, SameThreads, SameChans, SameCounts DEF SkipBig, TypeOK
<1>3. CASE HandleFlow(r)
  <2>1. TypeReqs'
    <3>1. next[r] \in Threads /\ NextThread(next[r]) \in Threads
      BY <1>0, <1>a DEF TypeReqs, NextThread
    <3> QED
      BY <1>0, <1>3, <3>1 DEF HandleFlow, OneMessageLess, TypeReqs, ReqPCs
  <2> DEFINE i == next[r]
  <2>a. i \in Threads /\ cid[r] \in Cids
    BY <1>0, <1>3 DEF TypeReqs, HandleFlow
  <2>2. TypeChans'
    <3>1. alpha' = [alpha EXCEPT ![i] = Append(@, cid[r])] \/ alpha' = alpha
      BY <1>3 DEF HandleFlow
    <3>a. alpha \in [Threads -> Seq(Cids)]
      BY <1>b
    <3>b. [alpha EXCEPT ![i] = Append(@, cid[r])] \in [Threads -> Seq(Cids)]
      BY <3>a, <2>a, AppendType
    <3>2. alpha' \in [Threads -> Seq(Cids)]
      BY <3>1, <3>a, <3>b
    <3> QED
      BY <1>0, <1>3, <3>2 DEF TypeChans, HandleFlow
  <2>3. TypeCounts'
    <3>1. acc' = [acc EXCEPT ![i] = @ + 1] \/ acc' = acc
      BY <1>3 DEF HandleFlow
    <3>2. acc \in [Threads -> Nat]
      BY <1>0 DEF TypeCounts
    <3>3. acc' \in [Threads -> Nat]
      BY <2>a, <3>1, <3>2
    <3> QED
      BY <1>0, <1>3, <3>3 DEF TypeCounts, HandleFlow
  <2> QED
    BY <1>0, <1>3, <2>1, <2>2, <2>3, SameThreads DEF HandleFlow, TypeOK
<1>4. CASE JsonTake(r)
  <2>1. TypeReqs'
    BY <1>0, <1>4 DEF JsonTake, TypeReqs, ReqPCs
  <2>2. TypeChans'
    <3>1. pool' \in [Threads -> 0 .. PoolCap]
      BY <1>a, <1>b, <1>4 DEF JsonTake
    <3> QED
      BY <1>0, <1>4, <3>1 DEF JsonTake, TypeChans
  <2> QED
    BY <1>0, <1>4, <2>1, <2>2, SameThreads, SameCounts DEF JsonTake, TypeOK
<1>5. CASE JsonBad(r)
  <2>1. TypeReqs'
    BY <1>0, <1>5 DEF JsonBad, TypeReqs, ReqPCs
  <2>2. TypeCounts'
    BY <1>0, <1>5 DEF JsonBad, TypeCounts
  <2> QED
    BY <1>0, <1>5, <2>1, <2>2, SameThreads, SameChans DEF JsonBad, TypeOK
<1>6. CASE JsonFormat(r)
  <2>1. TypeReqs'
    BY <1>0, <1>6 DEF JsonFormat, TypeReqs, ReqPCs
  <2> QED
    BY <1>0, <1>6, <2>1, SameThreads, SameChans, SameCounts DEF JsonFormat, TypeOK
<1>7. CASE JsonGive(r)
  <2>1. TypeReqs'
    BY <1>0, <1>7 DEF JsonGive, TypeReqs, ReqPCs
  <2>2. TypeChans'
    <3>1. pool' \in [Threads -> 0 .. PoolCap]
      BY <1>a, <1>b, <1>7 DEF JsonGive
    <3> QED
      BY <1>0, <1>7, <3>1 DEF JsonGive, TypeChans
  <2> QED
    BY <1>0, <1>7, <2>1, <2>2, SameThreads, SameCounts DEF JsonGive, TypeOK
<1>8. CASE JsonEmit(r)
  <2>1. TypeReqs'
    BY <1>0, <1>8 DEF JsonEmit, TypeReqs, ReqPCs
  <2>2. TypeChans'
    <3>1. [cids |-> {NoCid}, n |-> 1] \in Payload
      BY DEF Payload
    <3> QED
      BY <1>0, <1>8, <3>1 DEF JsonEmit, TypeChans
  <2> QED
    BY <1>0, <1>8, <2>1, <2>2, SameThreads, SameCounts DEF JsonEmit, TypeOK
<1> QED
  BY <1>1, <1>2, <1>3, <1>4, <1>5, <1>6, <1>7, <1>8 DEF RequestNext

\* A processing thread's step keeps the types.
LEMMA TypeThread ==
  ASSUME TypeOK, NEW i \in Threads, ThreadNext(i),
         f[i] = NoFlow => pc[i] \notin {"convert", "requeue"}
  PROVE  TypeOK'
<1> USE DEF batchVars, countVars, Goto
<1>0. TypeReqs /\ TypeThreads /\ TypeChans /\ TypeCounts
  BY DEF TypeOK
<1>a. PoolCap \in Nat
  BY AlphaAssumption
<1>b. /\ pool \in [Threads -> 0 .. PoolCap] /\ alpha \in [Threads -> Seq(Cids)]
      /\ f \in [Threads -> Cids \cup {NoFlow}]
      /\ msgs \in [Threads -> Seq(Cids \cup {NoCid})]
      /\ msgsc \in Seq(Payload) /\ pend \in [Threads -> SUBSET Payload]
  BY <1>0 DEF TypeChans, TypeThreads
<1>1. CASE Receive(i)
  <2>1. alpha[i] \in Seq(Cids) /\ alpha[i] # <<>>
    BY <1>b, <1>1 DEF Receive
  <2>2. Head(alpha[i]) \in Cids /\ Tail(alpha[i]) \in Seq(Cids)
    BY <2>1
  <2>3. TypeThreads'
    BY <1>0, <1>1, <2>2 DEF Receive, TypeThreads, PCs
  <2>4. TypeChans'
    BY <1>0, <1>1, <2>2 DEF Receive, TypeChans
  <2> QED
    BY <1>0, <1>1, <2>3, <2>4, SameReqs, SameCounts DEF Receive, TypeOK
<1>2. CASE Take(i)
  <2>1. TypeThreads'
    BY <1>0, <1>2 DEF Take, CallSendBytesOn, Return, TypeThreads, PCs
  <2>2. TypeChans'
    <3>1. pool' \in [Threads -> 0 .. PoolCap]
      BY <1>a, <1>b, <1>2 DEF Take
    <3> QED
      BY <1>0, <1>2, <3>1 DEF Take, TypeChans
  <2> QED
    BY <1>0, <1>2, <2>1, <2>2, SameReqs, SameCounts DEF Take, TypeOK
<1>3. CASE Reject(i)
  <2>1. TypeThreads'
    BY <1>0, <1>3 DEF Reject, TypeThreads, PCs
  <2>2. TypeCounts'
    BY <1>0, <1>3 DEF Reject, TypeCounts
  <2> QED
    BY <1>0, <1>3, <2>1, <2>2, SameReqs, SameChans DEF Reject, TypeOK
<1>4. CASE Toss(i)
  <2>1. TypeThreads'
    BY <1>0, <1>4 DEF Toss, TypeThreads, PCs
  <2>2. TypeChans'
    <3>1. pool' \in [Threads -> 0 .. PoolCap]
      BY <1>a, <1>b, <1>4 DEF Toss
    <3> QED
      BY <1>0, <1>4, <3>1 DEF Toss, TypeChans
  <2> QED
    BY <1>0, <1>4, <2>1, <2>2, SameReqs, SameCounts DEF Toss, TypeOK
<1>5. CASE Batch(i)
  <2>1. f[i] \in Cids
    BY <1>b, <1>5 DEF Batch
  <2>2. msgs' \in [Threads -> Seq(Cids \cup {NoCid})]
    BY <1>b, <1>5, <2>1, AppendType DEF Batch
  <2>3. pc' \in [Threads -> PCs] /\ f' \in [Threads -> Cids \cup {NoFlow}]
    BY <1>0, <1>5 DEF Batch, TypeThreads, PCs
  <2>4. TypeThreads'
    BY <1>0, <1>5, <2>2, <2>3 DEF Batch, TypeThreads
  <2> QED
    BY <1>0, <1>5, <2>4, SameReqs, SameChans, SameCounts DEF Batch, TypeOK
<1>6. CASE Tick(i)
  <2>1. TypeThreads'
    BY <1>0, <1>6 DEF Tick, CallSendBytesOn, Return, TypeThreads, PCs
  <2> QED
    BY <1>0, <1>6, <2>1, SameReqs, SameChans, SameCounts DEF Tick, TypeOK
<1>7. CASE Send(i)
  <2>m. PICK m \in Enriched(msgs[i]) : \E K \in Kept(m) : Prepare(i, m, K)
    BY <1>7 DEF Send
  <2>0. PICK K \in Kept(m) : Prepare(i, m, K)
    BY <2>m
  <2>1. m \in Seq(Cids \cup {NoCid}) /\ msgs[i] \in Seq(Cids \cup {NoCid})
    BY <1>b, EnrichedType
  <2>2. Splits(m, K) \in SUBSET Payload
    BY <2>1, SplitsType DEF Kept
  <2>3. msgs' \in [Threads -> Seq(Cids \cup {NoCid})]
    BY <1>b, <2>0, <2>1 DEF Prepare
  <2>4. pend' \in [Threads -> SUBSET Payload]
    BY <1>b, <2>0, <2>2 DEF Prepare
  <2>5. pc' \in [Threads -> PCs]
    BY <1>0, <2>0 DEF Prepare, TypeThreads, PCs
  <2>6. TypeThreads'
    BY <1>0, <1>7, <2>3, <2>4, <2>5 DEF Send, TypeThreads
  <2>7. lost' \in [Threads -> Nat] /\ extra' \in [Threads -> Nat]
    <3>1. Len(m) \in Nat /\ Len(msgs[i]) \in Nat
      BY <2>1
    <3> QED
      BY <1>0, <2>0, <3>1, SMTT(30) DEF Prepare, TypeCounts
  <2>8. TypeCounts'
    BY <1>0, <1>7, <2>7 DEF Send, TypeCounts
  <2> QED
    BY <1>0, <1>7, <2>6, <2>8, SameReqs, SameChans DEF Send, TypeOK
<1>8. CASE Ship(i)
  <2>0. PICK s \in pend[i] :
          /\ msgsc' = Append(msgsc, s) \/ msgsc' = msgsc
          /\ pend' = [pend EXCEPT ![i] = @ \ {s}]
          /\ shipped' = [shipped EXCEPT ![i] = @ + s.n]
          /\ Goto(i, IF pend[i] = {s} THEN "give" ELSE "ship")
    BY <1>8 DEF Ship
  <2>1. s \in Payload
    BY <1>b
  <2>2. msgsc' \in Seq(Payload)
    BY <1>b, <2>0, <2>1, SMTT(30)
  <2>3. TypeChans'
    BY <1>0, <1>8, <2>2 DEF Ship, TypeChans
  <2>4. pend' \in [Threads -> SUBSET Payload] /\ pc' \in [Threads -> PCs]
    BY <1>0, <2>0 DEF TypeThreads, PCs
  <2>5. TypeThreads'
    BY <1>0, <1>8, <2>4 DEF Ship, TypeThreads
  <2>6. shipped' \in [Threads -> Nat]
    BY <1>0, <2>0, <2>1 DEF TypeCounts, Payload
  <2>7. TypeCounts'
    BY <1>0, <1>8, <2>6 DEF Ship, TypeCounts
  <2> QED
    BY <1>0, <1>8, <2>3, <2>5, <2>7, SameReqs DEF Ship, TypeOK
<1>9. CASE Give(i)
  <2>1. TypeThreads'
    BY <1>0, <1>9 DEF Give, TypeThreads
  <2>2. TypeChans'
    <3>1. pool' \in [Threads -> 0 .. PoolCap]
      BY <1>a, <1>b, <1>9 DEF Give
    <3> QED
      BY <1>0, <1>9, <3>1 DEF Give, TypeChans
  <2> QED
    BY <1>0, <1>9, <2>1, <2>2, SameReqs, SameCounts DEF Give, TypeOK
<1>10. CASE GiveDone(i)
  <2>1. TypeThreads'
    <3>1. msgs' \in [Threads -> Seq(Cids \cup {NoCid})]
      BY <1>b, <1>10 DEF GiveDone
    <3> QED
      BY <1>0, <1>10, <3>1 DEF GiveDone, Return, TypeThreads, PCs
  <2>2. TypeCounts'
    <3>1. Len(msgs[i]) \in Nat
      BY <1>b
    <3> QED
      BY <1>0, <1>10, <3>1, SMTT(30) DEF GiveDone, TypeCounts
  <2> QED
    BY <1>0, <1>10, <2>1, <2>2, SameReqs, SameChans DEF GiveDone, TypeOK
<1>11. CASE Requeue(i)
  <2>0. f[i] \in Cids
    BY <1>b, <1>11 DEF Requeue
  <2>1. TypeThreads'
    BY <1>0, <1>11 DEF Requeue, TypeThreads, PCs
  <2>2. TypeChans'
    <3>1. alpha' = [alpha EXCEPT ![i] = Append(@, f[i])] \/ alpha' = alpha
      BY <1>11 DEF Requeue
    <3>a. alpha \in [Threads -> Seq(Cids)]
      BY <1>b
    <3>b. [alpha EXCEPT ![i] = Append(@, f[i])] \in [Threads -> Seq(Cids)]
      BY <3>a, <2>0, AppendType
    <3>2. alpha' \in [Threads -> Seq(Cids)]
      BY <3>1, <3>a, <3>b
    <3> QED
      BY <1>0, <1>11, <3>2 DEF Requeue, TypeChans
  <2>3. TypeCounts'
    <3>1. dropped' = [dropped EXCEPT ![i] = @ + 1] \/ dropped' = dropped
      BY <1>11 DEF Requeue
    <3>2. dropped' \in [Threads -> Nat]
      BY <1>0, <3>1 DEF TypeCounts
    <3> QED
      BY <1>0, <1>11, <3>2 DEF Requeue, TypeCounts
  <2> QED
    BY <1>0, <1>11, <2>1, <2>2, <2>3, SameReqs DEF Requeue, TypeOK
<1>12. CASE Finish(i)
  <2>1. TypeThreads'
    BY <1>0, <1>12 DEF Finish, TypeThreads, PCs
  <2> QED
    BY <1>0, <1>12, <2>1, SameReqs, SameChans, SameCounts DEF Finish, TypeOK
<1> QED
  BY <1>1, <1>2, <1>3, <1>4, <1>5, <1>6, <1>7, <1>8, <1>9, <1>10, <1>11,
     <1>12 DEF ThreadNext

\* The sender, the size feedback and the cancellation keep the types.
LEMMA TypeAgent ==
  ASSUME TypeOK, DoSend \/ SendDone \/ TooBig \/ Cancel
  PROVE  TypeOK'
<1> USE DEF batchVars, countVars
<1>0. TypeReqs /\ TypeThreads /\ TypeChans /\ TypeCounts
  BY DEF TypeOK
<1>1. UNCHANGED <<reqVars, pc, f, batchVars, countVars>>
  BY DEF DoSend, SendDone, TooBig, Cancel
<1>2. msgsc' \in Seq(Payload)
  BY <1>0 DEF TypeChans, DoSend, SendDone, TooBig, Cancel
<1>3. maxFlows' \in Nat
  BY <1>0, ShrunkType DEF TypeChans, DoSend, SendDone, TooBig, Cancel
<1>4. TypeChans'
  BY <1>0, <1>2, <1>3 DEF TypeChans, DoSend, SendDone, TooBig, Cancel
<1> QED
  BY <1>0, <1>1, <1>4, SameReqs, SameThreads, SameCounts DEF TypeOK

-----------------------------------------------------------------------------
(* The balance of objects and the balance of flows.                        *)

\* The terms of the balances are natural numbers.
LEMMA Numbers ==
  ASSUME TypeOK, NEW i \in Threads
  PROVE  /\ pool[i] \in Nat /\ given[i] \in Nat
         /\ Queued(i) \in Nat /\ Batched(i) \in Nat
         /\ Holding(i) \in Nat /\ InHand(i) \in Nat
         /\ lost[i] \in Nat /\ extra[i] \in Nat /\ acc[i] \in Nat
         /\ out[i] \in Nat /\ dropped[i] \in Nat /\ tossed[i] \in Nat
<1>1. pool[i] \in Nat /\ Queued(i) \in Nat
  BY AlphaAssumption DEF TypeOK, TypeChans, Queued
<1>2. Batched(i) \in Nat /\ given[i] \in Nat
  BY DEF TypeOK, TypeThreads, Batched
<1>3. Holding(i) \in Nat /\ InHand(i) \in Nat
  BY DEF Holding, InHand
<1> QED
  BY <1>1, <1>2, <1>3 DEF TypeOK, TypeCounts

\* Only finitely many requests borrow objects.
LEMMA SomeRequests ==
  ASSUME NEW S \in SUBSET Requests
  PROVE  IsFiniteSet(S) /\ Cardinality(S) \in Nat
  BY AlphaAssumption, FS_Subset, FS_CardinalityType

LEMMA BorrowersFinite ==
  IsFiniteSet(Borrowers) /\ Cardinality(Borrowers) \in Nat
  BY SomeRequests DEF Borrowers

\* A thread's step neither borrows nor returns an object of a request.
LEMMA BorrowedSame ==
  ASSUME UNCHANGED <<rpc, leaked>>
  PROVE  \A i \in Threads : Borrowed(i)' = Borrowed(i)
<1>1. Borrowers' = Borrowers
  BY DEF Borrowers
<1> QED
  BY <1>1 DEF Borrowed

LEMMA BorrowedNat ==
  ASSUME TypeOK PROVE \A i \in Threads : Borrowed(i) \in Nat
  BY BorrowersFinite DEF Borrowed, TypeOK, TypeCounts

LEMMA ControlInit == Init => Control
  BY DEF Init, Control

LEMMA BalanceInit == Init => ObjectsConserved /\ FlowsAccounted
<1> SUFFICES ASSUME Init PROVE ObjectsConserved /\ FlowsAccounted
  OBVIOUS
<1>1. Borrowers = {}
  BY DEF Init, Borrowers
<1>2. \A i \in Threads : Borrowed(i) = 0
  BY <1>1, FS_EmptySet DEF Borrowed, Init
<1>3. \A i \in Threads : /\ Queued(i) = 0 /\ Batched(i) = 0
                         /\ Holding(i) = 0 /\ InHand(i) = 0
  BY DEF Init, Queued, Batched, Holding, InHand
<1>4. ObjectsConserved /\ FlowsAccounted
  BY <1>2, <1>3, AlphaAssumption DEF Init, ObjectsConserved, FlowsAccounted
<1> QED
  BY <1>4

\* Threads step from one control point to another as Control says.
LEMMA ControlThread ==
  ASSUME TypeOK, Control, NEW i \in Threads, ThreadNext(i)
  PROVE  Control'
<1> SUFFICES ASSUME NEW j \in Threads
             PROVE  /\ pc'[j] \in {"take", "convert", "requeue"} => f'[j] # NoFlow
                    /\ pc'[j] \in {"select", "toss", "done"} => f'[j] = NoFlow
                    /\ given'[j] <= Len(msgs'[j])
                    /\ pc'[j] # "give" => given'[j] = 0
  BY DEF Control
<1>0. /\ pc \in [Threads -> PCs] /\ f \in [Threads -> Cids \cup {NoFlow}]
      /\ msgs \in [Threads -> Seq(Cids \cup {NoCid})]
      /\ given \in [Threads -> Nat]
  BY DEF TypeOK, TypeThreads
<1>1. /\ pc[j] \in {"take", "convert", "requeue"} => f[j] # NoFlow
      /\ pc[j] \in {"select", "toss", "done"} => f[j] = NoFlow
      /\ given[j] <= Len(msgs[j])
      /\ pc[j] # "give" => given[j] = 0
  BY DEF Control
<1> USE DEF Goto, batchVars
<1>2. CASE Receive(i)
  <2>1. alpha[i] \in Seq(Cids) /\ Cids \subseteq Nat
    BY AlphaAssumption DEF TypeOK, TypeChans
  <2>2. Head(alpha[i]) # NoFlow
    BY <1>2, <2>1 DEF Receive
  <2> QED
    BY <1>0, <1>1, <1>2, <2>2 DEF Receive
<1>3. CASE Take(i) \/ Tick(i)
  BY <1>0, <1>1, <1>3 DEF Take, Tick, CallSendBytesOn, Return
<1>4. CASE Reject(i) \/ Toss(i) \/ Requeue(i) \/ Finish(i)
  BY <1>0, <1>1, <1>4 DEF Reject, Toss, Requeue, Finish
<1>5. CASE Batch(i)
  <2>1. Len(Append(msgs[i], f[i])) = Len(msgs[i]) + 1
    BY <1>0
  <2> QED
    BY <1>0, <1>1, <1>5, <2>1 DEF Batch
<1>6. CASE Send(i)
  <2>1. PICK m \in Enriched(msgs[i]) : \E K \in Kept(m) : Prepare(i, m, K)
    BY <1>6 DEF Send
  <2>2. PICK K \in Kept(m) : Prepare(i, m, K)
    BY <2>1
  <2>3. Len(m) \in Nat
    BY <1>0, EnrichedType
  <2>4. /\ msgs' = [msgs EXCEPT ![i] = m] /\ given' = given /\ f' = f
        /\ \E l \in {"give", "ship"} : pc' = [pc EXCEPT ![i] = l]
    BY <1>6, <2>2 DEF Send, Prepare
  <2> QED
    BY <1>0, <1>1, <1>6, <2>3, <2>4 DEF Send
<1>7. CASE Ship(i)
  <2>1. /\ msgs' = msgs /\ given' = given /\ f' = f
        /\ \E l \in {"give", "ship"} : pc' = [pc EXCEPT ![i] = l]
    BY <1>7 DEF Ship
  <2> QED
    BY <1>0, <1>1, <1>7, <2>1 DEF Ship
<1>8. CASE Give(i)
  BY <1>0, <1>1, <1>8 DEF Give
<1>9. CASE GiveDone(i)
  BY <1>0, <1>1, <1>9 DEF GiveDone, Return
<1> QED
  BY <1>2, <1>3, <1>4, <1>5, <1>6, <1>7, <1>8, <1>9 DEF ThreadNext

\* A thread's step moves objects between its free list, its hands and its
\* batch, or hands the batch to the enricher; it moves flows likewise.
LEMMA BalanceThread ==
  ASSUME IInv, NEW i \in Threads, ThreadNext(i)
  PROVE  ObjectsConserved' /\ FlowsAccounted'
<1> SUFFICES ASSUME NEW j \in Threads
             PROVE  /\ pool'[j] + InHand(j)' + Batched(j)' + Borrowed(j)' + lost'[j]
                          = PoolCap + extra'[j] + given'[j]
                    /\ acc'[j] + extra'[j] =
                         Queued(j)' + Holding(j)' + Batched(j)'
                           + out'[j] + dropped'[j] + tossed'[j] + lost'[j]
  BY DEF ObjectsConserved, FlowsAccounted
<1>a. TypeOK /\ Control
  BY DEF IInv
<1>b. /\ pool[j] \in Nat /\ given[j] \in Nat
      /\ Queued(j) \in Nat /\ Batched(j) \in Nat
      /\ Holding(j) \in Nat /\ InHand(j) \in Nat
      /\ lost[j] \in Nat /\ extra[j] \in Nat /\ acc[j] \in Nat
      /\ out[j] \in Nat /\ dropped[j] \in Nat /\ tossed[j] \in Nat
      /\ Borrowed(j) \in Nat /\ PoolCap \in Nat
  BY <1>a, Numbers, BorrowedNat, AlphaAssumption
<1>k. pool[j] + InHand(j) + Batched(j) + Borrowed(j) + lost[j]
         = PoolCap + extra[j] + given[j]
  BY DEF IInv, ObjectsConserved
<1>l. acc[j] + extra[j] =
        Queued(j) + Holding(j) + Batched(j)
          + out[j] + dropped[j] + tossed[j] + lost[j]
  BY DEF IInv, FlowsAccounted
<1>d. Borrowed(j)' = Borrowed(j)
  <2>1. UNCHANGED <<rpc, leaked>>
    BY DEF ThreadNext, Receive, Take, Reject, Toss, Batch, Tick, Send, Ship,
           Give, GiveDone, Requeue, Finish, reqVars, countVars
  <2> QED
    BY <2>1, BorrowedSame
<1>e. /\ pc \in [Threads -> PCs] /\ f \in [Threads -> Cids \cup {NoFlow}]
      /\ msgs \in [Threads -> Seq(Cids \cup {NoCid})]
      /\ alpha \in [Threads -> Seq(Cids)]
      /\ given \in [Threads -> Nat] /\ pool \in [Threads -> 0 .. PoolCap]
  BY <1>a DEF TypeOK, TypeThreads, TypeChans
<1>f. /\ acc \in [Threads -> Nat] /\ out \in [Threads -> Nat]
      /\ dropped \in [Threads -> Nat] /\ tossed \in [Threads -> Nat]
      /\ lost \in [Threads -> Nat] /\ extra \in [Threads -> Nat]
  BY <1>a DEF TypeOK, TypeCounts
<1>g. /\ pc[i] \in {"take", "convert", "requeue"} => f[i] # NoFlow
      /\ pc[i] \in {"select", "toss", "done"} => f[i] = NoFlow
      /\ pc[i] # "give" => given[i] = 0
  BY <1>a DEF Control
<1> USE DEF Goto, batchVars, countVars
<1>1. CASE j # i
  <2>1. /\ pc'[j] = pc[j] /\ f'[j] = f[j] /\ msgs'[j] = msgs[j]
        /\ given'[j] = given[j] /\ pool'[j] = pool[j] /\ alpha'[j] = alpha[j]
    BY <1>1, <1>e DEF ThreadNext, Receive, Take, Reject, Toss, Batch, Tick,
       Send, Prepare, Ship, Give, GiveDone, Requeue, Finish, CallSendBytesOn
  <2>2. /\ acc'[j] = acc[j] /\ out'[j] = out[j] /\ dropped'[j] = dropped[j]
        /\ tossed'[j] = tossed[j] /\ lost'[j] = lost[j] /\ extra'[j] = extra[j]
    BY <1>1, <1>f DEF ThreadNext, Receive, Take, Reject, Toss, Batch, Tick,
       Send, Prepare, Ship, Give, GiveDone, Requeue, Finish
  <2>3. /\ Queued(j)' = Queued(j) /\ Batched(j)' = Batched(j)
        /\ Holding(j)' = Holding(j) /\ InHand(j)' = InHand(j)
    BY <2>1 DEF Queued, Batched, Holding, InHand
  <2> QED
    BY <1>b, <1>k, <1>l, <1>d, <2>1, <2>2, <2>3
<1>2. CASE j = i
  <2>1. CASE Receive(i)
    <3>0. /\ Head(alpha[i]) # NoFlow
          /\ Len(Tail(alpha[i])) = Len(alpha[i]) - 1
      <4>1. Cids \subseteq Nat
        BY AlphaAssumption
      <4> QED
        BY <1>e, <2>1, <4>1 DEF Receive
    <3>1. /\ Queued(j)' = Queued(j) - 1 /\ Holding(j) = 0 /\ Holding(j)' = 1
          /\ InHand(j)' = InHand(j) /\ Batched(j)' = Batched(j)
          /\ UNCHANGED <<pool, given, acc, out, dropped, tossed, lost, extra>>
      BY <2>1, <1>2, <1>e, <1>g, <3>0 DEF Receive, Queued, Batched, Holding, InHand
    <3> QED
      BY <1>b, <1>k, <1>l, <1>d, <3>1
  <2>2. CASE Take(i)
    <3>1. /\ InHand(j) = 0
          /\ \/ pool'[j] = pool[j] - 1 /\ InHand(j)' = 1
             \/ pool'[j] = pool[j] /\ InHand(j)' = 0
          /\ Queued(j)' = Queued(j) /\ Batched(j)' = Batched(j) /\ Holding(j)' = Holding(j)
          /\ UNCHANGED <<given, acc, out, dropped, tossed, lost, extra>>
      BY <2>2, <1>2, <1>e DEF Take, CallSendBytesOn, Return, Queued, Batched, Holding, InHand
    <3> QED
      BY <1>b, <1>k, <1>l, <1>d, <3>1
  <2>3. CASE Reject(i)
    <3>1. /\ Holding(j) = 1 /\ Holding(j)' = 0 /\ tossed'[j] = tossed[j] + 1
          /\ Queued(j)' = Queued(j) /\ Batched(j)' = Batched(j) /\ InHand(j)' = InHand(j)
          /\ UNCHANGED <<pool, given, acc, out, dropped, lost, extra>>
      BY <2>3, <1>2, <1>e, <1>f, <1>g DEF Reject, Queued, Batched, Holding, InHand
    <3> QED
      BY <1>b, <1>k, <1>l, <1>d, <3>1
  <2>4. CASE Toss(i)
    <3>1. /\ pool'[j] = pool[j] + 1 /\ InHand(j) = 1 /\ InHand(j)' = 0
          /\ Queued(j)' = Queued(j) /\ Batched(j)' = Batched(j) /\ Holding(j)' = Holding(j)
          /\ UNCHANGED <<given, acc, out, dropped, tossed, lost, extra>>
      BY <2>4, <1>2, <1>e DEF Toss, Queued, Batched, Holding, InHand
    <3> QED
      BY <1>b, <1>k, <1>l, <1>d, <3>1
  <2>5. CASE Batch(i)
    <3>0. Len(Append(msgs[i], f[i])) = Len(msgs[i]) + 1
      BY <1>e
    <3>1. /\ InHand(j) = 1 /\ InHand(j)' = 0 /\ Holding(j) = 1 /\ Holding(j)' = 0
          /\ Batched(j)' = Batched(j) + 1 /\ Queued(j)' = Queued(j)
          /\ UNCHANGED <<pool, given, acc, out, dropped, tossed, lost, extra>>
      BY <2>5, <1>2, <1>e, <1>g, <3>0 DEF Batch, Queued, Batched, Holding, InHand
    <3> QED
      BY <1>b, <1>k, <1>l, <1>d, <3>1
  <2>6. CASE Tick(i)
    <3>1. /\ InHand(j)' = InHand(j) /\ Holding(j)' = Holding(j)
          /\ Queued(j)' = Queued(j) /\ Batched(j)' = Batched(j)
          /\ UNCHANGED <<pool, given, acc, out, dropped, tossed, lost, extra>>
      BY <2>6, <1>2, <1>e DEF Tick, CallSendBytesOn, Return, Queued, Batched, Holding, InHand
    <3> QED
      BY <1>b, <1>k, <1>l, <1>d, <3>1
  <2>7. CASE Send(i)
    <3>m. PICK m \in Enriched(msgs[i]) : \E K \in Kept(m) : Prepare(i, m, K)
      BY <2>7 DEF Send
    <3>k. PICK K \in Kept(m) : Prepare(i, m, K)
      BY <3>m
    <3>n. Len(m) \in Nat /\ Len(msgs[j]) \in Nat
      BY <1>e, EnrichedType
    <3>l. PICK less \in Int : less = Len(msgs[j]) - Len(m)
      BY <3>n, SMTT(30)
    <3>1. Batched(j)' = Batched(j) - less
      BY <1>2, <1>e, <3>k, <3>l, <3>n DEF Prepare, Batched
    <3>2. /\ lost'[j] = IF less > 0 THEN lost[j] + less ELSE lost[j]
          /\ extra'[j] = IF less < 0 THEN extra[j] - less ELSE extra[j]
      BY <1>2, <1>f, <3>k, <3>l DEF Prepare
    <3>3. /\ InHand(j)' = InHand(j) /\ Holding(j)' = Holding(j)
          /\ Queued(j)' = Queued(j)
          /\ UNCHANGED <<pool, given, acc, out, dropped, tossed>>
      BY <1>2, <1>e, <2>7, <3>k DEF Send, Prepare, InHand, Holding, Queued
    <3>4. CASE less > 0
      BY <1>b, <1>k, <1>l, <1>d, <3>1, <3>2, <3>3, <3>4
    <3>5. CASE less < 0
      BY <1>b, <1>k, <1>l, <1>d, <3>1, <3>2, <3>3, <3>5
    <3>6. CASE less = 0
      BY <1>b, <1>k, <1>l, <1>d, <3>1, <3>2, <3>3, <3>6
    <3> QED
      BY <3>4, <3>5, <3>6
  <2>8. CASE Ship(i)
    <3>1. /\ InHand(j)' = InHand(j) /\ Holding(j)' = Holding(j)
          /\ Queued(j)' = Queued(j) /\ Batched(j)' = Batched(j)
          /\ UNCHANGED <<pool, given, acc, out, dropped, tossed, lost, extra>>
      BY <2>8, <1>2, <1>e DEF Ship, Queued, Batched, Holding, InHand
    <3> QED
      BY <1>b, <1>k, <1>l, <1>d, <3>1
  <2>9. CASE Give(i)
    <3>1. /\ pool'[j] = pool[j] + 1 /\ given'[j] = given[j] + 1
          /\ InHand(j)' = InHand(j) /\ Holding(j)' = Holding(j)
          /\ Queued(j)' = Queued(j) /\ Batched(j)' = Batched(j)
          /\ UNCHANGED <<acc, out, dropped, tossed, lost, extra>>
      BY <2>9, <1>2, <1>e DEF Give, Queued, Batched, Holding, InHand
    <3>4. pool'[j] + InHand(j)' + Batched(j)' + Borrowed(j)' + lost'[j]
              = PoolCap + extra'[j] + given'[j]
      BY <1>b, <1>k, <1>d, <3>1
    <3>5. acc'[j] + extra'[j] =
              Queued(j)' + Holding(j)' + Batched(j)'
                + out'[j] + dropped'[j] + tossed'[j] + lost'[j]
      BY <1>b, <1>l, <3>1
    <3> QED
      BY <3>4, <3>5
  <2>10. CASE GiveDone(i)
    <3>1. /\ given[j] = Batched(j) /\ given'[j] = 0 /\ Batched(j)' = 0
          /\ out'[j] = out[j] + Batched(j)
          /\ InHand(j)' = InHand(j) /\ Holding(j)' = Holding(j) /\ Queued(j)' = Queued(j)
          /\ UNCHANGED <<pool, acc, dropped, tossed, lost, extra>>
      BY <2>10, <1>2, <1>e, <1>f DEF GiveDone, Return, Queued, Batched, Holding, InHand
    <3>4. pool'[j] + InHand(j)' + Batched(j)' + Borrowed(j)' + lost'[j]
              = PoolCap + extra'[j] + given'[j]
      BY <1>b, <1>k, <1>d, <3>1
    <3>5. acc'[j] + extra'[j] =
              Queued(j)' + Holding(j)' + Batched(j)'
                + out'[j] + dropped'[j] + tossed'[j] + lost'[j]
      BY <1>b, <1>l, <3>1
    <3> QED
      BY <3>4, <3>5
  <2>11. CASE Requeue(i)
    <3>0. Len(Append(alpha[i], f[i])) = Len(alpha[i]) + 1
      BY <1>e
    <3>1. /\ Holding(j) = 1 /\ Holding(j)' = 0
          /\ \/ Queued(j)' = Queued(j) + 1 /\ dropped'[j] = dropped[j]
             \/ Queued(j)' = Queued(j) /\ dropped'[j] = dropped[j] + 1
          /\ InHand(j)' = InHand(j) /\ Batched(j)' = Batched(j)
          /\ UNCHANGED <<pool, given, acc, out, tossed, lost, extra>>
      BY <2>11, <1>2, <1>e, <1>f, <1>g, <3>0 DEF Requeue, Queued, Batched, Holding, InHand
    <3> QED
      BY <1>b, <1>k, <1>l, <1>d, <3>1
  <2>12. CASE Finish(i)
    <3>1. /\ InHand(j)' = InHand(j) /\ Holding(j)' = Holding(j)
          /\ Queued(j)' = Queued(j) /\ Batched(j)' = Batched(j)
          /\ UNCHANGED <<pool, given, acc, out, dropped, tossed, lost, extra>>
      BY <2>12, <1>2, <1>e DEF Finish, Queued, Batched, Holding, InHand
    <3> QED
      BY <1>b, <1>k, <1>l, <1>d, <3>1
  <2> QED
    BY <2>1, <2>2, <2>3, <2>4, <2>5, <2>6, <2>7, <2>8, <2>9, <2>10, <2>11,
       <2>12 DEF ThreadNext
<1> QED
  BY <1>1, <1>2

\* The number of borrowers when the request r starts to borrow, or stops.
LEMMA BorrowersGrow ==
  ASSUME TypeOK, NEW r \in Requests, r \notin Borrowers,
         Borrowers' = Borrowers \cup {r}
  PROVE  Cardinality(Borrowers)' = Cardinality(Borrowers) + 1
<1>1. IsFiniteSet(Borrowers) /\ Cardinality(Borrowers) \in Nat
  BY BorrowersFinite
<1>2. Cardinality(Borrowers \cup {r}) = Cardinality(Borrowers) + 1
  BY <1>1, FS_AddElement
<1> QED
  BY <1>2

LEMMA BorrowersShrink ==
  ASSUME TypeOK, NEW r \in Requests, r \in Borrowers,
         Borrowers' = Borrowers \ {r}
  PROVE  Cardinality(Borrowers)' = Cardinality(Borrowers) - 1
<1>1. IsFiniteSet(Borrowers) /\ Cardinality(Borrowers) \in Nat
  BY BorrowersFinite
<1>2. Cardinality(Borrowers \ {r}) = Cardinality(Borrowers) - 1
  BY <1>1, FS_RemoveElement
<1> QED
  BY <1>2

\* A request moves objects between free list 0 and its hands, and delivers
\* flows to the queues.
LEMMA BalanceRequest ==
  ASSUME IInv, NEW r \in Requests, RequestNext(r)
  PROVE  Control' /\ ObjectsConserved' /\ FlowsAccounted'
<1> USE DEF batchVars, countVars, ReqGoto
<1>a. TypeOK /\ Control /\ ObjectsConserved /\ FlowsAccounted
  BY DEF IInv
<1>b. /\ rpc \in [Requests -> ReqPCs] /\ leaked \in Nat
      /\ pool \in [Threads -> 0 .. PoolCap]
  BY <1>a DEF TypeOK, TypeReqs, TypeCounts, TypeChans
<1>i. 0 \in Threads /\ PoolCap \in Nat
  BY AlphaAssumption
<1>c. UNCHANGED <<pc, f, msgs, given>>
  BY DEF RequestNext, StartFlows, SkipBig, HandleFlow, JsonTake, JsonBad,
         JsonFormat, JsonGive, JsonEmit
<1>d. Control'
  BY <1>a, <1>c DEF Control
<1>e. \A j \in Threads : /\ Batched(j)' = Batched(j) /\ InHand(j)' = InHand(j)
                         /\ Holding(j)' = Holding(j)
  BY <1>c DEF Batched, InHand, Holding
<1>f. UNCHANGED <<out, dropped, tossed, lost, extra>>
  BY DEF RequestNext, StartFlows, SkipBig, HandleFlow, JsonTake, JsonBad,
         JsonFormat, JsonGive, JsonEmit
<1>g. FlowsAccounted'
  <2> SUFFICES ASSUME NEW j \in Threads
               PROVE  acc'[j] + extra'[j] =
                        Queued(j)' + Holding(j)' + Batched(j)'
                          + out'[j] + dropped'[j] + tossed'[j] + lost'[j]
    BY DEF FlowsAccounted
  <2>1. acc[j] + extra[j] = Queued(j) + Holding(j) + Batched(j)
                              + out[j] + dropped[j] + tossed[j] + lost[j]
    BY <1>a DEF FlowsAccounted
  <2>2. /\ Queued(j) \in Nat /\ Batched(j) \in Nat /\ Holding(j) \in Nat
        /\ lost[j] \in Nat /\ extra[j] \in Nat /\ acc[j] \in Nat
        /\ out[j] \in Nat /\ dropped[j] \in Nat /\ tossed[j] \in Nat
    BY <1>a, Numbers
  <2>3. CASE HandleFlow(r)
    <3>1. next[r] \in Threads /\ alpha \in [Threads -> Seq(Cids)]
          /\ cid[r] \in Cids /\ acc \in [Threads -> Nat]
      BY <1>a, <2>3 DEF TypeOK, TypeReqs, TypeChans, TypeCounts, HandleFlow
    <3>2. Len(Append(alpha[next[r]], cid[r])) = Len(alpha[next[r]]) + 1
      BY <3>1
    <3>3. \/ /\ alpha' = [alpha EXCEPT ![next[r]] = Append(@, cid[r])]
             /\ acc' = [acc EXCEPT ![next[r]] = @ + 1]
          \/ alpha' = alpha /\ acc' = acc
      BY <2>3 DEF HandleFlow
    <3>4. \/ Queued(j)' = Queued(j) + 1 /\ acc'[j] = acc[j] + 1
          \/ Queued(j)' = Queued(j) /\ acc'[j] = acc[j]
      BY <3>1, <3>2, <3>3 DEF Queued
    <3> QED
      BY <1>e, <1>f, <2>1, <2>2, <3>4
  <2>4. CASE ~HandleFlow(r)
    <3>1. UNCHANGED <<alpha, acc>>
      BY <2>4 DEF RequestNext, StartFlows, SkipBig, JsonTake, JsonBad,
                  JsonFormat, JsonGive, JsonEmit
    <3>2. Queued(j)' = Queued(j)
      BY <3>1 DEF Queued
    <3> QED
      BY <1>e, <1>f, <2>1, <3>1, <3>2
  <2> QED
    BY <2>3, <2>4
<1>h. ObjectsConserved'
  <2> SUFFICES ASSUME NEW j \in Threads
               PROVE  pool'[j] + InHand(j)' + Batched(j)' + Borrowed(j)' + lost'[j]
                        = PoolCap + extra'[j] + given'[j]
    BY DEF ObjectsConserved
  <2>1. pool[j] + InHand(j) + Batched(j) + Borrowed(j) + lost[j]
          = PoolCap + extra[j] + given[j]
    BY <1>a DEF ObjectsConserved
  <2>2. /\ pool[j] \in Nat /\ given[j] \in Nat /\ Batched(j) \in Nat
        /\ InHand(j) \in Nat /\ lost[j] \in Nat /\ extra[j] \in Nat
        /\ Borrowed(j) \in Nat /\ Cardinality(Borrowers) \in Nat
    BY <1>a, Numbers, BorrowedNat, BorrowersFinite
  <2>3. pool'[j] + Borrowed(j)' = pool[j] + Borrowed(j) /\ pool'[j] \in Nat
        /\ Borrowed(j)' \in Nat
    <3>a. TypeOK'
      BY <1>a, TypeRequest
    <3>b. pool'[j] \in Nat
      BY <1>i, <3>a DEF TypeOK, TypeChans
    <3>c. (Cardinality(Borrowers) \in Nat)'
      BY SomeRequests DEF Borrowers
    <3>d. Borrowed(j)' \in Nat
      BY <3>a, <3>c DEF Borrowed, TypeOK, TypeCounts
    <3>1. CASE StartFlows(r) \/ SkipBig(r) \/ HandleFlow(r) \/ JsonEmit(r)
               \/ JsonFormat(r) \/ (JsonTake(r) /\ rpc' = rpc)
      <4>1. UNCHANGED <<pool, leaked>>
        BY <3>1, <1>b DEF StartFlows, SkipBig, HandleFlow, JsonEmit, JsonFormat,
                    JsonTake, ReqPCs
      <4>2. Borrowers' = Borrowers
        BY <1>b, <3>1 DEF StartFlows, SkipBig, HandleFlow, JsonEmit, JsonFormat,
                    JsonTake, OneMessageLess, Borrowers
      <4> QED
        BY <3>b, <3>d, <4>1, <4>2 DEF Borrowed
    <3>2. CASE JsonTake(r) /\ rpc' # rpc
      <4>1. /\ pool' = [pool EXCEPT ![0] = @ - 1] /\ leaked' = leaked
            /\ rpc' = [rpc EXCEPT ![r] = "json"] /\ rpc[r] = "idle"
        BY <3>2 DEF JsonTake
      <4>2. r \notin Borrowers /\ Borrowers' = Borrowers \cup {r}
        BY <1>b, <4>1 DEF Borrowers
      <4>3. Cardinality(Borrowers)' = Cardinality(Borrowers) + 1
        BY <1>a, <4>2, BorrowersGrow
      <4> QED
        BY <1>b, <1>i, <2>2, <3>b, <3>d, <4>1, <4>3 DEF Borrowed
    <3>3. CASE JsonBad(r)
      <4>1. /\ pool' = pool /\ leaked' = leaked + 1
            /\ rpc' = [rpc EXCEPT ![r] = "idle"] /\ rpc[r] = "json"
        BY <3>3 DEF JsonBad
      <4>2. r \in Borrowers /\ Borrowers' = Borrowers \ {r}
        BY <1>b, <4>1 DEF Borrowers
      <4>3. Cardinality(Borrowers)' = Cardinality(Borrowers) - 1
        BY <1>a, <4>2, BorrowersShrink
      <4> QED
        BY <1>b, <1>i, <2>2, <3>b, <3>d, <4>1, <4>3 DEF Borrowed
    <3>4. CASE JsonGive(r)
      <4>1. /\ pool' = [pool EXCEPT ![0] = @ + 1] /\ leaked' = leaked
            /\ \E l \in {"emit", "idle"} : rpc' = [rpc EXCEPT ![r] = l]
            /\ rpc[r] \in {"back", "backErr"}
        BY <3>4 DEF JsonGive
      <4>2. r \in Borrowers /\ Borrowers' = Borrowers \ {r}
        BY <1>b, <4>1 DEF Borrowers
      <4>3. Cardinality(Borrowers)' = Cardinality(Borrowers) - 1
        BY <1>a, <4>2, BorrowersShrink
      <4> QED
        BY <1>b, <1>i, <2>2, <3>b, <3>d, <4>1, <4>3 DEF Borrowed
    <3> QED
      BY <3>1, <3>2, <3>3, <3>4 DEF RequestNext
  <2> QED
    BY <1>c, <1>e, <1>f, <2>1, <2>2, <2>3
<1> QED
  BY <1>d, <1>g, <1>h

\* The other goroutines touch neither objects nor flows.
LEMMA BalanceSame ==
  ASSUME IInv, UNCHANGED <<rpc, alpha, pool, pc, f, msgs, given, countVars>>
  PROVE  Control' /\ ObjectsConserved' /\ FlowsAccounted'
<1>1. \A j \in Threads : Borrowed(j)' = Borrowed(j)
  BY BorrowedSame DEF countVars
<1> QED
  BY <1>1 DEF IInv, Control, ObjectsConserved, FlowsAccounted, countVars,
              Queued, Batched, Holding, InHand

-----------------------------------------------------------------------------
LEMMA Inductive == IInv /\ [Next]_vars => IInv'
<1> SUFFICES ASSUME IInv, [Next]_vars PROVE IInv'
  OBVIOUS
<1>0. TypeOK /\ Control
  BY DEF IInv
<1>1. CASE \E r \in Requests : RequestNext(r)
  BY <1>0, <1>1, TypeRequest, BalanceRequest DEF IInv
<1>2. CASE \E i \in Threads : ThreadNext(i)
  <2>1. PICK i \in Threads : ThreadNext(i)
    BY <1>2
  <2>2. TypeOK'
    BY <1>0, <2>1, TypeThread DEF Control
  <2>3. Control'
    BY <1>0, <2>1, ControlThread
  <2> QED
    BY <2>1, <2>2, <2>3, BalanceThread DEF IInv
<1>3. CASE DoSend \/ SendDone \/ TooBig \/ Cancel
  <2>1. UNCHANGED <<rpc, alpha, pool, pc, f, msgs, given, countVars>>
    BY <1>3 DEF DoSend, SendDone, TooBig, Cancel, reqVars, batchVars
  <2> QED
    BY <1>0, <1>3, <2>1, TypeAgent, BalanceSame DEF IInv
<1>4. CASE UNCHANGED vars
  <2>1. TypeOK'
    BY <1>0, <1>4, SameReqs, SameThreads, SameChans, SameCounts
       DEF TypeOK, vars, batchVars
  <2> QED
    BY <1>4, <2>1, BalanceSame DEF IInv, vars, reqVars, batchVars
<1> QED
  BY <1>1, <1>2, <1>3, <1>4 DEF Next

LEMMA Invariance == Spec => []IInv
<1>1. Init => IInv
  BY TypeInit, ControlInit, BalanceInit DEF IInv
<1> QED
  BY <1>1, Inductive, PTL DEF Spec

\* The types of kentik.go's state hold in every behaviour.
THEOREM TypeCorrect == Spec => []TypeOK
<1>1. IInv => TypeOK
  BY DEF IInv
<1> QED
  BY <1>1, Invariance, PTL

\* No object of a free list is duplicated or forgotten, whatever the number
\* of threads and requests, the capacities, and the enricher's answers.
THEOREM ObjectsAreConserved == Spec => []ObjectsConserved
<1>1. IInv => ObjectsConserved
  BY DEF IInv
<1> QED
  BY <1>1, Invariance, PTL

\* Every accepted flow stays accounted for, and none is counted twice.
THEOREM FlowsAreAccounted == Spec => []FlowsAccounted
<1>1. IInv => FlowsAccounted
  BY DEF IInv
<1> QED
  BY <1>1, Invariance, PTL

\* Giving an object back to a free list never blocks a thread or a JSON
\* request unless the enricher added objects: the channel has room for every
\* object that is out.
THEOREM GiveBackIsSafe == Spec => []GiveBackNeverBlocks
<1>1. IInv => GiveBackNeverBlocks
  <2> SUFFICES ASSUME IInv, NEW i \in Threads, extra[i] = 0
               PROVE  /\ pc[i] = "toss" => pool[i] < PoolCap
                      /\ pc[i] = "give" /\ given[i] < Len(msgs[i])
                           => pool[i] < PoolCap
                      /\ i = 0 => \A r \in Requests :
                                    rpc[r] \in {"back", "backErr"}
                                      => pool[0] < PoolCap
    BY DEF GiveBackNeverBlocks
  <2>a. TypeOK /\ Control
    BY DEF IInv
  <2>1. pool[i] + InHand(i) + Batched(i) + Borrowed(i) + lost[i]
          = PoolCap + extra[i] + given[i]
    BY DEF IInv, ObjectsConserved
  <2>2. /\ pool[i] \in Nat /\ given[i] \in Nat /\ Batched(i) \in Nat
        /\ InHand(i) \in Nat /\ lost[i] \in Nat /\ extra[i] \in Nat
        /\ Borrowed(i) \in Nat /\ PoolCap \in Nat
    BY <2>a, Numbers, BorrowedNat, AlphaAssumption
  <2>3. given[i] <= Batched(i)
    BY <2>a DEF Control, Batched
  <2>4. ASSUME pc[i] = "toss" PROVE pool[i] < PoolCap
    <3>1. InHand(i) = 1
      BY <2>4 DEF InHand
    <3> QED
      BY <2>1, <2>2, <2>3, <3>1
  <2>5. ASSUME pc[i] = "give", given[i] < Len(msgs[i]) PROVE pool[i] < PoolCap
    <3>1. given[i] < Batched(i)
      BY <2>5 DEF Batched
    <3> QED
      BY <2>1, <2>2, <3>1
  <2>6. ASSUME i = 0, NEW r \in Requests, rpc[r] \in {"back", "backErr"}
        PROVE  pool[0] < PoolCap
    <3>1. r \in Borrowers
      BY <2>6 DEF Borrowers
    <3>2. Cardinality(Borrowers) # 0 /\ Cardinality(Borrowers) \in Nat
      BY <3>1, BorrowersFinite, FS_EmptySet
    <3>3. leaked \in Nat
      BY <2>a DEF TypeOK, TypeCounts
    <3>4. Borrowed(i) > 0
      BY <2>6, <3>2, <3>3 DEF Borrowed
    <3> QED
      BY <2>1, <2>2, <2>3, <2>6, <3>4
  <2> QED
    BY <2>4, <2>5, <2>6
<1> QED
  BY <1>1, Invariance, PTL

-----------------------------------------------------------------------------
(* The company split.                                                      *)

\* The positions of company c among K, and its payload.
Of(m, K, c) == {k \in K : m[k] = c}
PayloadOf(m, K, c) == [cids |-> {c}, n |-> Cardinality(Of(m, K, c))]
Companies(m, K) == {m[k] : k \in K}

LEMMA OfCids == ASSUME NEW m, NEW K, NEW c \in Companies(m, K)
                PROVE  {m[k] : k \in Of(m, K, c)} = {c}
BY DEF Of, Companies

\* The payloads of a batch are one per company.
LEMMA SplitsForm ==
  ASSUME NEW m, NEW K PROVE Splits(m, K) = {PayloadOf(m, K, c) : c \in Companies(m, K)}
<1> DEFINE Rec(S) == [cids |-> {m[k] : k \in S}, n |-> Cardinality(S)]
<1>1. Splits(m, K) = {Rec(S) : S \in {Of(m, K, c) : c \in Companies(m, K)}}
  BY Zenon DEF Splits, Of, Companies
<1>2. \A c \in Companies(m, K) : Rec(Of(m, K, c)) = PayloadOf(m, K, c)
  BY OfCids DEF PayloadOf
<1> HIDE DEF Rec
<1> QED
  BY <1>1, <1>2, Zenon

\* Shipping the payload of one company leaves those of the others.
LEMMA SplitsLess ==
  ASSUME NEW m, NEW n \in Nat, NEW R \in SUBSET (1 .. n), NEW s \in Splits(m, R)
  PROVE  \E Q \in SUBSET R : /\ Splits(m, Q) = Splits(m, R) \ {s}
                             /\ s.n + Cardinality(Q) = Cardinality(R)
<1>1. PICK c \in Companies(m, R) : s = PayloadOf(m, R, c)
  BY SplitsForm
<1> DEFINE Q == R \ Of(m, R, c)
<1>2. Companies(m, Q) = Companies(m, R) \ {c}
  BY DEF Companies, Of
<1>3. ASSUME NEW d \in Companies(m, Q)
      PROVE  PayloadOf(m, Q, d) = PayloadOf(m, R, d) /\ PayloadOf(m, R, d) # s
  <2>1. d # c
    BY <1>2, <1>3
  <2>2. Of(m, Q, d) = Of(m, R, d)
    BY <2>1 DEF Of
  <2>3. PayloadOf(m, R, d).cids = {d} /\ s.cids = {c}
    BY <1>1 DEF PayloadOf
  <2> QED
    BY <2>1, <2>2, <2>3 DEF PayloadOf
<1> HIDE DEF Q
<1>4. Splits(m, Q) = Splits(m, R) \ {s}
  <2>1. Splits(m, Q) = {PayloadOf(m, Q, d) : d \in Companies(m, R) \ {c}}
    BY <1>2, SplitsForm
  <2>2. Splits(m, R) = {PayloadOf(m, R, d) : d \in Companies(m, R)}
    BY SplitsForm
  <2>3. \A d \in Companies(m, R) \ {c} :
           PayloadOf(m, Q, d) = PayloadOf(m, R, d) /\ PayloadOf(m, R, d) # s
    BY <1>2, <1>3
  <2> QED
    BY <1>1, <2>1, <2>2, <2>3, Zenon
<1>5. s.n + Cardinality(Q) = Cardinality(R)
  <2>1. IsFiniteSet(R) /\ IsFiniteSet(Of(m, R, c))
    <3>1. IsFiniteSet(1 .. n)
      BY FS_Interval
    <3>2. IsFiniteSet(R)
      BY <3>1, FS_Subset
    <3>3. Of(m, R, c) \in SUBSET R
      BY DEF Of
    <3> QED
      BY <3>2, <3>3, FS_Subset
  <2>2. Cardinality(R) \in Nat /\ Cardinality(Of(m, R, c)) \in Nat
    BY <2>1, FS_CardinalityType
  <2>3. R \cap Of(m, R, c) = Of(m, R, c)
    BY DEF Of
  <2>4. Cardinality(Q) = Cardinality(R) - Cardinality(Of(m, R, c))
    BY <2>1, <2>3, FS_Difference DEF Q
  <2>5. s.n = Cardinality(Of(m, R, c))
    BY <1>1 DEF PayloadOf
  <2> QED
    BY <2>2, <2>4, <2>5
<1>6. Q \in SUBSET R
  BY DEF Q
<1> QED
  BY <1>4, <1>5, <1>6

LEMMA SplitsOneCompany ==
  ASSUME NEW m, NEW K PROVE \A s \in Splits(m, K) : Cardinality(s.cids) = 1
<1> TAKE s \in Splits(m, K)
<1>1. PICK c \in Companies(m, K) : s = PayloadOf(m, K, c)
  BY SplitsForm
<1>2. s.cids = {c}
  BY <1>1 DEF PayloadOf
<1> QED
  BY <1>2, FS_Singleton

LEMMA SplitsEmpty ==
  ASSUME NEW m, NEW K PROVE Splits(m, K) = {} <=> K = {}
BY SplitsForm DEF Companies

\* While a batch is shipped its pending payloads are those of the positions R
\* that are left, and R and the shipped flows make up what is kept.
LeftToShip(i) ==
  \E R \in SUBSET (1 .. Len(msgs[i])) :
    /\ pend[i] = Splits(msgs[i], R)
    /\ shipped[i] + Cardinality(R) = Keep(Len(msgs[i]))

Shipping ==
  /\ \A i \in Threads :
       /\ pc[i] \notin {"ship", "give"} => shipped[i] = 0
       /\ IF pc[i] = "ship" THEN LeftToShip(i) ELSE pend[i] = {}
       /\ pc[i] = "give" /\ Export => shipped[i] = Keep(Len(msgs[i]))
  /\ \A k \in DOMAIN msgsc : Cardinality(msgsc[k].cids) = 1

LEMMA ShippingInit == Init => Shipping
BY DEF Init, Shipping

\* Threads whose batch a step leaves alone, and steps that leave all alone.
LEMMA ShippingFrame ==
  ASSUME Shipping, TypeOK, NEW i \in Threads,
         \A j \in Threads \ {i} : /\ pc'[j] = pc[j] /\ shipped'[j] = shipped[j]
                                  /\ pend'[j] = pend[j] /\ msgs'[j] = msgs[j],
         pc'[i] \notin {"ship", "give"} => shipped'[i] = 0,
         IF pc'[i] = "ship" THEN LeftToShip(i)' ELSE pend'[i] = {},
         pc'[i] = "give" /\ Export => shipped'[i] = Keep(Len(msgs'[i])),
         \A k \in DOMAIN msgsc' : Cardinality(msgsc'[k].cids) = 1
  PROVE  Shipping'
<1> SUFFICES ASSUME NEW j \in Threads, j # i
             PROVE  /\ pc'[j] \notin {"ship", "give"} => shipped'[j] = 0
                    /\ IF pc'[j] = "ship" THEN LeftToShip(j)' ELSE pend'[j] = {}
                    /\ pc'[j] = "give" /\ Export => shipped'[j] = Keep(Len(msgs'[j]))
  BY Zenon DEF Shipping
<1>1. LeftToShip(j) => LeftToShip(j)'
  BY DEF LeftToShip
<1> QED
  BY <1>1 DEF Shipping

\* A step that leaves the batches alone, or moves a thread among the places
\* where nothing is being shipped.
LEMMA ShippingSame ==
  ASSUME Shipping, TypeOK, UNCHANGED <<pend, shipped, msgsc>>,
         \A i \in Threads :
           \/ pc'[i] = pc[i] /\ msgs'[i] = msgs[i]
           \/ pc[i] \notin {"ship", "give"} /\ pc'[i] \notin {"ship", "give"}
  PROVE  Shipping'
<1>1. \A i \in Threads : pc'[i] = "ship" => (LeftToShip(i) => LeftToShip(i)')
  BY DEF LeftToShip, Shipping
<1> QED
  BY <1>1 DEF Shipping

LEMMA ShippingThread ==
  ASSUME IInv, Shipping, NEW i \in Threads, ThreadNext(i) PROVE Shipping'
<1> USE DEF batchVars, Goto
<1>a. TypeOK /\ pc \in [Threads -> PCs] /\ msgs \in [Threads -> Seq(Cids \cup {NoCid})]
      /\ pend \in [Threads -> SUBSET Payload] /\ shipped \in [Threads -> Nat]
  BY DEF IInv, TypeOK, TypeThreads, TypeCounts
<1>1. CASE Receive(i)
  BY <1>a, <1>1, ShippingSame DEF Receive
<1>2. CASE Take(i)
  BY <1>a, <1>2, ShippingSame DEF Take, CallSendBytesOn, Return
<1>3. CASE Reject(i)
  BY <1>a, <1>3, ShippingSame DEF Reject
<1>4. CASE Toss(i)
  BY <1>a, <1>4, ShippingSame DEF Toss
<1>5. CASE Batch(i)
  BY <1>a, <1>5, ShippingSame DEF Batch
<1>6. CASE Tick(i)
  BY <1>a, <1>6, ShippingSame DEF Tick, CallSendBytesOn, Return
<1>7. CASE Send(i)
  <2>1. PICK m \in Enriched(msgs[i]) : \E K \in Kept(m) : Prepare(i, m, K)
    BY <1>7 DEF Send
  <2>2. PICK K \in Kept(m) : Prepare(i, m, K)
    BY <2>1
  <2> DEFINE s == IF Export THEN Splits(m, K) ELSE {}
  <2>3. /\ pc[i] = "send" /\ msgs' = [msgs EXCEPT ![i] = m] /\ pend' = [pend EXCEPT ![i] = s]
        /\ pc' = [pc EXCEPT ![i] = IF s = {} THEN "give" ELSE "ship"]
        /\ UNCHANGED <<shipped, msgsc>>
    BY <1>7, <2>2 DEF Send, Prepare
  <2>4. K \in SUBSET (1 .. Len(m)) /\ Cardinality(K) = Keep(Len(m))
    BY DEF Kept
  <2>5. shipped'[i] = 0 /\ msgs'[i] = m /\ pend'[i] = s
        /\ pc'[i] = IF s = {} THEN "give" ELSE "ship"
    BY <1>a, <2>3 DEF Shipping
  <2>6. CASE s # {}
    <3>1. 0 + Cardinality(K) = Keep(Len(m))
      <4>1. Cardinality(K) \in Nat
        <5>1. IsFiniteSet(1 .. Len(m))
          BY <1>a, EnrichedType, FS_Interval
        <5> QED
          BY <2>4, <5>1, FS_Subset, FS_CardinalityType
      <4> QED
        BY <2>4, <4>1
    <3>2. pend'[i] = Splits(m, K) /\ pc'[i] = "ship"
      BY <2>5, <2>6
    <3>3. LeftToShip(i)'
      BY <2>4, <2>5, <3>1, <3>2 DEF LeftToShip
    <3> QED
      BY <1>a, <2>3, <2>5, <3>2, <3>3, ShippingFrame DEF Shipping
  <2>7. CASE s = {}
    <3>1. Export => Keep(Len(m)) = 0
      BY <2>4, <2>7, SplitsEmpty, FS_EmptySet
    <3>2. pc'[i] = "give" /\ pend'[i] = {}
      BY <2>5, <2>7
    <3> HIDE DEF s
    <3> QED
      BY <1>a, <2>3, <2>5, <3>1, <3>2, ShippingFrame DEF Shipping
  <2> QED
    BY <2>6, <2>7
<1>8. CASE Ship(i)
  <2>1. PICK s \in pend[i] :
          /\ msgsc' = Append(msgsc, s) \/ msgsc' = msgsc
          /\ pend' = [pend EXCEPT ![i] = @ \ {s}]
          /\ shipped' = [shipped EXCEPT ![i] = @ + s.n]
          /\ pc' = [pc EXCEPT ![i] = IF pend[i] = {s} THEN "give" ELSE "ship"]
    BY <1>8 DEF Ship
  <2>2. pc[i] = "ship" /\ msgs' = msgs
    BY <1>8 DEF Ship
  <2>3. PICK R \in SUBSET (1 .. Len(msgs[i])) :
          /\ pend[i] = Splits(msgs[i], R)
          /\ shipped[i] + Cardinality(R) = Keep(Len(msgs[i]))
    BY <2>2 DEF Shipping, LeftToShip
  <2>4. Len(msgs[i]) \in Nat /\ s \in Splits(msgs[i], R)
    BY <1>a, <2>3
  <2>5. PICK Q \in SUBSET R : /\ Splits(msgs[i], Q) = Splits(msgs[i], R) \ {s}
                              /\ s.n + Cardinality(Q) = Cardinality(R)
    BY <2>4, SplitsLess
  <2>6. s.n \in Nat /\ shipped[i] \in Nat /\ Cardinality(Q) \in Nat
    <3>1. IsFiniteSet(1 .. Len(msgs[i]))
      BY <2>4, FS_Interval
    <3>2. Q \in SUBSET (1 .. Len(msgs[i]))
      OBVIOUS
    <3>3. s \in Payload
      BY <1>a, <2>1
    <3> QED
      BY <1>a, <3>1, <3>2, <3>3, FS_Subset, FS_CardinalityType DEF Payload
  <2>7. /\ pend'[i] = Splits(msgs[i], Q) /\ shipped'[i] = shipped[i] + s.n
        /\ pc'[i] = (IF pend[i] = {s} THEN "give" ELSE "ship")
        /\ pend'[i] = pend[i] \ {s}
    BY <1>a, <2>1, <2>3, <2>5
  <2>8. shipped'[i] + Cardinality(Q) = Keep(Len(msgs[i]))
    BY <2>3, <2>5, <2>6, <2>7
  <2>9. LeftToShip(i)'
    <3>1. Q \in SUBSET (1 .. Len(msgs[i]))
      OBVIOUS
    <3> QED
      BY <2>2, <2>7, <2>8, <3>1 DEF LeftToShip
  <2>10. pc'[i] = "give" => pend'[i] = {} /\ shipped'[i] = Keep(Len(msgs[i]))
    <3> SUFFICES ASSUME pc'[i] = "give"
                 PROVE  pend'[i] = {} /\ shipped'[i] = Keep(Len(msgs[i]))
      OBVIOUS
    <3>1. pend'[i] = {}
      BY <2>7
    <3>2. Q = {}
      BY <2>7, <3>1, SplitsEmpty
    <3>3. Cardinality(Q) = 0
      BY <3>2, FS_EmptySet
    <3>4. shipped'[i] \in Nat
      BY <2>6, <2>7
    <3> QED
      BY <2>8, <3>1, <3>3, <3>4
  <2>11. \A k \in DOMAIN msgsc' : Cardinality(msgsc'[k].cids) = 1
    <3>1. Cardinality(s.cids) = 1
      BY <2>4, SplitsOneCompany
    <3>2. msgsc \in Seq(Payload) /\ s \in Payload
      BY <1>a, <2>1 DEF TypeOK, TypeChans
    <3>3. ASSUME msgsc' = Append(msgsc, s), NEW k \in DOMAIN msgsc'
          PROVE  msgsc'[k] = s \/ (k \in DOMAIN msgsc /\ msgsc'[k] = msgsc[k])
      BY <3>2, <3>3
    <3> QED
      BY <2>1, <3>1, <3>3 DEF Shipping
  <2>12. pc'[i] \in {"ship", "give"}
    BY <2>7
  <2>13. \A j \in Threads \ {i} : /\ pc'[j] = pc[j] /\ shipped'[j] = shipped[j]
                                  /\ pend'[j] = pend[j] /\ msgs'[j] = msgs[j]
    BY <1>a, <2>1, <2>2
  <2> QED
    BY <1>a, <2>2, <2>9, <2>10, <2>11, <2>12, <2>13, ShippingFrame
<1>9. CASE Give(i)
  BY <1>a, <1>9, ShippingSame DEF Give
<1>10. CASE GiveDone(i)
  <2>1. /\ pc[i] = "give" /\ pc' = [pc EXCEPT ![i] = Return(i)] /\ UNCHANGED <<pend, msgsc>>
        /\ shipped' = [shipped EXCEPT ![i] = 0] /\ msgs' = [msgs EXCEPT ![i] = <<>>]
    BY <1>10 DEF GiveDone
  <2>2. Return(i) \in {"select", "requeue"}
    BY DEF Return
  <2>3. pc'[i] \in {"select", "requeue"} /\ shipped'[i] = 0 /\ pend'[i] = {}
    BY <1>a, <2>1, <2>2 DEF Shipping
  <2>4. \A j \in Threads \ {i} : /\ pc'[j] = pc[j] /\ shipped'[j] = shipped[j]
                                  /\ pend'[j] = pend[j] /\ msgs'[j] = msgs[j]
    BY <1>a, <2>1
  <2> QED
    BY <1>a, <2>1, <2>3, <2>4, ShippingFrame DEF Shipping
<1>11. CASE Requeue(i)
  BY <1>a, <1>11, ShippingSame DEF Requeue
<1>12. CASE Finish(i)
  BY <1>a, <1>12, ShippingSame DEF Finish
<1> QED
  BY <1>1, <1>2, <1>3, <1>4, <1>5, <1>6, <1>7, <1>8, <1>9, <1>10, <1>11,
     <1>12 DEF ThreadNext

\* A batch is shipped whole and split by company, whatever the batch, the
\* sampling, the enricher's answer and the other threads: when its objects are
\* given back exactly the kept flows were serialized, and no payload mixes
\* companies.
THEOREM BatchesAreShipped == Spec => []BatchShipped
<1>1. Init => Shipping
  BY ShippingInit
<1>2. IInv /\ Shipping /\ [Next]_vars => Shipping'
  <2> SUFFICES ASSUME IInv, Shipping, [Next]_vars PROVE Shipping'
    OBVIOUS
  <2> USE DEF batchVars
  <2>0. TypeOK /\ msgsc \in Seq(Payload)
    BY DEF IInv, TypeOK, TypeChans
  <2>1. CASE \E i \in Threads : ThreadNext(i)
    BY <2>1, ShippingThread
  <2>2. ASSUME NEW r \in Requests, JsonEmit(r) PROVE Shipping'
    <3> DEFINE s == [cids |-> {NoCid}, n |-> 1]
    <3>1. Cardinality(s.cids) = 1 /\ s \in Payload
      BY FS_Singleton DEF Payload
    <3>2. msgsc' = Append(msgsc, s) /\ UNCHANGED <<pc, pend, shipped, msgs>>
      BY <2>2 DEF JsonEmit
    <3> HIDE DEF s
    <3>3. ASSUME NEW k \in DOMAIN msgsc'
          PROVE  msgsc'[k] = s \/ (k \in DOMAIN msgsc /\ msgsc'[k] = msgsc[k])
      BY <2>0, <3>1, <3>2
    <3>4. \A i \in Threads : LeftToShip(i)' = LeftToShip(i)
      BY <3>2 DEF LeftToShip
    <3>5. \A k \in DOMAIN msgsc' : Cardinality(msgsc'[k].cids) = 1
      BY <3>1, <3>3 DEF Shipping
    <3> QED
      BY <3>2, <3>4, <3>5 DEF Shipping
  <2>3. ASSUME NEW r \in Requests,
               StartFlows(r) \/ SkipBig(r) \/ HandleFlow(r) \/ JsonTake(r) \/ JsonBad(r)
                 \/ JsonFormat(r) \/ JsonGive(r)
        PROVE  Shipping'
    BY <2>0, <2>3, ShippingSame
       DEF StartFlows, SkipBig, HandleFlow, JsonTake, JsonBad, JsonFormat, JsonGive
  <2>4. CASE DoSend
    <3>1. msgsc' = Tail(msgsc) /\ msgsc # <<>> /\ UNCHANGED <<pc, pend, shipped, msgs>>
      BY <2>4 DEF DoSend
    <3>2. \A k \in DOMAIN msgsc' : k + 1 \in DOMAIN msgsc /\ msgsc'[k] = msgsc[k + 1]
      BY <2>0, <3>1
    <3>3. \A i \in Threads : LeftToShip(i)' = LeftToShip(i)
      BY <3>1 DEF LeftToShip
    <3>4. \A k \in DOMAIN msgsc' : Cardinality(msgsc'[k].cids) = 1
      BY <3>2 DEF Shipping
    <3> QED
      BY <3>1, <3>3, <3>4 DEF Shipping
  <2>5. CASE UNCHANGED vars \/ SendDone \/ TooBig \/ Cancel
    BY <2>0, <2>5, ShippingSame DEF SendDone, TooBig, Cancel, vars
  <2> QED
    BY <2>1, <2>2, <2>3, <2>4, <2>5 DEF Next, RequestNext
<1>3. Shipping => BatchShipped
  <2> SUFFICES ASSUME Shipping PROVE BatchShipped
    OBVIOUS
  <2>1. ASSUME NEW i \in Threads, NEW s \in pend[i] PROVE Cardinality(s.cids) = 1
    <3>1. LeftToShip(i)
      BY <2>1 DEF Shipping
    <3>2. PICK R : pend[i] = Splits(msgs[i], R)
      BY <3>1 DEF LeftToShip
    <3> QED
      BY <3>2, SplitsOneCompany
  <2> QED
    BY <2>1 DEF Shipping, BatchShipped, OneCompanyPerPayload, BatchFullyShipped
<1> QED
  BY <1>1, <1>2, <1>3, Invariance, PTL DEF Spec

=============================================================================
