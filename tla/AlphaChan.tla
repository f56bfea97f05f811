----------------------------- MODULE AlphaChan -----------------------------
(***************************************************************************)
(* The Kentik flow path of pkg/cat/kentik.go: HTTP requests deliver flows  *)
(* to one bounded channel per processing thread (alphaChans), each thread  *)
(* copies a flow into an object taken from its own free list (jchfChans),  *)
(* batches the objects, ships a batch as one payload per company on msgsc  *)
(* and gives the objects back.  A JSON request borrows from free list 0.   *)
(*                                                                         *)
(* A flow is represented by its company id, an object by nothing at all:   *)
(* only how many objects each party holds matters.                         *)
(***************************************************************************)
EXTENDS Integers, Sequences, FiniteSets

CONSTANTS
  NumThreads,      \* config.ProcessingThreads
  AlphaCap,        \* capacity of alphaChans[i]
  PoolCap,         \* capacity, and initial fill, of jchfChans[i] (CHAN_SLACK)
  MsgscCap,        \* capacity of msgsc
  InitMaxFlows,    \* config.MaxFlowsPerMessage at start
  SampleRate,      \* config.SampleRate
  SampleMin,       \* config.SampleMin
  Export,          \* ~doRollups \/ config.RollupAndAlpha
  EnrichOutcomes,  \* what the enricher may do to a batch: "same", "drop", "grow"
  JsonBodies,      \* the JSON bodies that arrive: "good", "bad"
  Cids,            \* company ids
  Requests,        \* request goroutines alive at once
  MaxRequests,     \* bound: requests served in one behaviour
  MaxPerRequest    \* bound: messages in one request

ASSUME AlphaAssumption ==
  /\ NumThreads \in Nat \ {0}
  /\ AlphaCap \in Nat \ {0} /\ PoolCap \in Nat \ {0} /\ MsgscCap \in Nat \ {0}
  /\ InitMaxFlows \in Nat /\ SampleRate \in Nat /\ SampleMin \in Nat
  /\ Export \in BOOLEAN
  /\ EnrichOutcomes \subseteq {"same", "drop", "grow"}
  /\ JsonBodies \subseteq {"good", "bad"}
  /\ Cids \subseteq Nat
  /\ IsFiniteSet(Requests)
  /\ MaxRequests \in Nat /\ MaxPerRequest \in Nat

Threads == 0 .. NumThreads - 1

NoFlow == -1      \* the thread holds no flow
NoCid  == 0       \* CompanyId of an object that nobody filled in

VARIABLES
  rpc,      \* rpc[r]: where the request goroutine r is
  cid,      \* cid[r]: the company of its flows
  left,     \* left[r]: the messages it has yet to pass on
  next,     \* next[r]: the thread that gets the next one
  started,  \* requests served so far
  alpha,    \* alphaChans
  pool,     \* pool[i] = len(jchfChans[i])
  pc,       \* where monitorAlphaChan(i) is
  f,        \* f[i]: the flow the thread received and has not disposed of
  msgs,     \* msgs[i]: the batch
  pend,     \* pend[i]: payloads of the batch not yet serialized
  given,    \* given[i]: objects of the batch already given back
  msgsc,    \* payloads on their way to doSend
  sender,   \* doSend: "on" or "done"
  maxFlows, \* config.MaxFlowsPerMessage, which sendToSinks shrinks
  ctx,      \* the context: "live" or "done"
  acc,      \* acc[i]: flows accepted by alphaChans[i] (metrics.Flows)
  out,      \* out[i]: metrics.FlowsOut
  dropped,  \* dropped[i]: flows that could not be put back on alphaChans[i]
  tossed,   \* tossed[i]: flows that failed to convert or were filtered
  lost,     \* lost[i]: objects the enricher removed from a batch
  extra,    \* extra[i]: objects the enricher added to a batch
  leaked,   \* objects of free list 0 that handleJson did not give back
  shipped   \* shipped[i]: flows of the current batch serialized so far

reqVars   == <<rpc, cid, left, next, started>>
batchVars == <<msgs, pend, given, shipped>>
countVars == <<acc, out, dropped, tossed, lost, extra, leaked>>
vars == <<reqVars, alpha, pool, pc, f, batchVars, msgsc, sender, maxFlows,
          ctx, countVars>>

Init ==
  /\ rpc = [r \in Requests |-> "idle"]
  /\ cid = [r \in Requests |-> NoCid]
  /\ left = [r \in Requests |-> 0]
  /\ next = [r \in Requests |-> 0]
  /\ started = 0
  /\ alpha = [i \in Threads |-> <<>>]
  /\ pool = [i \in Threads |-> PoolCap]
  /\ pc = [i \in Threads |-> "select"]
  /\ f = [i \in Threads |-> NoFlow]
  /\ msgs = [i \in Threads |-> <<>>]
  /\ pend = [i \in Threads |-> {}]
  /\ given = [i \in Threads |-> 0]
  /\ msgsc = <<>>
  /\ sender = "on"
  /\ maxFlows = InitMaxFlows
  /\ ctx = "live"
  /\ acc = [i \in Threads |-> 0]
  /\ out = [i \in Threads |-> 0]
  /\ dropped = [i \in Threads |-> 0]
  /\ tossed = [i \in Threads |-> 0]
  /\ lost = [i \in Threads |-> 0]
  /\ extra = [i \in Threads |-> 0]
  /\ leaked = 0
  /\ shipped = [i \in Threads |-> 0]

-----------------------------------------------------------------------------
(* The request goroutines.                                                 *)

ReqGoto(r, l) == rpc' = [rpc EXCEPT ![r] = l]

\* A flow request has been decoded into n messages of company c.
StartFlows(r) ==
  /\ rpc[r] = "idle" /\ started < MaxRequests
  /\ \E c \in Cids : cid' = [cid EXCEPT ![r] = c]
  /\ \E n \in 1 .. MaxPerRequest : left' = [left EXCEPT ![r] = n]
  /\ next' = [next EXCEPT ![r] = 0]
  /\ started' = started + 1
  /\ ReqGoto(r, "flow")
  /\ UNCHANGED <<alpha, pool, pc, f, batchVars, msgsc, sender, maxFlows, ctx,
                 countVars>>

\* The loop over the messages of the request has handled one.
OneMessageLess(r) ==
  /\ left' = [left EXCEPT ![r] = @ - 1]
  /\ ReqGoto(r, IF left[r] = 1 THEN "idle" ELSE "flow")

\* A low resolution message (msg.Big()) is passed over.
SkipBig(r) ==
  /\ rpc[r] = "flow"
  /\ OneMessageLess(r)
  /\ UNCHANGED <<cid, next, started, alpha, pool, pc, f, batchVars, msgsc,
                 sender, maxFlows, ctx, countVars>>

\* Mutant of NextThread: an off-by-one in the wrap-around.
NextThreadLate(i) == IF i + 1 > NumThreads THEN 0 ELSE i + 1

\* Round robin across processing threads.
NextThread(i) == IF i + 1 >= NumThreads THEN 0 ELSE i + 1

\* One message is offered to the next thread's channel, without blocking.
HandleFlow(r) ==
  LET i == next[r] IN
  /\ rpc[r] = "flow"
  /\ OneMessageLess(r)
  /\ next' = [next EXCEPT ![r] = NextThread(i)]
  /\ IF Len(alpha[i]) < AlphaCap
       THEN /\ alpha' = [alpha EXCEPT ![i] = Append(@, cid[r])]
            /\ acc' = [acc EXCEPT ![i] = @ + 1]
       ELSE UNCHANGED <<alpha, acc>>
  /\ UNCHANGED <<cid, started, pool, pc, f, batchVars, msgsc, sender, maxFlows,
                 ctx, out, dropped, tossed, lost, extra, leaked>>

\* handleJson takes an object of free list 0 without blocking, or gives up.
JsonTake(r) ==
  /\ rpc[r] = "idle" /\ started < MaxRequests /\ JsonBodies # {}
  /\ started' = started + 1
  /\ IF pool[0] > 0
       THEN /\ pool' = [pool EXCEPT ![0] = @ - 1]
            /\ ReqGoto(r, "json")
       ELSE UNCHANGED <<pool, rpc>>
  /\ UNCHANGED <<cid, left, next, alpha, pc, f, batchVars, msgsc, sender,
                 maxFlows, ctx, countVars>>

\* The body does not parse: the handler returns, still holding the object.
JsonBad(r) ==
  /\ rpc[r] = "json" /\ "bad" \in JsonBodies
  /\ ReqGoto(r, "idle")
  /\ leaked' = leaked + 1
  /\ UNCHANGED <<cid, left, next, started, alpha, pool, pc, f, batchVars, msgsc,
                 sender, maxFlows, ctx, acc, out, dropped, tossed, lost, extra>>

\* The body is copied into the object and serialized, or fails to be.
JsonFormat(r) ==
  /\ rpc[r] = "json" /\ "good" \in JsonBodies
  /\ \E l \in {"back", "backErr"} : ReqGoto(r, l)
  /\ UNCHANGED <<cid, left, next, started, alpha, pool, pc, f, batchVars, msgsc,
                 sender, maxFlows, ctx, countVars>>

JsonGive(r) ==
  /\ rpc[r] \in {"back", "backErr"}
  /\ pool[0] < PoolCap
  /\ pool' = [pool EXCEPT ![0] = @ + 1]
  /\ ReqGoto(r, IF rpc[r] = "back" THEN "emit" ELSE "idle")
  /\ UNCHANGED <<cid, left, next, started, alpha, pc, f, batchVars, msgsc,
                 sender, maxFlows, ctx, countVars>>

JsonEmit(r) ==
  /\ rpc[r] = "emit"
  /\ Len(msgsc) < MsgscCap
  /\ msgsc' = Append(msgsc, [cids |-> {NoCid}, n |-> 1])
  /\ ReqGoto(r, "idle")
  /\ UNCHANGED <<cid, left, next, started, alpha, pool, pc, f, batchVars,
                 sender, maxFlows, ctx, countVars>>

-----------------------------------------------------------------------------
(* The processing threads.                                                 *)

Goto(i, l) == pc' = [pc EXCEPT ![i] = l]

\* Where sendBytesOn returns to: the requeue of the flow that found the free
\* list empty, or the select loop.
Return(i) == IF f[i] = NoFlow THEN "select" ELSE "requeue"

\* A call of sendBytesOn with nothing batched returns at once.
CallSendBytesOn(i) == Goto(i, IF msgs[i] = <<>> THEN Return(i) ELSE "send")

Receive(i) ==
  /\ pc[i] = "select" /\ alpha[i] # <<>>
  /\ f' = [f EXCEPT ![i] = Head(alpha[i])]
  /\ alpha' = [alpha EXCEPT ![i] = Tail(@)]
  /\ Goto(i, "take")
  /\ UNCHANGED <<reqVars, pool, batchVars, msgsc, sender, maxFlows, ctx,
                 countVars>>

\* Mutant of Take: the flow is put back without sending what we have.
TakeOrRequeue(i) ==
  /\ pc[i] = "take"
  /\ IF pool[i] > 0
       THEN pool' = [pool EXCEPT ![i] = @ - 1] /\ Goto(i, "convert")
       ELSE Goto(i, "requeue") /\ UNCHANGED pool
  /\ UNCHANGED <<reqVars, alpha, f, batchVars, msgsc, sender, maxFlows, ctx,
                 countVars>>

\* Take an object without blocking; with none left, send what we have.
Take(i) ==
  /\ pc[i] = "take"
  /\ IF pool[i] > 0
       THEN /\ pool' = [pool EXCEPT ![i] = @ - 1]
            /\ Goto(i, "convert")
       ELSE /\ CallSendBytesOn(i)
            /\ UNCHANGED pool
  /\ UNCHANGED <<reqVars, alpha, f, batchVars, msgsc, sender, maxFlows, ctx,
                 countVars>>

\* Mutant of Reject: the object of a rejected flow is not given back.
RejectForgets(i) ==
  /\ pc[i] = "convert"
  /\ f' = [f EXCEPT ![i] = NoFlow]
  /\ tossed' = [tossed EXCEPT ![i] = @ + 1]
  /\ Goto(i, "select")
  /\ UNCHANGED <<reqVars, alpha, pool, batchVars, msgsc, sender, maxFlows,
                 ctx, acc, out, dropped, lost, extra, leaked>>

\* flowToJCHF fails, or a filter rejects the flow.
Reject(i) ==
  /\ pc[i] = "convert"
  /\ f' = [f EXCEPT ![i] = NoFlow]
  /\ tossed' = [tossed EXCEPT ![i] = @ + 1]
  /\ Goto(i, "toss")
  /\ UNCHANGED <<reqVars, alpha, pool, batchVars, msgsc, sender, maxFlows,
                 ctx, acc, out, dropped, lost, extra, leaked>>

\* Mutant of Toss: no continue after the give-back, so it happens again.
TossAgain(i) ==
  /\ pc[i] = "toss" /\ pool[i] < PoolCap
  /\ pool' = [pool EXCEPT ![i] = @ + 1]
  /\ UNCHANGED <<reqVars, alpha, pc, f, batchVars, msgsc, sender, maxFlows, ctx,
                 countVars>>

\* The object of a rejected flow is given back.
Toss(i) ==
  /\ pc[i] = "toss" /\ pool[i] < PoolCap
  /\ pool' = [pool EXCEPT ![i] = @ + 1]
  /\ Goto(i, "select")
  /\ UNCHANGED <<reqVars, alpha, f, batchVars, msgsc, sender, maxFlows, ctx,
                 countVars>>

Batch(i) ==
  /\ pc[i] = "convert"
  /\ msgs' = [msgs EXCEPT ![i] = Append(@, f[i])]
  /\ f' = [f EXCEPT ![i] = NoFlow]
  /\ Goto(i, IF Len(msgs[i]) + 1 >= maxFlows THEN "send" ELSE "select")
  /\ UNCHANGED <<reqVars, alpha, pool, pend, given, shipped, msgsc, sender,
                 maxFlows, ctx, countVars>>

\* The send ticker; the ticks that find nothing batched change nothing.
Tick(i) ==
  /\ pc[i] = "select" /\ msgs[i] # <<>>
  /\ CallSendBytesOn(i)
  /\ UNCHANGED <<reqVars, alpha, pool, f, batchVars, msgsc, sender, maxFlows,
                 ctx, countVars>>

\* What doEnrichments may return for the batch m.  Hashing addresses, or an
\* error, leaves the batch as it is; a script that removes flows, or a service
\* that answers with fewer, leaves a shorter one of any companies; a service
\* that answers with more brings an object of its own.
EnrichedAs(o, m) ==
  CASE o = "same" -> {m}
    [] o = "drop" -> UNION {[1 .. k -> Cids \cup {NoCid}] : k \in 0 .. Len(m) - 1}
    [] o = "grow" -> {Append(m, NoCid)}

Enriched(m) == UNION {EnrichedAs(o, m) : o \in EnrichOutcomes}

\* How many flows of a batch of length n are kept: int(max(n / rate, 1)).
Keep(n) ==
  IF SampleRate > 1 /\ n > SampleMin
    THEN IF n \div SampleRate > 1 THEN n \div SampleRate ELSE 1
    ELSE n

\* The shuffled prefix that is kept is any set of that many positions.
Kept(m) == {K \in SUBSET (1 .. Len(m)) : Cardinality(K) = Keep(Len(m))}

\* Mutant of Splits: only the company of the last flow keeps its list.
LastSplit(m, K) ==
  LET last == CHOOSE k \in K : \A l \in K : l <= k
      S == {k \in K : m[k] = m[last]}
  IN  IF K = {} THEN {} ELSE {[cids |-> {m[last]}, n |-> Cardinality(S)]}

\* One payload per company among the positions K.
Splits(m, K) ==
  { [cids |-> {m[k] : k \in S}, n |-> Cardinality(S)] :
      S \in { {k \in K : m[k] = c} : c \in {m[k] : k \in K} } }

\* The enriched batch m is to be shipped as the payloads of its positions K.
Prepare(i, m, K) ==
  LET s == IF Export THEN Splits(m, K) ELSE {}
      less == Len(msgs[i]) - Len(m)
  IN  /\ msgs' = [msgs EXCEPT ![i] = m]
      /\ pend' = [pend EXCEPT ![i] = s]
      /\ lost' = [lost EXCEPT ![i] = IF less > 0 THEN @ + less ELSE @]
      /\ extra' = [extra EXCEPT ![i] = IF less < 0 THEN @ - less ELSE @]
      /\ Goto(i, IF s = {} THEN "give" ELSE "ship")

Send(i) ==
  /\ pc[i] = "send"
  /\ \E m \in Enriched(msgs[i]) : \E K \in Kept(m) : Prepare(i, m, K)
  /\ UNCHANGED <<reqVars, alpha, pool, f, given, shipped, msgsc, sender,
                 maxFlows, ctx, acc, out, dropped, tossed, leaked>>

\* One payload is serialized and sent on, or fails to serialize.
Ship(i) ==
  /\ pc[i] = "ship"
  /\ \E s \in pend[i] :
       /\ \/ Len(msgsc) < MsgscCap /\ msgsc' = Append(msgsc, s)
          \/ UNCHANGED msgsc
       /\ pend' = [pend EXCEPT ![i] = @ \ {s}]
       /\ shipped' = [shipped EXCEPT ![i] = @ + s.n]
       /\ Goto(i, IF pend[i] = {s} THEN "give" ELSE "ship")
  /\ UNCHANGED <<reqVars, alpha, pool, f, msgs, given, sender, maxFlows, ctx,
                 countVars>>

\* Give back our cache.
Give(i) ==
  /\ pc[i] = "give" /\ given[i] < Len(msgs[i])
  /\ pool[i] < PoolCap
  /\ pool' = [pool EXCEPT ![i] = @ + 1]
  /\ given' = [given EXCEPT ![i] = @ + 1]
  /\ UNCHANGED <<reqVars, alpha, pc, f, msgs, pend, shipped, msgsc, sender,
                 maxFlows, ctx, countVars>>

GiveDone(i) ==
  /\ pc[i] = "give" /\ given[i] = Len(msgs[i])
  /\ out' = [out EXCEPT ![i] = @ + Len(msgs[i])]
  /\ msgs' = [msgs EXCEPT ![i] = <<>>]
  /\ given' = [given EXCEPT ![i] = 0]
  /\ shipped' = [shipped EXCEPT ![i] = 0]
  /\ Goto(i, Return(i))
  /\ UNCHANGED <<reqVars, alpha, pool, f, pend, msgsc, sender, maxFlows, ctx,
                 acc, dropped, tossed, lost, extra, leaked>>

\* Mutant of Requeue: a full queue loses the flow without counting it.
RequeueUncounted(i) ==
  /\ pc[i] = "requeue"
  /\ alpha' = [alpha EXCEPT ![i] =
                  IF Len(@) < AlphaCap THEN Append(@, f[i]) ELSE @]
  /\ f' = [f EXCEPT ![i] = NoFlow]
  /\ Goto(i, "select")
  /\ UNCHANGED <<reqVars, pool, batchVars, msgsc, sender, maxFlows, ctx,
                 countVars>>

\* The flow that found no object goes to the end of the queue, or is dropped.
Requeue(i) ==
  /\ pc[i] = "requeue"
  /\ IF Len(alpha[i]) < AlphaCap
       THEN /\ alpha' = [alpha EXCEPT ![i] = Append(@, f[i])]
            /\ UNCHANGED dropped
       ELSE /\ dropped' = [dropped EXCEPT ![i] = @ + 1]
            /\ UNCHANGED alpha
  /\ f' = [f EXCEPT ![i] = NoFlow]
  /\ Goto(i, "select")
  /\ UNCHANGED <<reqVars, pool, batchVars, msgsc, sender, maxFlows, ctx, acc,
                 out, tossed, lost, extra, leaked>>

Finish(i) ==
  /\ pc[i] = "select" /\ ctx = "done"
  /\ Goto(i, "done")
  /\ UNCHANGED <<reqVars, alpha, pool, f, batchVars, msgsc, sender, maxFlows,
                 ctx, countVars>>

-----------------------------------------------------------------------------
(* The sender, the size feedback and the cancellation.                     *)

DoSend ==
  /\ sender = "on" /\ msgsc # <<>>
  /\ msgsc' = Tail(msgsc)
  /\ UNCHANGED <<reqVars, alpha, pool, pc, f, batchVars, sender, maxFlows,
                 ctx, countVars>>

SendDone ==
  /\ sender = "on" /\ ctx = "done"
  /\ sender' = "done"
  /\ UNCHANGED <<reqVars, alpha, pool, pc, f, batchVars, msgsc, maxFlows, ctx,
                 countVars>>

\* int(max(n * .75, 1))
Shrunk(n) == IF (3 * n) \div 4 > 1 THEN (3 * n) \div 4 ELSE 1

\* sendToSinks reads a report that a payload was too big for its sink.
TooBig ==
  /\ maxFlows # Shrunk(maxFlows) /\ ctx = "live"
  /\ maxFlows' = Shrunk(maxFlows)
  /\ UNCHANGED <<reqVars, alpha, pool, pc, f, batchVars, msgsc, sender, ctx,
                 countVars>>

Cancel ==
  /\ ctx = "live" /\ ctx' = "done"
  /\ UNCHANGED <<reqVars, alpha, pool, pc, f, batchVars, msgsc, sender,
                 maxFlows, countVars>>

-----------------------------------------------------------------------------
RequestNext(r) ==
  \/ StartFlows(r) \/ SkipBig(r) \/ HandleFlow(r)
  \/ JsonTake(r) \/ JsonBad(r) \/ JsonFormat(r) \/ JsonGive(r) \/ JsonEmit(r)

ThreadNext(i) ==
  \/ Receive(i) \/ Take(i) \/ Reject(i) \/ Toss(i) \/ Batch(i) \/ Tick(i)
  \/ Send(i) \/ Ship(i) \/ Give(i) \/ GiveDone(i) \/ Requeue(i) \/ Finish(i)

Next ==
  \/ \E r \in Requests : RequestNext(r)
  \/ \E i \in Threads : ThreadNext(i)
  \/ DoSend \/ SendDone \/ TooBig \/ Cancel

Spec == Init /\ [][Next]_vars

\* Every goroutine that can run does; a request that has begun is carried
\* through.  Nothing makes a new request arrive or the context end.
Fairness ==
  /\ \A r \in Requests :
       /\ WF_vars(SkipBig(r) \/ HandleFlow(r))
       /\ WF_vars(JsonBad(r) \/ JsonFormat(r)) /\ WF_vars(JsonGive(r))
       /\ WF_vars(JsonEmit(r))
  /\ \A i \in Threads : WF_vars(ThreadNext(i))
  /\ WF_vars(DoSend)

FairSpec == Spec /\ Fairness

-----------------------------------------------------------------------------
(* Properties.                                                             *)

ReqPCs == {"idle", "flow", "json", "back", "backErr", "emit"}
PCs == {"select", "take", "convert", "toss", "send", "ship", "give",
        "requeue", "done"}
Payload == [cids : SUBSET (Cids \cup {NoCid}), n : Nat]

TypeReqs ==
  /\ rpc \in [Requests -> ReqPCs]
  /\ cid \in [Requests -> Nat] /\ left \in [Requests -> Nat]
  /\ next \in [Requests -> Threads]
  /\ started \in Nat
  /\ \A r \in Requests : rpc[r] = "flow" => left[r] > 0 /\ cid[r] \in Cids
TypeThreads ==
  /\ pc \in [Threads -> PCs]
  /\ f \in [Threads -> Cids \cup {NoFlow}]
  /\ msgs \in [Threads -> Seq(Cids \cup {NoCid})]
  /\ pend \in [Threads -> SUBSET Payload]
  /\ given \in [Threads -> Nat]
TypeChans ==
  /\ alpha \in [Threads -> Seq(Cids)]
  /\ pool \in [Threads -> 0 .. PoolCap]
  /\ msgsc \in Seq(Payload)
  /\ sender \in {"on", "done"}
  /\ maxFlows \in Nat
  /\ ctx \in {"live", "done"}
TypeCounts ==
  /\ acc \in [Threads -> Nat] /\ out \in [Threads -> Nat]
  /\ dropped \in [Threads -> Nat] /\ tossed \in [Threads -> Nat]
  /\ lost \in [Threads -> Nat] /\ extra \in [Threads -> Nat]
  /\ leaked \in Nat /\ shipped \in [Threads -> Nat]

\* Type invariant of the state of kentik.go's goroutines and channels.
TypeOK == TypeReqs /\ TypeThreads /\ TypeChans /\ TypeCounts

Queued(i)  == Len(alpha[i])
Batched(i) == Len(msgs[i])
Holding(i) == IF f[i] = NoFlow THEN 0 ELSE 1
InHand(i)  == IF pc[i] \in {"convert", "toss"} THEN 1 ELSE 0

\* The JSON requests that hold an object of free list 0.
Borrowers == {r \in Requests : rpc[r] \in {"json", "back", "backErr"}}
Borrowed(i) == IF i = 0 THEN Cardinality(Borrowers) + leaked ELSE 0

\* No object of a free list is duplicated or forgotten by monitorAlphaChan or
\* handleJson: what is missing from jchfChans[i] is held by the thread or a
\* JSON request, was thrown away by the enricher, or was leaked by a JSON
\* request whose body does not parse.
ObjectsConserved ==
  \A i \in Threads :
    pool[i] + InHand(i) + Batched(i) + Borrowed(i) + lost[i]
      = PoolCap + extra[i] + given[i]

\* Giving an object back never blocks (the sends on jchfChans of
\* monitorAlphaChan and handleJson have no default case) as long as the
\* enricher added no object to the batches of that thread.
GiveBackNeverBlocks ==
  \A i \in Threads :
    extra[i] = 0 =>
      /\ pc[i] = "toss" => pool[i] < PoolCap
      /\ pc[i] = "give" /\ given[i] < Len(msgs[i]) => pool[i] < PoolCap
      /\ i = 0 => \A r \in Requests :
                    rpc[r] \in {"back", "backErr"} => pool[0] < PoolCap

\* "match in with out": every flow accepted on alphaChans[i] is queued, held,
\* batched, counted by FlowsOut, or accounted for as dropped, rejected or
\* removed by the enricher; none is counted twice.
FlowsAccounted ==
  \A i \in Threads :
    acc[i] + extra[i] =
      Queued(i) + Holding(i) + Batched(i)
        + out[i] + dropped[i] + tossed[i] + lost[i]

\* "Need to only serialize flows from 1 company at a time": no payload that is
\* pending or on msgsc mixes companies.
OneCompanyPerPayload ==
  /\ \A i \in Threads : \A s \in pend[i] : Cardinality(s.cids) = 1
  /\ \A k \in DOMAIN msgsc : Cardinality(msgsc[k].cids) = 1

\* The company split loses and repeats nothing: when the objects of a batch
\* are given back, exactly the kept number of flows has been serialized.
BatchFullyShipped ==
  \A i \in Threads :
    pc[i] = "give" /\ Export => shipped[i] = Keep(Len(msgs[i]))

\* A batch that mixes companies is shipped whole, split by company.
BatchShipped == OneCompanyPerPayload /\ BatchFullyShipped

\* An exhausted free list is a passing condition: while no request delivers
\* new flows, every queue and every batch empties, unless the agent stops.
QueuesDrain ==
  <>[](ctx = "done" \/ \A i \in Threads : alpha[i] = <<>> /\ msgs[i] = <<>>)
=============================================================================
