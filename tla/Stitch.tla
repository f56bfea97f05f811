------------------------------- MODULE Stitch -------------------------------
(***************************************************************************)
(* Flow stitching, pkg/stitch/stitch.go: the first of two flows with the   *)
(* same key leaves a snapshot in the ring buffer, the second one takes it. *)
(* Every thread of pkg/cat that enriches calls Stitch on the one Stitcher, *)
(* without a lock (pkg/cat/jchf.go:645), and the ring buffer has none      *)
(* either: each read and write that GetAndDelete and Put make of shared    *)
(* memory is a step here. A variable that the code names twice may be read *)
(* once or twice, as the compiler likes. Left out are a map operation torn *)
(* by another one, which Go's runtime answers by ending the process, and a *)
(* snapshot torn between two writers.                                      *)
(*                                                                         *)
(* Flows are numbered; the number of a flow stands for its snapshot, and   *)
(* NoValue for the zero snapshot of a slot that was never written.         *)
(***************************************************************************)
EXTENDS RingBuffer

CONSTANTS Threads,
          MaxFlows   \* bound: flows that are stitched

ASSUME StitchAssumption == MaxFlows \in Nat /\ Values = 1 .. MaxFlows

VARIABLES
  pc,        \* what thread t does next
  mine,      \* mine[t]: the flow thread t is stitching, or NoValue
  spot, got, \* slot (or size), and snapshot (or key), that thread t has read
  keyOf,     \* the key of each flow so far
  mate,      \* mate[f]: the flow whose snapshot flow f took, or NoValue
  flows,     \* flows so far
  overlapped \* history: a call began while another thread was inside one

stitchVars == <<pc, mine, spot, got, keyOf, mate, flows, overlapped>>

StitchInit ==
  /\ RingInit
  /\ pc = [t \in Threads |-> "out"]
  /\ mine = [t \in Threads |-> NoValue]
  /\ spot = [t \in Threads |-> NoSlot]
  /\ got = [t \in Threads |-> NoValue]
  /\ keyOf = [f \in Values |-> NoKey]
  /\ mate = [f \in Values |-> NoValue]
  /\ flows = 0
  /\ overlapped = FALSE

\* The key of the flow that thread t is stitching.
KeyOf(t) == keyOf[mine[t]]

\* Thread t is inside a call on the ring buffer; "between" is after GetAndDelete
\* has found nothing and before Put.
InCall(t) == pc[t] \notin {"out", "between"}

Begins(t) == overlapped' = (overlapped \/ \E u \in Threads \ {t} : InCall(u))

\* From p to q, inside one call.
Step(t, p, q) ==
  /\ pc[t] = p
  /\ pc' = [pc EXCEPT ![t] = q]
  /\ UNCHANGED <<mine, keyOf, flows, overlapped, last>>

\* Stitch returns.
Return(t, p) ==
  /\ pc[t] = p
  /\ pc' = [pc EXCEPT ![t] = "out"]
  /\ mine' = [mine EXCEPT ![t] = NoValue]
  /\ spot' = [spot EXCEPT ![t] = NoSlot]
  /\ got' = [got EXCEPT ![t] = NoValue]
  /\ UNCHANGED <<keyOf, flows, overlapped, last>>

Reads(t, n) == spot' = [spot EXCEPT ![t] = n] /\ UNCHANGED got
dataVars == <<keyAt, valueAt>>

-----------------------------------------------------------------------------
(* GetAndDelete.                                                           *)

\* A flow arrives and GetAndDelete asks the map for its key: a slot, or nothing.
LookUp(t, k) ==
  /\ pc[t] = "out" /\ flows < MaxFlows
  /\ flows' = flows + 1
  /\ mine' = [mine EXCEPT ![t] = flows + 1]
  /\ keyOf' = [keyOf EXCEPT ![flows + 1] = k]
  /\ Begins(t)
  /\ \/ Contains(k) /\ pc' = [pc EXCEPT ![t] = "value"] /\ Reads(t, index[k])
     \/ ~Contains(k) /\ pc' = [pc EXCEPT ![t] = "between"] /\ UNCHANGED <<spot, got>>
  /\ UNCHANGED <<ringVars, mate>>

ReadValue(t) ==
  /\ Step(t, "value", "delete")
  /\ got' = [got EXCEPT ![t] = valueAt[spot[t]]]
  /\ UNCHANGED <<dataVars, index, head, tail, size, spot, mate>>

\* Mutant of DeleteKey: the snapshot stays in the map (Get for GetAndDelete).
DeleteNothing(t) ==
  /\ Return(t, "delete")
  /\ mate' = [mate EXCEPT ![mine[t]] = got[t]]
  /\ UNCHANGED <<dataVars, index, head, tail, size>>

\* The key leaves the map and the flow is paired with the snapshot that was read.
DeleteKey(t) ==
  /\ Return(t, "delete")
  /\ index' = [index EXCEPT ![KeyOf(t)] = NoSlot]
  /\ mate' = [mate EXCEPT ![mine[t]] = got[t]]
  /\ UNCHANGED <<dataVars, head, tail, size>>

-----------------------------------------------------------------------------
(* Put, of a flow for which GetAndDelete found nothing.                    *)

\* Put asks the map again: another thread may have Put the key since.
PutStart(t) ==
  /\ pc[t] = "between"
  /\ Begins(t)
  /\ \/ Contains(KeyOf(t)) /\ pc' = [pc EXCEPT ![t] = "update"] /\ Reads(t, index[KeyOf(t)])
     \/ ~Contains(KeyOf(t)) /\ pc' = [pc EXCEPT ![t] = "room"] /\ UNCHANGED <<spot, got>>
  /\ UNCHANGED <<ringVars, mine, keyOf, mate, flows>>

UpdateSlot(t) ==
  /\ Return(t, "update")
  /\ valueAt' = [valueAt EXCEPT ![spot[t]] = mine[t]]
  /\ UNCHANGED <<keyAt, index, head, tail, size, mate>>

Room(t) ==
  /\ \/ size # Capacity /\ Step(t, "room", "grow") /\ Reads(t, size)
     \/ size = Capacity /\ Step(t, "room", "oldest") /\ UNCHANGED <<spot, got>>
  /\ UNCHANGED <<dataVars, index, head, tail, size, mate>>

Grow(t) ==
  /\ Step(t, "grow", "write")
  /\ size' \in {spot[t] + 1, size + 1}
  /\ UNCHANGED <<dataVars, index, head, tail, spot, got, mate>>

ReadOldest(t) ==
  /\ Step(t, "oldest", "evict")
  /\ spot' = [spot EXCEPT ![t] = head]
  /\ got' = [got EXCEPT ![t] = keyAt[head]]
  /\ UNCHANGED <<dataVars, index, head, tail, size, mate>>

Evict(t) ==
  /\ Step(t, "evict", "head")
  /\ index' = Evicted(got[t])
  /\ UNCHANGED <<dataVars, head, tail, size, spot, got, mate>>

MoveHead(t) ==
  /\ Step(t, "head", "write")
  /\ head' \in {After(spot[t]), After(head)}
  /\ UNCHANGED <<dataVars, index, tail, size, spot, got, mate>>

WriteSlot(t) ==
  /\ Step(t, "write", "link")
  /\ keyAt' = [keyAt EXCEPT ![tail] = KeyOf(t)]
  /\ valueAt' = [valueAt EXCEPT ![tail] = mine[t]]
  /\ Reads(t, tail)
  /\ UNCHANGED <<index, head, tail, size, mate>>

\* Mutant of Link: the map is written after tail has moved on.
LinkNext(t) ==
  /\ Step(t, "link", "tail")
  /\ index' = [index EXCEPT ![KeyOf(t)] = After(tail)] /\ Reads(t, tail)
  /\ UNCHANGED <<dataVars, head, tail, size, mate>>

Link(t) ==
  /\ Step(t, "link", "tail")
  /\ \E s \in {spot[t], tail} : index' = [index EXCEPT ![KeyOf(t)] = s] /\ Reads(t, s)
  /\ UNCHANGED <<dataVars, head, tail, size, mate>>

MoveTail(t) ==
  /\ Return(t, "tail")
  /\ tail' \in {After(spot[t]), After(tail)}
  /\ UNCHANGED <<dataVars, index, head, size, mate>>

PutStep(t) ==
  \/ PutStart(t) \/ UpdateSlot(t) \/ Room(t) \/ Grow(t) \/ ReadOldest(t) \/ Evict(t)
  \/ MoveHead(t) \/ WriteSlot(t) \/ Link(t) \/ MoveTail(t)

StitchNext ==
  \E t \in Threads : \/ \E k \in Keys : LookUp(t, k)
                     \/ ReadValue(t) \/ DeleteKey(t) \/ PutStep(t)

StitchSpec == StitchInit /\ [][StitchNext]_<<ringVars, stitchVars>>

-----------------------------------------------------------------------------
(* Properties.                                                             *)

Paired(f) == mate[f] # NoValue

\* As long as no two calls on the ring buffer have overlapped, however the
\* threads take turns between their two calls, a flow is only ever paired with an
\* earlier flow of the same key: the ring buffer hands no snapshot out under a
\* key that has been evicted or reused.
MatesShareKey ==
  ~overlapped => \A f \in Values : Paired(f) => /\ keyOf[mate[f]] = keyOf[f]
                                                /\ mate[f] < f

\* "ensure we don't overlap again on flows": no snapshot is paired twice.
TakenOnce == \A f, g \in Values : Paired(f) /\ mate[f] = mate[g] => f = g

\* A flow that took a snapshot leaves none of its own for another one.
LeavesNone == \A f, g \in Values : Paired(f) /\ Paired(g) => mate[f] # g

\* As long as no two calls on the ring buffer have overlapped, GetAndDelete hands
\* every snapshot out once; and a paired flow is never Put, whatever overlaps.
PairedOnce == (~overlapped => TakenOnce) /\ LeavesNone
=============================================================================
