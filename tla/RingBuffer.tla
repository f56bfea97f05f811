----------------------------- MODULE RingBuffer -----------------------------
(***************************************************************************)
(* The ring buffer of pkg/stitch/ringbuffer/ringbuffer.go: a backing slice *)
(* of Capacity slots, the slots of the oldest entry and of the next write, *)
(* and a map from keys to slots. The package has no lock: Put and Delete   *)
(* are the calls as one goroutine sees them, its own use of the buffer.    *)
(* Module Stitch takes them apart into their reads and writes, which the   *)
(* calls of several goroutines interleave.                                 *)
(***************************************************************************)
EXTENDS Integers, FiniteSets

CONSTANTS
  Keys, Values,
  NoKey, NoValue,   \* the zero values in a slot that was never written
  Capacity

ASSUME RingAssumption ==
  /\ Capacity \in Nat \ {0}
  /\ NoKey \notin Keys /\ NoValue \notin Values

Slots  == 0 .. Capacity - 1
NoSlot == -1        \* a key that is not in the map

VARIABLES
  keyAt, valueAt,   \* data: key and value of each slot
  index,            \* key -> slot, NoSlot when absent
  head, tail, size,
  last              \* history: the value each key was last Put with

ringVars == <<keyAt, valueAt, index, head, tail, size, last>>

RingInit ==
  /\ keyAt = [s \in Slots |-> NoKey]
  /\ valueAt = [s \in Slots |-> NoValue]
  /\ index = [k \in Keys |-> NoSlot]
  /\ head = 0 /\ tail = 0 /\ size = 0
  /\ last = [k \in Keys |-> NoValue]

Contains(k) == index[k] # NoSlot

\* The slot after s, around the ring.
After(s) == (s + 1) % Capacity

\* Mutant of Evicted: the slot is reused while its key stays in the map.
EvictedKept(old) == index

\* The map once the key of the oldest slot has been deleted from it, if it is
\* still there.
Evicted(old) == [k \in Keys |-> IF k = old THEN NoSlot ELSE index[k]]

\* A key is written at tail: a full buffer gives up the slot of the oldest entry.
Place(k, v) ==
  /\ IF size = Capacity
       THEN /\ index' = [Evicted(keyAt[head]) EXCEPT ![k] = tail]
            /\ head' = After(head)
            /\ UNCHANGED size
       ELSE /\ index' = [index EXCEPT ![k] = tail]
            /\ size' = size + 1
            /\ UNCHANGED head
  /\ keyAt' = [keyAt EXCEPT ![tail] = k]
  /\ valueAt' = [valueAt EXCEPT ![tail] = v]
  /\ tail' = After(tail)

\* Mutant of Update: a key that is present is written again.
UpdateAgain(k, v) == Contains(k) /\ Place(k, v)

\* Put on a key that is present: its value changes in place.
Update(k, v) ==
  /\ Contains(k)
  /\ valueAt' = [valueAt EXCEPT ![index[k]] = v]
  /\ UNCHANGED <<keyAt, index, head, tail, size>>

\* Put on a new key.
Insert(k, v) == ~Contains(k) /\ Place(k, v)

Put(k, v) ==
  /\ Update(k, v) \/ Insert(k, v)
  /\ last' = [last EXCEPT ![k] = v]

\* GetAndDelete on a key that is present: only the map entry goes.
Delete(k) ==
  /\ Contains(k)
  /\ index' = [index EXCEPT ![k] = NoSlot]
  /\ UNCHANGED <<keyAt, valueAt, head, tail, size, last>>

\* A client that only Puts, as most tests of the package, and one that deletes
\* too.
PutNext == \E k \in Keys, v \in Values : Put(k, v)
RingNext == PutNext \/ \E k \in Keys : Delete(k)

\* Entries(), oldest first.
Entries == [i \in 1 .. size |->
              LET s == (head + i - 1) % Capacity
              IN  [key |-> keyAt[s], value |-> valueAt[s]]]

-----------------------------------------------------------------------------
(* Properties.                                                             *)

\* Type invariant of the ring buffer.
RingTypeOK ==
  /\ keyAt \in [Slots -> Keys \cup {NoKey}]
  /\ valueAt \in [Slots -> Values \cup {NoValue}]
  /\ index \in [Keys -> Slots \cup {NoSlot}]
  /\ head \in Slots /\ tail \in Slots /\ size \in 0 .. Capacity
  /\ last \in [Keys -> Values \cup {NoValue}]

\* The oldest entry is at slot 0 until the buffer is full, and from then on the
\* next write goes where the oldest entry is: Put never overwrites a slot other
\* than the one it evicts or one that was never written.
RingShape ==
  /\ IF size = Capacity THEN tail = head ELSE head = 0 /\ tail = size
  /\ \A s \in Slots : s >= size => keyAt[s] = NoKey

\* Get and GetAndDelete return what the key was last Put with, whatever was
\* evicted, deleted and inserted again in between: the map never leads to a
\* slot that another key has taken over.
IndexSound ==
  \A k \in Keys : Contains(k) => /\ keyAt[index[k]] = k
                                 /\ valueAt[index[k]] = last[k]
=============================================================================
