---------------------------- MODULE EvictingMap ----------------------------
(***************************************************************************)
(* What the doc comments of pkg/stitch/ringbuffer/ringbuffer.go promise of *)
(* Put: a store of at most Capacity keys, in order of insertion.  A new    *)
(* key that finds the store full evicts the oldest one; the value of a key *)
(* already present is replaced and its place is kept.                      *)
(***************************************************************************)
EXTENDS Naturals, Sequences

CONSTANTS Keys, Values, Capacity

VARIABLE entries    \* the entries, oldest first

Holding(k) == {i \in DOMAIN entries : entries[i].key = k}

Init == entries = <<>>

Update(k, v) ==
  \E i \in Holding(k) : entries' = [entries EXCEPT ![i] = [key |-> k, value |-> v]]

Insert(k, v) ==
  /\ Holding(k) = {}
  /\ entries' = Append(IF Len(entries) = Capacity THEN Tail(entries) ELSE entries,
                       [key |-> k, value |-> v])

Next == \E k \in Keys, v \in Values : Update(k, v) \/ Insert(k, v)

Spec == Init /\ [][Next]_entries
=============================================================================
