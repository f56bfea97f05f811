------------------------------- MODULE Rollup -------------------------------
(***************************************************************************)
(* Two of the agent's rollups, fed in turn by handleInput                  *)
(* (pkg/cat/kkc.go) and exported in turn by the loop of sendToSinks:       *)
(*  - the sum rollup (pkg/rollup/stats.go): Add sums a batch and offers it *)
(*    to the goroutine sumKvs, which merges it; Export hands the merged    *)
(*    sums to a goroutine exportSum and starts again from nothing;         *)
(*  - the cache rollup (pkg/rollup/cache.go): Add updates entries under a  *)
(*    lock and throws old ones away when there are too many keys or too    *)
(*    much memory is in use.                                               *)
(* A record is a key and the value its metrics add up to. What a report    *)
(* only carries along (count, minimum, maximum, provider, interval) and    *)
(* how it is sorted and cut to TopK are left out.                          *)
(***************************************************************************)
EXTENDS Integers, Sequences, FiniteSets, Maps

CONSTANTS
  RollupKeys,     \* what getKey returns
  EmptyKey,       \* the key "", which the cache passes over
  RollupValues,   \* values of a record, sample rate included
  KvsCap,         \* capacity of kvs
  EmergencyCleanup, MaxKeys,
  MaxMemory,      \* MaxMemoryMB, in units of an entry's size
  Methods,        \* of the cache rollup: "cache", "cache_unique"
  Adders,         \* input threads
  MaxBatch,       \* bound: records in a batch
  MaxAdds,        \* bound: batches
  MaxExports      \* bound: rollup ticks

\* MaxMemory is off (0) or, being megabytes, far above the size of an entry.
ASSUME RollupAssumption ==
  /\ EmptyKey \notin RollupKeys
  /\ RollupValues \subseteq Nat /\ KvsCap \in Nat \ {0}
  /\ {MaxKeys, MaxMemory, MaxBatch, MaxAdds, MaxExports} \subseteq Nat
  /\ MaxMemory # 1
  /\ EmergencyCleanup \in BOOLEAN
  /\ Methods \subseteq {"cache", "cache_unique"}

VARIABLES
  batch,      \* batch[a]: the batch thread a has yet to add to the cache
  adds,       \* batches so far
  kvs,        \* sum sets on their way to sumKvs
  sums,       \* the sum set of sumKvs
  exporting,  \* the sum set exportSum was given
  loop,       \* sendToSinks: "select", "sum", "reply" or "cache"
  exports,    \* ticks so far
  method,     \* of the cache rollup
  cache,      \* its entries by key: distinct values, and LastUpdated
  memory,     \* memoryUsage: one per entry and one per distinct value
  clock,      \* the time LastUpdated is taken from
  entered,    \* history: what was given to addSum, by key
  gone        \* history: what was dropped at a full kvs or exported, by key

addVars == <<batch, adds>>
sumVars == <<kvs, sums, exporting, entered, gone>>
cacheVars == <<method, cache, memory, clock>>
loopVars == <<loop, exports>>
vars == <<addVars, sumVars, cacheVars, loopVars>>

AllKeys == RollupKeys \cup {EmptyKey}
Batches == UNION {[1 .. n -> [key : AllKeys, value : RollupValues]] : n \in 0 .. MaxBatch}

\* A map that has no entry for a key sums to 0 there.
Nothing == [k \in AllKeys |-> 0]

Init ==
  /\ batch = [a \in Adders |-> <<>>] /\ adds = 0
  /\ kvs = <<>> /\ sums = Nothing /\ exporting = Nothing
  /\ loop = "select" /\ exports = 0
  /\ method \in Methods /\ cache = <<>> /\ memory = 0 /\ clock = 0
  /\ entered = Nothing /\ gone = Nothing

-----------------------------------------------------------------------------
(* The sum rollup.                                                         *)

\* Mutant of Merge: the sum of a key replaces the one that was there.
MergeOver(s, t) == [k \in AllKeys |-> IF t[k] > 0 THEN t[k] ELSE s[k]]

Merge(s, t) == [k \in AllKeys |-> s[k] + t[k]]

\* addSum's sum set of a batch, record by record.
BatchSums(b) ==
  LET upTo[i \in 0 .. Len(b)] ==
        IF i = 0 THEN Nothing ELSE [upTo[i - 1] EXCEPT ![b[i].key] = @ + b[i].value]
  IN  upTo[Len(b)]

\* The sum set goes to sumKvs, or is dropped when kvs is full.
Offer(s) ==
  IF Len(kvs) < KvsCap
    THEN kvs' = Append(kvs, s) /\ UNCHANGED gone
    ELSE gone' = Merge(gone, s) /\ UNCHANGED kvs

\* handleInput: a thread gives a batch to the sum rollup; the cache rollup is
\* next.
AddSum(a) ==
  /\ batch[a] = <<>> /\ adds < MaxAdds
  /\ \E b \in Batches :
       /\ batch' = [batch EXCEPT ![a] = b]
       /\ entered' = Merge(entered, BatchSums(b))
       /\ Offer(BatchSums(b))
  /\ adds' = adds + 1
  /\ UNCHANGED <<sums, exporting, cacheVars, loopVars>>

SumKvs ==
  /\ kvs # <<>>
  /\ sums' = Merge(sums, Head(kvs))
  /\ kvs' = Tail(kvs)
  /\ UNCHANGED <<exporting, entered, gone, addVars, cacheVars, loopVars>>

\* The ticker of sendToSinks: Export of the sum rollup asks sumKvs.
RollupTick ==
  /\ loop = "select" /\ exports < MaxExports
  /\ loop' = "sum" /\ exports' = exports + 1
  /\ UNCHANGED <<addVars, sumVars, cacheVars>>

ExportKvs ==
  /\ loop = "sum"
  /\ exporting' = sums /\ sums' = Nothing
  /\ loop' = "reply"
  /\ UNCHANGED <<kvs, entered, gone, addVars, cacheVars, exports>>

\* Mutant of ExportSum: no reply when there is nothing to export.
ExportSumSilent ==
  /\ loop = "reply" /\ exporting # Nothing
  /\ loop' = "cache"
  /\ gone' = Merge(gone, exporting) /\ exporting' = Nothing
  /\ UNCHANGED <<kvs, sums, entered, addVars, cacheVars, exports>>

\* exportSum replies, with nil when there is nothing to export.
ExportSum ==
  /\ loop = "reply"
  /\ loop' = "cache"
  /\ gone' = Merge(gone, exporting) /\ exporting' = Nothing
  /\ UNCHANGED <<kvs, sums, entered, addVars, cacheVars, exports>>

-----------------------------------------------------------------------------
(* The cache rollup.                                                       *)

\* estimateEntrySize, added up over the entries K: one for each, and one for each
\* of its values. UniqueVals is only there in a cache of unique values.
Held(c, K) == UNION {{k} \X c[k].vals : k \in K}
SizeOf(c, K) == Cardinality(K) + Cardinality(Held(c, K))

\* Mutant of ShouldDoEmergencyCleanup: one key too late, memory not looked at.
ShouldCleanupLate(m) ==
  /\ EmergencyCleanup
  /\ MaxKeys > 0 /\ Cardinality(DOMAIN m.cache) > MaxKeys + 1

ShouldDoEmergencyCleanup(m) ==
  /\ EmergencyCleanup
  /\ \/ MaxMemory > 0 /\ m.memory > MaxMemory
     \/ MaxKeys > 0 /\ Cardinality(DOMAIN m.cache) > MaxKeys

\* Mutant of Stale: the ages are sorted the wrong way round.
StaleReversed(c) ==
  LET n == Cardinality(DOMAIN c)
      index == IF n \div 2 < 1 THEN 1 ELSE n \div 2
      UpTo(t) == {k \in DOMAIN c : c[k].updated >= t}
  IN  UNION {UpTo(c[k].updated) : k \in
        {j \in DOMAIN c : /\ Cardinality(UpTo(c[j].updated)) > index
                          /\ Cardinality(UpTo(c[j].updated + 1)) <= index}}

\* The keys at least as old as the entry at the threshold index, counted from
\* the oldest: the ages are sorted, so these are more than index many.
Stale(c) ==
  LET n == Cardinality(DOMAIN c)
      index == IF n \div 2 < 1 THEN 1 ELSE n \div 2
      UpTo(t) == {k \in DOMAIN c : c[k].updated <= t}
  IN  UNION {UpTo(c[k].updated) : k \in
        {j \in DOMAIN c : /\ Cardinality(UpTo(c[j].updated)) > index
                          /\ Cardinality(UpTo(c[j].updated - 1)) <= index}}

DoEmergencyCleanup(m) ==
  [cache  |-> Without(m.cache, Stale(m.cache)),
   memory |-> m.memory - SizeOf(m.cache, Stale(m.cache))]

\* A new entry.
Entered(m, key, now) ==
  [cache  |-> m.cache ++ Only(key, [vals |-> {}, updated |-> now]),
   memory |-> m.memory + 1]

\* The entry of a record's key, if there is one, counts it.
Counted(c, r, now) ==
  [k \in DOMAIN c |->
     IF k # r.key THEN c[k]
     ELSE [vals    |-> IF method = "cache_unique" THEN c[k].vals \cup {r.value} ELSE {},
           updated |-> now]]

\* What Add makes of one record. The cleanup may remove the entry just made;
\* the record is then counted in an entry that is no longer in the cache.
AddRecord(m, r, now) ==
  LET fresh == r.key \notin DOMAIN m.cache
      made  == IF fresh THEN Entered(m, r.key, now) ELSE m
      tidy  == IF fresh /\ ShouldDoEmergencyCleanup(made) THEN DoEmergencyCleanup(made) ELSE made
  IN  IF r.key = EmptyKey THEN m
      ELSE [cache |-> Counted(tidy.cache, r, now), memory |-> tidy.memory]

\* What Add makes of a batch: one record after the other, at one time.
AddBatch(b, now) ==
  LET after[i \in 0 .. Len(b)] ==
        IF i = 0 THEN [cache |-> cache, memory |-> memory] ELSE AddRecord(after[i - 1], b[i], now)
  IN  after[Len(b)]

\* The second rollup gets the batch, under its lock.
AddCache(a) ==
  /\ batch[a] # <<>>
  /\ batch' = [batch EXCEPT ![a] = <<>>]
  /\ clock' = clock + 1
  /\ cache' = AddBatch(batch[a], clock').cache /\ memory' = AddBatch(batch[a], clock').memory
  /\ UNCHANGED <<adds, method, sumVars, loopVars>>

\* doExport takes the cache away and replies.
ExportCache ==
  /\ loop = "cache"
  /\ cache' = <<>> /\ memory' = 0
  /\ loop' = "select"
  /\ UNCHANGED <<method, clock, exports, addVars, sumVars>>

-----------------------------------------------------------------------------
Next ==
  \/ \E a \in Adders : AddSum(a) \/ AddCache(a)
  \/ SumKvs \/ RollupTick \/ ExportKvs \/ ExportSum \/ ExportCache

Spec == Init /\ [][Next]_vars

\* sumKvs picks either ready case of its select in the end, and the goroutines
\* of an export run to their reply; no batch has to arrive.
FairSpec ==
  Spec /\ WF_vars(SumKvs) /\ WF_vars(ExportKvs) /\ WF_vars(ExportSum)
       /\ WF_vars(ExportCache)

-----------------------------------------------------------------------------
(* Properties.                                                             *)

\* Type invariant of the two rollups.
TypeOK ==
  /\ batch \in [Adders -> Batches]
  /\ kvs \in Seq([AllKeys -> Nat]) /\ Len(kvs) <= KvsCap
  /\ {sums, exporting, entered, gone} \subseteq [AllKeys -> Nat]
  /\ loop \in {"select", "sum", "reply", "cache"}
  /\ DOMAIN cache \subseteq RollupKeys /\ memory \in Int
  /\ \A k \in DOMAIN cache : cache[k].vals \subseteq RollupValues /\ cache[k].updated <= clock

\* What the sum sets in queue q have for a key.
Queued(q, k) ==
  LET upTo[i \in 0 .. Len(q)] == IF i = 0 THEN 0 ELSE upTo[i - 1] + q[i][k]
  IN  upTo[Len(q)]

\* Whatever order batches and exports reach sumKvs in, every value given to
\* addSum is counted in exactly one report, unless its batch was dropped at a
\* full kvs: nothing is lost or counted twice when sumKvs hands its map to
\* exportSum and goes on with a new one.
SumConserved ==
  \A k \in AllKeys :
    entered[k] = gone[k] + exporting[k] + sums[k] + Queued(kvs, k)

\* "Cache size %d exceeds limit %d - emergency cleanup should have occurred"
\* (cache_test.go): with EmergencyCleanup there are never more than MaxKeys
\* entries after an Add, however the keys of a batch follow each other.
KeysBounded ==
  EmergencyCleanup /\ MaxKeys > 0 => Cardinality(DOMAIN cache) <= MaxKeys

\* "Remove oldest entries": an Add never throws away an entry that was more
\* recently updated than one it keeps.
OldestRemoved ==
  [][loop # "cache" =>
       \A k \in DOMAIN cache \ DOMAIN cache', j \in DOMAIN cache \cap DOMAIN cache' :
         cache[k].updated <= cache'[j].updated]_cache

\* memoryUsage is exact for a cache of sums and never above what the entries
\* take for a cache of unique values, whatever was cleaned up or exported: the
\* memory limit never throws entries away too early.
MemoryAccounted ==
  /\ memory <= SizeOf(cache, DOMAIN cache)
  /\ method = "cache" => memory = Cardinality(DOMAIN cache)

\* The rollups keep their types, and the cache its limit and its estimate.
CacheInv == TypeOK /\ KeysBounded /\ MemoryAccounted

\* The loop of sendToSinks, the only reader of tooBig, comes back from every
\* Export: sumKvs and exportSum always reply, also when there is nothing.
ReportsReturn == (loop # "select") ~> (loop = "select")
=============================================================================
