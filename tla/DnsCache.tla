------------------------------ MODULE DnsCache ------------------------------
(***************************************************************************)
(* resolv.Resolver: a cache of reverse look-ups. The cache is read and     *)
(* written under its mutex, but its size is looked at, and the whole cache *)
(* replaced on a ticker, without it; the look-up itself, which takes up to *)
(* RESOLVE_TIME_MAX, is outside the lock.                                  *)
(***************************************************************************)
EXTENDS Naturals, FiniteSets

CONSTANTS
  Workers,     \* the goroutines that call Resolve
  Addrs,       \* the addresses they ask for
  MaxCache,    \* MAX_CACHE_SIZE
  NoName       \* the empty string, the answer when there is none

ASSUME DnsAssumption == IsFiniteSet(Workers) /\ MaxCache \in Nat

VARIABLES
  cache,       \* answers, a function on the addresses in the cache
  stage,       \* where the call of each worker is
  asked,       \* the address it asks for
  answer       \* `final'

dnsVars == <<cache, stage, asked, answer>>

Host(a) == <<"host", a>>

DnsInit ==
  /\ cache = [a \in {} |-> NoName] /\ stage = [w \in Workers |-> "out"]
  /\ asked = [w \in Workers |-> NoName] /\ answer = [w \in Workers |-> NoName]

\* The call, up to the end of its read lock.
Resolve(w, a) ==
  /\ stage[w] = "out" /\ asked' = [asked EXCEPT ![w] = a]
  /\ IF a \in DOMAIN cache
     THEN stage' = [stage EXCEPT ![w] = "done"] /\ answer' = [answer EXCEPT ![w] = cache[a]]
     ELSE stage' = [stage EXCEPT ![w] = "size"] /\ answer' = [answer EXCEPT ![w] = NoName]
  /\ UNCHANGED cache

\* Mutant of Room: the size is not looked at.
RoomAlways == TRUE

\* Less than the limit, or at it: the check admits one entry more.
Room == Cardinality(DOMAIN cache) <= MaxCache

\* A full cache answers nothing.
CheckSize(w) ==
  /\ stage[w] = "size" /\ stage' = [stage EXCEPT ![w] = IF Room THEN "lookup" ELSE "done"]
  /\ UNCHANGED <<cache, asked, answer>>

\* LookupAddr answers, or fails or times out, which is cached too.
LookupAddr(w) ==
  /\ stage[w] = "lookup" /\ stage' = [stage EXCEPT ![w] = "store"]
  /\ \E ans \in {Host(asked[w]), NoName} : answer' = [answer EXCEPT ![w] = ans]
  /\ UNCHANGED <<cache, asked>>

Store(w) ==
  /\ stage[w] = "store" /\ stage' = [stage EXCEPT ![w] = "done"]
  /\ cache' = [a \in DOMAIN cache \cup {asked[w]} |-> IF a = asked[w] THEN answer[w] ELSE cache[a]]
  /\ UNCHANGED <<asked, answer>>

\* What the caller does with the answer.
Resolved(w) ==
  /\ stage[w] = "done" /\ stage' = [stage EXCEPT ![w] = "out"]
  /\ asked' = [asked EXCEPT ![w] = NoName] /\ answer' = [answer EXCEPT ![w] = NoName]

\* clearTicker
ClearCache ==
  /\ cache' = [a \in {} |-> NoName]
  /\ UNCHANGED <<stage, asked, answer>>

DnsStep(w) == CheckSize(w) \/ LookupAddr(w) \/ Store(w)

------------------------------------------------------------------------------
\* Properties.

\* The variables have the types of the code's.
DnsTypeOK ==
  /\ DOMAIN cache \subseteq Addrs /\ stage \in [Workers -> {"out", "size", "lookup", "store", "done"}]

\* The cache outgrows MAX_CACHE_SIZE by no more than the callers that have
\* looked at the size together, the answers that are on their way included.
CacheBounded ==
  Cardinality(DOMAIN cache) + Cardinality({w \in Workers : stage[w] \in {"lookup", "store"}})
    <= MaxCache + Cardinality(Workers)
==============================================================================
