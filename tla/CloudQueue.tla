----------------------------- MODULE CloudQueue -----------------------------
(***************************************************************************)
(* The AWS VPC input: checkQueue receives messages from SQS, deletes each  *)
(* one and starts a goroutine that reads the object it names; its lines go *)
(* to vpc.recs, or are dropped when that is full, and checkQOut turns them *)
(* into flows.                                                             *)
(*                                                                         *)
(* SQS hides a message for the visibility timeout after a receive and shows*)
(* it again unless it has been deleted. The agent may stop at any point and*)
(* be started again, with nothing but the queue left.                      *)
(***************************************************************************)
EXTENDS Naturals, Sequences, SequencesExt, FiniteSets

CONSTANTS
  Msgs,         \* messages, each naming one object
  RecsCap,      \* capacity of vpc.recs
  MaxErrors,    \* deletes that fail
  MaxCrashes    \* times the agent is stopped and started

ASSUME CloudAssumption ==
  IsFiniteSet(Msgs) /\ RecsCap \in Nat /\ MaxErrors \in Nat /\ MaxCrashes \in Nat

VARIABLES
  sqs,          \* each message is "visible", "hidden" or "deleted"
  got,          \* messages of this receive that are still to be handled
  toStart,      \* the first of them has had its delete
  reading,      \* goroutines of processObject
  recs,         \* vpc.recs
  out,          \* the record checkQOut has, as a sequence of at most one
  delivered,    \* history: the records given to jchfChan
  dropped,      \* DroppedFlows
  unread,       \* history: objects that could not be read, or had no lines
  cut,          \* history: what a stop has lost
  errors,       \* history: failed deletes of each message
  crashes

cloudVars == <<sqs, got, toStart, reading, recs, out, delivered, dropped, unread, cut, errors, crashes>>

None == [m \in Msgs |-> 0]

CloudInit ==
  /\ sqs = [m \in Msgs |-> "visible"] /\ got = <<>> /\ toStart = FALSE
  /\ recs = <<>> /\ out = <<>> /\ reading = None /\ delivered = None /\ dropped = None
  /\ unread = None /\ cut = None /\ errors = None /\ crashes = 0

------------------------------------------------------------------------------
\* SQS

VisibilityEnds(m) ==
  /\ sqs[m] = "hidden" /\ sqs' = [sqs EXCEPT ![m] = "visible"]
  /\ UNCHANGED <<got, toStart, reading, recs, out, delivered, dropped, unread, cut, errors, crashes>>

------------------------------------------------------------------------------
\* checkQueue

Receive(s) ==
  /\ got = <<>> /\ s # <<>> /\ \A m \in ToSet(s) : sqs[m] = "visible"
  /\ got' = s /\ sqs' = [m \in Msgs |-> IF m \in ToSet(s) THEN "hidden" ELSE sqs[m]]
  /\ UNCHANGED <<toStart, reading, recs, out, delivered, dropped, unread, cut, errors, crashes>>

\* Mutant of DeleteOk: the delete is left to the goroutine, which has none.
DeleteOkNot ==
  /\ got # <<>> /\ ~toStart /\ toStart' = TRUE
  /\ UNCHANGED <<sqs, got, reading, recs, out, delivered, dropped, unread, cut, errors, crashes>>

\* Delete for only once processing; a message that is visible again by now is
\* deleted all the same.
DeleteOk ==
  /\ got # <<>> /\ ~toStart /\ toStart' = TRUE /\ sqs' = [sqs EXCEPT ![Head(got)] = "deleted"]
  /\ UNCHANGED <<got, reading, recs, out, delivered, dropped, unread, cut, errors, crashes>>

\* An error is logged, and the message handled.
DeleteFails ==
  /\ got # <<>> /\ ~toStart /\ toStart' = TRUE
  /\ \A m \in Msgs : errors[m] < MaxErrors
  /\ errors' = [errors EXCEPT ![Head(got)] = @ + 1]
  /\ UNCHANGED <<sqs, got, reading, recs, out, delivered, dropped, unread, cut, crashes>>

StartReading ==
  /\ toStart /\ toStart' = FALSE /\ got' = Tail(got) /\ reading' = [reading EXCEPT ![Head(got)] = @ + 1]
  /\ UNCHANGED <<sqs, recs, out, delivered, dropped, unread, cut, errors, crashes>>

\* A body that does not parse, or names no object.
BadMessage ==
  /\ toStart /\ toStart' = FALSE /\ got' = Tail(got) /\ unread' = [unread EXCEPT ![Head(got)] = @ + 1]
  /\ UNCHANGED <<sqs, reading, recs, out, delivered, dropped, cut, errors, crashes>>

------------------------------------------------------------------------------
\* processObject

NotRead(m) ==
  /\ reading[m] > 0 /\ reading' = [reading EXCEPT ![m] = @ - 1] /\ unread' = [unread EXCEPT ![m] = @ + 1]
  /\ UNCHANGED <<sqs, got, toStart, recs, out, delivered, dropped, cut, errors, crashes>>

PutRecord(m) ==
  /\ reading[m] > 0 /\ Len(recs) < RecsCap
  /\ reading' = [reading EXCEPT ![m] = @ - 1] /\ recs' = Append(recs, m)
  /\ UNCHANGED <<sqs, got, toStart, out, delivered, dropped, unread, cut, errors, crashes>>

DropRecord(m) ==
  /\ reading[m] > 0 /\ Len(recs) >= RecsCap
  /\ reading' = [reading EXCEPT ![m] = @ - 1] /\ dropped' = [dropped EXCEPT ![m] = @ + 1]
  /\ UNCHANGED <<sqs, got, toStart, recs, out, delivered, unread, cut, errors, crashes>>

------------------------------------------------------------------------------
\* checkQOut

TakeRecord ==
  /\ out = <<>> /\ recs # <<>> /\ out' = <<Head(recs)>> /\ recs' = Tail(recs)
  /\ UNCHANGED <<sqs, got, toStart, reading, delivered, dropped, unread, cut, errors, crashes>>

Deliver ==
  /\ out # <<>> /\ out' = <<>> /\ delivered' = [delivered EXCEPT ![Head(out)] = @ + 1]
  /\ UNCHANGED <<sqs, got, toStart, reading, recs, dropped, unread, cut, errors, crashes>>

\* What the agent has of m, once its delete has been tried.
Held(m) ==
  reading[m] + Cardinality({i \in DOMAIN recs : recs[i] = m}) + Cardinality(ToSet(out) \cap {m})
  + Cardinality({i \in {1} : toStart /\ Head(got) = m})

\* The agent stops, and another one starts.
Crash ==
  /\ crashes < MaxCrashes /\ crashes' = crashes + 1
  /\ cut' = [m \in Msgs |-> cut[m] + Held(m)]
  /\ got' = <<>> /\ toStart' = FALSE /\ reading' = None /\ recs' = <<>> /\ out' = <<>>
  /\ UNCHANGED <<sqs, delivered, dropped, unread, errors>>

ReadStep(m) == NotRead(m) \/ PutRecord(m) \/ DropRecord(m)
QueueStep == DeleteOk \/ DeleteFails \/ StartReading \/ BadMessage \/ TakeRecord \/ Deliver

CloudNext ==
  \/ QueueStep \/ Crash
  \/ \E m \in Msgs : VisibilityEnds(m) \/ ReadStep(m)
  \/ \E S \in SUBSET Msgs : \E s \in SetToSeqs(S) : Receive(s)

------------------------------------------------------------------------------
\* Properties.

\* The variables have the types of the code's.
CloudTypeOK ==
  /\ sqs \in [Msgs -> {"visible", "hidden", "deleted"}] /\ ToSet(got) \subseteq Msgs
  /\ toStart => got # <<>>
  /\ Len(recs) <= RecsCap /\ Len(out) <= 1 /\ crashes \in 0..MaxCrashes
  /\ \A f \in {reading, delivered, dropped, unread, cut, errors} : f \in [Msgs -> Nat]

\* "Delete for only once processing": through stops and visibility timeouts
\* a message is handled once, and once more for each delete that failed; what
\* became of each time is known: on its way, given on, counted as dropped,
\* logged as unreadable, or lost by a stop.
OncePerDelete ==
  \A m \in Msgs :
    Held(m) + delivered[m] + dropped[m] + unread[m] + cut[m]
      = errors[m] + (IF sqs[m] = "deleted" THEN 1 ELSE 0)

\* The input keeps its types, and handles a message once for each delete.
CloudInv == CloudTypeOK /\ OncePerDelete
=============================================================================
