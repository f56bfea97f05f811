------------------------------- MODULE S3Sink -------------------------------
(***************************************************************************)
(* S3Sink: Send appends a payload to a buffer under the mutex, a ticker    *)
(* swaps the buffer for an empty one and uploads it in a goroutine, and a  *)
(* payload marked NoBuffer is uploaded by itself. Temporary credentials are*)
(* fetched again on a ticker of their own.                                 *)
(***************************************************************************)
EXTENDS Naturals, Sequences, SequencesExt, FiniteSets

CONSTANTS
  MaxPayloads,    \* payloads that are sent
  MaxExpiries     \* times the credentials run out

ASSUME S3Assumption == MaxPayloads \in Nat /\ MaxExpiries \in Nat

VARIABLES
  payloads,    \* payloads sent so far; they are numbered in the order of Send
  buf,         \* the payloads in the buffer
  single,      \* history: the payloads that were not to be buffered
  flights,     \* uploads at work
  objects,     \* objects in the bucket, in the order in which they arrived
  failed,      \* history: payloads of the uploads that failed
  valid,       \* the client's credentials are valid
  expiries,
  s3done       \* the context is done

s3Vars == <<payloads, buf, single, flights, objects, failed, valid, expiries, s3done>>

S3Init ==
  /\ payloads = 0 /\ buf = <<>> /\ single = {} /\ flights = {} /\ objects = <<>> /\ failed = {}
  /\ valid = TRUE /\ expiries = 0 /\ s3done = FALSE

SendBuffered ==
  /\ payloads < MaxPayloads /\ payloads' = payloads + 1 /\ buf' = Append(buf, payloads + 1)
  /\ UNCHANGED <<single, flights, objects, failed, valid, expiries, s3done>>

SendSingle ==
  /\ payloads < MaxPayloads /\ payloads' = payloads + 1
  /\ single' = single \cup {payloads + 1} /\ flights' = flights \cup {<<payloads + 1>>}
  /\ UNCHANGED <<buf, objects, failed, valid, expiries, s3done>>

\* Mutant of Dump: the buffer is uploaded and not replaced.
DumpKeeps ==
  /\ ~s3done /\ buf # <<>> /\ flights' = flights \cup {buf}
  /\ UNCHANGED <<payloads, buf, single, objects, failed, valid, expiries, s3done>>

\* dumpTick
Dump ==
  /\ ~s3done /\ buf # <<>> /\ flights' = flights \cup {buf} /\ buf' = <<>>
  /\ UNCHANGED <<payloads, single, objects, failed, valid, expiries, s3done>>

UploadFails(f) ==
  /\ f \in flights /\ flights' = flights \ {f} /\ failed' = failed \cup ToSet(f)
  /\ UNCHANGED <<payloads, buf, single, objects, valid, expiries, s3done>>

\* Every upload makes an object of its own. The name is the second and a random
\* number below 100000 (getName), and two uploads of one second that draw the same
\* number, of which the later would replace the earlier, are left out.
Uploaded(f) ==
  /\ f \in flights /\ valid /\ ~s3done /\ flights' = flights \ {f} /\ objects' = Append(objects, f)
  /\ UNCHANGED <<payloads, buf, single, failed, valid, expiries, s3done>>

CredsExpire ==
  /\ valid /\ expiries < MaxExpiries /\ valid' = FALSE /\ expiries' = expiries + 1
  /\ UNCHANGED <<payloads, buf, single, flights, objects, failed, s3done>>

\* newCredTick; when it fails the old credentials stay.
NewCreds ==
  /\ ~valid /\ ~s3done /\ valid' = TRUE
  /\ UNCHANGED <<payloads, buf, single, flights, objects, failed, expiries, s3done>>

\* The loop ends; what is in the buffer stays there.
S3Cancel ==
  /\ ~s3done /\ s3done' = TRUE
  /\ UNCHANGED <<payloads, buf, single, flights, objects, failed, valid, expiries>>

S3Next ==
  \/ SendBuffered \/ SendSingle \/ Dump \/ CredsExpire \/ NewCreds \/ S3Cancel
  \/ \E f \in flights : UploadFails(f) \/ Uploaded(f)

------------------------------------------------------------------------------
\* Properties.

\* The variables have the types of the code's.
S3TypeOK ==
  /\ payloads \in 0..MaxPayloads /\ ToSet(buf) \subseteq 1..payloads /\ single \subseteq 1..payloads
  /\ <<>> \notin flights /\ valid \in BOOLEAN /\ expiries \in 0..MaxExpiries /\ s3done \in BOOLEAN

\* Every payload is in exactly one place: the buffer, one upload, one object
\* of the bucket or one failed upload.
EveryPayloadOnce ==
  \A p \in 1..payloads :
    Cardinality({i \in DOMAIN buf : buf[i] = p}) + Cardinality({f \in flights : p \in ToSet(f)})
    + Cardinality({i \in DOMAIN objects : p \in ToSet(objects[i])})
    + Cardinality({p} \cap failed) = 1

\* An object, and the buffer, is a gapless run of the buffered payloads in
\* the order in which they were sent.
ObjectsAreRuns ==
  \A s \in {buf} \cup flights \cup ToSet(objects) :
    \A i \in 1..(Len(s) - 1) :
      /\ s[i] < s[i + 1] /\ (s[i] + 1)..(s[i + 1] - 1) \subseteq single

\* The sink keeps its types, its payloads and their order.
S3Inv == S3TypeOK /\ EveryPayloadOnce /\ ObjectsAreRuns

\* A buffered payload is uploaded, or fails to be, unless the agent stops.
BufferIsDumped == []<>(buf = <<>> \/ s3done)
=============================================================================
