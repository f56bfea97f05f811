------------------------------ MODULE PromVecs ------------------------------
(***************************************************************************)
(* PromFormat: the tags of the first FlowsNeeded samples of a name become  *)
(* the labels of its gauge vector, each with a fixed position; from then on*)
(* a sample sets the series that its tag values select. To runs under the  *)
(* mutex, a sample is one step. WithLabelValues panics unless it gets as   *)
(* many values as the vector has labels, MustRegister if two of its labels *)
(* are the same, which toLabels may make of two tags (a.b and a_b).        *)
(***************************************************************************)
EXTENDS Naturals, FiniteSets, Functions

CONSTANTS
  PromNames,     \* names of metrics
  Tags,          \* names of tags that are not all digits
  DigitTags,     \* names of tags that are (invalidTag)
  UnsafeTags,    \* those of Tags with a dot or a blank
  Safe(_),       \* a tag with these replaced by underscores
  Vals,          \* values of a tag
  FlowsNeeded,   \* prom_seen
  MaxSamples,    \* samples that are explored
  Blank          \* the empty string, the value of a label that a sample has not

ASSUME PromAssumption ==
  /\ FlowsNeeded \in Nat /\ MaxSamples \in Nat /\ IsFiniteSet(Tags) /\ Tags \cap DigitTags = {}
  /\ Blank \notin Vals
  /\ UnsafeTags \subseteq Tags /\ \A k \in Tags \ UnsafeTags : Safe(k) = k

VARIABLES
  seen,       \* samples of each name seen before its vector is made
  vecTags,    \* for each name the positions of its tags, from 0
  promVecs,   \* the vectors: for each name that has one, the tag of every label
  written,    \* history: the last call of WithLabelValues
  samples,    \* samples so far
  panicked

promVars == <<seen, vecTags, promVecs, written, samples, panicked>>

Empty == [k \in {} |-> 0]

PromInit ==
  /\ seen = [n \in PromNames |-> 0] /\ vecTags = [n \in PromNames |-> Empty]
  /\ promVecs = Empty /\ written = {} /\ samples = 0 /\ panicked = FALSE

\* The new tags get the positions that follow, in the order of a Go map: any.
AddTagLabels(old, tags) ==
  LET new  == (tags \ DigitTags) \ DOMAIN old
      next == Cardinality(DOMAIN old)
  IN  {[k \in DOMAIN old \cup new |-> IF k \in new THEN order[k] ELSE old[k]] :
         order \in Bijection(new, next..(next + Cardinality(new) - 1))}

\* One value for each position; Blank for a label the sample has no tag for.
GetTagValues(pos, tags) ==
  [p \in 0..(Cardinality(DOMAIN pos) - 1) |->
     IF \E k \in DOMAIN tags \cap DOMAIN pos : pos[k] = p
     THEN tags[CHOOSE k \in DOMAIN tags \cap DOMAIN pos : pos[k] = p] ELSE Blank]

\* toLabels: the tags by position, in a form that Prometheus takes.
ToLabels(pos) ==
  [p \in 0..(Cardinality(DOMAIN pos) - 1) |->
     IF p \in Range(pos) THEN Safe(CHOOSE k \in DOMAIN pos : pos[k] = p) ELSE Blank]

\* A sample comes, and the agent still runs.
Take == samples < MaxSamples /\ samples' = samples + 1 /\ ~panicked

\* A sample that only teaches the format the tags of its name.
Learn(n, tags) ==
  /\ Take /\ seen[n] < FlowsNeeded
  /\ \E pos \in AddTagLabels(vecTags[n], DOMAIN tags) : vecTags' = [vecTags EXCEPT ![n] = pos]
  /\ seen' = [seen EXCEPT ![n] = @ + 1]
  /\ UNCHANGED <<promVecs, written, panicked>>

\* NewGaugeVec and MustRegister.
Registers(n) == n \in DOMAIN promVecs \/ IsInjective(ToLabels(vecTags[n]))

RegisterPanics(n) ==
  /\ Take /\ seen[n] >= FlowsNeeded /\ ~Registers(n) /\ panicked' = TRUE
  /\ UNCHANGED <<seen, vecTags, promVecs, written>>

WithVec(n) ==
  IF n \in DOMAIN promVecs THEN promVecs
  ELSE [m \in DOMAIN promVecs \cup {n} |-> IF m = n THEN ToLabels(vecTags[n]) ELSE promVecs[m]]

\* The vector is made with the labels known by then, and its series is set.
Set(n, tags) ==
  /\ Take /\ seen[n] >= FlowsNeeded /\ Registers(n)
  /\ promVecs' = WithVec(n)
  /\ written' = {[name |-> n, tags |-> tags, values |-> GetTagValues(vecTags[n], tags)]}
  /\ UNCHANGED <<seen, vecTags, panicked>>

Samples == UNION {[T -> Vals] : T \in SUBSET (Tags \cup DigitTags)}

PromNext == \E n \in PromNames : \/ RegisterPanics(n)
                                 \/ \E tags \in Samples : Learn(n, tags) \/ Set(n, tags)

------------------------------------------------------------------------------
\* Properties.

\* The variables have the types of the code's.
PromTypeOK ==
  /\ seen \in [PromNames -> 0..FlowsNeeded] /\ samples \in 0..MaxSamples
  /\ DOMAIN promVecs \subseteq PromNames
  /\ \A n \in PromNames : DOMAIN vecTags[n] \subseteq Tags

\* The labels of a vector and the positions of its tags stay the inverse of
\* each other, whatever order the tags were met in: values are as many as
\* labels, and WithLabelValues does not panic.
LabelsMatchVec ==
  \A n \in DOMAIN promVecs :
    /\ Cardinality(DOMAIN promVecs[n]) = Cardinality(DOMAIN vecTags[n])
    /\ \A k \in DOMAIN vecTags[n] : promVecs[n][vecTags[n][k]] = Safe(k)

\* Each value goes to the series under the label of its own tag, and a label
\* the sample has no tag for is blank.
ValuesUnderTheirLabel ==
  \A w \in written :
    /\ DOMAIN w.values = DOMAIN promVecs[w.name]
    /\ \A p \in DOMAIN w.values :
         LET K == {k \in DOMAIN w.tags \cap DOMAIN vecTags[w.name] : Safe(k) = promVecs[w.name][p]}
         IN  IF K = {} THEN w.values[p] = Blank ELSE \A k \in K : w.values[p] = w.tags[k]

\* The format keeps its types, its labels and the values under them.
PromInv == PromTypeOK /\ LabelsMatchVec /\ ValuesUnderTheirLabel
=============================================================================
