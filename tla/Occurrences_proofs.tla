--------------------------- MODULE Occurrences_proofs ---------------------------
(***************************************************************************)
(* Proofs about EditorStore.updateOccurrences for every set of positions   *)
(* and every bound on the occurrences of a call: the type invariant, and   *)
(* that the selection follows the spec's go-to-first rule.  The heart of   *)
(* the second is an operator lemma: the code's chain of `??` computes the  *)
(* spec's target for every call, position 0 included.                      *)
(***************************************************************************)
EXTENDS Occurrences, TLAPS

-----------------------------------------------------------------------------
(* Lemmas about the operators.                                             *)

\* The start of the first occurrence of an array: none for an empty array,
\* `s[0].from` otherwise, which is a position and so not undefined.
LEMMA FirstStarts ==
    ASSUME NEW s \in OccurrenceSeqs
    PROVE  LET starts == {s[i].from : i \in {j \in DOMAIN s : j = 1}}
           IN  /\ s = << >> => starts = {} /\ FirstFrom(s) = None
               /\ s # << >> => /\ starts = {s[1].from}
                               /\ FirstFrom(s) = s[1].from
                               /\ s[1].from \in Positions
<1>1. PICK n \in 0..MaxOccurrences : s \in [1..n -> Occurrence]
  BY DEF OccurrenceSeqs
<1>2. CASE n = 0
  <2>1. DOMAIN s = {} /\ s = << >>
    BY <1>1, <1>2
  <2>2. QED
    BY <2>1 DEF FirstFrom
<1>3. CASE n # 0
  <2>1. 1 \in DOMAIN s /\ {j \in DOMAIN s : j = 1} = {1}
    BY <1>1, <1>3, OccurrencesAssumption
  <2>2. s # << >>
    BY <2>1
  <2>3. s[1] \in Occurrence
    BY <1>1, <2>1
  <2>4. QED
    BY <2>1, <2>2, <2>3 DEF FirstFrom, Occurrence
<1>4. QED
  BY <1>2, <1>3

\* The selection target of updateOccurrences, `write[0]?.from ??
\* read[0]?.from ?? fallbackPos` under goToFirst, is the spec's: the first
\* write occurrence, else the first read occurrence, else the fallback.
LEMMA GoToIsTarget ==
    ASSUME NEW c \in Call
    PROVE  GoTo(c) = Target(c)
<1>1. /\ c.write \in OccurrenceSeqs /\ c.read \in OccurrenceSeqs
      /\ c.goToFirst \in BOOLEAN
  BY DEF Call
<1>2. CASE ~c.goToFirst
  <2>1. GoTo(c) = None
    BY <1>2 DEF GoTo
  <2>2. Target(c) = None
    BY <1>2 DEF Target
  <2>3. QED
    BY <2>1, <2>2
<1>3. CASE c.goToFirst /\ c.write # << >>
  <2>1. /\ WriteStarts(c) = {c.write[1].from}
        /\ FirstFrom(c.write) = c.write[1].from
        /\ c.write[1].from # None
    BY <1>1, <1>3, FirstStarts, OccurrencesAssumption DEF WriteStarts
  <2>2. GoTo(c) = c.write[1].from
    BY <1>3, <2>1 DEF GoTo, Coalesce
  <2>3. Target(c) = CHOOSE p \in {c.write[1].from} : TRUE
    BY <1>3, <2>1 DEF Target
  <2>4. QED
    BY <2>2, <2>3
<1>4. CASE c.goToFirst /\ c.write = << >> /\ c.read # << >>
  <2>1. WriteStarts(c) = {} /\ FirstFrom(c.write) = None
    BY <1>1, <1>4, FirstStarts DEF WriteStarts
  <2>2. /\ ReadStarts(c) = {c.read[1].from}
        /\ FirstFrom(c.read) = c.read[1].from
        /\ c.read[1].from # None
    BY <1>1, <1>4, FirstStarts, OccurrencesAssumption DEF ReadStarts
  <2>3. GoTo(c) = c.read[1].from
    BY <1>4, <2>1, <2>2 DEF GoTo, Coalesce
  <2>4. Target(c) = CHOOSE p \in {c.read[1].from} : TRUE
    BY <1>4, <2>1, <2>2 DEF Target
  <2>5. QED
    BY <2>3, <2>4
<1>5. CASE c.goToFirst /\ c.write = << >> /\ c.read = << >>
  <2>1. WriteStarts(c) = {} /\ FirstFrom(c.write) = None
    BY <1>1, <1>5, FirstStarts DEF WriteStarts
  <2>2. ReadStarts(c) = {} /\ FirstFrom(c.read) = None
    BY <1>1, <1>5, FirstStarts DEF ReadStarts
  <2>3. GoTo(c) = c.fallbackPos
    BY <1>5, <2>1, <2>2 DEF GoTo, Coalesce
  <2>4. Target(c) = c.fallbackPos
    BY <1>5, <2>1, <2>2 DEF Target
  <2>5. QED
    BY <2>3, <2>4
<1>6. QED
  BY <1>1, <1>2, <1>3, <1>4, <1>5

\* The target is a position, or undefined.
LEMMA GoToType ==
    ASSUME NEW c \in Call
    PROVE  GoTo(c) \in Positions \cup {None}
<1>1. /\ c.write \in OccurrenceSeqs /\ c.read \in OccurrenceSeqs
      /\ c.fallbackPos \in Positions \cup {None}
  BY DEF Call
<1>2. /\ FirstFrom(c.write) \in Positions \cup {None}
      /\ FirstFrom(c.read) \in Positions \cup {None}
  BY <1>1, FirstStarts
<1>3. QED
  BY <1>1, <1>2 DEF GoTo, Coalesce

-----------------------------------------------------------------------------
(* Type correctness.                                                       *)

LEMMA NextTypeOK == TypeOK /\ [Next]_vars => TypeOK'
<1> SUFFICES ASSUME TypeOK, [Next]_vars PROVE TypeOK'
  OBVIOUS
<1>1. ASSUME NEW c \in Call, UpdateOccurrences(c) PROVE TypeOK'
  <2>1. c.write \in OccurrenceSeqs /\ c.read \in OccurrenceSeqs
    BY DEF Call
  <2>2. GoTo(c) \in Positions \cup {None}
    BY GoToType
  <2>3. QED
    BY <1>1, <2>1, <2>2 DEF UpdateOccurrences, TypeOK
<1>2. ASSUME NEW p \in Positions, MoveCursor(p) PROVE TypeOK'
  BY <1>2 DEF MoveCursor, TypeOK
<1>3. CASE Blur
  BY <1>3 DEF Blur, TypeOK
<1>4. CASE UNCHANGED vars
  BY <1>4 DEF vars, TypeOK
<1>5. QED
  BY <1>1, <1>2, <1>3, <1>4 DEF Next

\* The shown occurrences, the anchor of the selection and the focus keep
\* their types whatever updateOccurrences is called with.
THEOREM OccurrencesTypeCorrect == Spec => []TypeOK
<1>1. Init => TypeOK
  <2>1. [write |-> << >>, read |-> << >>]
          \in [write : OccurrenceSeqs, read : OccurrenceSeqs]
    <3>1. << >> \in [1..0 -> Occurrence] /\ 0 \in 0..MaxOccurrences
      BY OccurrencesAssumption
    <3>2. QED
      BY <3>1 DEF OccurrenceSeqs
  <2>2. QED
    BY <2>1 DEF Init, TypeOK
<1>2. QED
  BY <1>1, NextTypeOK, PTL DEF Spec

-----------------------------------------------------------------------------
(* The selection.                                                          *)

LEMMA NextSelection ==
    [Next]_vars =>
      [call' # None =>
         /\ anchor' = IF Target(call') = None THEN anchor ELSE Target(call')
         /\ Target(call') # None => focused']_vars
<1> SUFFICES ASSUME [Next]_vars
             PROVE  [call' # None =>
                       /\ anchor' = IF Target(call') = None THEN anchor
                                                            ELSE Target(call')
                       /\ Target(call') # None => focused']_vars
  OBVIOUS
<1>1. ASSUME NEW c \in Call, UpdateOccurrences(c)
      PROVE  /\ anchor' = IF Target(call') = None THEN anchor ELSE Target(call')
             /\ Target(call') # None => focused'
  BY <1>1, GoToIsTarget DEF UpdateOccurrences
<1>2. ASSUME NEW p \in Positions, MoveCursor(p) PROVE call' = None
  BY <1>2 DEF MoveCursor
<1>3. ASSUME Blur PROVE call' = None
  BY <1>3 DEF Blur
<1>4. QED
  BY <1>1, <1>2, <1>3 DEF Next

\* Every call of updateOccurrences moves the selection to the first write
\* occurrence, else the first read occurrence, else the fallback position
\* when asked to go to the first one, and focuses the view when it moves
\* it; otherwise the selection stays.  An occurrence at the start of the
\* document counts like any other.
THEOREM SelectionCorrect == Spec => SelectionFollowsOccurrences
BY NextSelection, PTL DEF Spec, SelectionFollowsOccurrences

=============================================================================
