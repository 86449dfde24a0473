------------------------- MODULE AnalysisStatus_proofs -------------------------
(***************************************************************************)
(* Proofs about the analysis status of an EditorStore, for every number of *)
(* edits and reconnections: the type invariant, and that once the          *)
(* connection is quiet the status, diagnostics, highlighting and semantics *)
(* are those of the current document version.                              *)
(*                                                                         *)
(* SettledStatusCurrent is not inductive: it says nothing while pushes are *)
(* in flight, so it cannot tell whether handling the remaining pushes ends *)
(* in a current state.  The strengthening describes the pushes in flight   *)
(* while connected: the last update sent to the backend is the current     *)
(* version, and once the backend has analysed it, the end of the pushes in  *)
(* flight is the rest of the batch of pushes for that version, of which    *)
(* the client has handled the first k; what the handled ones did is what   *)
(* the status records.                                                     *)
(***************************************************************************)
EXTENDS AnalysisStatus, SequenceTheorems, TLAPS

\* The pushes of one analysis of version v with outcome o.
Batch(v, o) ==
    IF o = << >>
      THEN << [type |-> "started"],
              [type |-> "diagnostics", version |-> v],
              [type |-> "highlighting", version |-> v],
              [type |-> "completed", skipped |-> TRUE] >>
      ELSE << [type |-> "started"],
              [type |-> "diagnostics", version |-> v],
              [type |-> "highlighting", version |-> v],
              o[1],
              [type |-> "completed", skipped |-> FALSE] >>

\* The status after the client handled the first k pushes of the batch of
\* the current version with outcome o (for k > 0).
Handled(o, k) ==
    /\ analyzing <=> k < Len(Batch(version, o))
    /\ k >= 2 => diagnostics = version
    /\ k >= 3 => highlighting = version
    /\ semanticsUpToDate =>
         /\ k >= 4 /\ o # << >> /\ o[1].type = "semantics"
         /\ graph = version

\* The pushes q end with the batch of version v with outcome o after its
\* first k pushes.
EndsWithRest(q, v, o, k) ==
    LET B == Batch(v, o)
        r == Len(B) - k
    IN  /\ Len(q) >= r
        /\ \A i \in 1..r : q[Len(q) - r + i] = B[k + i]

\* The pushes q in flight for version v: they end with the rest of a batch
\* for v; if the client has handled part of it, nothing else is in flight
\* and the status records what the handled pushes did.
Pending(q, v) ==
    \E o \in Outcomes(v), k \in 0..5 :
       /\ k <= Len(Batch(v, o))
       /\ EndsWithRest(q, v, o, k)
       /\ Len(q) > Len(Batch(v, o)) - k => k = 0
       /\ k > 0 => Handled(o, k)

\* While connected, the last update sent to the backend is the current
\* version, and once the backend has analysed it, the pushes in flight are
\* pending for it.
InFlight ==
    connected =>
      /\ toBackend # << >> => toBackend[Len(toBackend)] = version
      /\ toBackend = << >> => Pending(toClient, version)

\* The versions in flight are versions the document has had.
VersionsSeen ==
    /\ \A i \in 1..Len(toBackend) : toBackend[i] <= version
    /\ \A i \in 1..Len(toClient) :
         toClient[i].type \in {"diagnostics", "highlighting", "semantics"}
           => toClient[i].version <= version

IInv == TypeOK /\ VersionsSeen /\ InFlight

-----------------------------------------------------------------------------
(* Lemmas about the batches of pushes.                                     *)

\* An outcome is empty or one push, which is of version v if it carries the
\* semantics.
LEMMA OutcomeShape ==
    ASSUME NEW v \in Versions, NEW o \in Outcomes(v)
    PROVE  /\ o \in Seq(Push)
           /\ o # << >> =>
                /\ o = << o[1] >>
                /\ o[1] \in Push
                /\ o[1].type \in {"semantics", "semanticsError"}
                /\ o[1].type = "semantics" => o[1].version = v
<1>1. [type |-> "semantics", version |-> v] \in Push
  BY DEF Push
<1>2. \A e, r \in BOOLEAN :
        [type |-> "semanticsError", error |-> e, rejected |-> r] \in Push
  BY DEF Push
<1>3. CASE o = << >>
  BY <1>3, EmptySeq
<1>4. CASE o = << [type |-> "semantics", version |-> v] >>
  BY <1>1, <1>4
<1>6. CASE \E e, r \in BOOLEAN :
             o = << [type |-> "semanticsError", error |-> e, rejected |-> r] >>
  <2>1. PICK e, r \in BOOLEAN :
          o = << [type |-> "semanticsError", error |-> e, rejected |-> r] >>
    BY <1>6
  <2>2. QED
    BY <1>2, <2>1
<1>7. QED
  BY <1>3, <1>4, <1>6 DEF Outcomes

\* A batch is a sequence of four or five pushes, whose versioned pushes are
\* of the version analysed.
LEMMA BatchFacts ==
    ASSUME NEW v \in Versions, NEW o \in Outcomes(v)
    PROVE  /\ Batch(v, o) \in Seq(Push)
           /\ Len(Batch(v, o)) = IF o = << >> THEN 4 ELSE 5
           /\ \A i \in 1..Len(Batch(v, o)) :
                Batch(v, o)[i].type \in {"diagnostics", "highlighting", "semantics"}
                  => Batch(v, o)[i].version = v
<1>1. CASE o = << >>
  BY <1>1 DEF Batch, Push
<1>2. CASE o # << >>
  <2>1. /\ o[1] \in Push
        /\ o[1].type \in {"semantics", "semanticsError"}
        /\ o[1].type = "semantics" => o[1].version = v
    BY <1>2, OutcomeShape
  <2>2. QED
    BY <1>2, <2>1 DEF Batch, Push
<1>3. QED
  BY <1>1, <1>2

\* Concatenating short tuples.
LEMMA Concat3x1 ==
    ASSUME NEW S, NEW a \in S, NEW b \in S, NEW c \in S, NEW d \in S
    PROVE  <<a, b, c>> \o <<d>> = <<a, b, c, d>>
<1>1. <<a, b, c>> \in Seq(S) /\ <<d>> \in Seq(S) /\ <<a, b, c, d>> \in Seq(S)
  OBVIOUS
<1>2. /\ <<a, b, c>> \o <<d>> \in Seq(S)
      /\ Len(<<a, b, c>> \o <<d>>) = 4
      /\ \A i \in 1..4 : (<<a, b, c>> \o <<d>>)[i] = <<a, b, c, d>>[i]
  BY <1>1, ConcatProperties
<1>3. QED
  BY <1>1, <1>2, SeqEqual

LEMMA Concat4x1 ==
    ASSUME NEW S, NEW a \in S, NEW b \in S, NEW c \in S, NEW d \in S,
           NEW e \in S
    PROVE  <<a, b, c, d>> \o <<e>> = <<a, b, c, d, e>>
<1>1. <<a, b, c, d>> \in Seq(S) /\ <<e>> \in Seq(S)
      /\ <<a, b, c, d, e>> \in Seq(S)
  OBVIOUS
<1>2. /\ <<a, b, c, d>> \o <<e>> \in Seq(S)
      /\ Len(<<a, b, c, d>> \o <<e>>) = 5
      /\ \A i \in 1..5 : (<<a, b, c, d>> \o <<e>>)[i] = <<a, b, c, d, e>>[i]
  BY <1>1, ConcatProperties
<1>3. QED
  BY <1>1, <1>2, SeqEqual

\* What BackendAnalyse appends to the pushes in flight is a batch.
LEMMA BatchAppend ==
    ASSUME NEW s \in Seq(Push), NEW v \in Versions, NEW o \in Outcomes(v)
    PROVE  s \o <<[type |-> "started"],
                  [type |-> "diagnostics", version |-> v],
                  [type |-> "highlighting", version |-> v]>>
             \o o \o <<[type |-> "completed", skipped |-> o = << >>]>>
           = s \o Batch(v, o)
<1> DEFINE st == [type |-> "started"]
           dg == [type |-> "diagnostics", version |-> v]
           hl == [type |-> "highlighting", version |-> v]
           cp == [type |-> "completed", skipped |-> o = << >>]
           front == <<st, dg, hl>>
<1>1. st \in Push /\ dg \in Push /\ hl \in Push /\ cp \in Push
  BY DEF Push
<1>2. front \in Seq(Push) /\ <<cp>> \in Seq(Push)
  BY <1>1
<1>3. o \in Seq(Push)
  BY OutcomeShape
<1>4. (front \o o) \o <<cp>> = Batch(v, o)
  <2>1. CASE o = << >>
    <3>1. front \o o = front
      BY <1>2, <2>1, ConcatEmptySeq
    <3>2. front \o <<cp>> = <<st, dg, hl, cp>>
      BY <1>1, Concat3x1
    <3>3. cp = [type |-> "completed", skipped |-> TRUE]
      BY <2>1
    <3>4. QED
      BY <2>1, <3>1, <3>2, <3>3 DEF Batch
  <2>2. CASE o # << >>
    <3> DEFINE p == o[1]
    <3>1. o = << p >> /\ p \in Push
      BY <2>2, OutcomeShape
    <3>2a. <<st, dg, hl>> \o << p >> = <<st, dg, hl, p>>
      BY <1>1, <3>1, Concat3x1
    <3>2. front \o o = <<st, dg, hl, p>>
      BY <3>1, <3>2a
    <3>3. <<st, dg, hl, p>> \o <<cp>> = <<st, dg, hl, p, cp>>
      BY <1>1, <3>1, Concat4x1
    <3>4. cp = [type |-> "completed", skipped |-> FALSE]
      BY <2>2
    <3>5. QED
      BY <2>2, <3>2, <3>3, <3>4 DEF Batch
  <2>3. QED
    BY <2>1, <2>2
<1>5. front \o o \in Seq(Push)
  BY <1>2, <1>3, ConcatProperties
<1>6. (s \o front) \o o = s \o (front \o o)
  BY <1>2, <1>3, ConcatAssociative
<1>7. (s \o (front \o o)) \o <<cp>> = s \o ((front \o o) \o <<cp>>)
  BY <1>2, <1>5, ConcatAssociative
<1>8. QED
  BY <1>4, <1>6, <1>7

-----------------------------------------------------------------------------
(* Type correctness.                                                       *)

LEMMA InitTypeVS == Init => TypeOK /\ VersionsSeen
<1> SUFFICES ASSUME Init PROVE TypeOK /\ VersionsSeen
  OBVIOUS
<1>1. version \in Versions /\ reconnects \in 0..MaxReconnects
  BY AnalysisStatusAssumption DEF Init, Versions
<1>2. /\ analyzing \in BOOLEAN /\ semanticsUpToDate \in BOOLEAN
      /\ semanticsError \in BOOLEAN /\ propagationRejected \in BOOLEAN
      /\ connected \in BOOLEAN
  BY DEF Init
<1>3. {diagnostics, highlighting, graph} \subseteq 0..version
  BY DEF Init
<1>4. toBackend \in Seq(Versions) /\ toClient \in Seq(Push)
  BY <1>1, EmptySeq DEF Init
<1>5. VersionsSeen
  BY DEF Init, VersionsSeen
<1>6. QED
  BY <1>1, <1>2, <1>3, <1>4, <1>5 DEF TypeOK

\* The client handles the oldest push: what it shows comes from the push.
LEMMA ReceiveTypeVS ==
    ASSUME TypeOK, VersionsSeen, ClientReceive
    PROVE  TypeOK' /\ VersionsSeen'
<1> DEFINE m == Head(toClient)
<1>1. /\ m \in Push
      /\ m.type \in {"diagnostics", "highlighting", "semantics"}
           => m.version <= version
      /\ toClient' \in Seq(Push)
      /\ \A i \in 1..Len(toClient') :
           toClient'[i].type \in {"diagnostics", "highlighting", "semantics"}
             => toClient'[i].version <= version
  BY HeadTailProperties, EmptySeq DEF ClientReceive, TypeOK, VersionsSeen
<1>2. m.type \in {"diagnostics", "highlighting", "semantics"}
        => m.version \in 0..version
  BY <1>1, AnalysisStatusAssumption DEF Push, Versions, TypeOK
<1>3. {diagnostics', highlighting', graph'} \subseteq 0..version
  BY <1>2 DEF ClientReceive, HandlePush, UpdateDiagnostics, UpdateSemanticHighlighting, TypeOK, SetSemantics
<1>4. /\ analyzing' \in BOOLEAN /\ semanticsUpToDate' \in BOOLEAN
      /\ semanticsError' \in BOOLEAN /\ propagationRejected' \in BOOLEAN
  BY <1>1 DEF ClientReceive, HandlePush, UpdateDiagnostics, UpdateSemanticHighlighting, TypeOK, Push, status,
     AnalysisStarted, AnalysisCompleted, CompletedStatus, SetSemantics, SetSemanticsError
<1>5. QED
  BY <1>1, <1>3, <1>4 DEF ClientReceive, TypeOK, VersionsSeen

\* The backend analyses the oldest update: the batch it pushes is of a
\* version the document has had.
LEMMA AnalyseTypeVS ==
    ASSUME TypeOK, VersionsSeen, BackendAnalyse
    PROVE  TypeOK' /\ VersionsSeen'
<1> DEFINE v == Head(toBackend)
<1>1. v \in Versions /\ v <= version /\ Tail(toBackend) \in Seq(Versions)
      /\ \A i \in 1..Len(Tail(toBackend)) : Tail(toBackend)[i] <= version
  BY HeadTailProperties DEF BackendAnalyse, TypeOK, VersionsSeen
<1>2. PICK o \in Outcomes(v) : toClient' = toClient \o Batch(v, o)
  <2>1. PICK o \in Outcomes(v) :
          toClient' = toClient \o <<[type |-> "started"],
                                    [type |-> "diagnostics", version |-> v],
                                    [type |-> "highlighting", version |-> v]>>
                      \o o \o <<[type |-> "completed", skipped |-> o = << >>]>>
    BY DEF BackendAnalyse
  <2>2. QED
    BY <1>1, <2>1, BatchAppend DEF TypeOK
<1> DEFINE B == Batch(v, o)
<1>3. /\ B \in Seq(Push)
      /\ \A i \in 1..Len(B) :
           B[i].type \in {"diagnostics", "highlighting", "semantics"}
             => B[i].version = v
  BY <1>1, BatchFacts
<1>4. /\ toClient' \in Seq(Push)
      /\ Len(toClient') = Len(toClient) + Len(B)
      /\ \A i \in 1..Len(toClient) + Len(B) :
           toClient'[i] = IF i <= Len(toClient) THEN toClient[i]
                                               ELSE B[i - Len(toClient)]
  BY <1>2, <1>3, ConcatProperties DEF TypeOK
<1>5. \A i \in 1..Len(toClient') :
        toClient'[i].type \in {"diagnostics", "highlighting", "semantics"}
          => toClient'[i].version <= version
  <2> SUFFICES ASSUME NEW i \in 1..Len(toClient'),
                      toClient'[i].type \in {"diagnostics", "highlighting",
                                             "semantics"}
               PROVE  toClient'[i].version <= version
    OBVIOUS
  <2>1. CASE i <= Len(toClient)
    BY <1>4, <2>1 DEF VersionsSeen, TypeOK
  <2>2. CASE i > Len(toClient)
    <3>1. i - Len(toClient) \in 1..Len(B) /\ toClient'[i] = B[i - Len(toClient)]
      BY <1>3, <1>4, <2>2 DEF TypeOK
    <3>2. QED
      BY <1>1, <1>3, <3>1
  <2>3. QED
    BY <2>1, <2>2 DEF TypeOK
<1>6. VersionsSeen'
  BY <1>1, <1>5 DEF BackendAnalyse, VersionsSeen
<1>7. /\ version' \in Versions /\ reconnects' \in 0..MaxReconnects
      /\ connected' \in BOOLEAN
      /\ analyzing' \in BOOLEAN /\ semanticsUpToDate' \in BOOLEAN
      /\ semanticsError' \in BOOLEAN /\ propagationRejected' \in BOOLEAN
      /\ {diagnostics', highlighting', graph'} \subseteq 0..version'
  BY DEF BackendAnalyse, TypeOK, status
<1>8. QED
  BY <1>1, <1>4, <1>6, <1>7 DEF BackendAnalyse, TypeOK

\* TypeOK in parts: the counters, the status flags, what is shown, and the
\* messages in flight.
CountersOK ==
    version \in Versions /\ reconnects \in 0..MaxReconnects
      /\ connected \in BOOLEAN

FlagsOK ==
    /\ analyzing \in BOOLEAN /\ semanticsUpToDate \in BOOLEAN
    /\ semanticsError \in BOOLEAN /\ propagationRejected \in BOOLEAN

ShownOK == {diagnostics, highlighting, graph} \subseteq 0..version

QueuesOK == toBackend \in Seq(Versions) /\ toClient \in Seq(Push)

LEMMA TypeOKParts == TypeOK <=> CountersOK /\ FlagsOK /\ ShownOK /\ QueuesOK
BY DEF TypeOK, CountersOK, FlagsOK, ShownOK, QueuesOK

\* A drop empties both directions of the connection.
LEMMA DisconnectTypeVS ==
    ASSUME TypeOK, VersionsSeen, Disconnect
    PROVE  TypeOK' /\ VersionsSeen'
<1> USE DEF CountersOK, FlagsOK, ShownOK, QueuesOK
<1>0. CountersOK /\ FlagsOK /\ ShownOK /\ QueuesOK
  BY TypeOKParts
<1>1. CountersOK' /\ FlagsOK' /\ ShownOK'
  BY <1>0 DEF Disconnect, OnDisconnect, AnalysisCompleted, CompletedStatus
<1>2. QueuesOK'
  BY EmptySeq DEF Disconnect
<1>3. VersionsSeen'
  BY DEF Disconnect, VersionsSeen
<1>4. QED
  BY <1>1, <1>2, <1>3 DEF TypeOK

\* An edit makes a new version and, while connected, sends it.
LEMMA EditTypeVS ==
    ASSUME TypeOK, VersionsSeen, Edit
    PROVE  TypeOK' /\ VersionsSeen'
<1> USE DEF CountersOK, FlagsOK, ShownOK, QueuesOK
<1>0. CountersOK /\ FlagsOK /\ ShownOK /\ QueuesOK
  BY TypeOKParts
<1>1. version + 1 \in Versions
  BY <1>0, AnalysisStatusAssumption DEF Edit, Versions
<1>2. CountersOK' /\ FlagsOK' /\ ShownOK'
  BY <1>0, <1>1 DEF Edit, status, Versions
<1>3. toBackend' \in Seq(Versions)
      /\ \A i \in 1..Len(toBackend') : toBackend'[i] <= version + 1
  <2>1. CASE connected
    <3>1. toBackend' = Append(toBackend, version + 1)
      BY <2>1 DEF Edit
    <3>2. QED
      BY <1>0, <1>1, <3>1, AppendProperties, AnalysisStatusAssumption
         DEF VersionsSeen, Versions
  <2>2. CASE ~connected
    BY <1>0, <2>2, AnalysisStatusAssumption DEF Edit, VersionsSeen, Versions
  <2>3. QED
    BY <2>1, <2>2
<1>4. toClient' \in Seq(Push)
      /\ \A i \in 1..Len(toClient') :
           toClient'[i].type \in {"diagnostics", "highlighting", "semantics"}
             => toClient'[i].version <= version + 1
  <2>1. toClient' = toClient
    BY DEF Edit
  <2>2. \A i \in 1..Len(toClient) : toClient[i] \in Push
    BY <1>0, ElementOfSeq
  <2>3. QED
    BY <1>0, <2>1, <2>2, AnalysisStatusAssumption DEF VersionsSeen, Versions, Push
<1>5. QED
  BY <1>2, <1>3, <1>4 DEF Edit, TypeOK, VersionsSeen

\* A reconnection sends the whole document again.
LEMMA ReconnectTypeVS ==
    ASSUME TypeOK, VersionsSeen, Reconnect
    PROVE  TypeOK' /\ VersionsSeen'
<1> USE DEF CountersOK, FlagsOK, ShownOK, QueuesOK
<1>0. CountersOK /\ FlagsOK /\ ShownOK /\ QueuesOK
  BY TypeOKParts
<1>1. CountersOK' /\ FlagsOK' /\ ShownOK'
  BY <1>0, AnalysisStatusAssumption DEF Reconnect, status
<1>2. toBackend' \in Seq(Versions) /\ Len(toBackend') = 1
      /\ toBackend'[1] = version
  BY <1>0 DEF Reconnect
<1>3. toClient' \in Seq(Push)
  BY <1>0 DEF Reconnect
<1>4. VersionsSeen'
  BY <1>0, <1>2, AnalysisStatusAssumption DEF Reconnect, VersionsSeen, Versions
<1>5. QED
  BY <1>1, <1>2, <1>3, <1>4 DEF TypeOK

LEMMA NextTypeVS ==
    TypeOK /\ VersionsSeen /\ [Next]_vars => TypeOK' /\ VersionsSeen'
<1> SUFFICES ASSUME TypeOK, VersionsSeen, [Next]_vars
             PROVE  TypeOK' /\ VersionsSeen'
  OBVIOUS
<1>1. CASE UNCHANGED vars
  BY <1>1 DEF vars, TypeOK, VersionsSeen
<1>2. QED
  BY <1>1, ReceiveTypeVS, DisconnectTypeVS, EditTypeVS, ReconnectTypeVS,
     AnalyseTypeVS DEF Next

\* The document version, the status flags and the pushes in flight keep
\* their types, and what the store shows was computed from a version the
\* document has had, in every interleaving of edits, pushes, drops and
\* reconnections.
THEOREM StatusTypeCorrect == Spec => []TypeOK
<1>1. TypeOK /\ VersionsSeen /\ [Next]_vars => (TypeOK /\ VersionsSeen)'
  BY NextTypeVS
<1>2. QED
  BY <1>1, InitTypeVS, PTL DEF Spec

-----------------------------------------------------------------------------
(* The pushes in flight for the current version.                           *)

\* Handling the next push of the batch of the current version records one
\* more handled push.
LEMMA HandledStep ==
    ASSUME TypeOK, NEW o \in Outcomes(version),
           NEW k \in 0..Len(Batch(version, o)) - 1,
           k > 0 => Handled(o, k),
           HandlePush(Batch(version, o)[k + 1]),
           version' = version
    PROVE  Handled(o, k + 1)'
<1> DEFINE B == Batch(version, o)
<1>1. version \in Versions
  BY DEF TypeOK
<1>2. Len(B) = IF o = << >> THEN 4 ELSE 5
  BY <1>1, BatchFacts
<1> SUFFICES
      /\ analyzing' <=> k + 1 < Len(B)
      /\ k + 1 >= 2 => diagnostics' = version
      /\ k + 1 >= 3 => highlighting' = version
      /\ semanticsUpToDate' =>
           /\ k + 1 >= 4 /\ o # << >> /\ o[1].type = "semantics"
           /\ graph' = version
  BY DEF Handled
<1> USE <1>2 DEF Handled
<1>2a. k \in {0, 1, 2, 3, 4}
  OBVIOUS
<1>3. CASE k = 0
  <2>1. HandlePush([type |-> "started"])
    BY <1>3 DEF Batch
  <2>2. analyzing' = TRUE /\ semanticsUpToDate' = FALSE
    BY <2>1 DEF HandlePush, UpdateDiagnostics, UpdateSemanticHighlighting, AnalysisStarted
  <2>3. 1 < Len(B)
    BY <1>2
  <2>4. analyzing' <=> k + 1 < Len(B)
    BY <1>3, <2>2, <2>3
  <2>5. QED
    BY <1>3, <2>2, <2>4
<1>4. CASE k = 1
  <2>1. HandlePush([type |-> "diagnostics", version |-> version])
    BY <1>4 DEF Batch
  <2>2. analyzing' = analyzing /\ semanticsUpToDate' = semanticsUpToDate
        /\ diagnostics' = version
    BY <2>1 DEF HandlePush, UpdateDiagnostics, UpdateSemanticHighlighting, status
  <2>3. QED
    BY <1>4, <2>2
<1>5. CASE k = 2
  <2>1. HandlePush([type |-> "highlighting", version |-> version])
    BY <1>5 DEF Batch
  <2>2. analyzing' = analyzing /\ semanticsUpToDate' = semanticsUpToDate
        /\ diagnostics' = diagnostics /\ highlighting' = version
    BY <2>1 DEF HandlePush, UpdateDiagnostics, UpdateSemanticHighlighting, status
  <2>3. QED
    BY <1>5, <2>2
<1>6. CASE k = 3 /\ o = << >>
  <2>1. HandlePush([type |-> "completed", skipped |-> TRUE])
    BY <1>6 DEF Batch
  <2>2. analyzing' = FALSE /\ semanticsUpToDate' = semanticsUpToDate
        /\ diagnostics' = diagnostics /\ highlighting' = highlighting
    BY <2>1 DEF HandlePush, UpdateDiagnostics, UpdateSemanticHighlighting, AnalysisCompleted, CompletedStatus
  <2>3. QED
    BY <1>6, <2>2
<1>7. CASE k = 3 /\ o # << >>
  <2> DEFINE p == o[1]
  <2>1. /\ p \in Push
        /\ p.type \in {"semantics", "semanticsError"}
        /\ p.type = "semantics" => p.version = version
    BY <1>1, <1>7, OutcomeShape
  <2>2. HandlePush(p)
    BY <1>7 DEF Batch
  <2>3. CASE p.type = "semantics"
    <3>1. /\ diagnostics' = diagnostics /\ highlighting' = highlighting
          /\ analyzing' = analyzing
          /\ semanticsUpToDate' /\ graph' = p.version
      BY <2>2, <2>3 DEF HandlePush, UpdateDiagnostics, UpdateSemanticHighlighting, SetSemantics
    <3>2. graph' = version
      BY <2>1, <2>3, <3>1
    <3>3. QED
      BY <1>7, <2>3, <3>1, <3>2
  <2>4. CASE p.type = "semanticsError"
    <3>1. /\ diagnostics' = diagnostics /\ highlighting' = highlighting
          /\ analyzing' = analyzing
          /\ semanticsUpToDate' = semanticsUpToDate
      BY <2>2, <2>4 DEF HandlePush, UpdateDiagnostics, UpdateSemanticHighlighting, SetSemanticsError
    <3>2. QED
      BY <1>7, <3>1
  <2>5. QED
    BY <2>1, <2>3, <2>4
<1>8. CASE k = 4
  <2>1. o # << >>
    BY <1>8
  <2>2. HandlePush([type |-> "completed", skipped |-> FALSE])
    BY <1>8, <2>1 DEF Batch
  <2>3. analyzing' = FALSE /\ semanticsUpToDate' = semanticsUpToDate
        /\ diagnostics' = diagnostics /\ highlighting' = highlighting
        /\ graph' = graph
    BY <2>2 DEF HandlePush, UpdateDiagnostics, UpdateSemanticHighlighting, AnalysisCompleted, CompletedStatus
  <2>4. QED
    BY <1>8, <2>1, <2>3
<1>9. QED
  BY <1>2a, <1>3, <1>4, <1>5, <1>6, <1>7, <1>8

LEMMA InitInFlight == Init => InFlight
BY DEF Init, InFlight

\* A drop leaves nothing to say about the pushes in flight.
LEMMA DisconnectInFlight == Disconnect => InFlight'
BY DEF Disconnect, InFlight

\* An edit while connected sends the new version last.
LEMMA EditInFlight ==
    ASSUME TypeOK, Edit
    PROVE  InFlight'
<1>1. CASE connected
  <2>1. version + 1 \in Versions /\ toBackend \in Seq(Versions)
    BY AnalysisStatusAssumption DEF Edit, TypeOK, Versions
  <2>2. toBackend' = Append(toBackend, version + 1)
    BY <1>1 DEF Edit
  <2>3. toBackend' # << >> /\ toBackend'[Len(toBackend')] = version'
    BY <2>1, <2>2, AppendProperties DEF Edit
  <2>4. QED
    BY <2>3 DEF InFlight
<1>2. CASE ~connected
  BY <1>2 DEF Edit, InFlight
<1>3. QED
  BY <1>1, <1>2

\* A reconnection sends the current version.
LEMMA ReconnectInFlight == Reconnect => InFlight'
BY DEF Reconnect, InFlight

\* The backend analyses an update: if it was the last one sent, the batch
\* it pushes for the current version is pending, none of it handled yet.
LEMMA AnalyseInFlight ==
    ASSUME TypeOK, InFlight, BackendAnalyse
    PROVE  InFlight'
<1>1. CASE ~connected
  BY <1>1 DEF BackendAnalyse, InFlight
<1>2. CASE connected
  <2>1. /\ toBackend \in Seq(Versions) /\ toBackend # << >>
        /\ toBackend[Len(toBackend)] = version
        /\ version' = version /\ connected'
    BY <1>2 DEF BackendAnalyse, InFlight, TypeOK
  <2>2. /\ Tail(toBackend) \in Seq(Versions)
        /\ Len(Tail(toBackend)) = Len(toBackend) - 1
        /\ \A i \in 1..Len(Tail(toBackend)) :
             Tail(toBackend)[i] = toBackend[i + 1]
    BY <2>1, HeadTailProperties
  <2>2a. Len(toBackend) \in Nat /\ Len(toBackend) >= 1
    BY <2>1, EmptySeq
  <2>3. CASE Len(toBackend) > 1
    <3>0. Len(Tail(toBackend)) \in Nat /\ Len(Tail(toBackend)) >= 1
      BY <2>2, <2>2a, <2>3
    <3>1a. Tail(toBackend) # << >>
      BY <3>0, EmptySeq
    <3>1b. Len(toBackend) - 1 \in 1..Len(Tail(toBackend))
      BY <2>2, <2>2a, <2>3
    <3>1c. Tail(toBackend)[Len(toBackend) - 1] = toBackend[Len(toBackend)]
      BY <2>2, <2>2a, <3>1b
    <3>1. Tail(toBackend) # << >>
          /\ Tail(toBackend)[Len(Tail(toBackend))] = version
      BY <2>1, <2>2, <3>1a, <3>1c
    <3>2. QED
      BY <2>1, <3>1 DEF BackendAnalyse, InFlight
  <2>4. CASE Len(toBackend) = 1
    <3>1. Head(toBackend) = version /\ toBackend' = << >>
      BY <2>1, <2>2, <2>4, EmptySeq DEF BackendAnalyse
    <3>2. version \in Versions /\ toClient \in Seq(Push)
      BY DEF TypeOK
    <3>3. PICK o \in Outcomes(version) : toClient' = toClient \o Batch(version, o)
      <4>1. PICK o \in Outcomes(version) :
              toClient' = toClient
                \o <<[type |-> "started"],
                     [type |-> "diagnostics", version |-> version],
                     [type |-> "highlighting", version |-> version]>>
                \o o \o <<[type |-> "completed", skipped |-> o = << >>]>>
        BY <3>1 DEF BackendAnalyse
      <4>2. QED
        BY <3>2, <4>1, BatchAppend
    <3> DEFINE B == Batch(version, o)
    <3>4. B \in Seq(Push) /\ Len(B) \in {4, 5}
      BY <3>2, BatchFacts
    <3>5. /\ Len(toClient') = Len(toClient) + Len(B)
          /\ \A i \in 1..Len(toClient) + Len(B) :
               toClient'[i] = IF i <= Len(toClient) THEN toClient[i]
                                                   ELSE B[i - Len(toClient)]
      BY <3>2, <3>3, <3>4, ConcatProperties
    <3>6. EndsWithRest(toClient', version, o, 0)
      BY <3>2, <3>4, <3>5 DEF EndsWithRest
    <3>7. Pending(toClient, version)'
      <4>1. 0 \in 0..5 /\ 0 <= Len(B) /\ ~(0 > 0)
            /\ (Len(toClient') > Len(B) - 0 => 0 = 0)
        BY <3>4
      <4>2. EndsWithRest(toClient', version', o, 0)
        BY <2>1, <3>6
      <4>3. o \in Outcomes(version')
        BY <2>1
      <4>4. QED
        BY <2>1, <4>1, <4>2, <4>3 DEF Pending
    <3>8. QED
      BY <2>1, <3>1, <3>7 DEF InFlight
  <2>5. \A n \in Nat : n >= 1 => n > 1 \/ n = 1
    OBVIOUS
  <2>6. QED
    BY <2>2a, <2>3, <2>4, <2>5
<1>3. QED
  BY <1>1, <1>2

\* The client handles the oldest push.  If pushes of an earlier batch are
\* ahead of the batch of the current version, it stays whole; otherwise the
\* push handled is the next one of that batch, and the status records it.
LEMMA ReceiveInFlight ==
    ASSUME TypeOK, InFlight, ClientReceive
    PROVE  InFlight'
<1>1. version' = version /\ connected' = connected /\ toBackend' = toBackend
  BY DEF ClientReceive
<1>2. CASE ~connected \/ toBackend # << >>
  BY <1>1, <1>2 DEF InFlight
<1>3. CASE connected /\ toBackend = << >>
  <2>1. PICK o \in Outcomes(version), k \in 0..5 :
          /\ k <= Len(Batch(version, o))
          /\ EndsWithRest(toClient, version, o, k)
          /\ Len(toClient) > Len(Batch(version, o)) - k => k = 0
          /\ k > 0 => Handled(o, k)
    BY <1>3 DEF InFlight, Pending
  <2> DEFINE B == Batch(version, o)
             L == Len(B)
             n == Len(toClient)
             r == L - k
  <2>2. version \in Versions /\ toClient \in Seq(Push) /\ toClient # << >>
    BY DEF TypeOK, ClientReceive
  <2>3. B \in Seq(Push) /\ L \in {4, 5}
    BY <2>2, BatchFacts
  <2>4. n \in Nat /\ n >= 1
    BY <2>2, EmptySeq
  <2>5. /\ toClient' \in Seq(Push)
        /\ Len(toClient') = n - 1
        /\ \A i \in 1..n - 1 : toClient'[i] = toClient[i + 1]
    BY <2>2, HeadTailProperties DEF ClientReceive
  <2>6. n >= r /\ \A i \in 1..r : toClient[n - r + i] = B[k + i]
    BY <2>1 DEF EndsWithRest
  <2>7. CASE n > r
    <3>1. k = 0
      BY <2>1, <2>7
    <3>2. Len(toClient') >= L
      BY <2>3, <2>4, <2>5, <2>7, <3>1
    <3>3. \A i \in 1..L : toClient'[Len(toClient') - L + i] = B[i]
      <4> SUFFICES ASSUME NEW i \in 1..L
                   PROVE  toClient'[Len(toClient') - L + i] = B[i]
        OBVIOUS
      <4>1. Len(toClient') - L + i \in 1..n - 1
        BY <2>3, <2>4, <2>5, <2>7, <3>1
      <4>2. toClient'[Len(toClient') - L + i] = toClient[n - L + i]
        BY <2>4, <2>5, <4>1
      <4>3. toClient[n - L + i] = B[i]
        BY <2>6, <3>1
      <4>4. QED
        BY <4>2, <4>3
    <3>4. EndsWithRest(toClient', version', o, 0)
      BY <1>1, <3>2, <3>3 DEF EndsWithRest
    <3>5. Pending(toClient, version)'
      <4>1. 0 \in 0..5 /\ 0 <= L /\ ~(0 > 0) /\ o \in Outcomes(version')
        BY <1>1, <2>3
      <4>2. QED
        BY <1>1, <3>4, <4>1 DEF Pending
    <3>6. QED
      BY <1>1, <1>3, <3>5 DEF InFlight
  <2>8. CASE n <= r
    <3>1. n = r /\ k \in 0..L - 1
      BY <2>2, <2>3, <2>4, <2>6, <2>8
    <3>2. Head(toClient) = B[k + 1]
      <4>1. Head(toClient) = toClient[1]
        BY <2>2
      <4>2. toClient[n - r + 1] = B[k + 1]
        BY <2>4, <2>6, <3>1
      <4>3. QED
        BY <3>1, <4>1, <4>2
    <3>3. HandlePush(B[k + 1])
      BY <3>2 DEF ClientReceive
    <3>4. Handled(o, k + 1)'
      BY <1>1, <2>1, <3>1, <3>3, HandledStep
    <3>5. EndsWithRest(toClient', version', o, k + 1)
      <4>1. Len(toClient') = L - (k + 1)
        BY <2>5, <3>1
      <4>2. \A i \in 1..L - (k + 1) :
              toClient'[Len(toClient') - (L - (k + 1)) + i] = B[k + 1 + i]
        <5> SUFFICES ASSUME NEW i \in 1..L - (k + 1)
                     PROVE  toClient'[Len(toClient') - (L - (k + 1)) + i]
                              = B[k + 1 + i]
          OBVIOUS
        <5>1. i \in 1..n - 1 /\ Len(toClient') - (L - (k + 1)) + i = i
          BY <2>3, <2>4, <3>1, <4>1
        <5>2. toClient'[i] = toClient[i + 1]
          BY <2>5, <5>1
        <5>3a. i + 1 \in 1..r
          BY <2>2, <2>4, <3>1, <5>1
        <5>3. toClient[n - r + (i + 1)] = B[k + (i + 1)]
          BY <2>6, <5>3a
        <5>4. n - r + (i + 1) = i + 1 /\ k + (i + 1) = k + 1 + i
          BY <2>3, <2>4, <3>1, <5>1
        <5>5. QED
          BY <5>1, <5>2, <5>3, <5>4
      <4>3. QED
        BY <1>1, <2>3, <4>1, <4>2 DEF EndsWithRest
    <3>6. Pending(toClient, version)'
      <4>1. /\ k + 1 \in 0..5 /\ k + 1 <= L /\ o \in Outcomes(version')
            /\ ~(Len(toClient') > L - (k + 1))
        <5>1. k + 1 \in 0..5 /\ k + 1 <= L
          BY <2>3, <3>1
        <5>2. o \in Outcomes(version')
          BY <1>1
        <5>3. Len(toClient') = L - (k + 1)
          BY <2>2, <2>4, <2>5, <3>1
        <5>4. QED
          BY <2>3, <2>5, <5>1, <5>2, <5>3
      <4>2. QED
        BY <1>1, <3>4, <3>5, <4>1 DEF Pending
    <3>7. QED
      BY <1>1, <1>3, <3>6 DEF InFlight
  <2>9. QED
    BY <2>3, <2>4, <2>7, <2>8
<1>4. QED
  BY <1>2, <1>3

LEMMA NextInFlight ==
    TypeOK /\ InFlight /\ [Next]_vars => InFlight'
<1> SUFFICES ASSUME TypeOK, InFlight, [Next]_vars PROVE InFlight'
  OBVIOUS
<1>1. CASE UNCHANGED vars
  BY <1>1 DEF vars, InFlight, Pending, EndsWithRest, Handled
<1>2. QED
  BY <1>1, ReceiveInFlight, DisconnectInFlight, EditInFlight,
     ReconnectInFlight, AnalyseInFlight DEF Next

\* When nothing is in flight, the batch of the current version has been
\* handled whole.
LEMMA SettledCurrent ==
    TypeOK /\ InFlight => SettledStatusCurrent
<1> SUFFICES ASSUME TypeOK, InFlight, Settled
             PROVE  /\ ~analyzing
                    /\ diagnostics = version
                    /\ highlighting = version
                    /\ semanticsUpToDate => graph = version
  BY DEF SettledStatusCurrent
<1>1. PICK o \in Outcomes(version), k \in 0..5 :
        /\ k <= Len(Batch(version, o))
        /\ EndsWithRest(toClient, version, o, k)
        /\ k > 0 => Handled(o, k)
  BY DEF Settled, InFlight, Pending
<1>2. Len(Batch(version, o)) \in {4, 5}
  BY BatchFacts DEF TypeOK
<1>3. Len(toClient) = 0
  BY DEF Settled
<1>4. k = Len(Batch(version, o)) /\ k > 0
  BY <1>1, <1>2, <1>3 DEF EndsWithRest
<1>5. Handled(o, k)
  BY <1>1, <1>4
<1>6. QED
  BY <1>2, <1>4, <1>5 DEF Handled

\* Whatever sequence of edits, analyses, semantic errors, skipped analyses,
\* dropped connections and reconnections led here, once nothing is in
\* flight between the EditorStore and the backend the store shows no
\* analysis running, diagnostics and highlighting of the current document,
\* and claims the semantics up to date only for a graph of that document.
THEOREM StatusCurrentWhenSettled == Spec => []SettledStatusCurrent
<1>1. IInv /\ [Next]_vars => IInv'
  BY NextTypeVS, NextInFlight DEF IInv
<1>2. Init => IInv
  BY InitTypeVS, InitInFlight DEF IInv
<1>3. IInv => SettledStatusCurrent
  BY SettledCurrent DEF IInv
<1>4. QED
  BY <1>1, <1>2, <1>3, PTL DEF Spec

=============================================================================
