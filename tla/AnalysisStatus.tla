--------------------------- MODULE AnalysisStatus ---------------------------
(***************************************************************************)
(* The analysis status of an EditorStore (analyzing, semanticsUpToDate,    *)
(* semanticsError, propagationRejected), the diagnostics and semantic      *)
(* highlighting it shows and the semantics of its graph, kept up to date   *)
(* by pushes from the backend over a connection that may drop.             *)
(*                                                                         *)
(* Every local edit makes a new document version.  What a push carries is  *)
(* abstracted to the document version it was computed from: `diagnostics`, *)
(* `highlighting` and `graph` are the versions of what is shown, 0 for     *)
(* nothing yet.  The client (XtextClient, not part of this repository's    *)
(* sources) and the backend are modelled from the spec: the client sends   *)
(* the document after each edit while connected and the whole document     *)
(* again after a reconnect; the backend answers each update in order with  *)
(* analysisStarted, the diagnostics and highlighting, then the semantics,  *)
(* a semantics error, or neither when semantic analysis is skipped, and    *)
(* finally analysisCompleted.  A disconnect loses what was in flight.      *)
(***************************************************************************)
EXTENDS Naturals, Sequences

CONSTANTS
    MaxVersion,     \* number of edits
    MaxReconnects   \* number of reconnections

ASSUME AnalysisStatusAssumption ==
    /\ MaxVersion \in Nat
    /\ MaxReconnects \in Nat

VARIABLES
    version,             \* version of the local document
    analyzing,           \* analyzing
    semanticsUpToDate,   \* semanticsUpToDate
    semanticsError,      \* semanticsError is set
    propagationRejected, \* propagationRejected
    diagnostics,         \* version the diagnostics were computed from
    highlighting,        \* version the semantic highlighting was computed from
    graph,               \* version the graph's semantics were computed from
    connected,           \* the connection is open
    toBackend,           \* document updates in flight to the backend
    toClient,            \* pushes in flight to the client
    reconnects           \* number of reconnections so far

vars == <<version, analyzing, semanticsUpToDate, semanticsError,
          propagationRejected, diagnostics, highlighting, graph, connected,
          toBackend, toClient, reconnects>>

status == <<analyzing, semanticsUpToDate, semanticsError, propagationRejected>>

-----------------------------------------------------------------------------
Versions == 0..MaxVersion

Push == [type : {"started"}]
          \cup [type : {"diagnostics", "highlighting", "semantics"},
                version : Versions]
          \cup [type : {"semanticsError"}, error : BOOLEAN, rejected : BOOLEAN]
          \cup [type : {"completed"}, skipped : BOOLEAN]

\* What is shown was computed from a version the document has had.
TypeOK ==
    /\ version \in Versions
    /\ analyzing \in BOOLEAN
    /\ semanticsUpToDate \in BOOLEAN
    /\ semanticsError \in BOOLEAN
    /\ propagationRejected \in BOOLEAN
    /\ {diagnostics, highlighting, graph} \subseteq 0..version
    /\ connected \in BOOLEAN
    /\ toBackend \in Seq(Versions)
    /\ toClient \in Seq(Push)
    /\ reconnects \in 0..MaxReconnects

\* The field initialisers of EditorStore; the client connects and sends the
\* initial document.
Init ==
    /\ version = 0
    /\ analyzing = FALSE
    /\ semanticsUpToDate = TRUE
    /\ semanticsError = FALSE
    /\ propagationRejected = FALSE
    /\ diagnostics = 0 /\ highlighting = 0 /\ graph = 0
    /\ connected = TRUE
    /\ toBackend = <<0>>
    /\ toClient = << >>
    /\ reconnects = 0

-----------------------------------------------------------------------------
(* The EditorStore methods the pushes are routed to.                       *)

\* Mutant: the flag is left alone when an analysis starts.
AnalysisStartedKeepsFlag ==
    /\ analyzing' = TRUE
    /\ UNCHANGED <<semanticsUpToDate, semanticsError, propagationRejected>>

AnalysisStarted ==
    /\ analyzing' = TRUE
    /\ semanticsUpToDate' = FALSE
    /\ UNCHANGED <<semanticsError, propagationRejected>>

\* The assignments of analysisCompleted, which onDisconnect also runs.
CompletedStatus(skipped) ==
    /\ analyzing' = FALSE
    /\ semanticsError' = IF skipped THEN FALSE ELSE semanticsError
    /\ propagationRejected' = IF skipped THEN FALSE ELSE propagationRejected

AnalysisCompleted(skipped) ==
    /\ CompletedStatus(skipped)
    /\ UNCHANGED semanticsUpToDate

\* setSemanticsError(semanticsError, propagationRejected): the message is a
\* string (error) or undefined (~error); both fields are assigned.
SetSemanticsError(error, rejected) ==
    /\ semanticsError' = error
    /\ propagationRejected' = rejected
    /\ UNCHANGED <<analyzing, semanticsUpToDate>>

\* Mutant: the graph is labelled with the next version.
SetSemanticsNextVersion(v) ==
    /\ semanticsUpToDate' = TRUE
    /\ graph' = v + 1
    /\ UNCHANGED <<analyzing, semanticsError, propagationRejected>>

\* setSemantics: the flag is set and the graph gets the semantics.
SetSemantics(v) ==
    /\ semanticsUpToDate' = TRUE
    /\ graph' = v
    /\ UNCHANGED <<analyzing, semanticsError, propagationRejected>>

\* updateDiagnostics: the diagnostics of the push replace those shown.
UpdateDiagnostics(v) == diagnostics' = v

\* updateSemanticHighlighting: the ranges of the push replace those shown
\* (the type hashes that come with them are not modelled).
UpdateSemanticHighlighting(v) == highlighting' = v

\* XtextClient routes each push to the method for its type; a push that is
\* not the semantics leaves the graph alone.
HandlePush(m) ==
    \/ m.type = "started" /\ AnalysisStarted
         /\ UNCHANGED <<diagnostics, highlighting, graph>>
    \/ m.type = "diagnostics" /\ UpdateDiagnostics(m.version)
         /\ UNCHANGED <<status, highlighting, graph>>
    \/ m.type = "highlighting" /\ UpdateSemanticHighlighting(m.version)
         /\ UNCHANGED <<status, diagnostics, graph>>
    \/ m.type = "semantics" /\ SetSemantics(m.version)
         /\ UNCHANGED <<diagnostics, highlighting>>
    \/ m.type = "semanticsError" /\ SetSemanticsError(m.error, m.rejected)
         /\ UNCHANGED <<diagnostics, highlighting, graph>>
    \/ m.type = "completed" /\ AnalysisCompleted(m.skipped)
         /\ UNCHANGED <<diagnostics, highlighting, graph>>

ClientReceive ==
    /\ toClient # << >>
    /\ toClient' = Tail(toClient)
    /\ HandlePush(Head(toClient))
    /\ UNCHANGED <<version, connected, toBackend, reconnects>>

\* Mutant: onDisconnect does not complete the analysis in progress.
OnDisconnectKeepsAnalyzing ==
    /\ semanticsUpToDate' = FALSE
    /\ UNCHANGED <<analyzing, semanticsError, propagationRejected>>

\* onDisconnect: the flag is cleared, then analysisCompleted(true) runs,
\* which leaves the flag as onDisconnect set it.
OnDisconnect ==
    /\ semanticsUpToDate' = FALSE
    /\ CompletedStatus(TRUE)

\* The connection drops: what was in flight is lost and onDisconnect runs.
Disconnect ==
    /\ connected
    /\ connected' = FALSE
    /\ toBackend' = << >>
    /\ toClient' = << >>
    /\ OnDisconnect
    /\ UNCHANGED <<version, diagnostics, highlighting, graph, reconnects>>

-----------------------------------------------------------------------------
(* Spec-modelled client and backend.                                       *)

\* A local edit; the client forwards the new document while connected.
Edit ==
    /\ version < MaxVersion
    /\ version' = version + 1
    /\ toBackend' = IF connected THEN Append(toBackend, version + 1)
                                 ELSE toBackend
    /\ UNCHANGED <<status, diagnostics, highlighting, graph, connected,
                   toClient, reconnects>>

\* The connection is re-established and the whole document is sent again.
Reconnect ==
    /\ ~connected
    /\ reconnects < MaxReconnects
    /\ connected' = TRUE
    /\ reconnects' = reconnects + 1
    /\ toBackend' = <<version>>
    /\ UNCHANGED <<version, status, diagnostics, highlighting, graph,
                   toClient>>

\* What the backend may push about the semantics of version v: the
\* semantics, a semantics error (with or without a message, propagation
\* rejected or not), or nothing when semantic analysis is skipped.
Outcomes(v) ==
    {<<[type |-> "semantics", version |-> v]>>, << >>}
      \cup {<<[type |-> "semanticsError", error |-> e, rejected |-> r]>> :
               e, r \in BOOLEAN}

\* The backend analyses the oldest update it received.
BackendAnalyse ==
    /\ toBackend # << >>
    /\ LET v == Head(toBackend)
           front == <<[type |-> "started"],
                      [type |-> "diagnostics", version |-> v],
                      [type |-> "highlighting", version |-> v]>>
       IN \E outcome \in Outcomes(v) :
            toClient' = toClient \o front \o outcome
                          \o <<[type |-> "completed",
                                skipped |-> outcome = << >>]>>
    /\ toBackend' = Tail(toBackend)
    /\ UNCHANGED <<version, status, diagnostics, highlighting, graph,
                   connected, reconnects>>

-----------------------------------------------------------------------------
Next ==
    \/ ClientReceive
    \/ Disconnect
    \/ Edit
    \/ Reconnect
    \/ BackendAnalyse

\* The connection delivers what it carries while it is open, and both ends
\* handle every message; edits, drops and reconnections are not forced.
Fairness ==
    /\ WF_vars(ClientReceive)
    /\ WF_vars(BackendAnalyse)

Spec == Init /\ [][Next]_vars

FairSpec == Spec /\ Fairness

-----------------------------------------------------------------------------
(* Properties.                                                             *)

\* Once the connection is quiet (nothing in flight either way), the status
\* has caught up with the document: no analysis is shown as running, the
\* diagnostics and highlighting are those of the current version, and the
\* semantics are shown as up to date only if the graph is of that version
\* too, whatever sequence of analyses, errors and skipped analyses led here.
Settled == connected /\ toBackend = << >> /\ toClient = << >>

SettledStatusCurrent ==
    Settled =>
        /\ ~analyzing
        /\ diagnostics = version
        /\ highlighting = version
        /\ semanticsUpToDate => graph = version

\* The analysis indicator does not spin for ever: an analysis shown as
\* running is eventually completed, by its own analysisCompleted push or by
\* onDisconnect when the connection drops and the push is lost.
AnalysisEnds == analyzing ~> ~analyzing

=============================================================================
