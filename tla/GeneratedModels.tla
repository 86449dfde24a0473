-------------------------- MODULE GeneratedModels --------------------------
(***************************************************************************)
(* The generation-session registry of EditorStore (generatedModels,        *)
(* selectedGeneratedModel and the operations on them) together with the    *)
(* websocket to the backend that starts, finishes and cancels the model    *)
(* generation jobs.                                                        *)
(*                                                                         *)
(* The Map generatedModels is split into its insertion order `order` (the  *)
(* iteration order of a JavaScript Map) and the state `status` of the      *)
(* GeneratedModelStore held under each key; "absent" marks a key that is   *)
(* not in the Map.  The websocket is two FIFO queues: `toBackend` carries  *)
(* the requests EditorStore hands to XtextClient, `toClient` the pushes    *)
(* the backend sends back.  The backend itself (not part of this           *)
(* repository's sources) keeps the set `active` of running jobs and the    *)
(* set `issued` of uuids it has handed out.                                *)
(***************************************************************************)
EXTENDS Naturals, Sequences, FiniteSets

CONSTANTS
    Uuids,     \* the uuids the backend may hand out to generation jobs
    None       \* `undefined`: no generated model is selected

ASSUME UuidsAssumption ==
    /\ IsFiniteSet(Uuids)
    /\ None \notin Uuids

VARIABLES
    order,      \* keys of generatedModels in insertion order
    status,     \* status of the GeneratedModelStore of each key, or "absent"
    selected,   \* selectedGeneratedModel
    toBackend,  \* requests in flight to the backend
    toClient,   \* pushes in flight from the backend
    active,     \* jobs running on the backend
    issued,     \* uuids the backend has handed out so far
    requested   \* number of start requests sent so far

vars == <<order, status, selected, toBackend, toClient, active, issued,
          requested>>

-----------------------------------------------------------------------------
Status == {"running", "completed", "errored"}

Request == {"start", "cancel"}

Push == [type : {"added", "semantics", "error"}, uuid : Uuids]
          \cup [type : {"cancelled"}]

\* The number of start requests is bounded by the uuids the backend owns.
MaxStarts == Cardinality(Uuids)

Keys == {order[i] : i \in 1..Len(order)}

\* The position of a key in the insertion order.
IndexOf(u) == CHOOSE i \in 1..Len(order) : order[i] = u

\* The key iterated immediately before u in generatedModels.forEach, or
\* None when u is the first key.
Predecessor(u) ==
    IF IndexOf(u) = 1 THEN None ELSE order[IndexOf(u) - 1]

\* The insertion order with the key at position i removed (Map.delete).
RemoveIndex(s, i) ==
    [j \in 1..(Len(s) - 1) |-> IF j < i THEN s[j] ELSE s[j + 1]]

Running(u) == status[u] = "running"

-----------------------------------------------------------------------------
(* Spec-modelled: GeneratedModelStore.setError / setSemantics take effect  *)
(* only on a running store; a terminal store is never changed again.       *)
SetError(st, u) ==
    IF st[u] = "running" THEN [st EXCEPT ![u] = "errored"] ELSE st

\* Mutant: a late result overwrites a store that already ended.
SetSemanticsUnguarded(st, u) == [st EXCEPT ![u] = "completed"]

SetSemantics(st, u) ==
    IF st[u] = "running" THEN [st EXCEPT ![u] = "completed"] ELSE st

-----------------------------------------------------------------------------
TypeOK ==
    /\ order \in Seq(Uuids)
    /\ status \in [Uuids -> Status \cup {"absent"}]
    /\ selected \in Uuids \cup {None}
    /\ toBackend \in Seq(Request)
    /\ toClient \in Seq(Push)
    /\ active \subseteq issued
    /\ issued \subseteq Uuids
    /\ requested \in 0..MaxStarts

Init ==
    /\ order = << >>
    /\ status = [u \in Uuids |-> "absent"]
    /\ selected = None
    /\ toBackend = << >>
    /\ toClient = << >>
    /\ active = {}
    /\ issued = {}
    /\ requested = 0

-----------------------------------------------------------------------------
(* User operations on EditorStore.                                         *)

\* startModelGeneration: forwards a start request to the backend.
StartModelGeneration ==
    /\ requested < MaxStarts
    /\ toBackend' = Append(toBackend, "start")
    /\ requested' = requested + 1
    /\ UNCHANGED <<order, status, selected, toClient, active, issued>>

\* selectGeneratedModel: an absent uuid selects nothing.
SelectGeneratedModel(u) ==
    /\ selected' = IF u \in Keys THEN u ELSE None
    /\ UNCHANGED <<order, status, toBackend, toClient, active, issued,
                   requested>>

\* Mutant: the reselection of the preceding key is left out.
DeleteGeneratedModelNoReselect(u) ==
    /\ u \in Keys
    /\ UNCHANGED selected
    /\ toBackend' = IF Running(u) THEN Append(toBackend, "cancel")
                                  ELSE toBackend
    /\ order' = RemoveIndex(order, IndexOf(u))
    /\ status' = [status EXCEPT ![u] = "absent"]
    /\ UNCHANGED <<toClient, active, issued, requested>>

\* Mutant: the cancel request carries the deleted uuid instead of being the
\* document-wide cancel request the backend understands.
DeleteGeneratedModelCancelsUuid(u) ==
    /\ u \in Keys
    /\ selected' = IF selected = u THEN Predecessor(u) ELSE selected
    /\ toBackend' = IF Running(u) THEN Append(toBackend, u) ELSE toBackend
    /\ order' = RemoveIndex(order, IndexOf(u))
    /\ status' = [status EXCEPT ![u] = "absent"]
    /\ UNCHANGED <<toClient, active, issued, requested>>

\* deleteGeneratedModel: reselect the preceding key if u was selected,
\* send a (document-wide) cancel if u is running, then remove u.
DeleteGeneratedModel(u) ==
    /\ u \in Keys
    /\ selected' = IF selected = u THEN Predecessor(u) ELSE selected
    /\ toBackend' = IF Running(u) THEN Append(toBackend, "cancel")
                                  ELSE toBackend
    /\ order' = RemoveIndex(order, IndexOf(u))
    /\ status' = [status EXCEPT ![u] = "absent"]
    /\ UNCHANGED <<toClient, active, issued, requested>>

-----------------------------------------------------------------------------
(* Pushes from the backend, applied by EditorStore in arrival order.       *)

\* addGeneratedModel: Map.set keeps the position of an existing key.
AddGeneratedModel(u) ==
    /\ order' = IF u \in Keys THEN order ELSE Append(order, u)
    /\ status' = [status EXCEPT ![u] = "running"]
    /\ selected' = u

\* Mutant: the broadcast only reaches the selected store.
ModelGenerationCancelledSelectedOnly ==
    /\ status' = IF selected \in Keys THEN SetError(status, selected)
                                      ELSE status
    /\ UNCHANGED <<order, selected>>

\* modelGenerationCancelled: setError on every store of the Map.
ModelGenerationCancelled ==
    /\ status' = [u \in Uuids |-> IF u \in Keys THEN SetError(status, u)[u]
                                              ELSE status[u]]
    /\ UNCHANGED <<order, selected>>

\* setGeneratedModelError / setGeneratedModelSemantics: no-op for a uuid
\* that is not in the Map.
SetGeneratedModelError(u) ==
    /\ status' = IF u \in Keys THEN SetError(status, u) ELSE status
    /\ UNCHANGED <<order, selected>>

SetGeneratedModelSemantics(u) ==
    /\ status' = IF u \in Keys THEN SetSemantics(status, u) ELSE status
    /\ UNCHANGED <<order, selected>>

\* XtextClient routes each push to the EditorStore method for its type.
HandlePush(m) ==
    \/ m.type = "added" /\ AddGeneratedModel(m.uuid)
    \/ m.type = "error" /\ SetGeneratedModelError(m.uuid)
    \/ m.type = "semantics" /\ SetGeneratedModelSemantics(m.uuid)
    \/ m.type = "cancelled" /\ ModelGenerationCancelled

ClientReceive ==
    /\ toClient # << >>
    /\ toClient' = Tail(toClient)
    /\ HandlePush(Head(toClient))
    /\ UNCHANGED <<toBackend, active, issued, requested>>

-----------------------------------------------------------------------------
(* Spec-modelled backend: handles requests in order; a start hands out a   *)
(* fresh uuid, a cancel stops every job of the document.                   *)

\* A start request: the backend hands out a fresh uuid and acknowledges it.
BackendStart ==
    /\ toBackend # << >>
    /\ Head(toBackend) = "start"
    /\ toBackend' = Tail(toBackend)
    /\ \E u \in Uuids \ issued :
         /\ issued' = issued \cup {u}
         /\ active' = active \cup {u}
         /\ toClient' = Append(toClient, [type |-> "added", uuid |-> u])
    /\ UNCHANGED <<order, status, selected, requested>>

\* A cancel request: every job of the document stops and the client is told
\* so; a job that was already finishing may still report its result later.
BackendCancel ==
    /\ toBackend # << >>
    /\ Head(toBackend) = "cancel"
    /\ toBackend' = Tail(toBackend)
    /\ \E finishing \in SUBSET active : active' = finishing
    /\ toClient' = Append(toClient, [type |-> "cancelled"])
    /\ UNCHANGED <<order, status, selected, issued, requested>>

BackendReceive == BackendStart \/ BackendCancel

\* A running job ends with a result or an error.
BackendFinish(u) ==
    /\ u \in active
    /\ active' = active \ {u}
    /\ \E t \in {"semantics", "error"} :
         toClient' = Append(toClient, [type |-> t, uuid |-> u])
    /\ UNCHANGED <<order, status, selected, toBackend, issued, requested>>

-----------------------------------------------------------------------------
Next ==
    \/ StartModelGeneration
    \/ \E u \in Uuids \cup {None} : SelectGeneratedModel(u)
    \/ \E u \in Uuids : DeleteGeneratedModel(u)
    \/ ClientReceive
    \/ BackendStart
    \/ BackendCancel
    \/ \E u \in Uuids : BackendFinish(u)

\* The websocket delivers every message eventually, and the backend and the
\* browser's event loop handle every message they receive.
Fairness ==
    /\ WF_vars(ClientReceive)
    /\ WF_vars(BackendReceive)

Spec == Init /\ [][Next]_vars

FairSpec == Spec /\ Fairness

-----------------------------------------------------------------------------
(* Properties.                                                             *)

\* selectedGeneratedModel is undefined or a key of generatedModels: neither
\* deleteGeneratedModel's reselection of the preceding key nor the pushes
\* that add and update stores ever leave it dangling.
SelectionValid ==
    selected = None \/ selected \in Keys

\* Something in flight will end every model EditorStore shows as running:
\* its job is still active on the backend, or a result or error for it, or
\* a cancellation, is queued to the client.  Otherwise the entry would spin
\* for ever, with `generating` stuck at true.
EndPending(u) ==
    \E i \in 1..Len(toClient) :
        \/ toClient[i].type = "cancelled"
        \/ toClient[i].type \in {"semantics", "error"} /\ toClient[i].uuid = u

RunningTracked ==
    \A u \in Keys : Running(u) => (u \in active \/ EndPending(u))

\* A cancel request sent while a model is shown as running (deleting a
\* running model) eventually stops that model: its broadcast reaches every
\* store that was running when the request was sent.
CancelPending == \E i \in 1..Len(toBackend) : toBackend[i] = "cancel"

CancelTakesEffect ==
    \A u \in Uuids : (Running(u) /\ CancelPending) ~> ~Running(u)

\* The spec (section 3): at most one generation-cancellation request is
\* outstanding per document at a time.  A request is outstanding from the
\* moment it is sent until its "cancelled" answer has been applied.
CancelsInFlight ==
    Cardinality({i \in 1..Len(toBackend) : toBackend[i] = "cancel"})
      + Cardinality({i \in 1..Len(toClient) : toClient[i].type = "cancelled"})

AtMostOneCancelInFlight == CancelsInFlight <= 1

-----------------------------------------------------------------------------
(* Refinement of ModelRegistry.                                            *)

\* The uuids that have named a session: those the backend handed out whose
\* `added` push the client has already applied.
AddedInFlight(u) ==
    \E i \in 1..Len(toClient) :
        toClient[i].type = "added" /\ toClient[i].uuid = u

UsedUuids == {u \in issued : ~AddedInFlight(u)}

Registry == INSTANCE ModelRegistry WITH used <- UsedUuids

\* The spec (sections 2 and 4.2): the registry, seen without the websocket
\* and the backend, is an insertion-ordered map whose sessions are created
\* running under a uuid never used before, end at most once as completed or
\* errored, and are removed only by deleteGeneratedModel, which reselects
\* the preceding key.
ImplementsModelRegistry == Registry!Spec

=============================================================================
