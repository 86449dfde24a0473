--------------------------- MODULE ModelRegistry ---------------------------
(***************************************************************************)
(* What the generation-session registry promises (spec sections 2 and      *)
(* 4.2), with the websocket, the backend and the requests hidden: an       *)
(* insertion-ordered map from uuids to sessions and a selection.  A        *)
(* session is created running under a uuid never used before, and selected; *)
(* a running session may only become completed or errored; deletion        *)
(* removes a session of any status and moves the selection to the key      *)
(* before it.  Progress messages and result graphs are left out.           *)
(***************************************************************************)
EXTENDS Naturals, Sequences

CONSTANTS
    Uuids,     \* the identifiers sessions may have
    None       \* no session is selected

VARIABLES
    order,     \* the keys of the map in insertion order
    status,    \* the status of each session, "absent" for a uuid not a key
    selected,  \* the selected key, or None
    used       \* the uuids that have named a session so far

vars == <<order, status, selected, used>>

Keys == {order[i] : i \in 1..Len(order)}

IndexOf(u) == CHOOSE i \in 1..Len(order) : order[i] = u

Predecessor(u) == IF IndexOf(u) = 1 THEN None ELSE order[IndexOf(u) - 1]

RemoveIndex(s, i) ==
    [j \in 1..(Len(s) - 1) |-> IF j < i THEN s[j] ELSE s[j + 1]]

Init ==
    /\ order = << >>
    /\ status = [u \in Uuids |-> "absent"]
    /\ selected = None
    /\ used = {}

\* A session is created, running, under a fresh uuid, and selected.
Add(u) ==
    /\ u \notin used
    /\ order' = Append(order, u)
    /\ status' = [status EXCEPT ![u] = "running"]
    /\ selected' = u
    /\ used' = used \cup {u}

\* The user selects a session, or nothing.
Select(u) ==
    /\ selected' = IF u \in Keys THEN u ELSE None
    /\ UNCHANGED <<order, status, used>>

\* The user deletes a session, whatever its status.
Delete(u) ==
    /\ u \in Keys
    /\ selected' = IF selected = u THEN Predecessor(u) ELSE selected
    /\ order' = RemoveIndex(order, IndexOf(u))
    /\ status' = [status EXCEPT ![u] = "absent"]
    /\ UNCHANGED used

\* Some running sessions end, each completed or errored.
End(S, r) ==
    /\ \A u \in S : u \in Keys /\ status[u] = "running"
    /\ status' = [u \in Uuids |-> IF u \in S THEN r[u] ELSE status[u]]
    /\ UNCHANGED <<order, selected, used>>

Next ==
    \/ \E u \in Uuids : Add(u) \/ Delete(u)
    \/ \E u \in Uuids \cup {None} : Select(u)
    \/ \E S \in SUBSET Uuids :
         \E r \in [S -> {"completed", "errored"}] : End(S, r)

Spec == Init /\ [][Next]_vars

=============================================================================
