---------------------------- MODULE Occurrences ----------------------------
(***************************************************************************)
(* EditorStore.updateOccurrences: the backend's occurrence highlighting of *)
(* the symbol under the cursor replaces the shown occurrences and, when    *)
(* asked to go to the first one, moves the selection there (or to the      *)
(* fallback position), scrolls it into view and focuses the view.          *)
(*                                                                         *)
(* An occurrence is abstracted to its start position `from`; positions are *)
(* small naturals, 0 (the start of the document) included.  `call` is a     *)
(* ghost holding the arguments of a call in the step that made it, None    *)
(* after any other step; only the properties read it.                      *)
(***************************************************************************)
EXTENDS Naturals, Sequences

CONSTANTS
    Positions,   \* document positions
    MaxOccurrences, \* bound on the occurrences of each kind in one call
    None         \* `undefined`

ASSUME OccurrencesAssumption ==
    /\ Positions \subseteq Nat
    /\ None \notin Positions
    /\ MaxOccurrences \in Nat

VARIABLES
    occurrences, \* the shown write and read occurrences
    anchor,      \* the anchor of the main selection
    focused,     \* the view has the focus
    call         \* ghost: the arguments of the last call

vars == <<occurrences, anchor, focused, call>>

-----------------------------------------------------------------------------
Occurrence == [from : Positions]

OccurrenceSeqs == UNION {[1..n -> Occurrence] : n \in 0..MaxOccurrences}

Call == [write : OccurrenceSeqs, read : OccurrenceSeqs,
         goToFirst : BOOLEAN, fallbackPos : Positions \cup {None}]

\* `s[0]?.from`: undefined for an empty array.
FirstFrom(s) == IF s = << >> THEN None ELSE s[1].from

\* The nullish coalescing `a ?? b`: b only when a is undefined.
Coalesce(a, b) == IF a = None THEN b ELSE a

\* Mutant: `||` instead of `??`, which also skips position 0.
GoToFalsy(c) ==
    LET Or(a, b) == IF a = None \/ a = 0 THEN b ELSE a
    IN IF c.goToFirst
         THEN Or(Or(FirstFrom(c.write), FirstFrom(c.read)), c.fallbackPos)
         ELSE None

\* Where the selection goes, or None.
GoTo(c) ==
    IF c.goToFirst
      THEN Coalesce(Coalesce(FirstFrom(c.write), FirstFrom(c.read)),
                    c.fallbackPos)
      ELSE None

TypeOK ==
    /\ occurrences \in [write : OccurrenceSeqs, read : OccurrenceSeqs]
    /\ anchor \in Positions
    /\ focused \in BOOLEAN
    /\ call \in Call \cup {None}

Init ==
    /\ occurrences = [write |-> << >>, read |-> << >>]
    /\ anchor \in Positions
    /\ focused \in BOOLEAN
    /\ call = None

\* Mutant: the selection spec is dispatched even when goTo is undefined.
UpdateOccurrencesAlwaysMoves(c) ==
    /\ occurrences' = [write |-> c.write, read |-> c.read]
    /\ anchor' = GoTo(c)
    /\ focused' = (focused \/ GoTo(c) # None)
    /\ call' = c

\* updateOccurrences: one dispatch of setOccurrences together with the
\* selection move, then the focus.
UpdateOccurrences(c) ==
    /\ occurrences' = [write |-> c.write, read |-> c.read]
    /\ anchor' = IF GoTo(c) = None THEN anchor ELSE GoTo(c)
    /\ focused' = (focused \/ GoTo(c) # None)
    /\ call' = c

\* The user moves the cursor or leaves the editor (environment).
MoveCursor(p) ==
    /\ anchor' = p
    /\ call' = None
    /\ UNCHANGED <<occurrences, focused>>

Blur ==
    /\ focused
    /\ focused' = FALSE
    /\ call' = None
    /\ UNCHANGED <<occurrences, anchor>>

Next ==
    \/ \E c \in Call : UpdateOccurrences(c)
    \/ \E p \in Positions : MoveCursor(p)
    \/ Blur

Spec == Init /\ [][Next]_vars

-----------------------------------------------------------------------------
(* Properties.                                                             *)

\* The spec (section 8): go-to-first moves the selection to the first write
\* occurrence, else to the first read occurrence, else to the fallback
\* position; without it the selection stays.  An occurrence at position 0,
\* the start of the document, counts like any other.
WriteStarts(c) == {c.write[i].from : i \in {j \in DOMAIN c.write : j = 1}}

ReadStarts(c) == {c.read[i].from : i \in {j \in DOMAIN c.read : j = 1}}

Target(c) ==
    IF ~c.goToFirst THEN None
    ELSE IF WriteStarts(c) # {} THEN CHOOSE p \in WriteStarts(c) : TRUE
    ELSE IF ReadStarts(c) # {} THEN CHOOSE p \in ReadStarts(c) : TRUE
    ELSE c.fallbackPos

SelectionFollowsOccurrences ==
    [][call' # None =>
         /\ anchor' = IF Target(call') = None THEN anchor ELSE Target(call')
         /\ Target(call') # None => focused']_vars

=============================================================================
