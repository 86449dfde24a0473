--------------------------- MODULE EditorFile_proofs ---------------------------
(***************************************************************************)
(* Proofs about the document, persistence and lifecycle of an EditorStore, *)
(* for every set of texts and file handles and every bound on the pending  *)
(* promises: the type invariant, that no client is attached after dispose, *)
(* and that the file handle always names a stored file.                    *)
(***************************************************************************)
EXTENDS EditorFile, TLAPS

-----------------------------------------------------------------------------
(* Lemmas about the bag of pending promises.                               *)

\* Starting a promise keeps a bag of storage operations.
LEMMA BagAddType ==
    ASSUME NEW B, NEW S, IsABag(B), BagToSet(B) \subseteq S, NEW x \in S
    PROVE  IsABag(BagAdd(B, x)) /\ BagToSet(BagAdd(B, x)) \subseteq S
BY DEF IsABag, BagToSet, BagAdd

\* Settling a promise keeps a bag of storage operations.
LEMMA BagRemoveType ==
    ASSUME NEW B, NEW S, IsABag(B), BagToSet(B) \subseteq S, NEW x
    PROVE  IsABag(BagRemove(B, x)) /\ BagToSet(BagRemove(B, x)) \subseteq S
BY DEF IsABag, BagToSet, BagRemove

\* A pending promise is one of the storage operations.
LEMMA PendingOp ==
    ASSUME TypeOK, NEW o, BagIn(o, pending)
    PROVE  o \in Op
BY DEF TypeOK, BagIn, BagToSet

\* The record a pending write stands for.
LEMMA WriteOp ==
    ASSUME NEW o \in Op, o.op = "write"
    PROVE  o.handle \in Handles /\ o.text \in Texts
BY DEF Op

LEMMA SaveAsOp ==
    ASSUME NEW o \in Op, o.op = "saveAs"
    PROVE  o.text \in Texts
BY DEF Op

-----------------------------------------------------------------------------
(* Type correctness.                                                       *)

LEMMA InitTypeOK == Init => TypeOK
BY DEF Init, TypeOK, EmptyBag, SetToBag, IsABag, BagToSet

\* Starting one storage operation keeps the state typed.
LEMMA StartTypeOK ==
    ASSUME TypeOK, NEW o \in Op, Start(o),
           UNCHANGED <<doc, unsavedChanges, fileHandle, disk, lastPersisted,
                      client, disposed>>
    PROVE  TypeOK'
BY BagAddType DEF Start, TypeOK

\* Settling one storage operation keeps the pending bag typed.
LEMMA SettleType ==
    ASSUME TypeOK, NEW o, Settle(o)
    PROVE  IsABag(pending') /\ BagToSet(pending') \subseteq Op
BY BagRemoveType DEF Settle, TypeOK

LEMMA NextTypeOK == TypeOK /\ [Next]_vars => TypeOK'
<1> SUFFICES ASSUME TypeOK, [Next]_vars PROVE TypeOK'
  OBVIOUS
<1>1. CASE ClientLoaded \/ ClientLoadFailed \/ Dispose
  BY <1>1 DEF ClientLoaded, ClientLoadFailed, Dispose, TypeOK
<1>2. ASSUME NEW t \in Texts, Edit(t) PROVE TypeOK'
  BY <1>2 DEF Edit, TypeOK
<1>3. CASE OpenFile
  <2>1. [op |-> "open"] \in Op
    BY DEF Op
  <2>2. QED
    BY <1>3, <2>1, StartTypeOK DEF OpenFile
<1>4. CASE SaveFileAs
  <2>1. [op |-> "saveAs", text |-> doc] \in Op
    BY DEF Op, TypeOK
  <2>2. QED
    BY <1>4, <2>1, StartTypeOK DEF SaveFileAs
<1>5. CASE SaveFile
  <2>1. CASE fileHandle = None
    BY <1>5, <2>1, <1>4 DEF SaveFile
  <2>2. CASE fileHandle # None
    <3>1. [op |-> "write", handle |-> fileHandle, text |-> doc] \in Op
      BY <2>2 DEF Op, TypeOK
    <3>2. QED
      BY <1>5, <2>2, <3>1, StartTypeOK DEF SaveFile
  <2>3. QED
    BY <2>1, <2>2
<1>6. ASSUME NEW h \in Handles, FileOpened(h) PROVE TypeOK'
  BY <1>6, SettleType DEF FileOpened, TypeOK
<1>7. ASSUME NEW o \in BagToSet(pending), FileSaved(o) PROVE TypeOK'
  <2>1. o.handle \in Handles /\ o.text \in Texts
    BY <1>7, PendingOp, WriteOp DEF FileSaved, BagIn
  <2>2. QED
    BY <1>7, <2>1, SettleType DEF FileSaved, TypeOK
<1>8. ASSUME NEW o \in BagToSet(pending), NEW h \in Handles \cup {None},
             FileSavedAs(o, h)
      PROVE  TypeOK'
  <2>1. o.text \in Texts
    BY <1>8, PendingOp, SaveAsOp DEF FileSavedAs, BagIn
  <2>2. QED
    BY <1>8, <2>1, SettleType DEF FileSavedAs, TypeOK
<1>9. ASSUME NEW o \in BagToSet(pending), StorageFailed(o) PROVE TypeOK'
  BY <1>9, SettleType DEF StorageFailed, TypeOK
<1>10. CASE UNCHANGED vars
  BY <1>10 DEF vars, TypeOK
<1>11. QED
  BY <1>1, <1>2, <1>3, <1>4, <1>5, <1>6, <1>7, <1>8, <1>9, <1>10 DEF Next

\* The document, the file reference, the storage contents and the pending
\* promises keep their types, in any order of edits, opens, saves, save-as,
\* their completions and failures, the client import and dispose.
THEOREM FileTypeCorrect == Spec => []TypeOK
BY InitTypeOK, NextTypeOK, PTL DEF Spec

-----------------------------------------------------------------------------
(* The lifecycle of the client.                                            *)

\* NoClientAfterDispose is inductive: the import's continuation checks the
\* flag, and dispose closes an attached client in the step that sets it.
LEMMA NextNoClient ==
    NoClientAfterDispose /\ [Next]_vars => NoClientAfterDispose'
<1> SUFFICES ASSUME NoClientAfterDispose, [Next]_vars
             PROVE  NoClientAfterDispose'
  OBVIOUS
<1>1. CASE ClientLoaded
  BY <1>1 DEF ClientLoaded, NoClientAfterDispose
<1>2. CASE ClientLoadFailed \/ Dispose
  BY <1>2 DEF ClientLoadFailed, Dispose, NoClientAfterDispose
<1>3. CASE ~ClientLoaded /\ ~ClientLoadFailed /\ ~Dispose
  <2>1. UNCHANGED <<client, disposed>>
    BY <1>3 DEF Next, vars, Edit, OpenFile, SaveFile, SaveFileAs,
       FileOpened, FileSaved, FileSavedAs, StorageFailed
  <2>2. QED
    BY <2>1 DEF NoClientAfterDispose
<1>4. QED
  BY <1>1, <1>2, <1>3

\* Whatever the order in which the lazy import of XtextClient resolves and
\* dispose runs, no client is attached to a disposed store.
THEOREM ClientNeverOutlivesDispose == Spec => []NoClientAfterDispose
<1>1. Init => NoClientAfterDispose
  BY DEF Init, NoClientAfterDispose
<1>2. QED
  BY <1>1, NextNoClient, PTL DEF Spec

-----------------------------------------------------------------------------
(* The file handle.                                                        *)

LEMMA NextHandleStored ==
    TypeOK /\ HandleNamesStoredFile /\ [Next]_vars => HandleNamesStoredFile'
<1> SUFFICES ASSUME TypeOK, HandleNamesStoredFile, [Next]_vars
             PROVE  HandleNamesStoredFile'
  OBVIOUS
<1> USE DEF HandleNamesStoredFile
<1>1. ASSUME NEW h \in Handles, FileOpened(h) PROVE HandleNamesStoredFile'
  BY <1>1 DEF FileOpened
<1>2. ASSUME NEW o \in BagToSet(pending), FileSaved(o)
      PROVE  HandleNamesStoredFile'
  <2>1. o.handle \in Handles /\ o.text \in Texts
    BY <1>2, PendingOp, WriteOp DEF FileSaved, BagIn
  <2>2. QED
    BY <1>2, <2>1, EditorFileAssumption DEF FileSaved, TypeOK
<1>3. ASSUME NEW o \in BagToSet(pending), NEW h \in Handles \cup {None},
             FileSavedAs(o, h)
      PROVE  HandleNamesStoredFile'
  <2>1. o.text \in Texts
    BY <1>3, PendingOp, SaveAsOp DEF FileSavedAs, BagIn
  <2>2. QED
    BY <1>3, <2>1, EditorFileAssumption DEF FileSavedAs, TypeOK
<1>4. CASE /\ ~\E h \in Handles : FileOpened(h)
           /\ ~\E o \in BagToSet(pending) :
                 \/ FileSaved(o)
                 \/ \E h \in Handles \cup {None} : FileSavedAs(o, h)
  <2>1. UNCHANGED <<fileHandle, disk>>
    BY <1>4 DEF Next, vars, ClientLoaded, ClientLoadFailed, Dispose, Edit,
       OpenFile, SaveFile, SaveFileAs, StorageFailed
  <2>2. QED
    BY <2>1
<1>5. QED
  BY <1>1, <1>2, <1>3, <1>4

\* The file handle EditorStore saves to always names a file that exists in
\* storage, whatever order opens, saves and save-as complete or fail in: it
\* is recorded only by an open that read the file or a save-as that wrote
\* it, and a later write never empties a file.
THEOREM HandleAlwaysStored == Spec => []HandleNamesStoredFile
<1>1. Init => HandleNamesStoredFile
  BY DEF Init, HandleNamesStoredFile
<1>2. TypeOK /\ HandleNamesStoredFile /\ [Next]_vars
        => (TypeOK /\ HandleNamesStoredFile)'
  BY NextTypeOK, NextHandleStored
<1>3. QED
  BY <1>1, <1>2, InitTypeOK, PTL DEF Spec

=============================================================================
