----------------------------- MODULE EditorFile -----------------------------
(***************************************************************************)
(* The document of an EditorStore and its persistence: edits dispatched to *)
(* the document, openFile / saveFile / saveFileAs and the promises they    *)
(* start, the lazily loaded XtextClient and dispose.                       *)
(*                                                                         *)
(* The document text is an opaque value of Texts.  The storage             *)
(* collaborator (utils/fileIO, not part of this repository's sources) is   *)
(* the map `disk` from file handles to their content.  Every started       *)
(* open, save or save-as is an element of the bag `pending` until its      *)
(* promise settles; promises settle in any order.  `lastPersisted` is the  *)
(* text most recently known to be in storage: written by a save that       *)
(* completed, or read by an open that completed.                           *)
(***************************************************************************)
EXTENDS Naturals, Bags, BagsExt

CONSTANTS
    Texts,       \* document contents
    Handles,     \* FileSystemFileHandles the file pickers can return
    None,        \* `undefined`
    NoText,      \* content of a handle with no file behind it yet
    MaxPending   \* bound on the promises pending at the same time

ASSUME EditorFileAssumption ==
    /\ None \notin Handles
    /\ NoText \notin Texts
    /\ MaxPending \in Nat \ {0}

VARIABLES
    doc,             \* state.doc
    unsavedChanges,  \* unsavedChanges
    fileHandle,      \* fileHandle
    disk,            \* content of the file behind each handle
    pending,         \* bag of started, unsettled storage promises
    lastPersisted,   \* text of the last completed save or open
    client,          \* the XtextClient: "loading", "attached", "closed", "none"
    disposed         \* disposed

vars == <<doc, unsavedChanges, fileHandle, disk, pending, lastPersisted,
          client, disposed>>

-----------------------------------------------------------------------------
\* A promise of the storage collaborator: openTextFile, saveTextFile(handle,
\* text) and saveBlob(blob of text).
Op == [op : {"open"}]
        \cup [op : {"write"}, handle : Handles, text : Texts]
        \cup [op : {"saveAs"}, text : Texts]

Start(o) ==
    /\ BagCardinality(pending) < MaxPending
    /\ pending' = BagAdd(pending, o)

Settle(o) == pending' = BagRemove(pending, o)

-----------------------------------------------------------------------------
TypeOK ==
    /\ doc \in Texts
    /\ unsavedChanges \in BOOLEAN
    /\ fileHandle \in Handles \cup {None}
    /\ disk \in [Handles -> Texts \cup {NoText}]
    /\ IsABag(pending) /\ BagToSet(pending) \subseteq Op
    /\ lastPersisted \in Texts
    /\ client \in {"loading", "attached", "closed", "none"}
    /\ disposed \in BOOLEAN

\* The constructor: the initial text comes from the share link or local
\* storage, there is no file handle, the client is being imported.
Init ==
    /\ doc \in Texts
    /\ unsavedChanges = FALSE
    /\ fileHandle = None
    /\ disk \in [Handles -> Texts \cup {NoText}]
    /\ pending = EmptyBag
    /\ lastPersisted = doc
    /\ client = "loading"
    /\ disposed = FALSE

-----------------------------------------------------------------------------
(* The lazy import of XtextClient in the constructor.                      *)

\* Mutant: the continuation does not look at the disposed flag.
ClientLoadedUnchecked ==
    /\ client = "loading"
    /\ client' = "attached"
    /\ UNCHANGED <<doc, unsavedChanges, fileHandle, disk, pending,
                   lastPersisted, disposed>>

\* The import resolves: runInAction checks the disposed flag first.
ClientLoaded ==
    /\ client = "loading"
    /\ client' = IF disposed THEN "none" ELSE "attached"
    /\ UNCHANGED <<doc, unsavedChanges, fileHandle, disk, pending,
                   lastPersisted, disposed>>

\* The import rejects: the error is logged.
ClientLoadFailed ==
    /\ client = "loading"
    /\ client' = "none"
    /\ UNCHANGED <<doc, unsavedChanges, fileHandle, disk, pending,
                   lastPersisted, disposed>>

\* dispose: closes the client if there is one and sets the flag.
Dispose ==
    /\ disposed' = TRUE
    /\ client' = IF client = "attached" THEN "closed" ELSE client
    /\ UNCHANGED <<doc, unsavedChanges, fileHandle, disk, pending,
                   lastPersisted>>

-----------------------------------------------------------------------------
(* Operations of the user, through the editor view while it is mounted.    *)

\* dispatch of a transaction that changes the document (typing, undo, redo,
\* format): dispatchTransactionWithoutView sets unsavedChanges.
Edit(t) ==
    /\ ~disposed
    /\ t # doc
    /\ doc' = t
    /\ unsavedChanges' = TRUE
    /\ UNCHANGED <<fileHandle, disk, pending, lastPersisted, client,
                   disposed>>

\* openFile: starts openTextFile.
OpenFile ==
    /\ ~disposed
    /\ Start([op |-> "open"])
    /\ UNCHANGED <<doc, unsavedChanges, fileHandle, disk, lastPersisted,
                   client, disposed>>

\* saveFileAs: starts saveBlob with a snapshot of the document.
SaveFileAs ==
    /\ ~disposed
    /\ Start([op |-> "saveAs", text |-> doc])
    /\ UNCHANGED <<doc, unsavedChanges, fileHandle, disk, lastPersisted,
                   client, disposed>>

\* Mutant: the fallback to save-as without a file handle is left out.
SaveFileNoFallback ==
    /\ ~disposed
    /\ unsavedChanges
    /\ Start([op |-> "write", handle |-> fileHandle, text |-> doc])
    /\ UNCHANGED <<doc, unsavedChanges, fileHandle, disk, lastPersisted,
                   client, disposed>>

\* saveFile: nothing to do without unsaved changes; save-as without a file
\* handle; otherwise starts saveTextFile with a snapshot of the document.
SaveFile ==
    /\ ~disposed
    /\ unsavedChanges
    /\ IF fileHandle = None
         THEN SaveFileAs
         ELSE /\ Start([op |-> "write", handle |-> fileHandle, text |-> doc])
              /\ UNCHANGED <<doc, unsavedChanges, fileHandle, disk,
                             lastPersisted, client, disposed>>

-----------------------------------------------------------------------------
(* Continuations of the storage promises.                                  *)

\* fileOpened: replaces the whole document (history reset), records the
\* file and clears unsavedChanges.  It does not look at `disposed`.
FileOpened(h) ==
    /\ BagIn([op |-> "open"], pending)
    /\ disk[h] # NoText
    /\ Settle([op |-> "open"])
    /\ doc' = disk[h]
    /\ fileHandle' = h
    /\ unsavedChanges' = FALSE
    /\ lastPersisted' = disk[h]
    /\ UNCHANGED <<disk, client, disposed>>

\* saveTextFile resolves: clearUnsavedChanges.
FileSaved(o) ==
    /\ BagIn(o, pending)
    /\ o.op = "write"
    /\ Settle(o)
    /\ disk' = [disk EXCEPT ![o.handle] = o.text]
    /\ unsavedChanges' = FALSE
    /\ lastPersisted' = o.text
    /\ UNCHANGED <<doc, fileHandle, client, disposed>>

\* saveBlob resolves: with the handle picked in showSaveFilePicker, or with
\* undefined when the browser fell back to a download.  fileSavedAs records
\* a returned handle and clears unsavedChanges in both cases.
FileSavedAs(o, h) ==
    /\ BagIn(o, pending)
    /\ o.op = "saveAs"
    /\ Settle(o)
    /\ disk' = IF h = None THEN disk ELSE [disk EXCEPT ![h] = o.text]
    /\ fileHandle' = IF h = None THEN fileHandle ELSE h
    /\ unsavedChanges' = FALSE
    /\ lastPersisted' = o.text
    /\ UNCHANGED <<doc, client, disposed>>

\* Mutant: a rejected save-as still records a handle from the picker.
StorageFailedRecordsHandle(o) ==
    /\ BagIn(o, pending)
    /\ Settle(o)
    /\ fileHandle' = IF o.op = "saveAs" THEN CHOOSE h \in Handles : TRUE
                                        ELSE fileHandle
    /\ UNCHANGED <<doc, unsavedChanges, disk, lastPersisted, client,
                   disposed>>

\* Any of the promises rejects (failure or the user cancelling a picker):
\* the error is logged and nothing else changes.
StorageFailed(o) ==
    /\ BagIn(o, pending)
    /\ Settle(o)
    /\ UNCHANGED <<doc, unsavedChanges, fileHandle, disk, lastPersisted,
                   client, disposed>>

-----------------------------------------------------------------------------
Next ==
    \/ ClientLoaded
    \/ ClientLoadFailed
    \/ Dispose
    \/ \E t \in Texts : Edit(t)
    \/ OpenFile
    \/ SaveFile
    \/ SaveFileAs
    \/ \E h \in Handles : FileOpened(h)
    \/ \E o \in BagToSet(pending) :
         \/ FileSaved(o)
         \/ \E h \in Handles \cup {None} : FileSavedAs(o, h)
         \/ StorageFailed(o)

Spec == Init /\ [][Next]_vars

-----------------------------------------------------------------------------
(* Properties.                                                             *)

\* Whatever the order in which the lazy import of XtextClient and dispose
\* happen, no client is attached (and started) after the store was disposed.
NoClientAfterDispose ==
    disposed => client # "attached"

\* The file handle EditorStore saves to always names a file that exists in
\* storage: it is recorded only by an open that read it or a save-as that
\* wrote it.
HandleNamesStoredFile ==
    fileHandle # None => disk[fileHandle] # NoText

\* The spec (sections 3 and 8): unsavedChanges is false only when no
\* content change was dispatched since the last successful open or save,
\* i.e. the document is the text last put in or read from storage.
NoSilentDataLoss ==
    ~unsavedChanges => doc = lastPersisted

\* The spec (section 4.1): once disposed, no async continuation mutates the
\* document, its dirty flag or its file reference.
NoMutationAfterDispose ==
    [][disposed => UNCHANGED <<doc, unsavedChanges, fileHandle>>]_vars

=============================================================================
