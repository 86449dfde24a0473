# TLA+ verification of the Refinery editor session

This directory models the client-side session of the Refinery web editor:
`EditorStore` (`src/subprojects/frontend/src/editor/EditorStore.ts`), the
compression worker (`src/subprojects/frontend/src/persistence/compressionWorker.ts`),
the PWA update store (`src/subprojects/frontend/src/PWAStore.ts`) and the
backend result envelope (`src/subprojects/client-js/src/dto/RefineryResult.ts`).
It has TLA+ modules, TLC configurations that model-check them on small
instances, and TLAPS proofs. `PROJECT.json` lists the components, the runs,
the mutants, the map from definitions to source lines, the findings, the
hazards and the theorems.

## 1. Inventory

### Components and their state

| Component | Source | State | Operations |
|---|---|---|---|
| Document session (coordinator) | `EditorStore.ts` | `state` (CodeMirror document, selection, history, diagnostics, highlighting, occurrences), `unsavedChanges`, `fileName`/`fileHandle`, `client` (lazily imported `XtextClient`), `disposed`, `concretize`, view flags | `dispatch`/`dispatchTransaction`, `openFile`/`fileOpened`, `saveFile`, `saveFileAs`/`fileSavedAs`, `undo`/`redo`, `dispose`, `toggleConcretize`, `formatText`, `goToDefinition`, `contentAssist`, `hoverTooltip` |
| Generation registry | `EditorStore.ts` | `generatedModels` (a `Map` from uuid to `GeneratedModelStore`, in insertion order), `selectedGeneratedModel` | `startModelGeneration`, `addGeneratedModel`, `selectGeneratedModel`, `deleteGeneratedModel`, `cancelModelGeneration`, `modelGenerationCancelled`, `setGeneratedModelMessage/Error/Semantics`, `generating` |
| Diagnostics and analysis status | `EditorStore.ts` | diagnostics and highlighting inside `state`, `hexTypeHashes`, `analyzing`, `semanticsUpToDate`, `semanticsError`, `propagationRejected` | `updateDiagnostics`, `updateSemanticHighlighting`, `updateOccurrences`, `analysisStarted`, `analysisCompleted`, `onDisconnect`, `setSemanticsError`, `setSemantics` |
| Connection facade | `EditorStore.ts` | none of its own: `opened`, `opening`, `disconnectedByUser`, `networkMissing`, `connectionErrors` read the websocket of `XtextClient` | `connect`, `disconnect` |
| Codec worker | `compressionWorker.ts` | the lazily loaded `zstd` instance; one async task per message | `onmessage` (`compress`, `decompress`, error response), `base64Encode`, `base64Decode` |
| PWA update store | `PWAStore.ts` | `needsUpdate`, `updateError`, `registration` | `requestUpdate`, `checkForUpdates` (every 30 minutes), `reloadWithUpdate`, `dismissUpdate`, `dismissError` |
| Result envelope | `RefineryResult.ts` | none: zod schemas of the tagged union `success, status, timeout, cancelled, requestError, serverError, invalidProblem, unsatisfiable` | validation |
| Build scripts | `*.gradle.kts` | none | none |

### How they interact

* The editor view dispatches transactions into `EditorStore`; the store
  replaces `state` synchronously and hands the transaction to `XtextClient`
  (`client?.onTransaction`), which sends it over the websocket.
* The backend pushes messages that `XtextClient` routes to `EditorStore`
  methods: diagnostics, highlighting, analysis status, and the generation
  lifecycle (`addGeneratedModel` when a start request is acknowledged,
  `setGeneratedModelError/Semantics`, `modelGenerationCancelled` when a cancel
  is answered). The websocket is ordered in each direction.
* Open and save go through promises of `utils/fileIO`; their continuations
  (`fileOpened`, `clearUnsavedChanges`, `fileSavedAs`) run later, in any order
  relative to each other and to further edits.
* The compressor (outside `src/`) posts versioned requests to the codec worker
  and receives responses by message passing only.

### What is hard

* Interleaving of user operations with backend pushes: a model deleted
  locally can still receive pushes; a cancellation answer is a broadcast over
  whatever is in the Map when it arrives; a backend job may finish while its
  cancellation is in flight.
* Promises that settle after the state they snapshot has changed: a save
  completing after an edit, two saves completing out of order, an open or save
  completing after `dispose`, the lazy client import resolving after
  `dispose`.
* The codec worker's tasks interleave at their awaits, so responses can
  overtake each other; only the version tag (absent from the error response)
  correlates them.

### What makes each component correct

* Registry: the selection never dangles; deleting the selected key selects
  the one before it; a push never revives a store that has ended; a running store always has
  something in flight that will end it; a cancel eventually stops every store
  that was running when it was sent; at most one cancel outstanding (spec).
* Document session: `unsavedChanges` is false only when the document is what
  storage holds; a failed or cancelled save leaves the file reference alone;
  nothing mutates a disposed store; no client is started for a disposed store;
  an open resets the undo history.
* Analysis status: `analysisCompleted(true)` and `onDisconnect` clear the
  semantics error; occurrence navigation resolves write, then read, then the
  fallback position.
* Codec worker: `decompress(compress(t)) = t`; a response echoes the version
  of its request; the caller never applies a response of a superseded request.

## 2. Plan

Modules, in the order of importance (done ones marked):

1. **`GeneratedModels`** (done): the registry composed with the two websocket
   queues and a backend model. Proofs in `GeneratedModels_proofs`.
2. **`EditorFile`** (done, partly): document, persistence promises, client
   import, dispose. Next: the undo history and its reset on open. Proofs in
   `EditorFile_proofs` (done).
3. **`AnalysisStatus`** (done, partly): analysis status, diagnostics and
   highlighting replacement, semantics, over a connection that drops and
   reconnects. `updateOccurrences`' target resolution is the separate module
   **`Occurrences`** (done).
4. **`CompressionWorker`** (done): concurrent `onmessage` tasks with their
   awaits, the version echo and the unversioned error, plus a spec-modelled
   caller that discards stale responses. Next: `Base64Url` as pure operators
   checked against a reference round trip on bounded strings. Proofs in
   `CompressionWorker_proofs` (done).
5. **`PWAStore`** (done): update flags against the interval timer, update
   checks that settle in any order, rejected reloads and the page reload
   that restarts the store.
6. **`ResultEnvelope`** (done): the zod discriminated union of backend
   results, checked against the spec's set-of-records envelope.
7. **`EditorSession`**: composes `GeneratedModels` and `EditorFile` through
   `dispose` (pushes stop after dispose).

Abstract specifications: the compressor as a service that applies only the
latest result of each kind (`CodecService`, done, refined by
`CompressionWorker` and proved); the registry as an insertion-ordered map
of sessions under fresh uuids (`ModelRegistry`, done, refined by
`GeneratedModels` with the queues and the backend hidden, and proved).

Theorems (section 6): every safety invariant and action property of a
passing run is proved, and so are both refinements. What stays with TLC is
listed in section 6.

## 3. Modules, state and actions

### `GeneratedModels`

State: `order` (the keys of `generatedModels` in insertion order, a sequence
without duplicates), `status` (the state of each key's `GeneratedModelStore`:
`running`, `completed`, `errored`, or `absent` for a uuid not in the Map),
`selected` (`selectedGeneratedModel`), `toBackend` and `toClient` (the websocket
queues), `active` and `issued` (the backend's running jobs and the uuids it
has handed out), `requested` (start requests sent, bounded by the number of
uuids).

Actions: `StartModelGeneration`, `SelectGeneratedModel(u)`,
`DeleteGeneratedModel(u)` (reselection of the predecessor, cancel if running,
removal, all in one step as in the code), `ClientReceive` (one push routed by
`HandlePush` to `AddGeneratedModel`, `SetGeneratedModelError`,
`SetGeneratedModelSemantics` or `ModelGenerationCancelled`), and the backend's
`BackendStart`, `BackendCancel`, `BackendFinish(u)`. The backend and
`GeneratedModelStore` are not in this repository's sources and are modelled
from the spec: a start hands out a fresh uuid; a cancel stops every job of the
document, though a job already finishing may still report; a store only
changes while running. Progress messages and result graphs are left out: they
change no control state.

`ModelRegistry` is what the registry promises (spec sections 2 and 4.2),
with the websocket and the backend hidden. Its state is `order`, `status`,
`selected` and `used`, the uuids that have named a session so far. Its
actions are:

* `Add(u)`: a never-used uuid becomes a running, selected session;
* `Select(u)`;
* `Delete(u)`: removal with reselection of the predecessor;
* `End(S, r)`: some running sessions become completed or errored.

`GeneratedModels` implements it as `Registry == INSTANCE ModelRegistry WITH
used <- UsedUuids`. `UsedUuids` is the set of issued uuids with no `added`
push still in flight, and `ImplementsModelRegistry == Registry!Spec` states
the refinement. Under this mapping:

* applying an `added` push is `Add`;
* a result or error push for a running store is `End({u}, r)`;
* the `cancelled` push is `End` of every running store;
* `SelectGeneratedModel` is `Select`, and `DeleteGeneratedModel` is `Delete`;
* every other step stutters.

### `EditorFile`

State: `doc`, `unsavedChanges`, `fileHandle`, `disk` (content per file
handle), `pending` (a bag of unsettled storage promises with the text they
snapshot), `lastPersisted` (text of the last completed save or open),
`client` (`loading`, `attached`, `closed`, `none`), `disposed`.

Actions: `Edit(t)` (a dispatch that changes the document), `OpenFile`,
`SaveFile` (no-op when clean, save-as without a handle), `SaveFileAs`, the
continuations `FileOpened(h)`, `FileSaved(o)`, `FileSavedAs(o, h)` (`h = None`
is the download fallback of `saveBlob`), `StorageFailed(o)`, and
`ClientLoaded`, `ClientLoadFailed`, `Dispose`. User operations are guarded by
`~disposed` because the view is gone after dispose; continuations are not,
as in the code.

### `CompressionWorker`

State: `inbox` (messages posted to the worker, not yet dispatched), `req`
(the requests posted, `req[v]` with version `v`), `pc` (where the task of
each request is suspended: `idle`, `loading` at `await Zstd.load()`,
`encoding` at `await base64Encode`, `fetching` at `await base64Decode`,
`done`), `zstd` (the module-level instance is loaded), `outbox` (responses
in order of `postMessage`), `answered` (responses per task), and the caller's
`latest`, `applied` and `value` (latest version posted, last version applied
and the compressed text or text it kept, per kind).

Actions: `Dispatch` (onmessage starts a task, which only suspends at
`zstd ??= await Zstd.load()` while `zstd` is undefined), `Loaded(v)`,
`Encoded(v)`, `Fetched(v)` (decompression of a damaged text throws and the
catch posts the error), `TaskFailed(v)` (any awaited promise rejects), and
the caller's `CallerPost(r)` and `CallerReceive` (keeps the payload of a
response only if its version is the latest of its kind). Compression with base64url is the
injective tagged value `<<"zstd", t>>`; the constant `Garbage` is a damaged
compressed text. The caller is not in this repository's sources and is
modelled from spec sections 4.3 and 5. The error response carries no
version, as in the code.

`CodecService` is the abstract specification of what the worker and its
caller promise (spec sections 4.3 and 5): `posted` (the requests, by
version), `latest`, `applied` and `value`; `Request(r)` posts a request
with the next version, and `Answer(k)` applies the result of the latest
request of kind `k` if it has not been applied and has a result: the
compression of its text, or the text its compressed text decompresses to
(the round-trip law; a damaged text has none). The compression operators
are constants, instantiated with the worker's `Compressed`, `Decompressed`
and `Decodes`. `CompressionWorker` implements it with `posted <- req` and
the caller's records mapped to themselves: `CallerPost` is `Request`, a
response of the latest request is `Answer` (or re-applies the result
already kept), and every worker step, error and stale response is a
stutter. Because `Answer` fixes the value applied, the refinement fails if
a task posts the wrong payload or the wrong version. The property
`ImplementsCodecService == CodecAbs!Spec` states it.

### `AnalysisStatus`

State: `analyzing`, `semanticsUpToDate`, `semanticsError`,
`propagationRejected` as in `EditorStore`; `diagnostics`, `highlighting`,
`graph` (the document version what is shown was computed from); `version`
(of the local document); `connected`, `toBackend`, `toClient` (the connection
and what is in flight); `reconnects`.

Actions: `ClientReceive` (one push routed by the spec-modelled `HandlePush`
to `AnalysisStarted`, `UpdateDiagnostics`, `UpdateSemanticHighlighting`,
`SetSemantics`, `SetSemanticsError` or `AnalysisCompleted`), `Disconnect`
(in-flight messages are lost and `OnDisconnect` runs), and the spec-modelled
`Edit`, `Reconnect` (the whole document is sent again) and `BackendAnalyse`
(started, diagnostics, highlighting, then one of `Outcomes`: semantics, a
semantics error with or without a message, or nothing when skipped; then
completed). `setSemanticsError` assigns both fields, so an error push
without a message clears `semanticsError`. `onDisconnect` clears
`semanticsUpToDate` and then runs `analysisCompleted(true)`, which leaves
that flag alone: `OnDisconnect` is the flag's clearing together with
`CompletedStatus(TRUE)`, the assignments of `analysisCompleted`.

### `Occurrences`

`updateOccurrences` (`EditorStore.ts:323-347`). State: the shown write and
read `occurrences` (each abstracted to its start position), the selection
`anchor`, `focused`, and the ghost `call` (the arguments of the call just
made, read only by the property). `UpdateOccurrences(c)` is the whole
method: the occurrences are replaced and, when `goTo` (`write[0]?.from ??
read[0]?.from ?? fallbackPos` at line 331, operators `FirstFrom`, `Coalesce`, `GoTo`) is
defined, the selection moves there and the view is focused, in the same
dispatch. `MoveCursor` and `Blur` are the user. Positions include 0, the start
of the document, where `??` and a falsy test differ.

### `PWAStore`

`PWAStore.ts`. State: `host` (localhost, where no service worker is
registered, or deployed), `needsUpdate`, `updateError`, `registration`
(none, or whether its worker is active), the update-check promises in flight
(`latest`, the one the last check started, and `older`, the number of earlier
ones), `reloads` (calls of `updateSW(true)` in flight). The `registerSW` callbacks are `Registered` and
`NeedRefresh`; `Activated` is the runtime. `CheckForUpdates` (the interval
timer) dismisses the error and starts `registration.update()` only if the
worker is active; `ReloadWithUpdate`, `DismissUpdate`, `DismissError` are
the store's actions; `LatestCheckSettled`, `OlderCheckSettled` and
`ReloadRejected` are the promise rejections routed to `signalError`;
`Reloaded` is a successful reload, after which the page starts again from
the constructor.

### `ResultEnvelope`

`RefineryResult.ts`. The state is the response being parsed, drawn each
step from every combination of a `result` tag (the eight, an unknown string,
a number, or missing), a `message`, `details`, `issues` and `value` that are
well typed, ill typed or missing, and an undeclared extra key, plus a
non-object. `Shape` gives each tag's declared keys with their schema,
`Accepts` is zod's check of one key (an `.optional()` key may be missing,
not ill typed), `ParseObject` is `z.object(...).parse` (strips undeclared
keys) and `Parse` the discriminated union (rejects non-objects and unknown
tags). The value schema `T` is `z.string()` and an issue is one accepted
value (the `Issue` schema is outside `src/`).

## 4. Runs

| Run | Checks | Result |
|---|---|---|
| `registry` (`MC_GeneratedModels_live.cfg`) | `TypeOK`, `SelectionValid`, `RunningTracked`, `CancelTakesEffect`, `ImplementsModelRegistry` | pass, about 112 000 states |
| `registry_cancel_in_flight` (`MC_GeneratedModels_cancel.cfg`) | `AtMostOneCancelInFlight` | violation: two deletes of running models |
| `file_safety` (`MC_EditorFile.cfg`) | `TypeOK`, `NoClientAfterDispose`, `HandleNamesStoredFile` | pass, about 18 000 states |
| `file_data_loss` (`MC_EditorFile_dataloss.cfg`) | `NoSilentDataLoss` | violation: save-as, edit, save-as completes |
| `file_after_dispose` (`MC_EditorFile_dispose.cfg`) | `NoMutationAfterDispose` | violation: open, dispose, open completes |
| `codec_worker` (`MC_CompressionWorker.cfg`) | `TypeOK`, `AnsweredAtMostOnce`, `ImplementsCodecService`, `EveryRequestAnswered` | pass, about 33 000 states |
| `analysis_status` (`MC_AnalysisStatus.cfg`) | `TypeOK`, `SettledStatusCurrent`, `AnalysisEnds` | pass, about 38 000 states |
| `occurrences` (`MC_Occurrences.cfg`) | `TypeOK`, `SelectionFollowsOccurrences` | pass, about 5 700 states |
| `pwa_update` (`MC_PWAStore.cfg`) | `TypeOK` | pass, 185 states |
| `pwa_stale_error` (`MC_PWAStore_stale.cfg`) | `StaleCheckErrorNotShown` | violation: two checks overlap, the later succeeds, the earlier rejects |
| `result_envelope` (`MC_ResultEnvelope.cfg`) | `ParseMatchesSchema` | pass, 3 169 responses |

Bounds. Three uuids let two models run while a third is started, so a
cancellation can meet a running model, a terminal one and one not yet added;
they are model values (symmetric in the violation run only, since the
registry run checks liveness). Two texts and two handles are enough for an edit to
differ from a snapshot and for a save-as to pick a different file; two pending
promises let a save race another save, an open or an edit. Three codec
requests with two texts and a damaged one let two tasks overlap while a
third supersedes them, of either kind, with a load shared or raced. Three
edits and one reconnect let an analysis be superseded, lost in a drop and
redone after reconnecting. Positions 0..2 with up to two occurrences of
each kind cover an empty list, a first occurrence at 0, and the fallback.
Three promises of each kind in flight let a check overlap an older one and
a reload, on both hosts. The envelope run enumerates every combination of
key presence and type for the keys any shape declares. The codec and analysis runs do not check deadlock:
once the bounded requests and edits are done, the worker and the editor
simply idle.

Fairness. `CancelTakesEffect` assumes weak fairness of `ClientReceive` and of
the backend's handling of requests: the websocket delivers in order while
connected, and the browser's event loop and the backend process every message
they receive. Nothing is assumed of the user or of how long a job runs.
`EveryRequestAnswered` assumes weak fairness of the worker's event loop, of
the caller's receipt and of each task's pending await: the browser settles
every promise of `Zstd.load`, `FileReader` and `fetch` (resolved or
rejected). `AnalysisEnds` assumes weak fairness of delivery and of the
backend's analysis; drops and reconnects are not forced either way. The
PWA store's runs check safety only and assume no fairness.

## 5. Findings

* `NoSilentDataLoss` (code bug, `EditorStore.ts:588`, also `:607`):
  `saveFile` writes the text it reads when called, and clears
  `unsavedChanges` when the write completes. An edit made while the write is
  pending is then shown as saved although storage holds the older text. Two
  pending saves completing out of order do the same.
* `NoMutationAfterDispose` (`EditorStore.ts:543`): the continuations of
  `openFile`, `saveFile` and `saveFileAs` do not check `disposed`; the spec
  says every async continuation does. Only the client import checks it.
* `AtMostOneCancelInFlight` (`EditorStore.ts:495`): each delete of a running
  model sends another document-wide cancel with no check. The spec's open
  question notes the broadcast itself: deleting one running model also ends
  every other running model once the answer arrives. That is the documented
  behaviour, so no property claims otherwise.

* `StaleCheckErrorNotShown` (`PWAStore.ts:81`): `checkForUpdates`
  dismisses the error and starts a new `registration.update()` every
  interval without awaiting the previous one, and every rejection calls
  `signalError`. A slow earlier check that rejects after a newer one
  succeeded raises `updateError` again, though the latest check succeeded
  after the dismissal. The spec (section 7) keeps an error indicator until
  it is resolved or dismissed.

## 6. Proofs

Seven modules hold theorems that `tlapm` checks to the last step. Each
theorem holds for every value of the constants allowed by the named
assumptions of its module. Each safety invariant is proved the same way:

* find an inductive invariant `I`;
* prove `Init => I`, then `I /\ [Next]_vars => I'` with one step (or one
  lemma) per action;
* prove that `I` implies the property;
* combine them `BY PTL DEF Spec`.

Where `I` is stronger than the property, TLC checked `I` as an invariant of
the run's bounds before the proof was written.

### `GeneratedModels_proofs`

The assumption is `UuidsAssumption`: the uuids form a finite set without
`None`.

* `TypeCorrect`: `Spec => []TypeOK`. It rests on the lemma
  `RemoveIndexProperties` (removing a position of a sequence gives a
  sequence one shorter; the elements before it keep their place, those
  after it move down one).
* `SelectionNeverDangles`: `Spec => []SelectionValid`. `SelectionValid` is
  inductive together with `TypeOK`. The delete step uses `DeleteKeepsOthers`:
  every other key, and the key before the deleted one, stays in the order.
* `RunningAlwaysTracked`: `Spec => []RunningTracked`.

`RunningTracked` is not inductive alone. For example, receiving an
`added` push for a uuid that already had a completed store would make it
running again, with nothing in flight to end it. It follows from
`TrackedInv`, which TLC checked first on the `registry` bounds (111,795
states). Its conjuncts:

* the keys of the Map are exactly the uuids with a store, each once
  (`KeysAreStored`, `OrderInjective`);
* only issued uuids have stores (`StoredIssued`);
* an `added` push in flight names an issued uuid without a store, and no
  other `added` push names it (`AddedFresh`);
* its job is active, or a push behind it will end it (`AddedTracked`).

Each action has its own lemma:

* `StartTracked`, `CancelTracked` and `FinishTracked` for the backend's
  appends;
* `DeleteTracked`, on top of `DeleteKeys` (deleting from an order without
  repetitions removes exactly that key);
* `ReceiveAddedTracked`, `ReceiveResultTracked` and
  `ReceiveCancelledTracked` for the client's pushes. They share
  `ReceiveQueue` (the tail shift), `ReceiveAdded` (the `added` pushes
  behind the head stay fresh and tracked) and `ReceiveEnds` (a push that
  only ends generations).

* `RefinesModelRegistry`: `Spec => ImplementsModelRegistry`, the refinement
  of `ModelRegistry`. The initial state maps to `ModelRegistry`'s, since no
  uuid is issued. `NextRefines` shows that, under `TrackedInv`, every step is
  a `ModelRegistry` step or a stutter, with one lemma per kind of step:
  * `HiddenRefines`: `startModelGeneration` and the backend's steps
    stutter. A started job's uuid is issued together with its `added`
    push, so it is not yet used (`BackendUsed`).
  * `SelectRefines` and `DeleteRefines`.
  * `ReceiveAddedRefines`: applying an `added` push is `Add`. The uuid has no
    store, so `Map.set` appends it. It was unused while its push was in
    flight, and it is used afterwards, because `AddedFresh` makes that push
    the only `added` push for it.
  * `ReceiveResultRefines` and `ReceiveCancelledRefines`: these steps are
    `End` or a stutter.

  The lemmas `AppendInFlight` and `ReceiveInFlight` describe how the set of
  `added` pushes in flight changes when a push is appended or taken.
  `TrackedInv` is needed here as well. Without `AddedFresh`, a second `added`
  push for a used uuid would be an `Add` of a used uuid, or the re-creation
  of an existing key, which `ModelRegistry` forbids.

### `CompressionWorker_proofs`

The assumption is `CompressionWorkerAssumption`: any set of texts, any
damaged text, and any positive number of requests.

* `WorkerTypeCorrect`: `Spec => []TypeOK`.
* `AtMostOneResponse`: `Spec => []AnsweredAtMostOnce`.
* `RefinesCodecService`: `Spec => ImplementsCodecService`, the refinement
  of `CodecService`.

`AnsweredAtMostOnce` is not inductive alone. A `Dispatch` of a task that
had already answered would restart it, and a resumed task must find a
request of its kind. It follows from `IInv == TypeOK /\ TasksConsistent`:

* every message in the inbox is of a posted request whose task has not
  started, and each version is in the inbox at most once;
* a started task's request has been posted;
* a task suspended at `base64Encode` (`base64Decode`) serves a compress
  (decompress) request;
* a task has posted one response exactly when it is done.

`IInv` was model-checked first, then proved with one lemma per action.
`FinishIInv` covers the three steps that post a response.

The refinement needs two more invariants, and lemma `CallerInvariant`
proves `[](IInv /\ CallerInv /\ ResultsInv)`:

* `CallerInv`: the applied version of a kind is at most its latest, which
  is at most the number of requests, and the request at position `i`
  carries version `i`;
* `ResultsInv`: every response in flight other than an error echoes the
  version of a posted request and carries that request's result
  (`ResponseOK`), and what the caller keeps for a kind is the result of
  the request it applied.

`ResultsInv` is what ties the abstract `Answer` to the worker. `Encoded`
and `Fetched` post right responses because a task suspended at
`base64Encode` (`base64Decode`) serves a compress (decompress) request
(`TasksConsistent`) and reads the request of its own version
(`EncodedResults`, `FetchedResults`, `PostResults`). For the refinement:

* the initial state maps to `CodecService`'s (`InitRefines`);
* each step maps to `Request`, `Answer` or a stutter (`NextRefines`); a
  response of the latest request is `Answer` when its result was not
  applied, and otherwise re-applies the value already kept
  (`ReceiveRefines`).

### `EditorFile_proofs`

The assumption is `EditorFileAssumption`: `None` is not a handle, `NoText`
is not a text, and at least one promise may be pending.

* `FileTypeCorrect`: `Spec => []TypeOK`. The bag of pending promises stays
  a bag of storage operations (lemmas `BagAddType`, `BagRemoveType`,
  `PendingOp`).
* `ClientNeverOutlivesDispose`: `Spec => []NoClientAfterDispose`. It is
  inductive alone: the import's continuation checks `disposed`, and
  `dispose` closes an attached client in the step that sets it.
* `HandleAlwaysStored`: `Spec => []HandleNamesStoredFile`. It is inductive
  with `TypeOK`, because an open records the handle of a file it read and
  a save-as the handle of a file it wrote. A write stores a text, which is
  never `NoText`.

### `PWAStore_proofs`

`StoreTypeCorrect`: `Spec => []TypeOK`. `TypeOK` includes
`ChecksRegistered`: an update check is in flight only on a registration.
It is proved in three parts (`NextFlags`, `NextCounters`, and
`TypeOKParts` to join them). A reload that drops the registration also
drops the old page's checks.

### `AnalysisStatus_proofs`

* `StatusTypeCorrect`: `Spec => []TypeOK`.
* `StatusCurrentWhenSettled`: `Spec => []SettledStatusCurrent`.

`SettledStatusCurrent` is not inductive: an old batch of pushes still in
the socket could settle the status on stale data. The strengthening
`IInv == TypeOK /\ VersionsSeen /\ InFlight` describes the batches:

* `VersionsSeen`: no request or push names a version newer than the
  client's.
* `InFlight`, on a live connection:
  * a request in flight is for the current version;
  * otherwise, what remains in `toClient` is the tail of the batch for the
    current version, for one of its outcomes (`Pending`, `EndsWithRest`);
  * the pushes of that batch already handled have set the state they set
    (`Handled`).

`IInv` was checked by TLC first (37,699 states). The proof splits
`TypeOK` into parts, proves each action in a lemma of its own, and rests
on `BatchAppend` (a batch is its prefix plus its next push), which uses
the library's sequence theorems.

### `Occurrences_proofs`

* `OccurrencesTypeCorrect`: `Spec => []TypeOK`.
* `SelectionCorrect`: `Spec => SelectionFollowsOccurrences`, for every set
  of positions and every bound on the occurrences.

The core is the operator lemma `GoToIsTarget`. It says the code's chain
`write[0]?.from ?? read[0]?.from ?? fallbackPos` equals the spec's target
for every call, position 0 included. That lemma rests on `FirstStarts`
(the first occurrence of an array) and on the assumption that `None` is not
a position.

Writing this proof showed that `Target` had been stated with `CASE`. A
TLA+ `CASE` does not order its arms, so when several arms held, `Target`
did not say which target was meant. TLC evaluates the arms in order and
did not notice. `Target` now states the priority with `IF`/`ELSE`.

### `ResultEnvelope_proofs`

The lemma `ParseSoundOn` says that a response that parses yields one of
the envelope's shapes, with exactly the keys of its option. The
assumption `AbstractValuesAssumption` says that a missing key and a JSON
number are not strings. There is one lemma per option of the union
(`SoundMessage`, `SoundRequestError`, `SoundInvalidProblem`,
`SoundValue`). They use `ParseAccepted` (what a successful parse implies),
`StringPresent` (a `z.string()` key is present) and `ArrayChoice` (an
accepted array is one of the envelope's).

`ParseAlwaysMatchesSchema`: `Spec => []ParseMatchesSchema`, for every `Issue`
schema. It rests on two more assumptions, which TLC evaluates on the
`result_envelope` run:

* `ArraysAssumption`: a JSON number and a missing key are not arrays.
  Without it, `Number = << >>` would make a numeric `details` an empty array
  that the schema holds but the parse rejects.
* `InvalidAssumption`: the failed parse (zod throws) is no restriction of a
  response.

The argument runs as follows:

* `EnvelopeShape` states what an envelope's keys and values are.
  `ArraysAccepted` says that the envelope's arrays pass `ArrayOf`.
  `EnvelopeKeysBound` says that the keys of a kind are those its option
  declares, and `DetailsKey` that a request error may carry `details`.
* `HeldRestriction` says what every held envelope shares with the response.
* `HeldParse`: a response that parses holds exactly one envelope, its
  parse (by `ParseSoundOn`). Every held envelope has the response's tag, and its keys lie
  between the envelope keys the response has and the declared keys.
* `HeldEmpty`: a response that does not parse holds none. A held envelope
  would give the tag and an accepted value for every declared key. The
  optional `details` is absent from the response, since it is an envelope
  key.
* `ChooseLargest`: the `CHOOSE` over a single envelope picks it. It needs
  `KeysFinite` for the cardinality.

### Only model-checked

* **Liveness.** `CancelTakesEffect`, `EveryRequestAnswered` and
  `AnalysisEnds` need fairness and
  `ENABLED`, which this prover does not handle.
* **The properties of the `violation` runs.** `AtMostOneCancelInFlight`,
  `NoSilentDataLoss`, `NoMutationAfterDispose` and
  `StaleCheckErrorNotShown` are properties the code breaks (section 5), so
  they have no proof.

## 7. Not modelled

* The editor view, rendering, search and lint panels, dark mode, line
  numbers: UI with no effect on the session's state.
* The connection facade's flags: they are read straight from `XtextClient`'s
  websocket, which is not in this repository's sources.
* `contentAssist`, `hoverTooltip`, `goToDefinition`, `formatText`,
  `toggleConcretize`: one call each to the client, no state of the store
  beyond `concretize`.
* Build scripts.
* The service worker runtime behind `registerSW` and the `Issue` schema of
  `dto/`: not in this repository's sources; modelled only as the
  environment of `PWAStore` and as one accepted issue value.
