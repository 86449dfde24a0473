------------------------- MODULE CompressionWorker -------------------------
(***************************************************************************)
(* The compression worker and the caller that posts it versioned requests. *)
(*                                                                         *)
(* Every message makes onmessage start an async task.  A task runs without *)
(* interruption up to its next await, so it is a sequence of atomic        *)
(* segments: `pc[v]` is where the task of the request with version v is    *)
(* suspended, and each action below is one segment.  Tasks of different    *)
(* messages interleave at their awaits and share only the lazily loaded    *)
(* `zstd`.  postMessage is an ordered channel to the caller (`outbox`).    *)
(*                                                                         *)
(* The caller (persistence/compressionMessages' user, not part of this     *)
(* repository's sources) is modelled from the spec: it numbers its         *)
(* requests, remembers the latest version of each kind, and applies a      *)
(* response (keeps its compressed text or text) only when it answers that  *)
(* latest request.                                                         *)
(*                                                                         *)
(* zstd compression followed by base64url encoding is an injective map of  *)
(* a text to a compressed text, modelled as the pair <<"zstd", t>>; a      *)
(* compressed text that is not such a pair (a damaged share link) fails to *)
(* decompress.  The error response carries no version.                    *)
(***************************************************************************)
EXTENDS Naturals, Sequences

CONSTANTS
    Texts,       \* document texts
    Garbage,     \* a compressed text that does not decode
    MaxVersion   \* number of requests the caller posts

ASSUME CompressionWorkerAssumption ==
    /\ MaxVersion \in Nat \ {0}
    /\ Garbage \notin Texts

VARIABLES
    inbox,       \* messages posted to the worker, not yet dispatched
    req,         \* the requests posted so far; req[v] has version v
    pc,          \* where the task of each version is suspended
    zstd,        \* the module-level zstd instance has been loaded
    outbox,      \* responses posted by the worker, not yet received
    answered,    \* number of responses each task posted
    latest,      \* caller: the latest version posted of each kind
    applied,     \* caller: version of the response last applied, per kind
    value        \* caller: the compressed text or text last applied, per kind

vars == <<inbox, req, pc, zstd, outbox, answered, latest, applied, value>>

-----------------------------------------------------------------------------
Versions == 1..MaxVersion

Kinds == {"compress", "decompress"}

Compressed(t) == <<"zstd", t>>

CompressedTexts == {Compressed(t) : t \in Texts} \cup {Garbage}

\* What zstd.decompress and TextDecoder give back for a compressed text.
Decodes(c) == c # Garbage

Decompressed(c) == c[2]

Request == [request : {"compress"}, text : Texts, version : Versions]
             \cup [request : {"decompress"}, compressedText : CompressedTexts,
                   version : Versions]

Response == [response : {"compressed"}, compressedText : CompressedTexts,
             version : Versions]
              \cup [response : {"decompressed"}, text : Texts,
                    version : Versions]
              \cup [response : {"error"}]

\* Where a task can be suspended.
Pc == {"idle", "loading", "encoding", "fetching", "done"}

-----------------------------------------------------------------------------
TypeOK ==
    /\ inbox \in Seq(Versions)
    /\ req \in Seq(Request) /\ Len(req) <= MaxVersion
    /\ pc \in [Versions -> Pc]
    /\ zstd \in BOOLEAN
    /\ outbox \in Seq(Response)
    /\ answered \in [Versions -> Nat]
    /\ latest \in [Kinds -> 0..MaxVersion]
    /\ applied \in [Kinds -> 0..MaxVersion]
    /\ value \in [Kinds -> CompressedTexts \cup Texts \cup {"none"}]

Init ==
    /\ inbox = << >>
    /\ req = << >>
    /\ pc = [v \in Versions |-> "idle"]
    /\ zstd = FALSE
    /\ outbox = << >>
    /\ answered = [v \in Versions |-> 0]
    /\ latest = [k \in Kinds |-> 0]
    /\ applied = [k \in Kinds |-> 0]
    /\ value = [k \in Kinds |-> "none"]

-----------------------------------------------------------------------------
(* Spec-modelled caller.                                                   *)

\* Post a compress or decompress request with the next version.
CallerPost(r) ==
    /\ Len(req) < MaxVersion
    /\ r.version = Len(req) + 1
    /\ req' = Append(req, r)
    /\ inbox' = Append(inbox, r.version)
    /\ latest' = [latest EXCEPT ![r.request] = r.version]
    /\ UNCHANGED <<pc, zstd, outbox, answered, applied, value>>

\* The kind of request a response answers.
KindOf(m) == IF m.response = "compressed" THEN "compress" ELSE "decompress"

\* What a response carries.
Payload(m) ==
    IF m.response = "compressed" THEN m.compressedText ELSE m.text

\* Receive a response: apply it if it answers the latest request of its
\* kind, discard it otherwise; an error is reported and changes nothing.
CallerReceive ==
    /\ outbox # << >>
    /\ LET m == Head(outbox) IN
         IF m.response # "error" /\ m.version = latest[KindOf(m)]
           THEN /\ applied' = [applied EXCEPT ![KindOf(m)] = m.version]
                /\ value' = [value EXCEPT ![KindOf(m)] = Payload(m)]
           ELSE UNCHANGED <<applied, value>>
    /\ outbox' = Tail(outbox)
    /\ UNCHANGED <<inbox, req, pc, zstd, answered, latest>>

-----------------------------------------------------------------------------
(* The worker.                                                             *)

\* postMessage of a response by the task of version v.
Post(v, m) ==
    /\ outbox' = Append(outbox, m)
    /\ answered' = [answered EXCEPT ![v] = @ + 1]

\* The synchronous segment after zstd is available: compress encodes and
\* compresses, then awaits base64Encode; decompress awaits base64Decode.
AfterLoad(v) ==
    pc' = [pc EXCEPT ![v] = IF req[v].request = "compress" THEN "encoding"
                                                           ELSE "fetching"]

\* onmessage: the task starts and runs `zstd ??= await Zstd.load()`, which
\* only awaits while zstd is still undefined.
Dispatch ==
    /\ inbox # << >>
    /\ LET v == Head(inbox) IN
         IF zstd THEN AfterLoad(v)
                 ELSE pc' = [pc EXCEPT ![v] = "loading"]
    /\ inbox' = Tail(inbox)
    /\ UNCHANGED <<req, zstd, outbox, answered, latest, applied, value>>

\* Zstd.load() resolves: the task stores the instance and goes on.
Loaded(v) ==
    /\ pc[v] = "loading"
    /\ zstd' = TRUE
    /\ AfterLoad(v)
    /\ UNCHANGED <<inbox, req, outbox, answered, latest, applied, value>>

\* Mutant: the echoed version is off by one.
EncodedOffByOne(v) ==
    /\ pc[v] = "encoding"
    /\ pc' = [pc EXCEPT ![v] = "done"]
    /\ Post(v, [response |-> "compressed",
                compressedText |-> Compressed(req[v].text),
                version |-> req[v].version + 1])
    /\ UNCHANGED <<inbox, req, zstd, latest, applied, value>>

\* base64Encode resolves: post the compressed text with the version.
Encoded(v) ==
    /\ pc[v] = "encoding"
    /\ pc' = [pc EXCEPT ![v] = "done"]
    /\ Post(v, [response |-> "compressed",
                compressedText |-> Compressed(req[v].text),
                version |-> req[v].version])
    /\ UNCHANGED <<inbox, req, zstd, latest, applied, value>>

\* Mutant: zstd.decompress throws outside the try, so the catch never posts.
FetchedUncaught(v) ==
    /\ pc[v] = "fetching"
    /\ pc' = [pc EXCEPT ![v] = "done"]
    /\ IF Decodes(req[v].compressedText)
         THEN Post(v, [response |-> "decompressed",
                       text |-> Decompressed(req[v].compressedText),
                       version |-> req[v].version])
         ELSE UNCHANGED <<outbox, answered>>
    /\ UNCHANGED <<inbox, req, zstd, latest, applied, value>>

\* Mutant: the decoded buffer is posted without zstd.decompress.
FetchedNotDecompressed(v) ==
    /\ pc[v] = "fetching"
    /\ pc' = [pc EXCEPT ![v] = "done"]
    /\ IF Decodes(req[v].compressedText)
         THEN Post(v, [response |-> "decompressed",
                       text |-> req[v].compressedText,
                       version |-> req[v].version])
         ELSE Post(v, [response |-> "error"])
    /\ UNCHANGED <<inbox, req, zstd, latest, applied, value>>

\* base64Decode resolves: decompress and decode synchronously; post the
\* text, or, when zstd.decompress throws, the error response of the catch.
Fetched(v) ==
    /\ pc[v] = "fetching"
    /\ pc' = [pc EXCEPT ![v] = "done"]
    /\ IF Decodes(req[v].compressedText)
         THEN Post(v, [response |-> "decompressed",
                       text |-> Decompressed(req[v].compressedText),
                       version |-> req[v].version])
         ELSE Post(v, [response |-> "error"])
    /\ UNCHANGED <<inbox, req, zstd, latest, applied, value>>

\* Mutant: the error handler is chained after the response was posted too,
\* so a task that already answered can still post an error.
TaskFailedAfterAnswer(v) ==
    /\ pc[v] # "idle"
    /\ pc' = [pc EXCEPT ![v] = "done"]
    /\ Post(v, [response |-> "error"])
    /\ UNCHANGED <<inbox, req, zstd, latest, applied, value>>

\* An await rejects (Zstd.load, FileReader or fetch): the catch posts an
\* error response, which carries no version.
TaskFailed(v) ==
    /\ pc[v] \in {"loading", "encoding", "fetching"}
    /\ pc' = [pc EXCEPT ![v] = "done"]
    /\ Post(v, [response |-> "error"])
    /\ UNCHANGED <<inbox, req, zstd, latest, applied, value>>

-----------------------------------------------------------------------------
Next ==
    \/ \E r \in Request : CallerPost(r)
    \/ CallerReceive
    \/ Dispatch
    \/ \E v \in Versions :
         \/ Loaded(v)
         \/ Encoded(v)
         \/ Fetched(v)
         \/ TaskFailed(v)

\* The browser runs every queued message and settles every await of the
\* worker: a task suspended at an await eventually resumes or fails.
Fairness ==
    /\ WF_vars(CallerReceive)
    /\ WF_vars(Dispatch)
    /\ \A v \in Versions :
         WF_vars(Loaded(v) \/ Encoded(v) \/ Fetched(v) \/ TaskFailed(v))

Spec == Init /\ [][Next]_vars

FairSpec == Spec /\ Fairness

-----------------------------------------------------------------------------
(* Properties.                                                             *)

\* Every task posts at most one response: the catch of onmessage only runs
\* for a task that has not posted.
AnsweredAtMostOnce ==
    \A v \in Versions : answered[v] <= 1

\* Every request the caller posts is eventually answered, with its result
\* or an error: no failure inside a task is swallowed (spec section 9).
EveryRequestAnswered ==
    \A v \in Versions : v <= Len(req) ~> answered[v] = 1

\* The worker and its caller implement the abstract codec service, with
\* the requests and the caller's records mapped to themselves: every step
\* posts a request, applies the result of the latest request of its kind
\* that was not applied yet (the compression of its text, or the text its
\* compressed text decompresses to), or changes nothing the caller sees,
\* however the tasks of overlapping requests interleave and whichever of
\* them fail.
CodecAbs == INSTANCE CodecService
    WITH posted <- req, Requests <- Request, Compress <- Compressed,
         Decompress <- Decompressed, Decodable <- Decodes

ImplementsCodecService == CodecAbs!Spec

=============================================================================
