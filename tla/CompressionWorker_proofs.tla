---------------------- MODULE CompressionWorker_proofs ----------------------
(***************************************************************************)
(* Proofs about the compression worker, for every set of texts and every   *)
(* number of requests: the type invariant, that every task of onmessage    *)
(* posts at most one response, and that the worker with its caller         *)
(* implements the abstract codec service.                                  *)
(*                                                                         *)
(* AnsweredAtMostOnce is not inductive as it stands: a Dispatch of a       *)
(* version whose task already answered would restart it.  The              *)
(* strengthening says that a message waiting in the inbox belongs to a     *)
(* task that has not started, that each version is posted once, that a     *)
(* task suspended at base64Encode or base64Decode serves a request of the  *)
(* matching kind, and that a task has answered exactly when it is done.    *)
(*                                                                         *)
(* The refinement of CodecService rests on two more invariants: the       *)
(* request at position i carries version i (CallerInv), and every response *)
(* in flight other than an error carries the result of the request whose   *)
(* version it echoes, while what the caller keeps is the result of the     *)
(* request it applied (ResultsInv).                                        *)
(***************************************************************************)
EXTENDS CompressionWorker, SequenceTheorems, TLAPS

\* The strengthened invariant.
TasksConsistent ==
    /\ \A i \in 1..Len(inbox) : inbox[i] <= Len(req) /\ pc[inbox[i]] = "idle"
    /\ \A i, j \in 1..Len(inbox) : i # j => inbox[i] # inbox[j]
    /\ \A v \in Versions : pc[v] # "idle" => v <= Len(req)
    /\ \A v \in Versions : pc[v] = "encoding" => req[v].request = "compress"
    /\ \A v \in Versions : pc[v] = "fetching" => req[v].request = "decompress"
    /\ \A v \in Versions : answered[v] = IF pc[v] = "done" THEN 1 ELSE 0

IInv == TypeOK /\ TasksConsistent

-----------------------------------------------------------------------------
(* The initial state.                                                      *)

LEMMA InitIInv == Init => IInv
<1> SUFFICES ASSUME Init PROVE IInv
  OBVIOUS
<1>1. TypeOK
  <2>1. inbox \in Seq(Versions) /\ req \in Seq(Request) /\ outbox \in Seq(Response)
    BY EmptySeq DEF Init
  <2>2. Len(req) <= MaxVersion
    BY CompressionWorkerAssumption, EmptySeq DEF Init
  <2>3. /\ pc \in [Versions -> Pc]
        /\ answered \in [Versions -> Nat]
        /\ latest \in [Kinds -> 0..MaxVersion]
        /\ applied \in [Kinds -> 0..MaxVersion]
    BY CompressionWorkerAssumption DEF Init, Pc
  <2>4. QED
    BY <2>1, <2>2, <2>3 DEF Init, TypeOK
<1>2. TasksConsistent
  BY EmptySeq DEF Init, TasksConsistent
<1>3. QED
  BY <1>1, <1>2 DEF IInv

-----------------------------------------------------------------------------
(* The responses the worker posts.                                         *)

\* A compressed text that decodes is the compression of a text.
LEMMA DecompressedType ==
    ASSUME NEW c \in CompressedTexts, Decodes(c)
    PROVE  Decompressed(c) \in Texts
BY DEF CompressedTexts, Decodes, Decompressed, Compressed

\* Posting a response keeps the outbox and the counters typed.
LEMMA PostType ==
    ASSUME TypeOK, NEW v \in Versions, NEW m \in Response, Post(v, m)
    PROVE  outbox' \in Seq(Response) /\ answered' \in [Versions -> Nat]
BY AppendProperties DEF Post, TypeOK

-----------------------------------------------------------------------------
(* The caller's steps.                                                     *)

LEMMA CallerPostIInv ==
    ASSUME IInv, NEW r \in Request, CallerPost(r)
    PROVE  IInv'
<1> USE DEF IInv
<1>1. /\ Len(req) \in Nat /\ Len(inbox) \in Nat
      /\ r.version = Len(req) + 1 /\ r.version \in Versions
      /\ r.request \in Kinds
  BY DEF CallerPost, TypeOK, Request, Kinds
<1>2. /\ req' \in Seq(Request) /\ Len(req') = Len(req) + 1
      /\ \A i \in 1..Len(req) : req'[i] = req[i]
      /\ inbox' \in Seq(Versions) /\ Len(inbox') = Len(inbox) + 1
      /\ \A i \in 1..Len(inbox) : inbox'[i] = inbox[i]
      /\ inbox'[Len(inbox) + 1] = Len(req) + 1
  BY <1>1, AppendProperties DEF CallerPost, TypeOK
<1>3. TypeOK'
  BY <1>1, <1>2 DEF CallerPost, TypeOK, Versions
<1>4. pc[Len(req) + 1] = "idle"
  BY <1>1 DEF TasksConsistent, Versions
<1>5. \A i \in 1..Len(inbox') : inbox'[i] <= Len(req') /\ pc'[inbox'[i]] = "idle"
  <2> SUFFICES ASSUME NEW i \in 1..Len(inbox')
               PROVE  inbox'[i] <= Len(req') /\ pc'[inbox'[i]] = "idle"
    OBVIOUS
  <2>1. CASE i \in 1..Len(inbox)
    <3>1. inbox[i] \in Versions /\ inbox[i] <= Len(req) /\ pc[inbox[i]] = "idle"
      BY <2>1, ElementOfSeq DEF TypeOK, TasksConsistent
    <3>2. QED
      BY <1>1, <1>2, <2>1, <3>1 DEF CallerPost, Versions
  <2>2. CASE i = Len(inbox) + 1
    BY <1>1, <1>2, <1>4, <2>2 DEF CallerPost
  <2>3. QED
    BY <1>1, <1>2, <2>1, <2>2
<1>6. \A i, j \in 1..Len(inbox') : i # j => inbox'[i] # inbox'[j]
  BY <1>1, <1>2 DEF CallerPost, TasksConsistent
<1>7. \A v \in Versions : pc'[v] # "idle" => v <= Len(req')
  BY <1>1, <1>2 DEF CallerPost, TasksConsistent, Versions
<1>8. /\ \A v \in Versions : pc'[v] = "encoding" => req'[v].request = "compress"
      /\ \A v \in Versions : pc'[v] = "fetching" => req'[v].request = "decompress"
  BY <1>1, <1>2 DEF CallerPost, TasksConsistent, Versions
<1>9. QED
  BY <1>3, <1>5, <1>6, <1>7, <1>8 DEF CallerPost, TasksConsistent

LEMMA CallerReceiveIInv ==
    ASSUME IInv, CallerReceive
    PROVE  IInv'
<1> USE DEF IInv
<1> DEFINE m == Head(outbox)
<1>1. m \in Response /\ outbox' \in Seq(Response)
  BY HeadTailProperties DEF CallerReceive, TypeOK
<1>2. m.response # "error" => KindOf(m) \in Kinds /\ m.version \in 0..MaxVersion
  BY <1>1 DEF Response, KindOf, Kinds, Versions
<1>3. applied' \in [Kinds -> 0..MaxVersion]
  BY <1>2 DEF CallerReceive, TypeOK
<1>4. m.response # "error" => Payload(m) \in CompressedTexts \cup Texts
  BY <1>1 DEF Response, Payload
<1>5. value' \in [Kinds -> CompressedTexts \cup Texts \cup {"none"}]
  BY <1>2, <1>4 DEF CallerReceive, TypeOK
<1>6. QED
  BY <1>1, <1>3, <1>5 DEF CallerReceive, TypeOK, TasksConsistent

-----------------------------------------------------------------------------
(* The worker's steps.                                                     *)

\* The request of a started task is one the caller posted.
LEMMA StartedRequest ==
    ASSUME IInv, NEW v \in Versions, pc[v] # "idle"
    PROVE  v \in 1..Len(req) /\ req[v] \in Request
BY ElementOfSeq DEF IInv, TypeOK, TasksConsistent, Versions

LEMMA DispatchIInv ==
    ASSUME IInv, Dispatch
    PROVE  IInv'
<1> USE DEF IInv
<1> DEFINE v == Head(inbox)
<1>1. /\ Len(inbox) \in Nat /\ Len(inbox) > 0
      /\ v = inbox[1] /\ v \in Versions
      /\ v <= Len(req) /\ pc[v] = "idle"
      /\ inbox' = Tail(inbox) /\ inbox' \in Seq(Versions)
      /\ Len(inbox') = Len(inbox) - 1
      /\ \A i \in 1..Len(inbox') : inbox'[i] = inbox[i + 1]
  BY HeadTailProperties, EmptySeq, LenProperties
     DEF Dispatch, TypeOK, TasksConsistent
<1>2. req[v] \in Request
  BY <1>1, ElementOfSeq DEF TypeOK, Versions
<1>3. /\ pc' = [pc EXCEPT ![v] = pc'[v]]
      /\ pc'[v] = "loading" \/ (pc'[v] = "encoding" /\ req[v].request = "compress")
                            \/ (pc'[v] = "fetching" /\ req[v].request = "decompress")
  BY <1>1, <1>2 DEF Dispatch, AfterLoad, TypeOK, Request
<1>4. TypeOK'
  BY <1>1, <1>3 DEF Dispatch, TypeOK, Pc
<1>5. \A i \in 1..Len(inbox') : inbox'[i] <= Len(req') /\ pc'[inbox'[i]] = "idle"
  <2> SUFFICES ASSUME NEW i \in 1..Len(inbox')
               PROVE  inbox'[i] <= Len(req') /\ pc'[inbox'[i]] = "idle"
    OBVIOUS
  <2>1. i + 1 \in 1..Len(inbox) /\ i + 1 # 1
    BY <1>1
  <2>2. inbox'[i] # v /\ inbox'[i] \in Versions
    BY <1>1, <2>1, ElementOfSeq DEF TasksConsistent, TypeOK
  <2>3. QED
    BY <1>1, <1>3, <2>1, <2>2 DEF Dispatch, TasksConsistent, TypeOK
<1>6. \A i, j \in 1..Len(inbox') : i # j => inbox'[i] # inbox'[j]
  BY <1>1 DEF TasksConsistent
<1>7. ASSUME NEW w \in Versions
      PROVE  /\ pc'[w] # "idle" => w <= Len(req')
             /\ pc'[w] = "encoding" => req'[w].request = "compress"
             /\ pc'[w] = "fetching" => req'[w].request = "decompress"
             /\ answered'[w] = IF pc'[w] = "done" THEN 1 ELSE 0
  <2>1. CASE w = v
    BY <1>1, <1>3, <2>1 DEF Dispatch, TasksConsistent, TypeOK
  <2>2. CASE w # v
    BY <1>3, <2>2 DEF Dispatch, TasksConsistent, TypeOK
  <2>3. QED
    BY <2>1, <2>2
<1>8. QED
  BY <1>4, <1>5, <1>6, <1>7 DEF TasksConsistent

\* A task suspended at an await resumes and posts its one response.
LEMMA FinishIInv ==
    ASSUME IInv, NEW v \in Versions,
           pc[v] \in {"loading", "encoding", "fetching"},
           NEW m \in Response,
           pc' = [pc EXCEPT ![v] = "done"], Post(v, m),
           UNCHANGED <<inbox, req, zstd, latest, applied, value>>
    PROVE  IInv'
<1> USE DEF IInv
<1>1. answered[v] = 0
  BY DEF TasksConsistent
<1>2. TypeOK'
  BY PostType DEF TypeOK, Pc
<1>3. \A i \in 1..Len(inbox') : inbox'[i] <= Len(req') /\ pc'[inbox'[i]] = "idle"
  <2> SUFFICES ASSUME NEW i \in 1..Len(inbox)
               PROVE  inbox[i] <= Len(req) /\ pc'[inbox[i]] = "idle"
    OBVIOUS
  <2>1. inbox[i] \in Versions /\ inbox[i] # v
    BY ElementOfSeq DEF TypeOK, TasksConsistent
  <2>2. QED
    BY <2>1 DEF TasksConsistent, TypeOK
<1>4. ASSUME NEW w \in Versions
      PROVE  /\ pc'[w] # "idle" => w <= Len(req')
             /\ pc'[w] = "encoding" => req'[w].request = "compress"
             /\ pc'[w] = "fetching" => req'[w].request = "decompress"
             /\ answered'[w] = IF pc'[w] = "done" THEN 1 ELSE 0
  BY <1>1 DEF Post, TasksConsistent, TypeOK
<1>5. QED
  BY <1>2, <1>3, <1>4 DEF TasksConsistent

LEMMA LoadedIInv ==
    ASSUME IInv, NEW v \in Versions, Loaded(v)
    PROVE  IInv'
<1> USE DEF IInv
<1>1. v \in 1..Len(req) /\ req[v] \in Request
  BY StartedRequest DEF Loaded
<1>2. /\ pc' = [pc EXCEPT ![v] = pc'[v]]
      /\ \/ pc'[v] = "encoding" /\ req[v].request = "compress"
         \/ pc'[v] = "fetching" /\ req[v].request = "decompress"
  BY <1>1 DEF Loaded, AfterLoad, TypeOK, Request
<1>3. TypeOK'
  BY <1>2 DEF Loaded, TypeOK, Pc
<1>4. \A i \in 1..Len(inbox') : inbox'[i] <= Len(req') /\ pc'[inbox'[i]] = "idle"
  <2> SUFFICES ASSUME NEW i \in 1..Len(inbox)
               PROVE  inbox[i] <= Len(req) /\ pc'[inbox[i]] = "idle"
    BY DEF Loaded
  <2>1. inbox[i] \in Versions /\ inbox[i] # v
    BY ElementOfSeq DEF Loaded, TypeOK, TasksConsistent
  <2>2. QED
    BY <1>2, <2>1 DEF TasksConsistent, TypeOK
<1>5. ASSUME NEW w \in Versions
      PROVE  /\ pc'[w] # "idle" => w <= Len(req')
             /\ pc'[w] = "encoding" => req'[w].request = "compress"
             /\ pc'[w] = "fetching" => req'[w].request = "decompress"
             /\ answered'[w] = IF pc'[w] = "done" THEN 1 ELSE 0
  BY <1>1, <1>2 DEF Loaded, TasksConsistent, TypeOK
<1>6. QED
  BY <1>3, <1>4, <1>5 DEF Loaded, TasksConsistent

LEMMA EncodedIInv ==
    ASSUME IInv, NEW v \in Versions, Encoded(v)
    PROVE  IInv'
<1>1. v \in 1..Len(req) /\ req[v] \in Request /\ req[v].request = "compress"
  BY StartedRequest DEF Encoded, IInv, TasksConsistent
<1>2. req[v].text \in Texts /\ req[v].version \in Versions
  BY <1>1 DEF Request
<1>3. [response |-> "compressed", compressedText |-> Compressed(req[v].text),
       version |-> req[v].version] \in Response
  BY <1>2 DEF Response, CompressedTexts
<1>4. QED
  BY <1>3, FinishIInv DEF Encoded

LEMMA FetchedIInv ==
    ASSUME IInv, NEW v \in Versions, Fetched(v)
    PROVE  IInv'
<1>1. v \in 1..Len(req) /\ req[v] \in Request /\ req[v].request = "decompress"
  BY StartedRequest DEF Fetched, IInv, TasksConsistent
<1>2. req[v].compressedText \in CompressedTexts /\ req[v].version \in Versions
  BY <1>1 DEF Request
<1>3. CASE Decodes(req[v].compressedText)
  <2>1. [response |-> "decompressed",
         text |-> Decompressed(req[v].compressedText),
         version |-> req[v].version] \in Response
    BY <1>2, <1>3, DecompressedType DEF Response
  <2>2. QED
    BY <1>3, <2>1, FinishIInv DEF Fetched
<1>4. CASE ~Decodes(req[v].compressedText)
  <2>1. [response |-> "error"] \in Response
    BY DEF Response
  <2>2. QED
    BY <1>4, <2>1, FinishIInv DEF Fetched
<1>5. QED
  BY <1>3, <1>4

LEMMA TaskFailedIInv ==
    ASSUME IInv, NEW v \in Versions, TaskFailed(v)
    PROVE  IInv'
<1>1. [response |-> "error"] \in Response
  BY DEF Response
<1>2. QED
  BY <1>1, FinishIInv DEF TaskFailed

-----------------------------------------------------------------------------
(* The theorems.                                                           *)

LEMMA NextIInv == IInv /\ [Next]_vars => IInv'
<1> SUFFICES ASSUME IInv, [Next]_vars PROVE IInv'
  OBVIOUS
<1>1. ASSUME NEW r \in Request, CallerPost(r) PROVE IInv'
  BY <1>1, CallerPostIInv
<1>2. CASE CallerReceive
  BY <1>2, CallerReceiveIInv
<1>3. CASE Dispatch
  BY <1>3, DispatchIInv
<1>4. ASSUME NEW v \in Versions, Loaded(v) PROVE IInv'
  BY <1>4, LoadedIInv
<1>5. ASSUME NEW v \in Versions, Encoded(v) PROVE IInv'
  BY <1>5, EncodedIInv
<1>6. ASSUME NEW v \in Versions, Fetched(v) PROVE IInv'
  BY <1>6, FetchedIInv
<1>7. ASSUME NEW v \in Versions, TaskFailed(v) PROVE IInv'
  BY <1>7, TaskFailedIInv
<1>8. CASE UNCHANGED vars
  BY <1>8 DEF vars, IInv, TypeOK, TasksConsistent
<1>9. QED
  BY <1>1, <1>2, <1>3, <1>4, <1>5, <1>6, <1>7, <1>8 DEF Next

\* The worker's state keeps its type in every reachable state, however the
\* tasks of onmessage interleave at their awaits and whichever await fails.
THEOREM WorkerTypeCorrect == Spec => []TypeOK
<1>1. IInv => TypeOK
  BY DEF IInv
<1>2. QED
  BY InitIInv, NextIInv, <1>1, PTL DEF Spec

\* Every task of onmessage posts at most one response, for every number of
\* requests: the catch only runs for a task suspended at an await, which
\* has not posted yet.
THEOREM AtMostOneResponse == Spec => []AnsweredAtMostOnce
<1>1. IInv => AnsweredAtMostOnce
  BY DEF IInv, TasksConsistent, AnsweredAtMostOnce
<1>2. QED
  BY InitIInv, NextIInv, <1>1, PTL DEF Spec


-----------------------------------------------------------------------------
(* The refinement of the abstract codec service.                           *)

\* The caller's records: the version applied of a kind is at most the
\* latest posted of it, which is at most the number of requests; and the
\* request at position i carries version i.
CallerInv ==
    /\ \A k \in Kinds : applied[k] <= latest[k] /\ latest[k] <= Len(req)
    /\ \A i \in 1..Len(req) : req[i].version = i

\* A response other than an error answers a request of q with that
\* request's result, and such a result exists.
ResponseOK(m, q) ==
    m.response # "error" =>
        /\ m.version \in 1..Len(q)
        /\ Payload(m) = CodecAbs!Result(q[m.version])
        /\ CodecAbs!HasResult(q[m.version])

\* Every response in flight is right, and what the caller keeps for a kind
\* is the result of the request it applied.
ResultsInv ==
    /\ \A i \in 1..Len(outbox) : ResponseOK(outbox[i], req)
    /\ \A k \in Kinds : applied[k] > 0 => value[k] = CodecAbs!Result(req[applied[k]])

LEMMA InitCallerInv == Init => CallerInv /\ ResultsInv
BY EmptySeq DEF Init, CallerInv, ResultsInv

LEMMA NextCallerInv == IInv /\ CallerInv /\ [Next]_vars => CallerInv'
<1> SUFFICES ASSUME IInv, CallerInv, [Next]_vars PROVE CallerInv'
  OBVIOUS
<1> USE DEF IInv
<1>1. ASSUME NEW r \in Request, CallerPost(r) PROVE CallerInv'
  <2>1. /\ Len(req) \in Nat /\ r.request \in Kinds
        /\ req' \in Seq(Request) /\ Len(req') = Len(req) + 1
        /\ \A i \in 1..Len(req) : req'[i] = req[i]
        /\ req'[Len(req) + 1] = r
    BY <1>1, AppendProperties DEF CallerPost, TypeOK, Request, Kinds
  <2>2. \A k \in Kinds : applied'[k] <= latest'[k] /\ latest'[k] <= Len(req')
    BY <1>1, <2>1 DEF CallerPost, CallerInv, TypeOK
  <2>3. \A i \in 1..Len(req') : req'[i].version = i
    BY <1>1, <2>1 DEF CallerPost, CallerInv
  <2>4. QED
    BY <2>2, <2>3 DEF CallerInv
<1>2. CASE CallerReceive
  <2> DEFINE m == Head(outbox)
  <2>1. m \in Response
    BY <1>2, HeadTailProperties DEF CallerReceive, TypeOK
  <2>2. m.response # "error" => KindOf(m) \in Kinds
    BY <2>1 DEF Response, KindOf, Kinds
  <2>3. UNCHANGED <<req, latest>>
    BY <1>2 DEF CallerReceive
  <2>4. CASE m.response # "error" /\ m.version = latest[KindOf(m)]
    <3>1. applied' = [applied EXCEPT ![KindOf(m)] = m.version]
      BY <1>2, <2>4 DEF CallerReceive
    <3>2. \A k \in Kinds : applied'[k] <= latest[k]
      BY <2>2, <2>4, <3>1 DEF CallerInv, TypeOK
    <3>3. QED
      BY <2>3, <3>2 DEF CallerInv
  <2>5. CASE ~(m.response # "error" /\ m.version = latest[KindOf(m)])
    <3>1. applied' = applied
      BY <1>2, <2>5 DEF CallerReceive
    <3>2. QED
      BY <2>3, <3>1 DEF CallerInv
  <2>6. QED
    BY <2>4, <2>5
<1>3. CASE ~CallerReceive /\ ~\E r \in Request : CallerPost(r)
  BY <1>3 DEF Next, vars, Dispatch, Loaded, Encoded, Fetched, TaskFailed,
     Post, CallerInv
<1>4. QED
  BY <1>1, <1>2, <1>3


\* Posting a request keeps every response and the applied results right:
\* the requests they answer keep their positions.
LEMMA CallerPostResults ==
    ASSUME IInv, CallerInv, ResultsInv, NEW r \in Request, CallerPost(r)
    PROVE  ResultsInv'
<1>1. /\ Len(req) \in Nat
      /\ Len(req') = Len(req) + 1
      /\ \A i \in 1..Len(req) : req'[i] = req[i]
  BY AppendProperties DEF CallerPost, IInv, TypeOK
<1>2. \A i \in 1..Len(outbox') : ResponseOK(outbox'[i], req')
  <2> SUFFICES ASSUME NEW i \in 1..Len(outbox), outbox[i].response # "error"
               PROVE  ResponseOK(outbox[i], req')
    BY DEF CallerPost, ResponseOK
  <2>1. ResponseOK(outbox[i], req)
    BY DEF ResultsInv
  <2>2. outbox[i].version \in 1..Len(req)
    BY <2>1 DEF ResponseOK
  <2>3. req'[outbox[i].version] = req[outbox[i].version]
    BY <1>1, <2>2
  <2>4. QED
    BY <1>1, <2>1, <2>2, <2>3 DEF ResponseOK
<1>3. \A k \in Kinds :
        applied'[k] > 0 => value'[k] = CodecAbs!Result(req'[applied'[k]])
  <2> SUFFICES ASSUME NEW k \in Kinds, applied[k] > 0
               PROVE  value[k] = CodecAbs!Result(req'[applied[k]])
    BY DEF CallerPost
  <2>1. applied[k] \in 1..Len(req)
    BY DEF CallerInv, IInv, TypeOK
  <2>2. QED
    BY <1>1, <2>1 DEF ResultsInv
<1>4. QED
  BY <1>2, <1>3 DEF ResultsInv, CallerPost

\* Receiving a response drops it from the outbox; if the caller applies it,
\* what it keeps is the result of the request the response answers.
LEMMA CallerReceiveResults ==
    ASSUME IInv, CallerInv, ResultsInv, CallerReceive
    PROVE  ResultsInv'
<1> DEFINE m == Head(outbox)
           k == KindOf(m)
<1>1. /\ outbox # << >> /\ m \in Response /\ outbox' = Tail(outbox)
      /\ Len(outbox) \in Nat /\ Len(outbox') = Len(outbox) - 1
      /\ \A i \in 1..Len(outbox') : outbox'[i] = outbox[i + 1]
      /\ m = outbox[1]
  BY HeadTailProperties, LenProperties DEF CallerReceive, IInv, TypeOK
<1>2. \A i \in 1..Len(outbox') : ResponseOK(outbox'[i], req')
  <2>1. req' = req
    BY DEF CallerReceive
  <2>2. \A i \in 1..Len(outbox') : i + 1 \in 1..Len(outbox)
    BY <1>1
  <2>3. QED
    BY <1>1, <2>1, <2>2 DEF ResultsInv
<1>3. ResponseOK(m, req)
  BY <1>1 DEF ResultsInv
<1>4. CASE m.response # "error" /\ m.version = latest[k]
  <2>1. k \in Kinds /\ applied \in [Kinds -> 0..MaxVersion]
    BY <1>1 DEF Response, KindOf, Kinds, IInv, TypeOK
  <2>2. /\ applied' = [applied EXCEPT ![k] = m.version]
        /\ value' = [value EXCEPT ![k] = Payload(m)]
        /\ req' = req
    BY <1>4 DEF CallerReceive
  <2>3. Payload(m) = CodecAbs!Result(req[m.version])
    BY <1>3, <1>4 DEF ResponseOK
  <2>4. \A j \in Kinds :
          applied'[j] > 0 => value'[j] = CodecAbs!Result(req'[applied'[j]])
    BY <2>1, <2>2, <2>3 DEF ResultsInv, IInv, TypeOK
  <2>5. QED
    BY <1>2, <2>4 DEF ResultsInv
<1>5. CASE ~(m.response # "error" /\ m.version = latest[k])
  <2>1. UNCHANGED <<req, applied, value>>
    BY <1>5 DEF CallerReceive
  <2>2. QED
    BY <1>2, <2>1 DEF ResultsInv
<1>6. QED
  BY <1>4, <1>5

\* A task that posts a right response keeps the outbox right.
LEMMA PostResults ==
    ASSUME IInv, ResultsInv, NEW v \in Versions, NEW m \in Response,
           Post(v, m), UNCHANGED <<req, applied, value>>, ResponseOK(m, req)
    PROVE  ResultsInv'
<1>1. /\ Len(outbox) \in Nat /\ Len(outbox') = Len(outbox) + 1
      /\ \A i \in 1..Len(outbox) : outbox'[i] = outbox[i]
      /\ outbox'[Len(outbox) + 1] = m
  BY AppendProperties DEF Post, IInv, TypeOK
<1>2. \A i \in 1..Len(outbox') : ResponseOK(outbox'[i], req')
  BY <1>1 DEF ResultsInv
<1>3. QED
  BY <1>2 DEF ResultsInv


\* base64Encode resolves: the task posts the compression of its request's
\* text with its request's version.
LEMMA EncodedResults ==
    ASSUME IInv, CallerInv, ResultsInv, NEW v \in Versions, Encoded(v)
    PROVE  ResultsInv'
<1> DEFINE m == [response |-> "compressed",
                 compressedText |-> Compressed(req[v].text),
                 version |-> req[v].version]
<1>1. v \in 1..Len(req) /\ req[v] \in Request /\ req[v].request = "compress"
  BY StartedRequest DEF Encoded, IInv, TasksConsistent
<1>2. req[v].version = v
  BY <1>1 DEF CallerInv
<1>3. m \in Response
  BY <1>1 DEF Request, Response, CompressedTexts
<1>4. ResponseOK(m, req)
  BY <1>1, <1>2 DEF ResponseOK, Payload, CodecAbs!Result, CodecAbs!HasResult
<1>5. QED
  BY <1>3, <1>4, PostResults DEF Encoded

\* base64Decode resolves: the task posts the text its request's compressed
\* text decompresses to, or the error of the catch.
LEMMA FetchedResults ==
    ASSUME IInv, CallerInv, ResultsInv, NEW v \in Versions, Fetched(v)
    PROVE  ResultsInv'
<1>1. v \in 1..Len(req) /\ req[v] \in Request /\ req[v].request = "decompress"
  BY StartedRequest DEF Fetched, IInv, TasksConsistent
<1>2. req[v].version = v
  BY <1>1 DEF CallerInv
<1>3. CASE Decodes(req[v].compressedText)
  <2> DEFINE m == [response |-> "decompressed",
                   text |-> Decompressed(req[v].compressedText),
                   version |-> req[v].version]
  <2>1. m \in Response
    BY <1>1, <1>3, DecompressedType DEF Request, Response
  <2>2. ResponseOK(m, req)
    BY <1>1, <1>2, <1>3
       DEF ResponseOK, Payload, CodecAbs!Result, CodecAbs!HasResult
  <2>3. QED
    BY <1>3, <2>1, <2>2, PostResults DEF Fetched
<1>4. CASE ~Decodes(req[v].compressedText)
  <2>1. [response |-> "error"] \in Response /\ ResponseOK([response |-> "error"], req)
    BY DEF Response, ResponseOK
  <2>2. QED
    BY <1>4, <2>1, PostResults DEF Fetched
<1>5. QED
  BY <1>3, <1>4

\* Every step keeps the responses in flight and the applied results right.
LEMMA NextResults ==
    IInv /\ CallerInv /\ ResultsInv /\ [Next]_vars => ResultsInv'
<1> SUFFICES ASSUME IInv, CallerInv, ResultsInv, [Next]_vars
             PROVE  ResultsInv'
  OBVIOUS
<1>1. ASSUME NEW r \in Request, CallerPost(r) PROVE ResultsInv'
  BY <1>1, CallerPostResults
<1>2. CASE CallerReceive
  BY <1>2, CallerReceiveResults
<1>3. ASSUME NEW v \in Versions, Encoded(v) PROVE ResultsInv'
  BY <1>3, EncodedResults
<1>4. ASSUME NEW v \in Versions, Fetched(v) PROVE ResultsInv'
  BY <1>4, FetchedResults
<1>5. ASSUME NEW v \in Versions, TaskFailed(v) PROVE ResultsInv'
  <2>1. [response |-> "error"] \in Response /\ ResponseOK([response |-> "error"], req)
    BY DEF Response, ResponseOK
  <2>2. QED
    BY <1>5, <2>1, PostResults DEF TaskFailed
<1>6. CASE Dispatch \/ \E v \in Versions : Loaded(v)
  BY <1>6 DEF Dispatch, Loaded, ResultsInv, ResponseOK
<1>7. CASE UNCHANGED vars
  BY <1>7 DEF vars, ResultsInv, ResponseOK
<1>8. QED
  BY <1>1, <1>2, <1>3, <1>4, <1>5, <1>6, <1>7 DEF Next


LEMMA InitRefines == Init => CodecAbs!Init
BY DEF Init, CodecAbs!Init, Kinds, CodecAbs!Kinds, CodecAbs!NoValue

\* Applying a response is Answer of its kind when the kind's result was not
\* applied yet, and re-applies the result already kept otherwise.
LEMMA ReceiveRefines ==
    ASSUME IInv, CallerInv, ResultsInv, CallerReceive
    PROVE  [CodecAbs!Next]_CodecAbs!vars
<1> DEFINE m == Head(outbox)
           k == KindOf(m)
<1>1. UNCHANGED <<req, latest>>
  BY DEF CallerReceive
<1>2. CASE m.response # "error" /\ m.version = latest[k]
  <2>1. m \in Response /\ m = outbox[1] /\ k \in Kinds
    BY HeadTailProperties, EmptySeq DEF CallerReceive, IInv, TypeOK, KindOf, Kinds
  <2>2. /\ latest[k] \in 1..Len(req)
        /\ Payload(m) = CodecAbs!Result(req[latest[k]])
        /\ CodecAbs!HasResult(req[latest[k]])
    <3>1. 1 \in 1..Len(outbox)
      BY HeadTailProperties, EmptySeq DEF CallerReceive, IInv, TypeOK
    <3>2. QED
      BY <1>2, <2>1, <3>1 DEF ResultsInv, ResponseOK
  <2>3. /\ applied' = [applied EXCEPT ![k] = latest[k]]
        /\ value' = [value EXCEPT ![k] = CodecAbs!Result(req[latest[k]])]
    BY <1>2, <2>2 DEF CallerReceive
  <2>4. CASE applied[k] < latest[k]
    <3>1. CodecAbs!Answer(k)
      BY <1>1, <2>2, <2>3, <2>4 DEF CodecAbs!Answer
    <3>2. QED
      BY <2>1, <3>1 DEF CodecAbs!Next, CodecAbs!Kinds, Kinds
  <2>5. CASE ~(applied[k] < latest[k])
    <3>1. applied[k] = latest[k] /\ applied[k] > 0
      BY <2>1, <2>2, <2>5 DEF CallerInv, IInv, TypeOK
    <3>2. value[k] = CodecAbs!Result(req[latest[k]])
      BY <2>1, <3>1 DEF ResultsInv
    <3>3. applied' = applied /\ value' = value
      BY <2>1, <2>3, <3>1, <3>2 DEF IInv, TypeOK
    <3>4. QED
      BY <1>1, <3>3 DEF CodecAbs!vars
  <2>6. QED
    BY <2>4, <2>5
<1>3. CASE ~(m.response # "error" /\ m.version = latest[k])
  BY <1>1, <1>3 DEF CallerReceive, CodecAbs!vars
<1>4. QED
  BY <1>2, <1>3

\* Every step of the worker and its caller is a step of the codec service
\* or leaves the caller's view unchanged.
LEMMA NextRefines ==
    IInv /\ CallerInv /\ ResultsInv /\ [Next]_vars
      => [CodecAbs!Next]_CodecAbs!vars
<1> SUFFICES ASSUME IInv, CallerInv, ResultsInv, [Next]_vars
             PROVE  [CodecAbs!Next]_CodecAbs!vars
  OBVIOUS
<1>1. ASSUME NEW r \in Request, CallerPost(r)
      PROVE  CodecAbs!Next
  <2>1. CodecAbs!Request(r)
    BY <1>1 DEF CallerPost, CodecAbs!Request
  <2>2. QED
    BY <2>1 DEF CodecAbs!Next
<1>2. CASE CallerReceive
  BY <1>2, ReceiveRefines
<1>3. CASE ~CallerReceive /\ ~\E r \in Request : CallerPost(r)
  BY <1>3 DEF Next, vars, Dispatch, Loaded, Encoded, Fetched, TaskFailed,
     CodecAbs!vars
<1>4. QED
  BY <1>1, <1>2, <1>3

LEMMA CallerInvariant == Spec => [](IInv /\ CallerInv /\ ResultsInv)
<1>1. Init => IInv /\ CallerInv /\ ResultsInv
  BY InitIInv, InitCallerInv
<1>2. IInv /\ CallerInv /\ ResultsInv /\ [Next]_vars
        => IInv' /\ CallerInv' /\ ResultsInv'
  BY NextIInv, NextCallerInv, NextResults
<1>3. QED
  BY <1>1, <1>2, PTL DEF Spec

\* The worker with its concurrent onmessage tasks, and the caller's version
\* filter, implement the abstract codec service for every set of texts and
\* every number of requests: what the caller keeps for a kind is always the
\* compression, or the decompression, of its latest request of that kind,
\* applied once, whatever the order in which the tasks answer or fail.
THEOREM RefinesCodecService == Spec => ImplementsCodecService
BY CallerInvariant, InitRefines, NextRefines, PTL
   DEF Spec, ImplementsCodecService, CodecAbs!Spec

=============================================================================
