----------------------- MODULE GeneratedModels_proofs -----------------------
(***************************************************************************)
(* Proofs about the generation-session registry of EditorStore, for every  *)
(* finite set of uuids: the type invariant, that selectedGeneratedModel    *)
(* never dangles, that every model shown as running has something in      *)
(* flight that will end it, and that the registry implements the abstract *)
(* ModelRegistry.                                                          *)
(***************************************************************************)
EXTENDS GeneratedModels, SequenceTheorems, FiniteSetTheorems, TLAPS

-----------------------------------------------------------------------------
(* Lemmas about the helpers on the insertion order.                        *)

\* Removing one position of a non-empty sequence leaves a sequence over the
\* same set, one shorter, whose elements before i keep their position and
\* whose elements after i move one position down.
LEMMA RemoveIndexProperties ==
    ASSUME NEW S, NEW s \in Seq(S), NEW i \in 1..Len(s)
    PROVE  /\ RemoveIndex(s, i) \in Seq(S)
           /\ Len(RemoveIndex(s, i)) = Len(s) - 1
           /\ \A j \in 1..(i - 1) : RemoveIndex(s, i)[j] = s[j]
           /\ \A j \in (i + 1)..Len(s) : RemoveIndex(s, i)[j - 1] = s[j]
<1>1. Len(s) \in Nat /\ Len(s) - 1 \in Nat
  BY LenProperties
<1>2. RemoveIndex(s, i) \in [1..(Len(s) - 1) -> S]
  BY <1>1, ElementOfSeq DEF RemoveIndex
<1>3. RemoveIndex(s, i) \in Seq(S)
  BY <1>1, <1>2, SeqDef
<1>4. QED
  BY <1>1, <1>3 DEF RemoveIndex

\* The position of a key of the Map holds that key.
LEMMA IndexOfKey ==
    ASSUME TypeOK, NEW u \in Keys
    PROVE  /\ IndexOf(u) \in 1..Len(order)
           /\ order[IndexOf(u)] = u
BY DEF Keys, IndexOf

-----------------------------------------------------------------------------
(* Type correctness.                                                       *)

LEMMA MaxStartsType == MaxStarts \in Nat
BY UuidsAssumption, FS_CardinalityType DEF MaxStarts

LEMMA InitTypeOK == Init => TypeOK
BY MaxStartsType, EmptySeq DEF Init, TypeOK

LEMMA NextTypeOK == TypeOK /\ [Next]_vars => TypeOK'
<1> SUFFICES ASSUME TypeOK, [Next]_vars PROVE TypeOK'
  OBVIOUS
<1>1. CASE StartModelGeneration
  BY <1>1, MaxStartsType, AppendProperties DEF StartModelGeneration, TypeOK,
     Request
<1>2. ASSUME NEW u \in Uuids \cup {None}, SelectGeneratedModel(u)
      PROVE  TypeOK'
  BY <1>2 DEF SelectGeneratedModel, TypeOK, Keys
<1>3. ASSUME NEW u \in Uuids, DeleteGeneratedModel(u)
      PROVE  TypeOK'
  <2>1. IndexOf(u) \in 1..Len(order) /\ order[IndexOf(u)] = u
    BY <1>3, IndexOfKey DEF DeleteGeneratedModel
  <2>2. order' \in Seq(Uuids)
    BY <1>3, <2>1, RemoveIndexProperties DEF DeleteGeneratedModel, TypeOK
  <2>3. Predecessor(u) \in Uuids \cup {None}
    BY <2>1, ElementOfSeq DEF Predecessor, TypeOK
  <2>4. selected' \in Uuids \cup {None}
    BY <1>3, <2>3 DEF DeleteGeneratedModel, TypeOK
  <2>5. toBackend' \in Seq(Request)
    BY <1>3, AppendProperties DEF DeleteGeneratedModel, TypeOK, Request
  <2>6. QED
    BY <1>3, <2>2, <2>4, <2>5 DEF DeleteGeneratedModel, TypeOK
<1>4. CASE ClientReceive
  <2> DEFINE m == Head(toClient)
  <2>1. /\ m \in Push
        /\ toClient' \in Seq(Push)
        /\ UNCHANGED <<toBackend, active, issued, requested>>
        /\ HandlePush(m)
    BY <1>4, HeadTailProperties DEF ClientReceive, TypeOK
  <2>2. /\ order' \in Seq(Uuids)
        /\ status' \in [Uuids -> Status \cup {"absent"}]
        /\ selected' \in Uuids \cup {None}
    <3>1. CASE m.type = "added" /\ AddGeneratedModel(m.uuid)
      <4>1. m.uuid \in Uuids
        BY <2>1, <3>1 DEF Push
      <4>2. QED
        BY <3>1, <4>1, AppendProperties DEF AddGeneratedModel, TypeOK, Status
    <3>2. CASE m.type = "error" /\ SetGeneratedModelError(m.uuid)
      BY <3>2 DEF SetGeneratedModelError, SetError, TypeOK, Status
    <3>3. CASE m.type = "semantics" /\ SetGeneratedModelSemantics(m.uuid)
      BY <3>3 DEF SetGeneratedModelSemantics, SetSemantics, TypeOK, Status
    <3>4. CASE m.type = "cancelled" /\ ModelGenerationCancelled
      BY <3>4 DEF ModelGenerationCancelled, SetError, TypeOK, Status
    <3>5. QED
      BY <2>1, <3>1, <3>2, <3>3, <3>4 DEF HandlePush
  <2>3. QED
    BY <2>1, <2>2 DEF TypeOK
<1>5. CASE BackendStart
  <2>1. PICK u \in Uuids \ issued :
            /\ issued' = issued \cup {u}
            /\ active' = active \cup {u}
            /\ toClient' = Append(toClient, [type |-> "added", uuid |-> u])
    BY <1>5 DEF BackendStart
  <2>2. [type |-> "added", uuid |-> u] \in Push
    BY DEF Push
  <2>3. toClient' \in Seq(Push) /\ toBackend' \in Seq(Request)
    BY <1>5, <2>1, <2>2, AppendProperties, HeadTailProperties
       DEF BackendStart, TypeOK
  <2>4. QED
    BY <1>5, <2>1, <2>3 DEF BackendStart, TypeOK
<1>9. CASE BackendCancel
  <2>1. [type |-> "cancelled"] \in Push
    BY DEF Push
  <2>2. toClient' \in Seq(Push) /\ toBackend' \in Seq(Request)
    BY <1>9, <2>1, AppendProperties, HeadTailProperties
       DEF BackendCancel, TypeOK
  <2>3. QED
    BY <1>9, <2>2 DEF BackendCancel, TypeOK
<1>6. ASSUME NEW u \in Uuids, BackendFinish(u)
      PROVE  TypeOK'
  <2>1. PICK t \in {"semantics", "error"} :
            toClient' = Append(toClient, [type |-> t, uuid |-> u])
    BY <1>6 DEF BackendFinish
  <2>2. [type |-> t, uuid |-> u] \in Push
    BY DEF Push
  <2>3. toClient' \in Seq(Push)
    BY <2>1, <2>2, AppendProperties DEF TypeOK
  <2>4. QED
    BY <1>6, <2>3 DEF BackendFinish, TypeOK
<1>7. CASE UNCHANGED vars
  BY <1>7 DEF vars, TypeOK
<1>8. QED
  BY <1>1, <1>2, <1>3, <1>4, <1>5, <1>6, <1>7, <1>9 DEF Next

\* The registry and the websocket queues always have their types.
THEOREM TypeCorrect == Spec => []TypeOK
BY InitTypeOK, NextTypeOK, PTL DEF Spec

-----------------------------------------------------------------------------
(* selectedGeneratedModel never dangles.                                   *)

LEMMA InitSelectionValid == Init => SelectionValid
BY DEF Init, SelectionValid

\* Deleting a key keeps every other key, and the key before it, in the Map.
LEMMA DeleteKeepsOthers ==
    ASSUME TypeOK, NEW u \in Uuids, DeleteGeneratedModel(u)
    PROVE  /\ \A v \in Keys \ {u} : v \in Keys'
           /\ Predecessor(u) \in Keys' \cup {None}
<1> DEFINE k == IndexOf(u)
<1>1. k \in 1..Len(order) /\ order[k] = u
  BY IndexOfKey DEF DeleteGeneratedModel
<1>2. /\ order' = RemoveIndex(order, k)
      /\ Len(order') = Len(order) - 1
      /\ \A j \in 1..(k - 1) : order'[j] = order[j]
      /\ \A j \in (k + 1)..Len(order) : order'[j - 1] = order[j]
  BY <1>1, RemoveIndexProperties DEF DeleteGeneratedModel, TypeOK
<1>3. ASSUME NEW v \in Keys \ {u} PROVE v \in Keys'
  <2>1. PICK j \in 1..Len(order) : order[j] = v
    BY DEF Keys
  <2>2. j # k
    BY <1>1, <2>1
  <2>3. CASE j < k
    <3>1. j \in 1..(k - 1) /\ j \in 1..Len(order')
      BY <1>1, <1>2, <2>3
    <3>2. order'[j] = v
      BY <1>2, <2>1, <3>1
    <3>3. QED
      BY <3>1, <3>2 DEF Keys
  <2>4. CASE j > k
    <3>1. j \in (k + 1)..Len(order) /\ j - 1 \in 1..Len(order')
      BY <1>1, <1>2, <2>4
    <3>2. order'[j - 1] = v
      BY <1>2, <2>1, <3>1
    <3>3. QED
      BY <3>1, <3>2 DEF Keys
  <2>5. QED
    BY <1>1, <2>2, <2>3, <2>4
<1>4. Predecessor(u) \in Keys' \cup {None}
  <2>1. CASE k = 1
    BY <2>1 DEF Predecessor
  <2>2. CASE k # 1
    <3>1. k - 1 \in 1..(k - 1) /\ k - 1 \in 1..Len(order')
      BY <1>1, <1>2, <2>2
    <3>2. QED
      BY <1>2, <2>2, <3>1 DEF Predecessor, Keys
  <2>3. QED
    BY <2>1, <2>2
<1>5. QED
  BY <1>3, <1>4

LEMMA NextSelectionValid ==
    TypeOK /\ SelectionValid /\ [Next]_vars => SelectionValid'
<1> SUFFICES ASSUME TypeOK, SelectionValid, [Next]_vars
             PROVE  SelectionValid'
  OBVIOUS
<1> USE DEF SelectionValid
<1>1. CASE StartModelGeneration
  BY <1>1 DEF StartModelGeneration, Keys
<1>2. ASSUME NEW u \in Uuids \cup {None}, SelectGeneratedModel(u)
      PROVE  SelectionValid'
  BY <1>2 DEF SelectGeneratedModel, Keys
<1>3. ASSUME NEW u \in Uuids, DeleteGeneratedModel(u)
      PROVE  SelectionValid'
  <2>1. CASE selected = u
    BY <1>3, <2>1, DeleteKeepsOthers DEF DeleteGeneratedModel
  <2>2. CASE selected # u
    BY <1>3, <2>2, DeleteKeepsOthers DEF DeleteGeneratedModel
  <2>3. QED
    BY <2>1, <2>2
<1>4. CASE ClientReceive
  <2> DEFINE m == Head(toClient)
  <2>1. HandlePush(m)
    BY <1>4 DEF ClientReceive
  <2>2. CASE m.type = "added" /\ AddGeneratedModel(m.uuid)
    <3>1. CASE m.uuid \in Keys
      BY <2>2, <3>1 DEF AddGeneratedModel, Keys
    <3>2. CASE m.uuid \notin Keys
      <4>1. order' = Append(order, m.uuid) /\ selected' = m.uuid
        BY <2>2, <3>2 DEF AddGeneratedModel
      <4>2. order'[Len(order) + 1] = m.uuid /\ Len(order') = Len(order) + 1
        BY <4>1 DEF TypeOK
      <4>3. Len(order) + 1 \in 1..Len(order')
        BY <4>2, LenProperties DEF TypeOK
      <4>4. m.uuid \in Keys'
        BY <4>2, <4>3 DEF Keys
      <4>5. QED
        BY <4>1, <4>4
    <3>3. QED
      BY <3>1, <3>2
  <2>3. CASE m.type = "error" /\ SetGeneratedModelError(m.uuid)
    BY <2>3 DEF SetGeneratedModelError, Keys
  <2>4. CASE m.type = "semantics" /\ SetGeneratedModelSemantics(m.uuid)
    BY <2>4 DEF SetGeneratedModelSemantics, Keys
  <2>5. CASE m.type = "cancelled" /\ ModelGenerationCancelled
    BY <2>5 DEF ModelGenerationCancelled, Keys
  <2>6. QED
    BY <2>1, <2>2, <2>3, <2>4, <2>5 DEF HandlePush
<1>5. CASE BackendStart
  BY <1>5 DEF BackendStart, Keys
<1>6. CASE BackendCancel
  BY <1>6 DEF BackendCancel, Keys
<1>7. ASSUME NEW u \in Uuids, BackendFinish(u)
      PROVE  SelectionValid'
  BY <1>7 DEF BackendFinish, Keys
<1>8. CASE UNCHANGED vars
  BY <1>8 DEF vars, Keys
<1>9. QED
  BY <1>1, <1>2, <1>3, <1>4, <1>5, <1>6, <1>7, <1>8 DEF Next

\* selectedGeneratedModel is always undefined or a key of generatedModels
\* (the invariant SelectionValid that MC_GeneratedModels checks).
THEOREM SelectionNeverDangles == Spec => []SelectionValid
<1>1. Init => TypeOK /\ SelectionValid
  BY InitTypeOK, InitSelectionValid
<1>2. TypeOK /\ SelectionValid /\ [Next]_vars => (TypeOK /\ SelectionValid)'
  BY NextTypeOK, NextSelectionValid
<1>3. QED
  BY <1>1, <1>2, PTL DEF Spec

-----------------------------------------------------------------------------
(* Running models are tracked.                                             *)

\* The keys of the Map are exactly the uuids with a store, each once.
KeysAreStored == \A u \in Uuids : u \in Keys <=> status[u] # "absent"

OrderInjective ==
    \A i, j \in 1..Len(order) : order[i] = order[j] => i = j

\* Only a uuid the backend handed out ever gets a store.
StoredIssued == \A u \in Uuids : status[u] # "absent" => u \in issued

IsAdded(i) == toClient[i].type = "added"

\* The push at position i ends the generation of u.
Ends(i, u) ==
    \/ toClient[i].type = "cancelled"
    \/ toClient[i].type \in {"semantics", "error"} /\ toClient[i].uuid = u

\* An `added` push in flight names an issued uuid without a store, and is
\* the only `added` push for it.
AddedFresh ==
    \A i \in 1..Len(toClient) : IsAdded(i) =>
        /\ toClient[i].uuid \in issued
        /\ status[toClient[i].uuid] = "absent"
        /\ \A j \in 1..Len(toClient) :
              IsAdded(j) /\ toClient[j].uuid = toClient[i].uuid => j = i

\* The job of an `added` push in flight is still active, or a push behind
\* it will end it.
AddedTracked ==
    \A i \in 1..Len(toClient) : IsAdded(i) =>
        \/ toClient[i].uuid \in active
        \/ \E j \in (i + 1)..Len(toClient) : Ends(j, toClient[i].uuid)

TrackedInv ==
    /\ TypeOK
    /\ KeysAreStored
    /\ OrderInjective
    /\ StoredIssued
    /\ AddedFresh
    /\ AddedTracked
    /\ RunningTracked

LEMMA InitTracked == Init => TrackedInv
BY InitTypeOK DEF Init, TrackedInv, KeysAreStored, OrderInjective,
   StoredIssued, AddedFresh, AddedTracked, RunningTracked, Keys

\* A step that leaves the Map, the pushes in flight and the backend's sets
\* alone keeps the invariant.
LEMMA TrackedFrame ==
    ASSUME TrackedInv, TypeOK',
           UNCHANGED <<order, status, toClient, active, issued>>
    PROVE  TrackedInv'
BY DEF TrackedInv, KeysAreStored, OrderInjective, StoredIssued, AddedFresh,
   AddedTracked, RunningTracked, IsAdded, Ends, Keys, Running, EndPending

\* The backend hands out a fresh uuid: its `added` push is the only one for
\* it, and its job is active.
LEMMA StartTracked ==
    ASSUME TrackedInv, TypeOK', BackendStart
    PROVE  TrackedInv'
<1> USE DEF TrackedInv
<1>1. PICK u \in Uuids \ issued :
          /\ issued' = issued \cup {u}
          /\ active' = active \cup {u}
          /\ toClient' = Append(toClient, [type |-> "added", uuid |-> u])
  BY DEF BackendStart
<1>2. UNCHANGED <<order, status>>
  BY DEF BackendStart
<1> DEFINE n == Len(toClient)
<1>3. /\ n \in Nat
      /\ Len(toClient') = n + 1
      /\ \A i \in 1..n : toClient'[i] = toClient[i]
      /\ toClient'[n + 1] = [type |-> "added", uuid |-> u]
  BY <1>1, AppendProperties DEF TypeOK
<1>4. status[u] = "absent"
  BY <1>1 DEF StoredIssued
<1>5. \A i \in 1..n : IsAdded(i) => toClient[i].uuid # u
  BY <1>1 DEF AddedFresh
<1>6. KeysAreStored' /\ OrderInjective' /\ StoredIssued'
  BY <1>1, <1>2 DEF KeysAreStored, OrderInjective, StoredIssued, Keys
<1>7. AddedFresh'
  <2> SUFFICES ASSUME NEW i \in 1..(n + 1), IsAdded(i)'
               PROVE  /\ toClient'[i].uuid \in issued'
                      /\ status'[toClient'[i].uuid] = "absent"
                      /\ \A j \in 1..Len(toClient') :
                            IsAdded(j)' /\ toClient'[j].uuid = toClient'[i].uuid
                              => j = i
    BY <1>3 DEF AddedFresh
  <2>1. CASE i = n + 1
    BY <1>1, <1>2, <1>3, <1>4, <1>5, <2>1 DEF IsAdded
  <2>2. CASE i \in 1..n
    <3>1. toClient'[i] = toClient[i] /\ IsAdded(i)
      BY <1>3, <2>2 DEF IsAdded
    <3>2. /\ toClient[i].uuid \in issued
          /\ status[toClient[i].uuid] = "absent"
          /\ toClient[i].uuid # u
      BY <1>5, <2>2, <3>1 DEF AddedFresh
    <3>3. ASSUME NEW j \in 1..Len(toClient'), IsAdded(j)',
                 toClient'[j].uuid = toClient'[i].uuid
          PROVE  j = i
      <4>1. j # n + 1
        BY <1>3, <3>1, <3>2, <3>3
      <4>2. j \in 1..n /\ toClient'[j] = toClient[j] /\ IsAdded(j)
        BY <1>3, <3>3, <4>1 DEF IsAdded
      <4>3. QED
        BY <2>2, <3>1, <3>3, <4>2 DEF AddedFresh
    <3>4. QED
      BY <1>1, <1>2, <3>1, <3>2, <3>3
  <2>3. QED
    BY <1>3, <2>1, <2>2
<1>8. AddedTracked'
  <2> SUFFICES ASSUME NEW i \in 1..(n + 1), IsAdded(i)'
               PROVE  \/ toClient'[i].uuid \in active'
                      \/ \E j \in (i + 1)..Len(toClient') :
                            Ends(j, toClient[i].uuid)'
    BY <1>3 DEF AddedTracked, IsAdded, Ends
  <2>1. CASE i = n + 1
    BY <1>1, <1>3, <2>1
  <2>2. CASE i \in 1..n
    <3>1. toClient'[i] = toClient[i] /\ IsAdded(i)
      BY <1>3, <2>2 DEF IsAdded
    <3>2. CASE toClient[i].uuid \in active
      BY <1>1, <3>1, <3>2
    <3>3. CASE \E j \in (i + 1)..n : Ends(j, toClient[i].uuid)
      <4>1. PICK j \in (i + 1)..n : Ends(j, toClient[i].uuid)
        BY <3>3
      <4>2. toClient'[j] = toClient[j] /\ j \in (i + 1)..Len(toClient')
        BY <1>3, <2>2
      <4>3. QED
        BY <3>1, <4>1, <4>2 DEF Ends
    <3>4. QED
      BY <2>2, <3>1, <3>2, <3>3 DEF AddedTracked
  <2>3. QED
    BY <1>3, <2>1, <2>2
<1>9. RunningTracked'
  BY <1>1, <1>2, <1>3 DEF RunningTracked, EndPending, Running, Keys
<1>10. QED
  BY <1>6, <1>7, <1>8, <1>9

\* The backend stops the document's jobs and queues `cancelled`, which
\* ends every generation it stopped.
LEMMA CancelTracked ==
    ASSUME TrackedInv, TypeOK', BackendCancel
    PROVE  TrackedInv'
<1> USE DEF TrackedInv
<1>1. /\ active' \subseteq active
      /\ toClient' = Append(toClient, [type |-> "cancelled"])
      /\ UNCHANGED <<order, status, issued>>
  BY DEF BackendCancel
<1> DEFINE n == Len(toClient)
<1>2. /\ n \in Nat
      /\ Len(toClient') = n + 1
      /\ \A i \in 1..n : toClient'[i] = toClient[i]
      /\ toClient'[n + 1] = [type |-> "cancelled"]
  BY <1>1, AppendProperties DEF TypeOK
<1>3. toClient'[n + 1].type = "cancelled" /\ n + 1 \in 1..Len(toClient')
  BY <1>2
<1>4. KeysAreStored' /\ OrderInjective' /\ StoredIssued'
  BY <1>1 DEF KeysAreStored, OrderInjective, StoredIssued, Keys
<1>5. AddedFresh'
  <2> SUFFICES ASSUME NEW i \in 1..(n + 1), toClient'[i].type = "added"
               PROVE  /\ toClient'[i].uuid \in issued'
                      /\ status'[toClient'[i].uuid] = "absent"
                      /\ \A j \in 1..Len(toClient') :
                            toClient'[j].type = "added"
                            /\ toClient'[j].uuid = toClient'[i].uuid
                              => j = i
    BY <1>2 DEF AddedFresh, IsAdded
  <2>1. i \in 1..n /\ toClient'[i] = toClient[i] /\ IsAdded(i)
    BY <1>2, <1>3 DEF IsAdded
  <2>2. \A j \in 1..Len(toClient') :
           toClient'[j].type = "added" => j \in 1..n /\ toClient'[j] = toClient[j]
    BY <1>2, <1>3
  <2>3. QED
    BY <1>1, <2>1, <2>2 DEF AddedFresh, IsAdded
<1>6. AddedTracked'
  <2> SUFFICES ASSUME NEW i \in 1..(n + 1), IsAdded(i)'
               PROVE  \E j \in (i + 1)..Len(toClient') :
                         Ends(j, toClient[i].uuid)'
    BY <1>2 DEF AddedTracked, IsAdded, Ends
  <2>1. i # n + 1
    BY <1>2, <1>3 DEF IsAdded
  <2>2. n + 1 \in (i + 1)..Len(toClient')
    BY <1>2, <2>1
  <2>3. QED
    BY <1>3, <2>2 DEF Ends
<1>7. RunningTracked'
  BY <1>1, <1>2, <1>3 DEF RunningTracked, EndPending, Running, Keys
<1>8. QED
  BY <1>4, <1>5, <1>6, <1>7

\* A job ends on the backend: its result or error is queued behind every
\* push in flight.
LEMMA FinishTracked ==
    ASSUME TrackedInv, TypeOK', NEW w \in Uuids, BackendFinish(w)
    PROVE  TrackedInv'
<1> USE DEF TrackedInv
<1>1. PICK t \in {"semantics", "error"} :
          toClient' = Append(toClient, [type |-> t, uuid |-> w])
  BY DEF BackendFinish
<1>2. /\ active' = active \ {w}
      /\ UNCHANGED <<order, status, issued>>
  BY DEF BackendFinish
<1> DEFINE n == Len(toClient)
<1>3. /\ n \in Nat
      /\ Len(toClient') = n + 1
      /\ \A i \in 1..n : toClient'[i] = toClient[i]
      /\ toClient'[n + 1] = [type |-> t, uuid |-> w]
      /\ n + 1 \in 1..Len(toClient')
  BY <1>1, AppendProperties DEF TypeOK
<1>4. KeysAreStored' /\ OrderInjective' /\ StoredIssued'
  BY <1>2 DEF KeysAreStored, OrderInjective, StoredIssued, Keys
<1>5. AddedFresh'
  <2> SUFFICES ASSUME NEW i \in 1..(n + 1), toClient'[i].type = "added"
               PROVE  /\ toClient'[i].uuid \in issued'
                      /\ status'[toClient'[i].uuid] = "absent"
                      /\ \A j \in 1..Len(toClient') :
                            toClient'[j].type = "added"
                            /\ toClient'[j].uuid = toClient'[i].uuid
                              => j = i
    BY <1>3 DEF AddedFresh, IsAdded
  <2>1. i \in 1..n /\ toClient'[i] = toClient[i] /\ IsAdded(i)
    BY <1>3 DEF IsAdded
  <2>2. \A j \in 1..Len(toClient') :
           toClient'[j].type = "added" => j \in 1..n /\ toClient'[j] = toClient[j]
    BY <1>3
  <2>3. QED
    BY <1>2, <2>1, <2>2 DEF AddedFresh, IsAdded
<1>6. /\ \A x \in Uuids : x \in active => x \in active' \/ x = w
      /\ toClient'[n + 1].type \in {"semantics", "error"}
      /\ toClient'[n + 1].uuid = w
  BY <1>2, <1>3
<1>7. AddedTracked'
  <2> SUFFICES ASSUME NEW i \in 1..(n + 1), IsAdded(i)'
               PROVE  \/ toClient'[i].uuid \in active'
                      \/ \E j \in (i + 1)..Len(toClient') :
                            Ends(j, toClient[i].uuid)'
    BY <1>3 DEF AddedTracked, IsAdded, Ends
  <2>1. i \in 1..n /\ toClient'[i] = toClient[i] /\ IsAdded(i)
    BY <1>3 DEF IsAdded
  <2>2. toClient[i].uuid \in Uuids
    BY <2>1 DEF TypeOK, Push, IsAdded
  <2>3. CASE toClient[i].uuid \in active
    <3>1. n + 1 \in (i + 1)..Len(toClient')
      BY <1>3, <2>1
    <3>2. QED
      BY <1>6, <2>1, <2>2, <2>3, <3>1 DEF Ends
  <2>4. CASE \E j \in (i + 1)..n : Ends(j, toClient[i].uuid)
    <3>1. PICK j \in (i + 1)..n : Ends(j, toClient[i].uuid)
      BY <2>4
    <3>2. toClient'[j] = toClient[j] /\ j \in (i + 1)..Len(toClient')
      BY <1>3, <2>1
    <3>3. QED
      BY <2>1, <3>1, <3>2 DEF Ends
  <2>5. QED
    BY <2>1, <2>3, <2>4 DEF AddedTracked
<1>8. RunningTracked'
  <2> SUFFICES ASSUME NEW x \in Keys', Running(x)'
               PROVE  x \in active' \/ EndPending(x)'
    BY DEF RunningTracked
  <2>1. x \in Keys /\ Running(x) /\ x \in Uuids
    BY <1>2 DEF Keys, Running, TypeOK
  <2>2. CASE x \in active
    BY <1>3, <1>6, <2>1, <2>2 DEF EndPending, Ends
  <2>3. CASE EndPending(x)
    <3>1. PICK j \in 1..n : Ends(j, x)
      BY <2>3 DEF EndPending, Ends
    <3>2. QED
      BY <1>3, <3>1 DEF EndPending, Ends
  <2>4. QED
    BY <2>1, <2>2, <2>3 DEF RunningTracked
<1>9. QED
  BY <1>4, <1>5, <1>7, <1>8

\* Deleting a key of an insertion order without repetitions removes that
\* key and no other, and leaves no repetition.
LEMMA DeleteKeys ==
    ASSUME TypeOK, OrderInjective, NEW u \in Uuids, DeleteGeneratedModel(u)
    PROVE  Keys' = Keys \ {u} /\ OrderInjective'
<1> DEFINE k == IndexOf(u)
           src(j) == IF j < k THEN j ELSE j + 1
<1>1. k \in 1..Len(order) /\ order[k] = u
  BY IndexOfKey DEF DeleteGeneratedModel
<1>2. /\ order' = RemoveIndex(order, k)
      /\ Len(order') = Len(order) - 1
      /\ Len(order) \in Nat
  <2>1. Len(order) \in Nat
    BY LenProperties DEF TypeOK
  <2>2. QED
    BY <1>1, <2>1, RemoveIndexProperties DEF DeleteGeneratedModel, TypeOK
<1>3. \A j \in 1..Len(order') :
         /\ src(j) \in 1..Len(order)
         /\ src(j) # k
         /\ order'[j] = order[src(j)]
  BY <1>1, <1>2 DEF RemoveIndex
<1>4. \A a, b \in 1..Len(order') : src(a) = src(b) => a = b
  BY <1>1, <1>2
<1>5. Keys' \subseteq Keys \ {u}
  <2> SUFFICES ASSUME NEW j \in 1..Len(order') PROVE order'[j] \in Keys \ {u}
    BY DEF Keys
  <2>1. order'[j] = order[src(j)] /\ src(j) \in 1..Len(order) /\ src(j) # k
    BY <1>3
  <2>2. order[src(j)] # u
    BY <1>1, <2>1 DEF OrderInjective
  <2>3. QED
    BY <2>1, <2>2 DEF Keys
<1>6. Keys \ {u} \subseteq Keys'
  BY DeleteKeepsOthers
<1>7. OrderInjective'
  <2> SUFFICES ASSUME NEW a \in 1..Len(order'), NEW b \in 1..Len(order'),
                      order'[a] = order'[b]
               PROVE  a = b
    BY DEF OrderInjective
  <2>1. order[src(a)] = order[src(b)]
    BY <1>3
  <2>2. src(a) = src(b)
    BY <1>3, <2>1 DEF OrderInjective
  <2>3. QED
    BY <1>4, <2>2
<1>8. QED
  BY <1>5, <1>6, <1>7

\* deleteGeneratedModel drops the store of u from the Map.
LEMMA DeleteTracked ==
    ASSUME TrackedInv, TypeOK', NEW u \in Uuids, DeleteGeneratedModel(u)
    PROVE  TrackedInv'
<1> USE DEF TrackedInv
<1>1. Keys' = Keys \ {u} /\ OrderInjective'
  BY DeleteKeys
<1>2. /\ status' = [status EXCEPT ![u] = "absent"]
      /\ UNCHANGED <<toClient, active, issued>>
  BY DEF DeleteGeneratedModel
<1>3. KeysAreStored'
  BY <1>1, <1>2 DEF KeysAreStored, TypeOK
<1>4. StoredIssued'
  BY <1>2 DEF StoredIssued, TypeOK
<1>5. AddedFresh'
  BY <1>2 DEF AddedFresh, IsAdded, TypeOK
<1>6. AddedTracked'
  BY <1>2 DEF AddedTracked, IsAdded, Ends
<1>7. RunningTracked'
  BY <1>1, <1>2 DEF RunningTracked, Running, EndPending, Ends, TypeOK
<1>8. QED
  BY <1>1, <1>3, <1>4, <1>5, <1>6, <1>7

\* The client takes the push at the head of the websocket queue.
LEMMA ReceiveQueue ==
    ASSUME TypeOK, ClientReceive
    PROVE  /\ Len(toClient) \in Nat \ {0}
           /\ Len(toClient') = Len(toClient) - 1
           /\ \A i \in 1..Len(toClient') : toClient'[i] = toClient[i + 1]
           /\ UNCHANGED <<active, issued>>
           /\ HandlePush(toClient[1])
<1>1. toClient \in Seq(Push) /\ toClient # << >>
  BY DEF ClientReceive, TypeOK
<1>2. QED
  BY <1>1, HeadTailProperties, LenProperties DEF ClientReceive

\* Taking the head push keeps the `added` pushes behind it fresh and
\* tracked, as long as the step gives none of their uuids a store.
LEMMA ReceiveAdded ==
    ASSUME TrackedInv, ClientReceive,
           \A i \in 2..Len(toClient) :
              IsAdded(i) => status'[toClient[i].uuid] = "absent"
    PROVE  AddedFresh' /\ AddedTracked'
<1> USE DEF TrackedInv
<1> DEFINE n == Len(toClient)
<1>1. /\ n \in Nat \ {0}
      /\ Len(toClient') = n - 1
      /\ \A i \in 1..Len(toClient') : toClient'[i] = toClient[i + 1]
      /\ UNCHANGED <<active, issued>>
  BY ReceiveQueue
<1>2. AddedFresh'
  <2> SUFFICES ASSUME NEW i \in 1..(n - 1), toClient'[i].type = "added"
               PROVE  /\ toClient'[i].uuid \in issued'
                      /\ status'[toClient'[i].uuid] = "absent"
                      /\ \A j \in 1..Len(toClient') :
                            toClient'[j].type = "added"
                            /\ toClient'[j].uuid = toClient'[i].uuid
                              => j = i
    BY <1>1 DEF AddedFresh, IsAdded
  <2>1. i + 1 \in 2..n /\ toClient'[i] = toClient[i + 1] /\ IsAdded(i + 1)
    BY <1>1 DEF IsAdded
  <2>2. \A j \in 1..Len(toClient') :
           j + 1 \in 1..n /\ toClient'[j] = toClient[j + 1]
    BY <1>1
  <2>3. QED
    BY <1>1, <2>1, <2>2 DEF AddedFresh, IsAdded
<1>3. AddedTracked'
  <2> SUFFICES ASSUME NEW i \in 1..(n - 1), IsAdded(i)'
               PROVE  \/ toClient'[i].uuid \in active'
                      \/ \E j \in (i + 1)..Len(toClient') :
                            Ends(j, toClient[i].uuid)'
    BY <1>1 DEF AddedTracked, IsAdded, Ends
  <2>1. i + 1 \in 1..n /\ toClient'[i] = toClient[i + 1] /\ IsAdded(i + 1)
    BY <1>1 DEF IsAdded
  <2>2. CASE toClient[i + 1].uuid \in active
    BY <1>1, <2>1, <2>2
  <2>3. CASE \E j \in (i + 2)..n : Ends(j, toClient[i + 1].uuid)
    <3>1. PICK j \in (i + 2)..n : Ends(j, toClient[i + 1].uuid)
      BY <2>3
    <3>2. j - 1 \in (i + 1)..Len(toClient') /\ toClient'[j - 1] = toClient[j]
      BY <1>1
    <3>3. QED
      BY <2>1, <3>1, <3>2 DEF Ends
  <2>4. QED
    BY <2>1, <2>2, <2>3 DEF AddedTracked
<1>4. QED
  BY <1>2, <1>3

\* A push that can only end generations: no store appears or disappears,
\* and a store still running afterwards was running and is not the one the
\* push ends.
LEMMA ReceiveEnds ==
    ASSUME TrackedInv, TypeOK', ClientReceive, UNCHANGED order,
           \A v \in Uuids : status'[v] = "absent" <=> status[v] = "absent",
           \A v \in Uuids : status'[v] = "running" =>
                               status[v] = "running" /\ ~Ends(1, v)
    PROVE  TrackedInv'
<1> USE DEF TrackedInv
<1> DEFINE n == Len(toClient)
<1>1. /\ n \in Nat \ {0}
      /\ Len(toClient') = n - 1
      /\ \A i \in 1..Len(toClient') : toClient'[i] = toClient[i + 1]
      /\ UNCHANGED <<active, issued>>
  BY ReceiveQueue
<1>2. Keys' = Keys
  BY DEF Keys
<1>3. KeysAreStored' /\ OrderInjective' /\ StoredIssued'
  BY <1>1, <1>2 DEF KeysAreStored, OrderInjective, StoredIssued
<1>4. AddedFresh' /\ AddedTracked'
  <2>1. \A i \in 2..n : IsAdded(i) => status'[toClient[i].uuid] = "absent"
    <3> SUFFICES ASSUME NEW i \in 2..n, IsAdded(i)
                 PROVE  status'[toClient[i].uuid] = "absent"
      OBVIOUS
    <3>1. toClient[i].uuid \in Uuids /\ status[toClient[i].uuid] = "absent"
      BY <1>1 DEF AddedFresh, IsAdded, TypeOK, Push
    <3>2. QED
      BY <3>1
  <2>2. QED
    BY <2>1, ReceiveAdded
<1>5. RunningTracked'
  <2> SUFFICES ASSUME NEW x \in Keys', Running(x)'
               PROVE  x \in active' \/ EndPending(x)'
    BY DEF RunningTracked
  <2>1. x \in Keys /\ x \in Uuids
    BY <1>2 DEF Keys, TypeOK
  <2>2. Running(x) /\ ~Ends(1, x)
    BY <2>1 DEF Running
  <2>3. CASE x \in active
    BY <1>1, <2>3
  <2>4. CASE EndPending(x)
    <3>1. PICK j \in 1..n : Ends(j, x)
      BY <2>4 DEF EndPending, Ends
    <3>2. j # 1
      BY <2>2, <3>1
    <3>3. j - 1 \in 1..Len(toClient') /\ toClient'[j - 1] = toClient[j]
      BY <1>1, <3>2
    <3>4. QED
      BY <3>1, <3>3 DEF EndPending, Ends
  <2>5. QED
    BY <2>1, <2>2, <2>3, <2>4 DEF RunningTracked
<1>6. QED
  BY <1>3, <1>4, <1>5

\* setGeneratedModelError and setGeneratedModelSemantics on the uuid of the
\* head push end its store at most.
LEMMA ReceiveResultTracked ==
    ASSUME TrackedInv, TypeOK', ClientReceive,
           toClient[1].type \in {"error", "semantics"},
           \/ SetGeneratedModelError(toClient[1].uuid)
           \/ SetGeneratedModelSemantics(toClient[1].uuid)
    PROVE  TrackedInv'
<1> USE DEF TrackedInv
<1> DEFINE w == toClient[1].uuid
<1>1. Len(toClient) \in Nat \ {0}
  BY ReceiveQueue
<1>2. w \in Uuids
  BY <1>1 DEF TypeOK, Push
<1>3. /\ UNCHANGED order
      /\ \E r \in {"errored", "completed"} :
            status' = IF w \in Keys /\ status[w] = "running"
                        THEN [status EXCEPT ![w] = r] ELSE status
  BY DEF SetGeneratedModelError, SetGeneratedModelSemantics, SetError,
     SetSemantics
<1>4. \A v \in Uuids : v # w => ~Ends(1, v)
  BY DEF Ends
<1>5. \A v \in Uuids : status'[v] = "absent" <=> status[v] = "absent"
  BY <1>2, <1>3 DEF TypeOK
<1>6. \A v \in Uuids : status'[v] = "running" =>
                          status[v] = "running" /\ ~Ends(1, v)
  <2> SUFFICES ASSUME NEW v \in Uuids, status'[v] = "running"
               PROVE  status[v] = "running" /\ ~Ends(1, v)
    OBVIOUS
  <2>1. status[v] = "running"
    BY <1>2, <1>3 DEF TypeOK
  <2>2. v # w
    <3>1. CASE w \in Keys
      BY <1>2, <1>3, <3>1 DEF TypeOK
    <3>2. CASE w \notin Keys
      BY <1>2, <2>1, <3>2 DEF KeysAreStored
    <3>3. QED
      BY <3>1, <3>2
  <2>3. QED
    BY <1>4, <2>1, <2>2
<1>7. QED
  BY <1>3, <1>5, <1>6, ReceiveEnds

\* modelGenerationCancelled errors every running store of the Map.
LEMMA ReceiveCancelledTracked ==
    ASSUME TrackedInv, TypeOK', ClientReceive,
           toClient[1].type = "cancelled", ModelGenerationCancelled
    PROVE  TrackedInv'
<1> USE DEF TrackedInv
<1>1. \A v \in Uuids :
         status'[v] = IF v \in Keys /\ status[v] = "running" THEN "errored"
                                                              ELSE status[v]
  BY DEF ModelGenerationCancelled, SetError, TypeOK
<1>2. \A v \in Uuids : status'[v] = "absent" <=> status[v] = "absent"
  BY <1>1
<1>3. \A v \in Uuids : status'[v] # "running"
  BY <1>1, KeysAreStored DEF KeysAreStored
<1>4. QED
  BY <1>2, <1>3, ReceiveEnds DEF ModelGenerationCancelled

\* addGeneratedModel for the uuid of an `added` push: the uuid has no store
\* yet, so it is appended to the Map, and its job is active or ended by a
\* push behind this one.
LEMMA ReceiveAddedTracked ==
    ASSUME TrackedInv, TypeOK', ClientReceive,
           toClient[1].type = "added", AddGeneratedModel(toClient[1].uuid)
    PROVE  TrackedInv'
<1> USE DEF TrackedInv
<1> DEFINE w == toClient[1].uuid
           n == Len(toClient)
<1>1. /\ n \in Nat \ {0}
      /\ Len(toClient') = n - 1
      /\ \A i \in 1..Len(toClient') : toClient'[i] = toClient[i + 1]
      /\ UNCHANGED <<active, issued>>
  BY ReceiveQueue
<1>2. w \in Uuids /\ IsAdded(1)
  BY <1>1 DEF TypeOK, Push, IsAdded
<1>3. /\ w \in issued
      /\ status[w] = "absent"
      /\ \A j \in 2..n : IsAdded(j) => toClient[j].uuid # w
  BY <1>1, <1>2 DEF AddedFresh
<1>4. w \notin Keys
  BY <1>2, <1>3 DEF KeysAreStored
<1>5. /\ order' = Append(order, w)
      /\ status' = [status EXCEPT ![w] = "running"]
  BY <1>4 DEF AddGeneratedModel
<1>6. /\ Len(order') = Len(order) + 1
      /\ \A i \in 1..Len(order) : order'[i] = order[i]
      /\ order'[Len(order) + 1] = w
      /\ Len(order) \in Nat
  BY <1>2, <1>5, AppendProperties, LenProperties DEF TypeOK
<1>7. Keys' = Keys \cup {w}
  BY <1>6 DEF Keys
<1>8. KeysAreStored' /\ StoredIssued'
  BY <1>1, <1>2, <1>3, <1>5, <1>7 DEF KeysAreStored, StoredIssued, TypeOK
<1>9. OrderInjective'
  <2> SUFFICES ASSUME NEW a \in 1..Len(order'), NEW b \in 1..Len(order'),
                      order'[a] = order'[b], a < b
               PROVE  FALSE
    BY <1>6 DEF OrderInjective
  <2>1. CASE b = Len(order) + 1
    BY <1>4, <1>6, <2>1 DEF Keys
  <2>2. CASE b # Len(order) + 1
    BY <1>6, <2>2 DEF OrderInjective
  <2>3. QED
    BY <2>1, <2>2
<1>10. AddedFresh' /\ AddedTracked'
  <2>1. \A i \in 2..n : IsAdded(i) => status'[toClient[i].uuid] = "absent"
    <3> SUFFICES ASSUME NEW i \in 2..n, IsAdded(i)
                 PROVE  status'[toClient[i].uuid] = "absent"
      OBVIOUS
    <3>1. /\ toClient[i].uuid \in Uuids
          /\ status[toClient[i].uuid] = "absent"
          /\ toClient[i].uuid # w
      BY <1>1, <1>3 DEF AddedFresh, IsAdded, TypeOK, Push
    <3>2. QED
      BY <1>5, <3>1 DEF TypeOK
  <2>2. QED
    BY <2>1, ReceiveAdded
<1>11. RunningTracked'
  <2> SUFFICES ASSUME NEW x \in Keys', Running(x)'
               PROVE  x \in active' \/ EndPending(x)'
    BY DEF RunningTracked
  <2>1. ~Ends(1, x)
    BY <1>2 DEF Ends, IsAdded
  <2>2. CASE x = w
    <3>1. CASE w \in active
      BY <1>1, <2>2, <3>1
    <3>2. CASE \E j \in 2..n : Ends(j, w)
      <4>1. PICK j \in 2..n : Ends(j, w)
        BY <3>2
      <4>2. j - 1 \in 1..Len(toClient') /\ toClient'[j - 1] = toClient[j]
        BY <1>1
      <4>3. QED
        BY <2>2, <4>1, <4>2 DEF EndPending, Ends
    <3>3. QED
      BY <1>1, <1>2, <3>1, <3>2 DEF AddedTracked
  <2>3. CASE x # w
    <3>1. x \in Keys /\ x \in Uuids /\ Running(x)
      BY <1>5, <1>7, <2>3 DEF Running, Keys, TypeOK
    <3>2. CASE x \in active
      BY <1>1, <3>2
    <3>3. CASE EndPending(x)
      <4>1. PICK j \in 1..n : Ends(j, x)
        BY <3>3 DEF EndPending, Ends
      <4>2. j # 1
        BY <2>1, <4>1
      <4>3. j - 1 \in 1..Len(toClient') /\ toClient'[j - 1] = toClient[j]
        BY <1>1, <4>2
      <4>4. QED
        BY <4>1, <4>3 DEF EndPending, Ends
    <3>4. QED
      BY <3>1, <3>2, <3>3 DEF RunningTracked
  <2>4. QED
    BY <2>2, <2>3
<1>12. QED
  BY <1>8, <1>9, <1>10, <1>11

LEMMA NextTracked == TrackedInv /\ [Next]_vars => TrackedInv'
<1> SUFFICES ASSUME TrackedInv, [Next]_vars PROVE TrackedInv'
  OBVIOUS
<1>1. TypeOK'
  BY NextTypeOK DEF TrackedInv
<1>2. CASE StartModelGeneration
  BY <1>1, <1>2, TrackedFrame DEF StartModelGeneration
<1>3. ASSUME NEW u \in Uuids \cup {None}, SelectGeneratedModel(u)
      PROVE  TrackedInv'
  BY <1>1, <1>3, TrackedFrame DEF SelectGeneratedModel
<1>4. ASSUME NEW u \in Uuids, DeleteGeneratedModel(u) PROVE TrackedInv'
  BY <1>1, <1>4, DeleteTracked
<1>5. CASE ClientReceive
  <2>1. HandlePush(toClient[1])
    BY <1>5, ReceiveQueue DEF TrackedInv
  <2>2. QED
    BY <1>1, <1>5, <2>1, ReceiveAddedTracked, ReceiveResultTracked,
       ReceiveCancelledTracked DEF HandlePush
<1>6. CASE BackendStart
  BY <1>1, <1>6, StartTracked
<1>7. CASE BackendCancel
  BY <1>1, <1>7, CancelTracked
<1>8. ASSUME NEW u \in Uuids, BackendFinish(u) PROVE TrackedInv'
  BY <1>1, <1>8, FinishTracked
<1>9. CASE UNCHANGED vars
  BY <1>1, <1>9, TrackedFrame DEF vars
<1>10. QED
  BY <1>2, <1>3, <1>4, <1>5, <1>6, <1>7, <1>8, <1>9 DEF Next

\* Every model EditorStore shows as running has something in flight that
\* will end it: its job is still active on the backend, or its result, its
\* error or a cancellation is queued to the client, whatever order the
\* pushes, the backend's cancels and the user's deletes take.
THEOREM RunningAlwaysTracked == Spec => []RunningTracked
<1>1. TrackedInv => RunningTracked
  BY DEF TrackedInv
<1>2. QED
  BY <1>1, InitTracked, NextTracked, PTL DEF Spec

-----------------------------------------------------------------------------
(* The registry implements ModelRegistry.                                  *)

\* Appending a push to the websocket queue puts one more `added` push in
\* flight, if it is one.
LEMMA AppendInFlight ==
    ASSUME TypeOK, NEW m \in Push, toClient' = Append(toClient, m), NEW v
    PROVE  AddedInFlight(v)' <=>
              AddedInFlight(v) \/ (m.type = "added" /\ m.uuid = v)
<1> DEFINE n == Len(toClient)
<1>1. /\ n \in Nat
      /\ Len(toClient') = n + 1
      /\ \A i \in 1..n : toClient'[i] = toClient[i]
      /\ toClient'[n + 1] = m
  BY AppendProperties, LenProperties DEF TypeOK
<1>2. ASSUME AddedInFlight(v)'
      PROVE  AddedInFlight(v) \/ (m.type = "added" /\ m.uuid = v)
  <2>1. PICK i \in 1..(n + 1) : toClient'[i].type = "added"
                                 /\ toClient'[i].uuid = v
    BY <1>1, <1>2 DEF AddedInFlight
  <2>2. CASE i = n + 1
    BY <1>1, <2>1, <2>2
  <2>3. CASE i # n + 1
    BY <1>1, <2>1, <2>3 DEF AddedInFlight
  <2>4. QED
    BY <2>2, <2>3
<1>3. ASSUME AddedInFlight(v) PROVE AddedInFlight(v)'
  BY <1>1, <1>3 DEF AddedInFlight
<1>4. ASSUME m.type = "added", m.uuid = v PROVE AddedInFlight(v)'
  BY <1>1, <1>4 DEF AddedInFlight
<1>5. QED
  BY <1>2, <1>3, <1>4

\* Taking the head push leaves in flight the `added` pushes behind it.
LEMMA ReceiveInFlight ==
    ASSUME TypeOK, ClientReceive, NEW v
    PROVE  AddedInFlight(v)' <=>
              \E i \in 2..Len(toClient) : IsAdded(i) /\ toClient[i].uuid = v
<1> DEFINE n == Len(toClient)
<1>1. /\ n \in Nat \ {0}
      /\ Len(toClient') = n - 1
      /\ \A i \in 1..Len(toClient') : toClient'[i] = toClient[i + 1]
  BY ReceiveQueue
<1>2. ASSUME AddedInFlight(v)'
      PROVE  \E i \in 2..n : IsAdded(i) /\ toClient[i].uuid = v
  <2>1. PICK i \in 1..(n - 1) : toClient'[i].type = "added"
                                 /\ toClient'[i].uuid = v
    BY <1>1, <1>2 DEF AddedInFlight
  <2>2. i + 1 \in 2..n /\ IsAdded(i + 1) /\ toClient[i + 1].uuid = v
    BY <1>1, <2>1 DEF IsAdded
  <2>3. QED
    BY <2>2
<1>3. ASSUME NEW i \in 2..n, IsAdded(i), toClient[i].uuid = v
      PROVE  AddedInFlight(v)'
  <2>1. i - 1 \in 1..Len(toClient') /\ toClient'[i - 1] = toClient[i]
    BY <1>1
  <2>2. QED
    BY <1>3, <2>1 DEF AddedInFlight, IsAdded
<1>4. QED
  BY <1>2, <1>3

\* The uuids used so far are the same when each uuid is in the one set
\* exactly when it is in the other.
LEMMA UsedEqual ==
    ASSUME \A v : (v \in issued' /\ ~AddedInFlight(v)') <=>
                     (v \in issued /\ ~AddedInFlight(v))
    PROVE  UsedUuids' = UsedUuids
BY DEF UsedUuids

\* A push taken from the head that is not `added` changes no used uuid.
LEMMA ReceiveOtherUsed ==
    ASSUME TypeOK, ClientReceive, toClient[1].type # "added"
    PROVE  UsedUuids' = UsedUuids
<1>1. Len(toClient) \in Nat \ {0} /\ UNCHANGED issued
  BY ReceiveQueue
<1>2. \A v : AddedInFlight(v)' <=> AddedInFlight(v)
  <2> SUFFICES ASSUME NEW v
               PROVE  AddedInFlight(v)' <=> AddedInFlight(v)
    OBVIOUS
  <2>1. AddedInFlight(v)' <=>
           \E i \in 2..Len(toClient) : IsAdded(i) /\ toClient[i].uuid = v
    BY ReceiveInFlight
  <2>2. AddedInFlight(v) <=>
           \E i \in 2..Len(toClient) : IsAdded(i) /\ toClient[i].uuid = v
    BY <1>1 DEF AddedInFlight, IsAdded
  <2>3. QED
    BY <2>1, <2>2
<1>3. QED
  BY <1>1, <1>2, UsedEqual

\* The backend's steps change no used uuid: a started job's uuid stays
\* unused while its `added` push is in flight, and the other pushes are
\* not `added` ones.
LEMMA BackendUsed ==
    ASSUME TypeOK, BackendStart \/ BackendCancel
                   \/ \E u \in Uuids : BackendFinish(u)
    PROVE  UsedUuids' = UsedUuids
<1>1. CASE BackendStart
  <2>1. PICK u \in Uuids \ issued :
            /\ issued' = issued \cup {u}
            /\ toClient' = Append(toClient, [type |-> "added", uuid |-> u])
    BY <1>1 DEF BackendStart
  <2>2. \A v : AddedInFlight(v)' <=> AddedInFlight(v) \/ v = u
    BY <2>1, AppendInFlight DEF Push
  <2>3. AddedInFlight(u)'
    BY <2>2
  <2>4. QED
    BY <2>1, <2>2, <2>3, UsedEqual
<1>2. ASSUME NEW m \in Push, m.type # "added",
             toClient' = Append(toClient, m), UNCHANGED issued
      PROVE  UsedUuids' = UsedUuids
  <2>1. \A v : AddedInFlight(v)' <=> AddedInFlight(v)
    BY <1>2, AppendInFlight
  <2>2. QED
    BY <1>2, <2>1, UsedEqual
<1>3. CASE BackendCancel
  <2>1. [type |-> "cancelled"] \in Push
    BY DEF Push
  <2>2. QED
    BY <1>3, <2>1, <1>2 DEF BackendCancel
<1>4. ASSUME NEW u \in Uuids, BackendFinish(u)
      PROVE  UsedUuids' = UsedUuids
  <2>1. PICK t \in {"semantics", "error"} :
            toClient' = Append(toClient, [type |-> t, uuid |-> u])
    BY <1>4 DEF BackendFinish
  <2>2. [type |-> t, uuid |-> u] \in Push
    BY DEF Push
  <2>3. QED
    BY <1>4, <2>1, <2>2, <1>2 DEF BackendFinish
<1>5. QED
  BY <1>1, <1>3, <1>4

\* startModelGeneration and the backend's steps are invisible in the
\* registry.
LEMMA HiddenRefines ==
    ASSUME TypeOK, \/ StartModelGeneration
                   \/ BackendStart \/ BackendCancel
                   \/ \E u \in Uuids : BackendFinish(u)
    PROVE  UNCHANGED Registry!vars
<1>1. UNCHANGED <<order, status, selected>>
  BY DEF StartModelGeneration, BackendStart, BackendCancel, BackendFinish
<1>2. UsedUuids' = UsedUuids
  <2>1. CASE StartModelGeneration
    BY <2>1 DEF StartModelGeneration, UsedUuids, AddedInFlight
  <2>2. QED
    BY <2>1, BackendUsed
<1>3. QED
  BY <1>1, <1>2 DEF Registry!vars

\* selectGeneratedModel is the registry's Select.
LEMMA SelectRefines ==
    ASSUME NEW u \in Uuids \cup {None}, SelectGeneratedModel(u)
    PROVE  Registry!Select(u)
<1>1. UsedUuids' = UsedUuids
  BY DEF SelectGeneratedModel, UsedUuids, AddedInFlight
<1>2. QED
  BY <1>1 DEF SelectGeneratedModel, Registry!Select, Registry!Keys, Keys

\* deleteGeneratedModel is the registry's Delete: the cancel request it may
\* send is invisible there.
LEMMA DeleteRefines ==
    ASSUME NEW u \in Uuids, DeleteGeneratedModel(u)
    PROVE  Registry!Delete(u)
<1>1. UsedUuids' = UsedUuids
  BY DEF DeleteGeneratedModel, UsedUuids, AddedInFlight
<1>2. QED
  BY <1>1 DEF DeleteGeneratedModel, Registry!Delete, Registry!Keys, Keys,
     Registry!Predecessor, Predecessor, Registry!IndexOf, IndexOf,
     Registry!RemoveIndex, RemoveIndex

\* Applying an `added` push is the registry's Add: its uuid has no store
\* and, while the push was in flight, was not used; once applied, it is.
LEMMA ReceiveAddedRefines ==
    ASSUME TrackedInv, ClientReceive,
           toClient[1].type = "added", AddGeneratedModel(toClient[1].uuid)
    PROVE  Registry!Add(toClient[1].uuid)
<1> USE DEF TrackedInv
<1> DEFINE w == toClient[1].uuid
           n == Len(toClient)
<1>1. n \in Nat \ {0} /\ UNCHANGED issued
  BY ReceiveQueue
<1>2. w \in Uuids /\ IsAdded(1)
  BY <1>1 DEF TypeOK, Push, IsAdded
<1>3. /\ w \in issued
      /\ status[w] = "absent"
      /\ \A j \in 2..n : IsAdded(j) => toClient[j].uuid # w
  BY <1>1, <1>2 DEF AddedFresh
<1>4. order' = Append(order, w)
  BY <1>2, <1>3 DEF KeysAreStored, AddGeneratedModel
<1>5. w \notin UsedUuids
  BY <1>1, <1>2 DEF UsedUuids, AddedInFlight, IsAdded
<1>6. \A v : AddedInFlight(v)' <=> AddedInFlight(v) /\ v # w
  <2> SUFFICES ASSUME NEW v
               PROVE  AddedInFlight(v)' <=> AddedInFlight(v) /\ v # w
    OBVIOUS
  <2>1. AddedInFlight(v)' <=>
           \E i \in 2..n : IsAdded(i) /\ toClient[i].uuid = v
    BY ReceiveInFlight
  <2>2. AddedInFlight(v) /\ v # w <=>
           \E i \in 2..n : IsAdded(i) /\ toClient[i].uuid = v
    BY <1>1, <1>3 DEF AddedInFlight, IsAdded
  <2>3. QED
    BY <2>1, <2>2
<1>7. UsedUuids' = UsedUuids \cup {w}
  BY <1>1, <1>3, <1>6 DEF UsedUuids
<1>8. QED
  BY <1>4, <1>5, <1>7 DEF AddGeneratedModel, Registry!Add

\* Applying a result or an error ends the store it names if that store is
\* running, and is invisible in the registry otherwise.
LEMMA ReceiveResultRefines ==
    ASSUME TrackedInv, ClientReceive,
           toClient[1].type \in {"error", "semantics"},
           \/ SetGeneratedModelError(toClient[1].uuid)
           \/ SetGeneratedModelSemantics(toClient[1].uuid)
    PROVE  [Registry!Next]_Registry!vars
<1> USE DEF TrackedInv
<1> DEFINE w == toClient[1].uuid
<1>1. Len(toClient) \in Nat \ {0}
  BY ReceiveQueue
<1>2. w \in Uuids
  BY <1>1 DEF TypeOK, Push
<1>3. UsedUuids' = UsedUuids /\ UNCHANGED <<order, selected>>
  BY ReceiveOtherUsed DEF SetGeneratedModelError, SetGeneratedModelSemantics
<1>4. PICK r \in {"errored", "completed"} :
         status' = IF w \in Keys /\ status[w] = "running"
                     THEN [status EXCEPT ![w] = r] ELSE status
  BY DEF SetGeneratedModelError, SetGeneratedModelSemantics, SetError,
     SetSemantics
<1>5. CASE w \in Keys /\ status[w] = "running"
  <2> DEFINE rr == [x \in {w} |-> IF r = "errored" THEN "errored"
                                                   ELSE "completed"]
  <2>1. rr \in [{w} -> {"completed", "errored"}] /\ rr[w] = r
    OBVIOUS
  <2>2. status' = [v \in Uuids |-> IF v \in {w} THEN rr[v] ELSE status[v]]
    BY <1>2, <1>4, <1>5, <2>1 DEF TypeOK
  <2>3. Registry!End({w}, rr)
    BY <1>3, <1>5, <2>2 DEF Registry!End, Registry!Keys, Keys
  <2>4. QED
    BY <1>2, <2>1, <2>3 DEF Registry!Next
<1>6. CASE ~(w \in Keys /\ status[w] = "running")
  BY <1>3, <1>4, <1>6 DEF Registry!vars
<1>7. QED
  BY <1>5, <1>6

\* Applying modelGenerationCancelled ends, as errored, every running store.
LEMMA ReceiveCancelledRefines ==
    ASSUME TrackedInv, ClientReceive,
           toClient[1].type = "cancelled", ModelGenerationCancelled
    PROVE  [Registry!Next]_Registry!vars
<1> USE DEF TrackedInv
<1> DEFINE S == {v \in Keys : status[v] = "running"}
           rr == [v \in S |-> "errored"]
<1>1. S \in SUBSET Uuids /\ rr \in [S -> {"completed", "errored"}]
  BY DEF TypeOK, Keys
<1>2. UsedUuids' = UsedUuids
  BY ReceiveOtherUsed
<1>3. status' = [v \in Uuids |-> IF v \in S THEN rr[v] ELSE status[v]]
  BY DEF ModelGenerationCancelled, SetError, TypeOK
<1>4. Registry!End(S, rr)
  BY <1>2, <1>3 DEF ModelGenerationCancelled, Registry!End, Registry!Keys,
     Keys
<1>5. QED
  BY <1>1, <1>4 DEF Registry!Next

\* Every step of the registry and the websocket is a step of ModelRegistry
\* or leaves it unchanged.
LEMMA NextRefines ==
    TrackedInv /\ [Next]_vars => [Registry!Next]_Registry!vars
<1> SUFFICES ASSUME TrackedInv, [Next]_vars
             PROVE  [Registry!Next]_Registry!vars
  OBVIOUS
<1> USE DEF TrackedInv
<1>1. CASE \/ StartModelGeneration
           \/ BackendStart \/ BackendCancel
           \/ \E u \in Uuids : BackendFinish(u)
  BY <1>1, HiddenRefines
<1>2. ASSUME NEW u \in Uuids \cup {None}, SelectGeneratedModel(u)
      PROVE  [Registry!Next]_Registry!vars
  BY <1>2, SelectRefines DEF Registry!Next
<1>3. ASSUME NEW u \in Uuids, DeleteGeneratedModel(u)
      PROVE  [Registry!Next]_Registry!vars
  BY <1>3, DeleteRefines DEF Registry!Next
<1>4. CASE ClientReceive
  <2>1. HandlePush(toClient[1]) /\ Len(toClient) \in Nat \ {0}
    BY <1>4, ReceiveQueue
  <2>2. CASE toClient[1].type = "added" /\ AddGeneratedModel(toClient[1].uuid)
    <3>1. toClient[1].uuid \in Uuids
      BY <2>1, <2>2 DEF TypeOK, Push
    <3>2. QED
      BY <1>4, <2>2, <3>1, ReceiveAddedRefines DEF Registry!Next
  <2>3. CASE toClient[1].type = "error"
               /\ SetGeneratedModelError(toClient[1].uuid)
    BY <1>4, <2>3, ReceiveResultRefines
  <2>4. CASE toClient[1].type = "semantics"
               /\ SetGeneratedModelSemantics(toClient[1].uuid)
    BY <1>4, <2>4, ReceiveResultRefines
  <2>5. CASE toClient[1].type = "cancelled" /\ ModelGenerationCancelled
    BY <1>4, <2>5, ReceiveCancelledRefines
  <2>6. QED
    BY <2>1, <2>2, <2>3, <2>4, <2>5 DEF HandlePush
<1>5. CASE UNCHANGED vars
  BY <1>5, UsedEqual DEF vars, Registry!vars, UsedUuids, AddedInFlight
<1>6. QED
  BY <1>1, <1>2, <1>3, <1>4, <1>5 DEF Next

\* The registry EditorStore keeps, fed by the websocket and the backend in
\* every order their messages may take, implements ModelRegistry: sessions
\* appear running under a uuid never used before, end at most once, and
\* are removed only by deleteGeneratedModel.
THEOREM RefinesModelRegistry == Spec => ImplementsModelRegistry
<1>1. Init => Registry!Init
  BY DEF Init, Registry!Init, UsedUuids
<1>2. QED
  BY <1>1, InitTracked, NextTracked, NextRefines, PTL
     DEF Spec, ImplementsModelRegistry, Registry!Spec

=============================================================================
