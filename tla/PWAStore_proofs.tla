---------------------------- MODULE PWAStore_proofs ----------------------------
(***************************************************************************)
(* Proof that the PWA update store keeps its type invariant for every      *)
(* bound on the promises in flight, including that an update check is in   *)
(* flight only on a registration: registration.update() is never called    *)
(* without one, and a reload that drops the registration also drops the   *)
(* checks of the old page.                                                 *)
(***************************************************************************)
EXTENDS PWAStore, TLAPS

\* TypeOK in three parts: the flags, the promise counters, and the
\* relation between the checks in flight and the registration.
FlagsOK ==
    /\ host \in {"localhost", "deployed"}
    /\ needsUpdate \in BOOLEAN
    /\ updateError \in BOOLEAN
    /\ registration \in {"none", "active", "inactive"}
    /\ latest \in {"none", "pending", "ok", "failed"}

CountersOK == older \in 0..MaxPending /\ reloads \in 0..MaxPending

ChecksRegistered == Checks > 0 => registration # "none"

LEMMA TypeOKParts == TypeOK <=> FlagsOK /\ CountersOK /\ ChecksRegistered
BY DEF TypeOK, FlagsOK, CountersOK, ChecksRegistered

LEMMA InitTypeOK == Init => TypeOK
<1> SUFFICES ASSUME Init PROVE FlagsOK /\ CountersOK /\ ChecksRegistered
  BY TypeOKParts
<1>1. FlagsOK
  BY DEF Init, FlagsOK
<1>2. CountersOK
  BY PWAStoreAssumption DEF Init, CountersOK
<1>3. ChecksRegistered
  BY DEF Init, ChecksRegistered, Checks
<1>4. QED
  BY <1>1, <1>2, <1>3

\* The flags keep their types in every step.
LEMMA NextFlags == FlagsOK /\ [Next]_vars => FlagsOK'
<1> SUFFICES ASSUME FlagsOK, [Next]_vars PROVE FlagsOK'
  OBVIOUS
<1> USE DEF FlagsOK
<1>1. ASSUME NEW r \in {"active", "inactive"}, Registered(r) PROVE FlagsOK'
  BY <1>1 DEF Registered
<1>2. CASE Activated \/ NeedRefresh
  BY <1>2 DEF Activated, NeedRefresh
<1>3. CASE CheckForUpdates
  BY <1>3 DEF CheckForUpdates, DismissErrorFlags
<1>4. CASE ReloadWithUpdate \/ DismissUpdate \/ DismissError
  BY <1>4 DEF ReloadWithUpdate, DismissUpdate, DismissError, DismissErrorFlags
<1>5. ASSUME NEW ok \in BOOLEAN, LatestCheckSettled(ok) \/ OlderCheckSettled(ok)
      PROVE  FlagsOK'
  BY <1>5 DEF LatestCheckSettled, OlderCheckSettled
<1>6. CASE ReloadRejected \/ Reloaded
  BY <1>6 DEF ReloadRejected, Reloaded
<1>7. CASE UNCHANGED vars
  BY <1>7 DEF vars
<1>8. QED
  BY <1>1, <1>2, <1>3, <1>4, <1>5, <1>6, <1>7 DEF Next

\* The counters stay within their bound, and a check is only started or
\* settled on a registration.
LEMMA NextCounters ==
    FlagsOK /\ CountersOK /\ ChecksRegistered /\ [Next]_vars
      => CountersOK' /\ ChecksRegistered'
<1> SUFFICES ASSUME FlagsOK, CountersOK, ChecksRegistered, [Next]_vars
             PROVE  CountersOK' /\ ChecksRegistered'
  OBVIOUS
<1> USE PWAStoreAssumption DEF FlagsOK, CountersOK, ChecksRegistered, Checks
<1>1. ASSUME NEW r \in {"active", "inactive"}, Registered(r)
      PROVE  CountersOK' /\ ChecksRegistered'
  BY <1>1 DEF Registered
<1>2. CASE Activated \/ NeedRefresh
  BY <1>2 DEF Activated, NeedRefresh
<1>3. CASE CheckForUpdates
  BY <1>3 DEF CheckForUpdates, DismissErrorFlags
<1>4. CASE ReloadWithUpdate \/ DismissUpdate \/ DismissError
  BY <1>4 DEF ReloadWithUpdate, DismissUpdate, DismissError, DismissErrorFlags
<1>5. ASSUME NEW ok \in BOOLEAN, LatestCheckSettled(ok)
      PROVE  CountersOK' /\ ChecksRegistered'
  BY <1>5 DEF LatestCheckSettled
<1>6. ASSUME NEW ok \in BOOLEAN, OlderCheckSettled(ok)
      PROVE  CountersOK' /\ ChecksRegistered'
  BY <1>6 DEF OlderCheckSettled
<1>7. CASE ReloadRejected
  BY <1>7 DEF ReloadRejected
<1>8. CASE Reloaded
  BY <1>8 DEF Reloaded
<1>9. CASE UNCHANGED vars
  BY <1>9 DEF vars
<1>10. QED
  BY <1>1, <1>2, <1>3, <1>4, <1>5, <1>6, <1>7, <1>8, <1>9 DEF Next

LEMMA NextTypeOK == TypeOK /\ [Next]_vars => TypeOK'
<1> SUFFICES ASSUME TypeOK, [Next]_vars PROVE TypeOK'
  OBVIOUS
<1>1. FlagsOK /\ CountersOK /\ ChecksRegistered
  BY TypeOKParts
<1>2. FlagsOK' /\ CountersOK' /\ ChecksRegistered'
  BY <1>1, NextFlags, NextCounters
<1>3. QED
  BY <1>2 DEF TypeOK, FlagsOK, CountersOK, ChecksRegistered

\* The store's flags, the registration and the promises in flight keep their
\* types, and an update check is only ever in flight on a registration,
\* however the interval timer, the service worker callbacks, the user and
\* the settlement of the checks and reloads interleave.
THEOREM StoreTypeCorrect == Spec => []TypeOK
BY InitTypeOK, NextTypeOK, PTL DEF Spec

=============================================================================
