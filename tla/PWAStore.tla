------------------------------ MODULE PWAStore ------------------------------
(***************************************************************************)
(* The store of the progressive web app's update state: the update prompt  *)
(* `needsUpdate`, the error flag `updateError`, the registration of the     *)
(* service worker, the half-hourly update check and the reload with the     *)
(* new version.                                                            *)
(*                                                                         *)
(* The service worker runtime (registerSW and the registration object, not *)
(* part of this repository's sources) is the environment: it reports the   *)
(* registration, activates the worker, signals a waiting new version and   *)
(* settles the promises the store starts.  The promises of                 *)
(* registration.update() in flight are counted: `latest` is the state of   *)
(* the one the most recent check started, `older` the number of earlier    *)
(* ones not settled yet.  A reload that succeeds replaces the page, so the  *)
(* store starts again from its constructor and the promises of the old page *)
(* are gone.                                                               *)
(***************************************************************************)
EXTENDS Naturals

CONSTANTS
    MaxPending   \* bound on the promises of each kind in flight

ASSUME PWAStoreAssumption == MaxPending \in Nat \ {0}

VARIABLES
    host,          \* "localhost" (no service worker) or "deployed"
    needsUpdate,   \* needsUpdate
    updateError,   \* updateError
    registration,  \* "none", or whether the registration's worker is active
    latest,        \* the update check started last: "none", "pending", "ok", "failed"
    older,         \* earlier update checks still in flight
    reloads        \* calls of updateSW(true) in flight

vars == <<host, needsUpdate, updateError, registration, latest, older,
          reloads>>

-----------------------------------------------------------------------------
Checks == (IF latest = "pending" THEN 1 ELSE 0) + older

\* A check is in flight only on a registration: registration.update() is
\* called on the registration the check found.
TypeOK ==
    /\ host \in {"localhost", "deployed"}
    /\ needsUpdate \in BOOLEAN
    /\ updateError \in BOOLEAN
    /\ registration \in {"none", "active", "inactive"}
    /\ latest \in {"none", "pending", "ok", "failed"}
    /\ older \in 0..MaxPending
    /\ reloads \in 0..MaxPending
    /\ Checks > 0 => registration # "none"

\* The constructor: registerSW is only called away from localhost.
Init ==
    /\ host \in {"localhost", "deployed"}
    /\ needsUpdate = FALSE
    /\ updateError = FALSE
    /\ registration = "none"
    /\ latest = "none"
    /\ older = 0
    /\ reloads = 0

-----------------------------------------------------------------------------
(* Callbacks of registerSW.                                                *)

\* onRegistered: setRegistration.
Registered(r) ==
    /\ host = "deployed"
    /\ registration = "none"
    /\ registration' = r
    /\ UNCHANGED <<host, needsUpdate, updateError, latest, older, reloads>>

\* The worker of the registration becomes active (environment).
Activated ==
    /\ registration = "inactive"
    /\ registration' = "active"
    /\ UNCHANGED <<host, needsUpdate, updateError, latest, older, reloads>>

\* onNeedRefresh: requestUpdate.
NeedRefresh ==
    /\ host = "deployed"
    /\ registration # "none"
    /\ needsUpdate' = TRUE
    /\ UNCHANGED <<host, updateError, registration, latest, older, reloads>>

-----------------------------------------------------------------------------
(* Operations of the store.                                                *)

DismissErrorFlags ==
    updateError' = FALSE

\* Mutant: the check tests for a registration, not for an active worker.
CheckForUpdatesAnyRegistration ==
    /\ host = "deployed"
    /\ Checks < MaxPending
    /\ DismissErrorFlags
    /\ older' = Checks
    /\ latest' = "pending"
    /\ UNCHANGED <<host, needsUpdate, registration, reloads>>

\* checkForUpdates, run by the interval timer: dismiss the error, then start
\* registration.update() if the registration's worker is active.
CheckForUpdates ==
    /\ host = "deployed"
    /\ registration = "active" => Checks < MaxPending
    /\ DismissErrorFlags
    /\ IF registration = "active"
         THEN /\ older' = Checks
              /\ latest' = "pending"
         ELSE UNCHANGED <<latest, older>>
    /\ UNCHANGED <<host, needsUpdate, registration, reloads>>

\* reloadWithUpdate: dismissUpdate, then update(true).  On localhost
\* updateSW is Promise.resolve(), which settles with no effect.
ReloadWithUpdate ==
    /\ needsUpdate' = FALSE
    /\ host = "deployed" => reloads < MaxPending
    /\ reloads' = IF host = "deployed" THEN reloads + 1 ELSE reloads
    /\ UNCHANGED <<host, updateError, registration, latest, older>>

DismissUpdate ==
    /\ needsUpdate' = FALSE
    /\ UNCHANGED <<host, updateError, registration, latest, older, reloads>>

DismissError ==
    /\ DismissErrorFlags
    /\ UNCHANGED <<host, needsUpdate, registration, latest, older, reloads>>

-----------------------------------------------------------------------------
(* Settlement of the promises.                                             *)

\* The promise of the latest check settles; a rejection signals the error.
LatestCheckSettled(ok) ==
    /\ latest = "pending"
    /\ latest' = IF ok THEN "ok" ELSE "failed"
    /\ updateError' = (updateError \/ ~ok)
    /\ UNCHANGED <<host, needsUpdate, registration, older, reloads>>

\* The promise of an earlier check settles.
OlderCheckSettled(ok) ==
    /\ older > 0
    /\ older' = older - 1
    /\ updateError' = (updateError \/ ~ok)
    /\ UNCHANGED <<host, needsUpdate, registration, latest, reloads>>

\* updateSW(true) rejects: signalError.
ReloadRejected ==
    /\ reloads > 0
    /\ reloads' = reloads - 1
    /\ updateError' = TRUE
    /\ UNCHANGED <<host, needsUpdate, registration, latest, older>>

\* updateSW(true) succeeds: the page reloads with the new version, and a new
\* store is constructed on the same host.
Reloaded ==
    /\ reloads > 0
    /\ host' = host
    /\ needsUpdate' = FALSE
    /\ updateError' = FALSE
    /\ registration' = "none"
    /\ latest' = "none"
    /\ older' = 0
    /\ reloads' = 0

-----------------------------------------------------------------------------
Next ==
    \/ \E r \in {"active", "inactive"} : Registered(r)
    \/ Activated
    \/ NeedRefresh
    \/ CheckForUpdates
    \/ ReloadWithUpdate
    \/ DismissUpdate
    \/ DismissError
    \/ \E ok \in BOOLEAN : LatestCheckSettled(ok) \/ OlderCheckSettled(ok)
    \/ ReloadRejected
    \/ Reloaded

Spec == Init /\ [][Next]_vars

-----------------------------------------------------------------------------
(* Properties.                                                             *)

\* The spec (section 7): an error is a status indicator shown until it is
\* resolved or dismissed.  checkForUpdates dismisses the error before it
\* starts a new check, so the indicator is meant to report that check: once
\* the latest check has succeeded, and until a new check starts or a reload
\* settles, no error is raised.
StaleCheckErrorNotShown ==
    [][latest = "ok" /\ UNCHANGED <<latest, reloads>>
         => (updateError' => updateError)]_vars

=============================================================================
