---------------------------- MODULE HermesEngine ----------------------------
(***************************************************************************)
(* The v0.2 security engine of one PTT (class Engine) on its durable       *)
(* store.                                                                  *)
(*                                                                         *)
(* Every public method of Engine is one action, atomic because the         *)
(* firmware calls the engine from a single loop.  Its private helpers are  *)
(* operators from an engine record to an engine record, named as in the    *)
(* source and applied in the order of the source.  `now' is the clock      *)
(* value a caller hands to a method: nothing makes it monotone.            *)
(*                                                                         *)
(* Credential ids, key ids and operator ids are opaque; NoId is the empty  *)
(* string.  A challenge is named by the serial number of its nonce, which  *)
(* the random generator never repeats; 0 names no challenge, and a MAC     *)
(* over no issued challenge.                                               *)
(***************************************************************************)
EXTENDS HermesPolicy, FiniteSets

CONSTANTS
  Credentials, KeyIds, Operators, NoId,
  TimeMax,           \* the largest clock value, 2^64-1 in the code
  SessionTimeout,    \* defaults of struct Policy
  ChallengeTimeout,
  MaxCredentials,    \* 32 in the code
  MaxRevoked,        \* 256 in the code
  KeyPairs,          \* <<credential, key id>> pairs the KeyStore has a key for
  TrustAnchor,       \* is a 32-byte revocation public key compiled in
  Provisioned,       \* what the store may hold when the device is first used
  Policies,          \* arguments of updatePolicy
  MetadataUpdates,   \* arguments of updateCredential
  RevocationLists,   \* arguments of applyRevocationList
  Answers,           \* responses, less the challenge their MAC is over
  MaxChallenges      \* bound on the challenges a behaviour may issue

Time == 0..TimeMax

Policy ==
  [version : Nat, sessionTimeout : Time, challengeTimeout : Time,
   bindingMode : BindingMode, mode : Mode, emergencyEnabled : BOOLEAN]

(* One struct Credential less its id; `bound' says that this device is in  *)
(* allowedDeviceIds.  Metadata version 0 is never valid: the credential is *)
(* then not in the vector.                                                 *)
Metadata ==
  [operatorId : Operators \cup {NoId}, keyId : KeyIds \cup {NoId},
   status : Status, counter : Nat, bound : BOOLEAN, metadataVersion : Nat]

NoMetadata ==
  [operatorId |-> NoId, keyId |-> NoId, status |-> "Disabled", counter |-> 0,
   bound |-> FALSE, metadataVersion |-> 0]

(* `genuine': the signature verifies under the trust anchor.  A list whose *)
(* payload is malformed has version 0.                                     *)
RevocationList ==
  [version : Nat, entries : SUBSET Credentials, genuine : BOOLEAN]

NoRevocationList == [version |-> 0, entries |-> {}, genuine |-> FALSE]

Device == {"this", "other"}

PersistentState ==
  [deviceId : Device \cup {"none"}, policy : Policy,
   credentials : [Credentials -> Metadata], deviceStatus : Status,
   crl : RevocationList, revoked : SUBSET Credentials]

DefaultPolicy ==
  [version |-> 1, sessionTimeout |-> SessionTimeout,
   challengeTimeout |-> ChallengeTimeout, bindingMode |-> "AllowList",
   mode |-> "NORMAL", emergencyEnabled |-> FALSE]

(* A default-constructed PersistentState; also what an unprovisioned flash *)
(* is taken to hold, since neither loads.                                  *)
BlankState ==
  [deviceId |-> "none", policy |-> DefaultPolicy,
   credentials |-> [c \in Credentials |-> NoMetadata],
   deviceStatus |-> "Active", crl |-> NoRevocationList, revoked |-> {}]

Session ==
  [credentialId : Credentials \cup {NoId}, operatorId : Operators \cup {NoId},
   createdAt : Time, expiresAt : Time, policyVersion : Nat]

NoSession ==
  [credentialId |-> NoId, operatorId |-> NoId,
   createdAt |-> 0, expiresAt |-> 0, policyVersion |-> 0]

(* The fields of class Engine.  `pending' is the nonce of pending_, and    *)
(* `trace' the last TX event handed to the event sink.                     *)
EngineState ==
  [state : PersistentState, session : Session, sessionState : SessionState,
   attached : Credentials \cup {NoId},
   pending : Nat, hasPending : BOOLEAN, challengeDeadline : Time,
   lastNow : Time, healthy : BOOLEAN, controlFault : BOOLEAN,
   pressed : BOOLEAN, denial : Decision, lastDecision : Decision,
   trace : {"none", "TX_ALLOWED", "TX_DENIED"}]

(* The engine as its constructor leaves it.                                *)
PoweredOn ==
  [state |-> BlankState, session |-> NoSession, sessionState |-> "NONE",
   attached |-> NoId, pending |-> 0, hasPending |-> FALSE,
   challengeDeadline |-> 0, lastNow |-> 0, healthy |-> FALSE,
   controlFault |-> FALSE, pressed |-> FALSE,
   denial |-> "DENY_NO_CREDENTIAL", lastDecision |-> "DENY_NO_CREDENTIAL",
   trace |-> "none"]

Response ==
  [credentialId : Credentials \cup {NoId}, keyId : KeyIds \cup {NoId},
   counter : Nat]

ASSUME ConstantTypes ==
  /\ NoId \notin Credentials \cup KeyIds \cup Operators
  /\ TimeMax \in Nat
  /\ SessionTimeout \in Time \ {0} /\ ChallengeTimeout \in Time \ {0}
  /\ MaxCredentials \in Nat /\ MaxRevoked \in Nat
  /\ TrustAnchor \in BOOLEAN
  /\ Provisioned \subseteq PersistentState
  /\ Policies \subseteq Policy
  /\ MetadataUpdates \subseteq Credentials \X Metadata
  /\ RevocationLists \subseteq RevocationList
  /\ Answers \subseteq Response
  /\ MaxChallenges \in Nat

-----------------------------------------------------------------------------
(* What the engine reads out of a persistent state.                        *)

Known(s, c) == s.credentials[c].metadataVersion # 0

KnownSet(s) == {c \in Credentials : Known(s, c)}

Bound(s, c) == s.policy.bindingMode = "Disabled" \/ s.credentials[c].bound

Revoked(s, c) == s.credentials[c].status = "Revoked" \/ c \in s.revoked

ValidPolicy(p) ==
  p.version # 0 /\ p.sessionTimeout # 0 /\ p.challengeTimeout # 0

ValidMetadata(m) ==
  m.metadataVersion # 0 /\ m.keyId # NoId /\ m.operatorId # NoId

(* decodeState(encodeState(s)) succeeds.                                   *)
Decodable(s) ==
  /\ s.deviceId # "none"
  /\ ValidPolicy(s.policy)
  /\ Cardinality(KnownSet(s)) <= MaxCredentials
  /\ \A c \in KnownSet(s) : ValidMetadata(s.credentials[c])
  /\ \A c, d \in KnownSet(s) :
       s.credentials[c].keyId = s.credentials[d].keyId => c = d
  /\ Cardinality(s.revoked) <= MaxRevoked
  /\ IF s.crl.version # 0 THEN s.crl.entries \subseteq s.revoked
                          ELSE s.crl = NoRevocationList

-----------------------------------------------------------------------------
(* The private helpers of Engine.                                          *)

Invalidate(e, d, s) ==
  [e EXCEPT !.session = NoSession, !.sessionState = s, !.pending = 0,
            !.hasPending = FALSE, !.denial = d]

Present(e) == e.attached # NoId /\ Known(e.state, e.attached)

(* Does the session still fit the credential and the policy in force.      *)
SessionBound(e) ==
  /\ e.sessionState = "ACTIVE" /\ Present(e)
  /\ e.session.credentialId = e.attached
  /\ e.session.operatorId = e.state.credentials[e.attached].operatorId
  /\ e.session.policyVersion = e.state.policy.version

EffectiveStatus(e) ==
  IF ~Present(e) THEN "Disabled"
  ELSE IF Revoked(e.state, e.attached) THEN "Revoked"
  ELSE e.state.credentials[e.attached].status

Context(e, now, pressed) ==
  [systemHealthy |-> e.healthy, deviceStatus |-> e.state.deviceStatus,
   credentialStatus |-> EffectiveStatus(e), credentialPresent |-> Present(e),
   credentialAuthenticated |-> e.sessionState = "ACTIVE",
   bindingValid |-> Present(e) /\ Bound(e.state, e.attached),
   counterFresh |-> e.sessionState = "ACTIVE",
   sessionBound |-> SessionBound(e), sessionState |-> e.sessionState,
   sessionDeadline |-> e.session.expiresAt, now |-> now,
   pttPressed |-> pressed, mode |-> e.state.policy.mode,
   emergencyEnabled |-> e.state.policy.emergencyEnabled, denial |-> e.denial]

(* Mutant: a clock that runs again mends the engine.                       *)
CheckClockMending(e, now) ==
  [e EXCEPT !.healthy = now >= e.lastNow, !.lastNow = now]

(* tick(), in its three parts: the clock went back; the session ran out;   *)
(* the decision, traced when it changes while it matters.                  *)
CheckClock(e, now) ==
  IF now < e.lastNow /\ e.healthy
  THEN [Invalidate(e, "DENY_SYSTEM_FAILURE", "NONE")
          EXCEPT !.healthy = FALSE, !.lastNow = now]
  ELSE [e EXCEPT !.lastNow = now]

CheckExpiry(e, now) ==
  IF e.sessionState = "ACTIVE" /\ now >= e.session.expiresAt
  THEN Invalidate(e, "DENY_SESSION_EXPIRED", "EXPIRED")
  ELSE e

(* Mutant: an event only while the button is held.                         *)
TracedWhileHeld(e, d, pressed) ==
  IF d # e.lastDecision /\ pressed
  THEN IF d = "ALLOW_TX" THEN "TX_ALLOWED" ELSE "TX_DENIED"
  ELSE e.trace

Traced(e, d, pressed) ==
  IF d # e.lastDecision /\ (pressed \/ e.lastDecision = "ALLOW_TX")
  THEN IF d = "ALLOW_TX" THEN "TX_ALLOWED" ELSE "TX_DENIED"
  ELSE e.trace

(* Mutant: the context is built from the button of the call before.        *)
DecideOnOldButton(e, now, pressed) ==
  LET d == Evaluate(Context(e, now, e.pressed))
  IN  [e EXCEPT !.pressed = pressed, !.lastDecision = d,
                !.trace = Traced(e, d, pressed)]

Decide(e, now, pressed) ==
  LET d == Evaluate(Context(e, now, pressed))
  IN  [e EXCEPT !.pressed = pressed, !.lastDecision = d,
                !.trace = Traced(e, d, pressed)]

Tick(e, now, pressed) ==
  Decide(CheckExpiry(CheckClock(e, now), now), now, pressed)

(* Nearly every method ends, and the protocol methods begin, by ticking    *)
(* with the button as last seen.                                           *)
Retick(e, now) == Tick(e, now, e.pressed)

Deny(e, d, now) ==
  Retick(Invalidate(e, d, IF d \in {"DENY_CREDENTIAL_REVOKED",
                                    "DENY_DEVICE_REVOKED"}
                          THEN "REVOKED" ELSE "NONE"), now)

(* Mutant: a fault ends the session but leaves the challenge pending.      *)
FaultKeepingChallenge(e, now) ==
  Retick([e EXCEPT !.healthy = FALSE, !.session = NoSession,
                   !.sessionState = "NONE",
                   !.denial = "DENY_SYSTEM_FAILURE"], now)

Fault(e, now) ==
  Retick(Invalidate([e EXCEPT !.healthy = FALSE],
                    "DENY_SYSTEM_FAILURE", "NONE"), now)

Rollback(e, now) ==
  Deny([e EXCEPT !.controlFault = TRUE], "DENY_POLICY_ROLLBACK", now)

RequireReauthentication(e) ==
  Invalidate(e, "DENY_REAUTHENTICATION_REQUIRED", "NONE")

-----------------------------------------------------------------------------
VARIABLES
  eng,      \* the Engine object, lost at power off
  nvs,      \* the snapshot in the state store
  issued,   \* challenges issued so far: the random generator's past
  ledger    \* history: what the engine has vouched for, over all power cycles

vars == <<eng, nvs, issued, ledger>>

(* Versions and revocations whose update was reported as successful, and   *)
(* the highest counter each credential got a session for.                  *)
Ledger ==
  [policy : Nat, crl : Nat, metadata : [Credentials -> Nat],
   revoked : SUBSET Credentials, served : [Credentials -> Nat]]

EmptyLedger ==
  [policy |-> 0, crl |-> 0, metadata |-> [c \in Credentials |-> 0],
   revoked |-> {}, served |-> [c \in Credentials |-> 0]]

Init == /\ eng = PoweredOn
        /\ nvs \in Provisioned
        /\ issued = 0
        /\ ledger = EmptyLedger

EngineOnly == UNCHANGED <<nvs, issued, ledger>>

(* persist(): NvsStateStore.save refuses what would not decode again.  It  *)
(* may also report an error, and then the new snapshot may have reached    *)
(* the flash all the same (nvs_set_blob done, nvs_commit failed).          *)
Saves(new) == /\ Decodable(new)
              /\ nvs' = new
              /\ UNCHANGED issued

(* Mutant: the caller is told, but the engine stays in service.            *)
SaveFailsQuietly(e, new, now) ==
  /\ nvs' \in {nvs} \cup {s \in {new} : Decodable(s)}
  /\ eng' = Retick(e, now)
  /\ UNCHANGED <<issued, ledger>>

SaveFails(e, new, now) == /\ nvs' \in {nvs} \cup {s \in {new} : Decodable(s)}
                          /\ eng' = Fault(e, now)
                          /\ UNCHANGED <<issued, ledger>>

-----------------------------------------------------------------------------
(* Power, time, faults.                                                    *)

PowerCycle == eng' = PoweredOn /\ EngineOnly

Loadable(s) == /\ Decodable(s) /\ s.deviceId = "this" /\ TrustAnchor
               /\ s.crl.version # 0 => s.crl.genuine

(* begin() and recover().  Any read may fail, whatever the flash holds.    *)
Recover(now) ==
  /\ \/ /\ Loadable(nvs)
        /\ eng' = Retick(RequireReauthentication(
                    [eng EXCEPT !.state = nvs, !.healthy = TRUE,
                                !.controlFault = FALSE, !.lastNow = now]), now)
     \/ eng' = Fault(eng, now)
  /\ EngineOnly

Service(now, pressed) == eng' = Tick(eng, now, pressed) /\ EngineOnly

ReportFault(now) == eng' = Fault(eng, now) /\ EngineOnly

(* Mutant: the decision waits for the next service of the loop.            *)
DetachUndecided(now) ==
  /\ eng' = [Invalidate(eng, "DENY_NO_CREDENTIAL", "NONE")
               EXCEPT !.attached = NoId, !.lastNow = now]
  /\ EngineOnly

Detach(now) ==
  /\ eng' = Retick([Invalidate(eng, "DENY_NO_CREDENTIAL", "NONE")
                      EXCEPT !.attached = NoId], now)
  /\ EngineOnly

-----------------------------------------------------------------------------
(* Challenge and response.                                                 *)

(* Mutant: nobody checks that the deadline fits the clock.                 *)
IssueChallengeUnchecked(e, now) ==
  /\ issued < MaxChallenges
  /\ issued' = issued + 1
  /\ eng' = Retick([RequireReauthentication(e) EXCEPT
                      !.pending = issued + 1, !.hasPending = TRUE,
                      !.challengeDeadline =
                         now + e.state.policy.challengeTimeout], now)
  /\ UNCHANGED <<nvs, ledger>>

IssueChallenge(e, now) ==
  /\ issued < MaxChallenges
  /\ now <= TimeMax - e.state.policy.challengeTimeout
  /\ issued' = issued + 1
  /\ eng' = Retick([RequireReauthentication(e) EXCEPT
                      !.pending = issued + 1, !.hasPending = TRUE,
                      !.challengeDeadline =
                         now + e.state.policy.challengeTimeout], now)
  /\ UNCHANGED <<nvs, ledger>>

BeginChallenge(now) ==
  LET t == Retick(eng, now)
      refused == \/ ~t.healthy \/ t.controlFault
                 \/ t.state.deviceStatus # "Active"
  IN  \/ refused /\ eng' = t /\ EngineOnly
      \/ ~refused /\ IssueChallenge(t, now)
      \/ (* no randomness, or the deadline would not fit the clock *)
         ~refused /\ eng' = Fault(RequireReauthentication(t), now) /\ EngineOnly

(* Is the engine in a state to look at a response at all.                  *)
Admission(e, r, now) ==
  IF ~e.healthy \/ e.controlFault THEN "ignored"
  ELSE IF e.state.deviceStatus # "Active" \/ e.state.policy.mode = "REVOKED"
       THEN "DENY_DEVICE_REVOKED"
  ELSE IF ~e.hasPending \/ now >= e.challengeDeadline THEN "DENY_REPLAY"
  ELSE IF r.credentialId = NoId \/ r.keyId = NoId \/ r.counter = 0
       THEN "DENY_AUTH_FAILED"
  ELSE "admitted"

(* Mutant: only a counter below the stored one is refused.                 *)
VerdictAllowingRepeat(e, r) ==
  LET c == r.credentialId
      m == e.state.credentials[c]
  IN  IF ~Known(e.state, c) THEN "DENY_AUTH_FAILED"
      ELSE IF Revoked(e.state, c) THEN "DENY_CREDENTIAL_REVOKED"
      ELSE IF m.status # "Active" \/ m.keyId # r.keyId THEN "DENY_AUTH_FAILED"
      ELSE IF r.counter < m.counter THEN "DENY_COUNTER_ROLLBACK"
      ELSE IF ~Bound(e.state, c) THEN "DENY_BINDING"
      ELSE IF <<c, r.keyId>> \notin KeyPairs THEN "error"
      ELSE IF r.nonce # e.pending THEN "DENY_AUTH_FAILED" ELSE "valid"

(* What an admitted response proves about the credential it names.         *)
Verdict(e, r) ==
  LET c == r.credentialId
      m == e.state.credentials[c]
  IN  IF ~Known(e.state, c) THEN "DENY_AUTH_FAILED"
      ELSE IF Revoked(e.state, c) THEN "DENY_CREDENTIAL_REVOKED"
      ELSE IF m.status # "Active" \/ m.keyId # r.keyId THEN "DENY_AUTH_FAILED"
      ELSE IF r.counter < m.counter THEN "DENY_COUNTER_ROLLBACK"
      ELSE IF r.counter = m.counter THEN "DENY_REPLAY"
      ELSE IF ~Bound(e.state, c) THEN "DENY_BINDING"
      ELSE IF <<c, r.keyId>> \notin KeyPairs THEN "error"
      ELSE IF r.nonce # e.pending THEN "DENY_AUTH_FAILED"
      ELSE "valid"

OpenSession(e, now) ==
  [e EXCEPT
     !.session = [credentialId  |-> e.attached,
                  operatorId    |-> e.state.credentials[e.attached].operatorId,
                  createdAt     |-> now,
                  expiresAt     |-> now + e.state.policy.sessionTimeout,
                  policyVersion |-> e.state.policy.version],
     !.sessionState = "ACTIVE", !.denial = "DENY_PTT_RELEASED"]

(* The counter is durable before the session exists; a failure after the   *)
(* save (no randomness, deadline beyond the clock) consumes the counter.   *)
AcceptResponse(e, counter, now) ==
  LET new   == [e.state EXCEPT !.credentials[e.attached].counter = counter]
      saved == [e EXCEPT !.state = new]
  IN  \/ SaveFails(e, new, now)
      \/ Saves(new) /\ eng' = Fault(saved, now) /\ UNCHANGED ledger
      \/ /\ Saves(new)
         /\ now <= TimeMax - new.policy.sessionTimeout
         /\ eng' = Retick(OpenSession(saved, now), now)
         /\ ledger' = [ledger EXCEPT !.served[e.attached] = counter]

ValidateResponse(r, now) ==
  LET t         == Retick(eng, now)
      consumed  == [t EXCEPT !.hasPending = FALSE]
      named     == [consumed EXCEPT !.attached = r.credentialId]
      admission == Admission(t, r, now)
  IN  \/ admission = "ignored" /\ eng' = consumed /\ EngineOnly
      \/ /\ admission \in Denial
         /\ eng' = Deny(consumed, admission, now) /\ EngineOnly
      \/ /\ admission = "admitted"
         /\ \/ /\ Verdict(named, r) \in Denial
               /\ eng' = Deny(named, Verdict(named, r), now) /\ EngineOnly
            \/ /\ Verdict(named, r) = "error"
               /\ eng' = Fault(named, now) /\ EngineOnly
            \/ /\ Verdict(named, r) = "valid"
               /\ AcceptResponse(named, r.counter, now)

-----------------------------------------------------------------------------
(* Administrative updates: trusted local calls, accepted in any health.    *)

(* Mutant: a running session outlives the policy it was opened under.      *)
SavePolicyKeepingSession(p, now) ==
  LET new == [eng.state EXCEPT !.policy = p]
  IN  \/ SaveFails(eng, new, now)
      \/ /\ Saves(new)
         /\ eng' = Retick([eng EXCEPT !.state = new], now)
         /\ ledger' = [ledger EXCEPT !.policy = p.version]

SavePolicy(p, now) ==
  LET new == [eng.state EXCEPT !.policy = p]
  IN  \/ SaveFails(eng, new, now)
      \/ /\ Saves(new)
         /\ eng' = Retick(RequireReauthentication(
                            [eng EXCEPT !.state = new]), now)
         /\ ledger' = [ledger EXCEPT !.policy = p.version]

UpdatePolicy(p, now) ==
  LET newer == p.version > eng.state.policy.version
  IN  \/ ~ValidPolicy(p) /\ eng' = Fault(eng, now) /\ EngineOnly
      \/ /\ ValidPolicy(p) /\ ~newer
         /\ eng' = Rollback(eng, now) /\ EngineOnly
      \/ ValidPolicy(p) /\ newer /\ SavePolicy(p, now)

(* Mutant: the counter is taken from the new metadata.                     *)
MergedAsGiven(old, m) == m

(* Counters never go back under new metadata.                              *)
Merged(old, m) ==
  [m EXCEPT !.counter = IF old.counter > m.counter THEN old.counter ELSE @]

Unplaceable(s, c, m) ==
  \/ \E d \in KnownSet(s) \ {c} : s.credentials[d].keyId = m.keyId
  \/ ~Known(s, c) /\ Cardinality(KnownSet(s)) >= MaxCredentials

(* Mutant: the attached credential keeps its session.                      *)
SaveMetadataKeepingSession(c, m, now) ==
  LET new == [eng.state EXCEPT !.credentials[c] = Merged(@, m)]
  IN  \/ SaveFails(eng, new, now)
      \/ /\ Saves(new)
         /\ eng' = Retick([eng EXCEPT !.state = new], now)
         /\ ledger' = [ledger EXCEPT !.metadata[c] = m.metadataVersion]

SaveMetadata(c, m, now) ==
  LET new   == [eng.state EXCEPT !.credentials[c] = Merged(@, m)]
      saved == [eng EXCEPT !.state = new]
  IN  \/ SaveFails(eng, new, now)
      \/ /\ Saves(new)
         /\ eng' = Retick(IF eng.attached = c THEN RequireReauthentication(saved)
                                              ELSE saved, now)
         /\ ledger' = [ledger EXCEPT !.metadata[c] = m.metadataVersion]

UpdateCredential(c, m, now) ==
  LET old   == eng.state.credentials[c]
      stale == Known(eng.state, c) /\ m.metadataVersion <= old.metadataVersion
  IN  \/ ~ValidMetadata(m) /\ eng' = Fault(eng, now) /\ EngineOnly
      \/ /\ ValidMetadata(m) /\ stale
         /\ eng' = Rollback(eng, now) /\ EngineOnly
      \/ /\ ValidMetadata(m) /\ ~stale /\ Unplaceable(eng.state, c, m)
         /\ eng' = Fault(eng, now) /\ EngineOnly
      \/ /\ ValidMetadata(m) /\ ~stale /\ ~Unplaceable(eng.state, c, m)
         /\ SaveMetadata(c, m, now)

(* Mutant: the list waits for the next response of the credential.         *)
EnforceRevocationLater(e, now) == Retick(e, now)

(* The attached credential is refused as soon as the list names it.        *)
EnforceRevocation(e, now) ==
  Retick(IF Present(e) /\ Revoked(e.state, e.attached)
         THEN Deny(e, "DENY_CREDENTIAL_REVOKED", now) ELSE e, now)

SaveRevocationList(l, now) ==
  LET new == [eng.state EXCEPT !.crl = l, !.revoked = @ \cup l.entries]
  IN  \/ SaveFails(eng, new, now)
      \/ /\ Saves(new)
         /\ eng' = EnforceRevocation(
                     [eng EXCEPT !.state = new, !.hasPending = FALSE], now)
         /\ ledger' = [ledger EXCEPT !.crl = l.version,
                                     !.revoked = @ \cup l.entries]

ApplyRevocationList(l, now) ==
  LET authentic == l.version # 0 /\ l.genuine /\ TrustAnchor
      newer     == l.version > eng.state.crl.version
      fits      == Cardinality(eng.state.revoked \cup l.entries) <= MaxRevoked
  IN  \/ ~authentic /\ eng' = Fault(eng, now) /\ EngineOnly
      \/ authentic /\ ~newer /\ eng' = Rollback(eng, now) /\ EngineOnly
      \/ authentic /\ newer /\ ~fits /\ eng' = Fault(eng, now) /\ EngineOnly
      \/ authentic /\ newer /\ fits /\ SaveRevocationList(l, now)

SetDeviceStatus(status, now) ==
  LET new   == [eng.state EXCEPT !.deviceStatus = status]
      saved == [eng EXCEPT !.state = new]
  IN  \/ status \notin Status /\ eng' = Fault(eng, now) /\ EngineOnly
      \/ status \in Status /\ SaveFails(eng, new, now)
      \/ /\ status \in Status /\ Saves(new)
         /\ eng' = Retick(IF status = "Active" THEN RequireReauthentication(saved)
                          ELSE Invalidate(saved, "DENY_DEVICE_REVOKED", "REVOKED"),
                          now)
         /\ UNCHANGED ledger

-----------------------------------------------------------------------------
Challenged(a, n) == [credentialId |-> a.credentialId, keyId |-> a.keyId,
                     counter |-> a.counter, nonce |-> n]

Calls(now) ==
  \/ Recover(now)
  \/ \E pressed \in BOOLEAN : Service(now, pressed)
  \/ ReportFault(now)
  \/ Detach(now)
  \/ BeginChallenge(now)
  \/ \E a \in Answers, n \in 0..issued : ValidateResponse(Challenged(a, n), now)
  \/ \E p \in Policies : UpdatePolicy(p, now)
  \/ \E u \in MetadataUpdates : UpdateCredential(u[1], u[2], now)
  \/ \E l \in RevocationLists : ApplyRevocationList(l, now)
  \/ \E status \in Status \cup {OutOfRange} : SetDeviceStatus(status, now)

Next == PowerCycle \/ \E now \in Time : Calls(now)

Spec == Init /\ [][Next]_vars

-----------------------------------------------------------------------------
(* Properties.                                                             *)

(* Every field holds a value of its C++ type, across all methods.          *)
TypeOK == /\ eng \in EngineState
          /\ nvs \in PersistentState
          /\ issued \in Nat
          /\ ledger \in Ledger

(* What an ACTIVE session of engine e rests on: a healthy engine with no   *)
(* rollback latched, this device in service, the attached credential known,*)
(* active, unlisted and bound, the operator and policy version in force,   *)
(* and time left on the deadline that policy sets.                         *)
Backed(e) ==
  /\ e.healthy /\ ~e.controlFault /\ e.state.deviceId = "this"
  /\ e.state.deviceStatus = "Active" /\ e.state.policy.mode # "REVOKED"
  /\ SessionBound(e)
  /\ ~Revoked(e.state, e.attached) /\ Bound(e.state, e.attached)
  /\ e.state.credentials[e.attached].status = "Active"
  /\ e.session.expiresAt = e.session.createdAt + e.state.policy.sessionTimeout
  /\ e.session.createdAt <= e.lastNow /\ e.lastNow < e.session.expiresAt

(* A session is backed at every moment, not only when it was opened: every *)
(* administrative update, fault, expiry and detach has to withdraw it when *)
(* it takes away what the session rests on.                                *)
SessionBacked == eng.sessionState = "ACTIVE" => Backed(eng)

(* A pending challenge is the last one issued, never coexists with a       *)
(* session, and is held only by a healthy engine in service: faults and    *)
(* rollbacks leave neither session nor challenge behind.                   *)
ChallengeExclusive ==
  eng.hasPending => /\ eng.pending = issued
                    /\ eng.sessionState # "ACTIVE"
                    /\ eng.healthy /\ ~eng.controlFault
                    /\ eng.state.deviceStatus = "Active"

(* The decision the last call left behind is the one the policy gives for  *)
(* the state that call left behind: no method changes what a decision      *)
(* depends on after its last tick().                                       *)
DecisionCurrent ==
  eng # PoweredOn =>
    eng.lastDecision = Evaluate(Context(eng, eng.lastNow, eng.pressed))

(* Transmission is granted only to a session, in NORMAL mode, to a held    *)
(* button; the emergency indication only to a healthy device in service    *)
(* whose policy configures it.                                             *)
GrantAuthorized ==
  /\ eng.lastDecision = "ALLOW_TX" =>
       /\ eng.sessionState = "ACTIVE" /\ eng.pressed
       /\ eng.state.policy.mode = "NORMAL"
  /\ eng.lastDecision = "ALLOW_EMERGENCY_ONLY" =>
       /\ eng.healthy /\ eng.pressed
       /\ eng.state.deviceStatus = "Active"
       /\ eng.state.policy.mode = "DEGRADED"
       /\ eng.state.policy.emergencyEnabled

(* Whoever follows the TX events alone knows whether transmission is       *)
(* granted, although most decision changes emit no event.                  *)
TraceFaithful == eng.trace = "TX_ALLOWED" <=> eng.lastDecision = "ALLOW_TX"

(* A healthy engine works from exactly what a restart would find: no       *)
(* failed or half-done save leaves memory and flash apart unnoticed.       *)
MemoryIsDurable == eng.healthy => eng.state = nvs

(* Snapshot s keeps every floor of the ledger: accepted policy, revocation *)
(* list and metadata versions, cumulative revocations, and the counter of  *)
(* every session ever opened.                                              *)
KeepsFloors(s) ==
  /\ ledger.policy <= s.policy.version
  /\ ledger.crl <= s.crl.version
  /\ ledger.revoked \subseteq s.revoked
  /\ \A c \in Credentials :
       /\ ledger.metadata[c] <= s.credentials[c].metadataVersion
       /\ ledger.served[c] <= s.credentials[c].counter

(* What was reported as accepted survives everything: power cycles, failed *)
(* saves, and updates made from the memory of a faulted engine.            *)
FloorsSurvive == KeepsFloors(nvs)

(* A session opens only in answer to the pending challenge, before its     *)
(* deadline, on a counter above that of every session the credential ever  *)
(* had, in this or an earlier power cycle; and that counter is durable in  *)
(* the very step that opens it.                                            *)
SessionOpens == /\ eng'.sessionState = "ACTIVE"
                /\ eng.sessionState # "ACTIVE" \/ eng'.session # eng.session

OpensFreshly ==
  SessionOpens =>
    LET c == eng'.session.credentialId
    IN  /\ eng.hasPending /\ ~eng'.hasPending
        /\ eng'.session.createdAt < eng.challengeDeadline
        /\ nvs'.credentials[c].counter > ledger.served[c]

NoReplay == [][OpensFreshly]_vars

(* The rollback latch and a fault are left only by re-reading the flash or *)
(* by a power cycle, and neither brings a session or a challenge back.     *)
LeavesFault == \/ eng.controlFault /\ ~eng'.controlFault
               \/ ~eng.healthy /\ eng'.healthy

FaultsLatch ==
  [][LeavesFault => /\ eng' = PoweredOn \/ (eng'.healthy /\ eng'.state = nvs)
                    /\ eng'.sessionState = "NONE" /\ ~eng'.hasPending]_vars

(* docs/KEY_MANAGEMENT.md: revocation is cumulative, metadata updates      *)
(* cannot un-revoke a credential.                                          *)
RevocationCumulative ==
  [][eng.healthy /\ eng'.healthy =>
       \A c \in KnownSet(eng.state) :
         Revoked(eng.state, c) => Revoked(eng'.state, c)]_vars

(* docs/V0_2_ARCHITECTURE.md: a rollback attempt latches a fault until     *)
(* explicit local recovery, and faults override the emergency indication.  *)
LatchOverridesEmergency ==
  eng.controlFault =>
    eng.lastDecision \notin {"ALLOW_TX", "ALLOW_EMERGENCY_ONLY"}

=============================================================================
