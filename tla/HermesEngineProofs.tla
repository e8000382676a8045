------------------------- MODULE HermesEngineProofs -------------------------
(***************************************************************************)
(* The engine, for every value of the constants.                           *)
(*                                                                         *)
(* First its types: one lemma per helper, on engine records, and one per   *)
(* method, on steps.  Then what it guarantees of sessions, challenges,     *)
(* decisions and the durable state, what outlives a power cycle, and what  *)
(* no step may do.                                                         *)
(***************************************************************************)
EXTENDS HermesEngine, TLAPS

(* The clock's first value is a time.                                      *)
LEMMA ZeroIsATime == 0 \in Time
BY ConstantTypes DEF Time

(* A default-constructed Session is well-typed.                            *)
LEMMA NoSessionType == NoSession \in Session
BY ZeroIsATime DEF NoSession, Session

(* invalidate() keeps the engine well-typed.                               *)
LEMMA InvalidateType ==
  ASSUME NEW e \in EngineState, NEW d \in Decision, NEW s \in SessionState
  PROVE  Invalidate(e, d, s) \in EngineState
BY NoSessionType DEF Invalidate, EngineState

(* evaluate() always returns a Decision.                                   *)
LEMMA EvaluateType ==
  ASSUME NEW c \in SecurityContext PROVE Evaluate(c) \in Decision
BY DEF Evaluate, EvaluateSession, Decision, Denial, SecurityContext

(* Times are natural numbers, so that the provers may compare them.        *)
LEMMA TimeIsNat == ASSUME NEW t \in Time PROVE t \in Nat
BY ConstantTypes DEF Time

(* context() builds a well-typed SecurityContext.                          *)
LEMMA ContextType ==
  ASSUME NEW e \in EngineState, NEW now \in Time, NEW p \in BOOLEAN
  PROVE  Context(e, now, p) \in SecurityContext
<1>1. e.session.expiresAt \in Nat /\ now \in Nat
  BY TimeIsNat DEF EngineState, Session
<1>2. Present(e) \in BOOLEAN /\ SessionBound(e) \in BOOLEAN
  BY DEF Present, SessionBound
<1>3. (Present(e) /\ Bound(e.state, e.attached)) \in BOOLEAN
  BY DEF Present, Bound
<1>4. EffectiveStatus(e) \in Status
  BY DEF EffectiveStatus, Present, EngineState, PersistentState, Metadata, Status
<1> QED
  BY <1>1, <1>2, <1>3, <1>4
     DEF Context, SecurityContext, EngineState, PersistentState, Policy

(* tick() keeps the engine well-typed.                                     *)
LEMMA TickType ==
  ASSUME NEW e \in EngineState, NEW now \in Time, NEW p \in BOOLEAN
  PROVE  Tick(e, now, p) \in EngineState
<1> DEFINE a == CheckClock(e, now)
           b == CheckExpiry(a, now)
<1>1. a \in EngineState
  <2>1. Invalidate(e, "DENY_SYSTEM_FAILURE", "NONE") \in EngineState
    BY InvalidateType DEF Decision, Denial, SessionState
  <2> QED BY <2>1 DEF CheckClock, EngineState
<1>2. b \in EngineState
  BY <1>1, InvalidateType DEF CheckExpiry, Decision, Denial, SessionState
<1>3. Evaluate(Context(b, now, p)) \in Decision
  BY <1>2, ContextType, EvaluateType
<1>4. Traced(b, Evaluate(Context(b, now, p)), p) \in {"none", "TX_ALLOWED", "TX_DENIED"}
  BY <1>2 DEF Traced, EngineState
<1> HIDE DEF b
<1>5. Decide(b, now, p) \in EngineState
  BY <1>2, <1>3, <1>4 DEF Decide, EngineState
<1> QED BY <1>5 DEF Tick, b


(* tick() with the button as last seen keeps the engine well-typed.        *)
LEMMA RetickType ==
  ASSUME NEW e \in EngineState, NEW now \in Time
  PROVE  Retick(e, now) \in EngineState
<1>1. e.pressed \in BOOLEAN
  BY DEF EngineState
<1> QED BY <1>1, TickType DEF Retick

(* deny() keeps the engine well-typed.                                     *)
LEMMA DenyType ==
  ASSUME NEW e \in EngineState, NEW d \in Decision, NEW now \in Time
  PROVE  Deny(e, d, now) \in EngineState
BY InvalidateType, RetickType DEF Deny, SessionState

(* fault() keeps the engine well-typed.                                    *)
LEMMA FaultType ==
  ASSUME NEW e \in EngineState, NEW now \in Time
  PROVE  Fault(e, now) \in EngineState
<1>1. [e EXCEPT !.healthy = FALSE] \in EngineState
  BY DEF EngineState
<1> QED
  BY <1>1, InvalidateType, RetickType DEF Fault, Decision, Denial, SessionState

(* rollback() keeps the engine well-typed.                                 *)
LEMMA RollbackType ==
  ASSUME NEW e \in EngineState, NEW now \in Time
  PROVE  Rollback(e, now) \in EngineState
<1>1. [e EXCEPT !.controlFault = TRUE] \in EngineState
  BY DEF EngineState
<1> QED BY <1>1, DenyType DEF Rollback, Decision, Denial

(* Asking for a new authentication keeps the engine well-typed.            *)
LEMMA RequireReauthenticationType ==
  ASSUME NEW e \in EngineState PROVE RequireReauthentication(e) \in EngineState
BY InvalidateType DEF RequireReauthentication, Decision, Denial, SessionState

(* A default-constructed PersistentState is well-typed.                    *)
LEMMA BlankStateType == BlankState \in PersistentState
<1>1. DefaultPolicy \in Policy
  BY ConstantTypes DEF DefaultPolicy, Policy, BindingMode, Mode
<1>2. NoMetadata \in Metadata
  BY DEF NoMetadata, Metadata, Status
<1>3. NoRevocationList \in RevocationList
  BY DEF NoRevocationList, RevocationList
<1> QED BY <1>1, <1>2, <1>3 DEF BlankState, PersistentState, Status

(* The engine as constructed is well-typed.                                *)
LEMMA PoweredOnType == PoweredOn \in EngineState
BY BlankStateType, NoSessionType, ZeroIsATime
   DEF PoweredOn, EngineState, SessionState, Decision, Denial

(* Replacing the state record of an engine keeps its type.                 *)
LEMMA StateReplaced ==
  ASSUME NEW e \in EngineState, NEW s \in PersistentState
  PROVE  [e EXCEPT !.state = s] \in EngineState
BY DEF EngineState

-----------------------------------------------------------------------------
(* Type correctness, one lemma per method.                                 *)

LEMMA SaveFailsType ==
  ASSUME TypeOK, NEW e \in EngineState, NEW new \in PersistentState,
         NEW now \in Time, SaveFails(e, new, now)
  PROVE  TypeOK'
BY FaultType DEF SaveFails, TypeOK

(* begin() and recover() keep everything well-typed.                       *)
LEMMA RecoverType == ASSUME TypeOK, NEW now \in Time, Recover(now) PROVE TypeOK'
<1> DEFINE e == [eng EXCEPT !.state = nvs, !.healthy = TRUE,
                            !.controlFault = FALSE, !.lastNow = now]
<1>1. e \in EngineState
  BY DEF TypeOK, EngineState
<1>2. Retick(RequireReauthentication(e), now) \in EngineState
  BY <1>1, RequireReauthenticationType, RetickType
<1>3. Fault(eng, now) \in EngineState
  BY FaultType DEF TypeOK
<1> QED BY <1>2, <1>3 DEF Recover, EngineOnly, TypeOK

(* detach() keeps everything well-typed.                                   *)
LEMMA DetachType == ASSUME TypeOK, NEW now \in Time, Detach(now) PROVE TypeOK'
<1> DEFINE e == Invalidate(eng, "DENY_NO_CREDENTIAL", "NONE")
<1>1. e \in EngineState
  BY InvalidateType DEF TypeOK, Decision, Denial, SessionState
<1>2. [e EXCEPT !.attached = NoId] \in EngineState
  BY <1>1 DEF EngineState
<1> QED BY <1>2, RetickType DEF Detach, EngineOnly, TypeOK

(* A new challenge has a deadline within the clock's range.                *)
LEMMA IssueChallengeType ==
  ASSUME TypeOK, NEW now \in Time, NEW e \in EngineState, IssueChallenge(e, now)
  PROVE  TypeOK'
<1> DEFINE t == RequireReauthentication(e)
           deadline == now + e.state.policy.challengeTimeout
<1>1. t \in EngineState
  BY RequireReauthenticationType
<1>2. deadline \in Time
  BY ConstantTypes
     DEF IssueChallenge, Time, EngineState, PersistentState, Policy
<1>3. issued + 1 \in Nat
  BY DEF TypeOK
<1> DEFINE c == [t EXCEPT !.pending = issued + 1, !.hasPending = TRUE,
                          !.challengeDeadline = deadline]
<1>4. c \in EngineState
  <2> HIDE DEF t, deadline
  <2> QED BY <1>1, <1>2, <1>3 DEF EngineState
<1>5. Retick(c, now) \in EngineState
  BY <1>4, RetickType
<1> QED BY <1>3, <1>5 DEF IssueChallenge, TypeOK

(* beginChallenge() keeps everything well-typed.                           *)
LEMMA BeginChallengeType ==
  ASSUME TypeOK, NEW now \in Time, BeginChallenge(now) PROVE TypeOK'
<1> DEFINE t == Retick(eng, now)
<1>1. t \in EngineState
  BY RetickType DEF TypeOK
<1>2. Fault(RequireReauthentication(t), now) \in EngineState
  BY <1>1, RequireReauthenticationType, FaultType
<1>3. CASE IssueChallenge(t, now)
  BY <1>1, <1>3, IssueChallengeType
<1>4. CASE EngineOnly /\ (eng' = t \/ eng' = Fault(RequireReauthentication(t), now))
  BY <1>1, <1>2, <1>4 DEF EngineOnly, TypeOK
<1> QED BY <1>3, <1>4 DEF BeginChallenge

(* A new session has a deadline within the clock's range.                  *)
LEMMA OpenSessionType ==
  ASSUME NEW e \in EngineState, NEW now \in Time, e.attached # NoId,
         now <= TimeMax - e.state.policy.sessionTimeout
  PROVE  OpenSession(e, now) \in EngineState
<1> DEFINE s == [credentialId  |-> e.attached,
                 operatorId    |-> e.state.credentials[e.attached].operatorId,
                 createdAt     |-> now,
                 expiresAt     |-> now + e.state.policy.sessionTimeout,
                 policyVersion |-> e.state.policy.version]
<1>1. e.state.credentials[e.attached] \in Metadata
  BY DEF EngineState, PersistentState
<1>2. now + e.state.policy.sessionTimeout \in Time
  BY ConstantTypes DEF Time, EngineState, PersistentState, Policy
<1>3. e.state.policy.version \in Nat
  BY DEF EngineState, PersistentState, Policy
<1>4. s \in Session
  BY <1>1, <1>2, <1>3 DEF Session, Metadata, EngineState
<1> HIDE DEF s
<1>5. [e EXCEPT !.session = s, !.sessionState = "ACTIVE",
                !.denial = "DENY_PTT_RELEASED"] \in EngineState
  BY <1>4 DEF EngineState, SessionState, Decision, Denial
<1> QED BY <1>5 DEF OpenSession, s

(* Storing a credential's new counter keeps the state well-typed.          *)
LEMMA CounterReplaced ==
  ASSUME NEW s \in PersistentState, NEW c \in Credentials, NEW n \in Nat
  PROVE  [s EXCEPT !.credentials[c].counter = n] \in PersistentState
<1>1. [s.credentials[c] EXCEPT !.counter = n] \in Metadata
  BY DEF PersistentState, Metadata
<1> QED BY <1>1 DEF PersistentState

(* The last part of validateResponse() keeps everything well-typed.        *)
LEMMA AcceptResponseType ==
  ASSUME TypeOK, NEW e \in EngineState, NEW n \in Nat, NEW now \in Time,
         e.attached # NoId, AcceptResponse(e, n, now)
  PROVE  TypeOK'
<1> DEFINE new   == [e.state EXCEPT !.credentials[e.attached].counter = n]
           saved == [e EXCEPT !.state = new]
<1>1. e.attached \in Credentials /\ e.state \in PersistentState
  BY DEF EngineState
<1>2. new \in PersistentState
  BY <1>1, CounterReplaced
<1>3. saved \in EngineState /\ saved.attached # NoId /\ saved.state = new
  BY <1>2, StateReplaced DEF EngineState
<1> SUFFICES ASSUME ~SaveFails(e, new, now) PROVE TypeOK'
  BY <1>2, SaveFailsType
<1>4. issued' \in Nat /\ nvs' \in PersistentState
  BY <1>2 DEF AcceptResponse, Saves, TypeOK
<1>5. CASE eng' = Fault(saved, now) /\ UNCHANGED ledger
  BY <1>3, <1>4, <1>5, FaultType DEF TypeOK
<1>6. CASE /\ now <= TimeMax - new.policy.sessionTimeout
           /\ eng' = Retick(OpenSession(saved, now), now)
           /\ ledger' = [ledger EXCEPT !.served[e.attached] = n]
  <2>1. eng' \in EngineState
    <3> HIDE DEF new, saved
    <3> QED BY <1>3, <1>6, OpenSessionType, RetickType
  <2>2. ledger' \in Ledger
    BY <1>1, <1>6 DEF TypeOK, Ledger
  <2> QED BY <1>4, <2>1, <2>2 DEF TypeOK
<1> QED BY <1>5, <1>6 DEF AcceptResponse

(* The responses the environment may present.                              *)
LEMMA ChallengedType ==
  ASSUME TypeOK, NEW a \in Answers, NEW n \in 0..issued
  PROVE  /\ Challenged(a, n).credentialId \in Credentials \cup {NoId}
         /\ Challenged(a, n).counter \in Nat
BY ConstantTypes DEF Challenged, Response

(* validateResponse() keeps everything well-typed.                         *)
LEMMA ValidateResponseType ==
  ASSUME TypeOK, NEW r, NEW now \in Time, r.counter \in Nat,
         r.credentialId \in Credentials \cup {NoId}, ValidateResponse(r, now)
  PROVE  TypeOK'
<1> DEFINE t        == Retick(eng, now)
           consumed == [t EXCEPT !.hasPending = FALSE]
           named    == [consumed EXCEPT !.attached = r.credentialId]
<1>1. t \in EngineState
  BY RetickType DEF TypeOK
<1>2. consumed \in EngineState
  BY <1>1 DEF EngineState
<1>3. named \in EngineState
  BY <1>2 DEF EngineState
<1>4. Admission(t, r, now) = "admitted" => named.attached # NoId
  BY <1>2 DEF Admission, EngineState
<1>5. CASE AcceptResponse(named, r.counter, now)
           /\ Admission(t, r, now) = "admitted"
  BY <1>3, <1>4, <1>5, AcceptResponseType
<1>6. CASE EngineOnly /\ eng' = consumed
  BY <1>2, <1>6 DEF EngineOnly, TypeOK
<1>7. CASE EngineOnly /\ eng' = Fault(named, now)
  BY <1>3, <1>7, FaultType DEF EngineOnly, TypeOK
<1>8. CASE /\ EngineOnly /\ Admission(t, r, now) \in Denial
           /\ eng' = Deny(consumed, Admission(t, r, now), now)
  BY <1>2, <1>8, DenyType DEF EngineOnly, TypeOK, Decision
<1>9. CASE /\ EngineOnly /\ Verdict(named, r) \in Denial
           /\ eng' = Deny(named, Verdict(named, r), now)
  BY <1>3, <1>9, DenyType DEF EngineOnly, TypeOK, Decision
<1> QED BY <1>5, <1>6, <1>7, <1>8, <1>9 DEF ValidateResponse

(* updatePolicy() keeps everything well-typed.                             *)
LEMMA UpdatePolicyType ==
  ASSUME TypeOK, NEW now \in Time, NEW p \in Policies, UpdatePolicy(p, now)
  PROVE  TypeOK'
<1> DEFINE new   == [eng.state EXCEPT !.policy = p]
           saved == [eng EXCEPT !.state = new]
<1>1. eng \in EngineState /\ p \in Policy /\ eng.state \in PersistentState
  BY ConstantTypes DEF TypeOK, EngineState
<1>2. new \in PersistentState
  BY <1>1 DEF PersistentState
<1>3. saved \in EngineState
  BY <1>1, <1>2, StateReplaced
<1>4. CASE EngineOnly /\ (eng' = Fault(eng, now) \/ eng' = Rollback(eng, now))
  BY <1>1, <1>4, FaultType, RollbackType DEF EngineOnly, TypeOK
<1>5. CASE SaveFails(eng, new, now)
  BY <1>1, <1>2, <1>5, SaveFailsType
<1>6. CASE /\ Saves(new)
           /\ eng' = Retick(RequireReauthentication(saved), now)
           /\ ledger' = [ledger EXCEPT !.policy = p.version]
  <2>1. eng' \in EngineState
    BY <1>3, <1>6, RequireReauthenticationType, RetickType
  <2>2. ledger' \in Ledger
    BY <1>1, <1>6 DEF TypeOK, Ledger, Policy
  <2> QED BY <1>2, <1>6, <2>1, <2>2 DEF Saves, TypeOK
<1> QED BY <1>4, <1>5, <1>6 DEF UpdatePolicy, SavePolicy

(* Metadata stays well-typed when its counter is raised to the old one.    *)
LEMMA MergedType ==
  ASSUME NEW old \in Metadata, NEW m \in Metadata
  PROVE  Merged(old, m) \in Metadata
BY DEF Merged, Metadata

(* Storing metadata keeps everything well-typed.                           *)
LEMMA SaveMetadataType ==
  ASSUME TypeOK, NEW now \in Time, NEW c \in Credentials, NEW m \in Metadata,
         SaveMetadata(c, m, now)
  PROVE  TypeOK'
<1> DEFINE new   == [eng.state EXCEPT !.credentials[c] = Merged(@, m)]
           saved == [eng EXCEPT !.state = new]
<1>1. eng \in EngineState /\ eng.state \in PersistentState
  BY DEF TypeOK, EngineState
<1>2. new \in PersistentState
  <2>1. Merged(eng.state.credentials[c], m) \in Metadata
    BY <1>1, MergedType DEF PersistentState
  <2> QED BY <1>1, <2>1 DEF PersistentState
<1>3. saved \in EngineState
  BY <1>1, <1>2, StateReplaced
<1>4. CASE SaveFails(eng, new, now)
  BY <1>1, <1>2, <1>4, SaveFailsType
<1>5. CASE /\ Saves(new)
           /\ eng' = Retick(IF eng.attached = c
                            THEN RequireReauthentication(saved) ELSE saved, now)
           /\ ledger' = [ledger EXCEPT !.metadata[c] = m.metadataVersion]
  <2>1. eng' \in EngineState
    BY <1>3, <1>5, RequireReauthenticationType, RetickType
  <2>2. ledger' \in Ledger
    BY <1>5 DEF TypeOK, Ledger, Metadata
  <2> QED BY <1>2, <1>5, <2>1, <2>2 DEF Saves, TypeOK
<1> QED BY <1>4, <1>5 DEF SaveMetadata

(* updateCredential() keeps everything well-typed.                         *)
LEMMA UpdateCredentialType ==
  ASSUME TypeOK, NEW now \in Time, NEW u \in MetadataUpdates,
         UpdateCredential(u[1], u[2], now)
  PROVE  TypeOK'
<1>1. u[1] \in Credentials /\ u[2] \in Metadata
  BY ConstantTypes
<1>2. CASE EngineOnly /\ (eng' = Fault(eng, now) \/ eng' = Rollback(eng, now))
  BY <1>2, FaultType, RollbackType DEF EngineOnly, TypeOK
<1> QED BY <1>1, <1>2, SaveMetadataType DEF UpdateCredential

(* Enforcing a list on the attached credential keeps the engine well-      *)
(* typed.                                                                  *)
LEMMA EnforceRevocationType ==
  ASSUME NEW e \in EngineState, NEW now \in Time
  PROVE  EnforceRevocation(e, now) \in EngineState
BY DenyType, RetickType DEF EnforceRevocation, Decision, Denial

(* Storing a revocation list keeps everything well-typed.                  *)
LEMMA SaveRevocationListType ==
  ASSUME TypeOK, NEW now \in Time, NEW l \in RevocationList,
         SaveRevocationList(l, now)
  PROVE  TypeOK'
<1> DEFINE new == [eng.state EXCEPT !.crl = l, !.revoked = @ \cup l.entries]
           e   == [eng EXCEPT !.state = new, !.hasPending = FALSE]
<1>1. eng \in EngineState /\ eng.state \in PersistentState
  BY DEF TypeOK, EngineState
<1>2. new \in PersistentState
  BY <1>1 DEF PersistentState, RevocationList
<1>3. e \in EngineState
  BY <1>1, <1>2 DEF EngineState
<1>4. CASE SaveFails(eng, new, now)
  BY <1>1, <1>2, <1>4, SaveFailsType
<1>5. CASE /\ Saves(new)
           /\ eng' = EnforceRevocation(e, now)
           /\ ledger' = [ledger EXCEPT !.crl = l.version,
                                       !.revoked = @ \cup l.entries]
  <2>1. eng' \in EngineState
    BY <1>3, <1>5, EnforceRevocationType
  <2>2. ledger' \in Ledger
    BY <1>5 DEF TypeOK, Ledger, RevocationList
  <2> QED BY <1>2, <1>5, <2>1, <2>2 DEF Saves, TypeOK
<1> QED BY <1>4, <1>5 DEF SaveRevocationList

(* applyRevocationList() keeps everything well-typed.                      *)
LEMMA ApplyRevocationListType ==
  ASSUME TypeOK, NEW now \in Time, NEW l \in RevocationLists,
         ApplyRevocationList(l, now)
  PROVE  TypeOK'
<1>1. l \in RevocationList
  BY ConstantTypes
<1>2. CASE EngineOnly /\ (eng' = Fault(eng, now) \/ eng' = Rollback(eng, now))
  BY <1>2, FaultType, RollbackType DEF EngineOnly, TypeOK
<1> QED BY <1>1, <1>2, SaveRevocationListType DEF ApplyRevocationList

(* setDeviceStatus() keeps everything well-typed.                          *)
LEMMA SetDeviceStatusType ==
  ASSUME TypeOK, NEW now \in Time, NEW status, SetDeviceStatus(status, now)
  PROVE  TypeOK'
<1> DEFINE new   == [eng.state EXCEPT !.deviceStatus = status]
           saved == [eng EXCEPT !.state = new]
<1>1. eng \in EngineState /\ eng.state \in PersistentState
  BY DEF TypeOK, EngineState
<1>2. CASE eng' = Fault(eng, now) /\ EngineOnly
  BY <1>1, <1>2, FaultType DEF EngineOnly, TypeOK
<1>3. CASE status \in Status
  <2>1. new \in PersistentState
    BY <1>1, <1>3 DEF PersistentState
  <2>2. saved \in EngineState
    BY <1>1, <2>1, StateReplaced
  <2>3. CASE SaveFails(eng, new, now)
    BY <1>1, <2>1, <2>3, SaveFailsType
  <2>4. Retick(RequireReauthentication(saved), now) \in EngineState
    BY <2>2, RequireReauthenticationType, RetickType
  <2>5. Retick(Invalidate(saved, "DENY_DEVICE_REVOKED", "REVOKED"), now)
          \in EngineState
    BY <2>2, InvalidateType, RetickType DEF Decision, Denial, SessionState
  <2>6. CASE Saves(new) /\ UNCHANGED ledger /\ eng' \in EngineState
    BY <2>1, <2>6 DEF Saves, TypeOK
  <2> QED BY <1>2, <1>3, <2>3, <2>4, <2>5, <2>6 DEF SetDeviceStatus
<1> QED BY <1>2, <1>3 DEF SetDeviceStatus

(* The first state is well-typed.                                          *)
LEMMA InitType == Init => TypeOK
<1>1. EmptyLedger \in Ledger
  BY DEF EmptyLedger, Ledger
<1> QED BY <1>1, PoweredOnType, ConstantTypes DEF Init, TypeOK

(* Every step keeps everything well-typed, one method at a time.           *)
LEMMA NextType == TypeOK /\ [Next]_vars => TypeOK'
<1> SUFFICES ASSUME TypeOK, [Next]_vars PROVE TypeOK'
  OBVIOUS
<1>1. CASE UNCHANGED vars
  BY <1>1 DEF vars, TypeOK
<1>2. CASE PowerCycle
  BY <1>2, PoweredOnType DEF PowerCycle, EngineOnly, TypeOK
<1>3. ASSUME NEW now \in Time, Calls(now) PROVE TypeOK'
  <2>1. CASE Recover(now)
    BY <2>1, RecoverType
  <2>2. CASE \E pressed \in BOOLEAN : Service(now, pressed)
    BY <2>2, TickType DEF Service, EngineOnly, TypeOK
  <2>3. CASE ReportFault(now)
    BY <2>3, FaultType DEF ReportFault, EngineOnly, TypeOK
  <2>4. CASE Detach(now)
    BY <2>4, DetachType
  <2>5. CASE BeginChallenge(now)
    BY <2>5, BeginChallengeType
  <2>6. CASE \E a \in Answers, n \in 0..issued :
               ValidateResponse(Challenged(a, n), now)
    BY <2>6, ChallengedType, ValidateResponseType
  <2>7. CASE \E p \in Policies : UpdatePolicy(p, now)
    BY <2>7, UpdatePolicyType
  <2>8. CASE \E u \in MetadataUpdates : UpdateCredential(u[1], u[2], now)
    BY <2>8, UpdateCredentialType
  <2>9. CASE \E l \in RevocationLists : ApplyRevocationList(l, now)
    BY <2>9, ApplyRevocationListType
  <2>10. CASE \E s \in Status \cup {OutOfRange} : SetDeviceStatus(s, now)
    BY <2>10, SetDeviceStatusType
  <2> QED BY <1>3, <2>1, <2>2, <2>3, <2>4, <2>5, <2>6, <2>7, <2>8, <2>9, <2>10
          DEF Calls
<1> QED BY <1>1, <1>2, <1>3 DEF Next

(* Every field of the engine, of the store and of the ledger keeps its     *)
(* type; in particular no deadline the engine computes exceeds the clock,  *)
(* whatever the configured timeouts.                                       *)
THEOREM TypeCorrect == Spec => []TypeOK
BY InitType, NextType, PTL DEF Spec

-----------------------------------------------------------------------------
(***************************************************************************)
(* What the engine guarantees of sessions, challenges, decisions and the   *)
(* durable state, for every value of the constants.                        *)
(*                                                                         *)
(* Safe(e), Current(e) and Faithful(e) speak of one engine record, so that *)
(* the helpers get lemmas of their own: what tick() keeps, and that deny(),*)
(* fault(), rollback() and reauthentication leave nothing behind.  The     *)
(* invariant then follows method by method.                                *)
(***************************************************************************)

(* Neither a session nor a challenge is held.                              *)
Idle(e) == e.sessionState # "ACTIVE" /\ ~e.hasPending

OurState(e) == e.healthy => e.state.deviceId = "this"

ChallengeAlone(e) ==
  e.hasPending => /\ e.sessionState # "ACTIVE"
                  /\ e.healthy /\ ~e.controlFault
                  /\ e.state.deviceStatus = "Active"

Safe(e) == /\ e.sessionState = "ACTIVE" => Backed(e)
           /\ ChallengeAlone(e)
           /\ OurState(e)

Current(e) == e.lastDecision = Evaluate(Context(e, e.lastNow, e.pressed))

Faithful(e) == e.trace = "TX_ALLOWED" <=> e.lastDecision = "ALLOW_TX"

-----------------------------------------------------------------------------
(* tick().                                                                 *)

LEMMA InvalidateFields ==
  ASSUME NEW e \in EngineState, NEW d \in Decision, NEW s \in SessionState,
         NEW r, r = Invalidate(e, d, s)
  PROVE  /\ r \in EngineState
         /\ r.sessionState = s /\ ~r.hasPending /\ r.denial = d
         /\ r.state = e.state /\ r.attached = e.attached
         /\ r.controlFault = e.controlFault /\ r.healthy = e.healthy
         /\ r.challengeDeadline = e.challengeDeadline
         /\ r.lastNow = e.lastNow /\ r.pressed = e.pressed
         /\ r.lastDecision = e.lastDecision /\ r.trace = e.trace
BY InvalidateType DEF Invalidate, EngineState

(* Field by field, what asking for a new authentication sets and leaves.   *)
LEMMA ReauthenticationFields ==
  ASSUME NEW e \in EngineState, NEW r, r = RequireReauthentication(e)
  PROVE  /\ r \in EngineState /\ r.sessionState = "NONE" /\ ~r.hasPending
         /\ r.state = e.state /\ r.healthy = e.healthy
         /\ r.controlFault = e.controlFault
         /\ r.trace = e.trace /\ r.lastDecision = e.lastDecision
<1>1. "DENY_REAUTHENTICATION_REQUIRED" \in Decision /\ "NONE" \in SessionState
  BY DEF Decision, Denial, SessionState
<1> QED BY <1>1, InvalidateFields DEF RequireReauthentication

(* What tick() leaves alone, and what its result says of its argument.     *)
LEMMA TickFrame ==
  ASSUME NEW e \in EngineState, NEW now \in Time, NEW p \in BOOLEAN,
         NEW r, r = Tick(e, now, p)
  PROVE  /\ r.state = e.state /\ r.attached = e.attached
         /\ r.controlFault = e.controlFault
         /\ r.challengeDeadline = e.challengeDeadline
         /\ r.lastNow = now /\ r.pressed = p
         /\ r.healthy => e.healthy
         /\ r.sessionState = "ACTIVE" =>
              /\ e.sessionState = "ACTIVE" /\ r.session = e.session
              /\ r.healthy = e.healthy /\ (e.healthy => e.lastNow <= now)
              /\ now < e.session.expiresAt
         /\ r.hasPending => /\ e.hasPending /\ r.pending = e.pending
                            /\ r.healthy = e.healthy
                            /\ r.sessionState = e.sessionState
<1> DEFINE a == CheckClock(e, now)
           b == CheckExpiry(a, now)
<1>1. /\ a.state = e.state /\ a.attached = e.attached
      /\ a.controlFault = e.controlFault
      /\ a.challengeDeadline = e.challengeDeadline /\ a.lastNow = now
      /\ \/ a.healthy = e.healthy /\ a.session = e.session
            /\ a.sessionState = e.sessionState /\ a.pending = e.pending
            /\ a.hasPending = e.hasPending /\ (e.healthy => e.lastNow <= now)
         \/ ~a.healthy /\ a.sessionState = "NONE" /\ ~a.hasPending /\ e.healthy
      /\ a \in EngineState
  <2>1. e.lastNow \in Nat /\ now \in Nat
    BY TimeIsNat DEF EngineState
  <2>2. CASE now < e.lastNow /\ e.healthy
    <3> DEFINE i == Invalidate(e, "DENY_SYSTEM_FAILURE", "NONE")
    <3>1. /\ i \in EngineState /\ i.sessionState = "NONE" /\ ~i.hasPending
          /\ i.state = e.state /\ i.attached = e.attached
          /\ i.controlFault = e.controlFault
          /\ i.challengeDeadline = e.challengeDeadline
      BY InvalidateFields DEF Decision, Denial, SessionState
    <3>2. a = [i EXCEPT !.healthy = FALSE, !.lastNow = now]
      BY <2>2 DEF CheckClock
    <3> HIDE DEF i, a
    <3> QED BY <2>2, <3>1, <3>2 DEF EngineState
  <2>3. CASE ~(now < e.lastNow /\ e.healthy)
    <3>1. a = [e EXCEPT !.lastNow = now]
      BY <2>3 DEF CheckClock
    <3> HIDE DEF a
    <3> QED BY <2>1, <2>3, <3>1 DEF EngineState
  <2> QED BY <2>2, <2>3
<1>2. /\ b.state = a.state /\ b.attached = a.attached
      /\ b.controlFault = a.controlFault /\ b.healthy = a.healthy
      /\ b.challengeDeadline = a.challengeDeadline /\ b.lastNow = a.lastNow
      /\ b.sessionState = "ACTIVE" =>
           /\ a.sessionState = "ACTIVE" /\ b.session = a.session
           /\ now < a.session.expiresAt
      /\ b.hasPending => /\ a.hasPending /\ b.pending = a.pending
                         /\ b.sessionState = a.sessionState
  <2>1. a.session.expiresAt \in Nat /\ now \in Nat
    BY <1>1, TimeIsNat DEF EngineState, Session
  <2> HIDE DEF a
  <2> QED BY <1>1, <2>1 DEF CheckExpiry, Invalidate, EngineState
<1>3. b \in EngineState
  BY <1>1, InvalidateType DEF CheckExpiry, Decision, Denial, SessionState
<1>4. /\ r.state = b.state /\ r.attached = b.attached
      /\ r.controlFault = b.controlFault /\ r.healthy = b.healthy
      /\ r.challengeDeadline = b.challengeDeadline /\ r.lastNow = b.lastNow
      /\ r.sessionState = b.sessionState /\ r.session = b.session
      /\ r.hasPending = b.hasPending /\ r.pending = b.pending /\ r.pressed = p
  <2>1. r = Decide(b, now, p)
    BY DEF Tick
  <2> HIDE DEF b
  <2> QED BY <1>3, <2>1 DEF Decide, EngineState
<1> HIDE DEF a, b
<1> QED BY <1>1, <1>2, <1>4


(* tick() keeps a safe engine safe: it ends the session rather than let it *)
(* lose its backing.                                                       *)
LEMMA TickSafe ==
  ASSUME NEW e \in EngineState, NEW now \in Time, NEW p \in BOOLEAN, Safe(e),
         NEW r, r = Tick(e, now, p)
  PROVE  Safe(r)
<1>1. r \in EngineState
  BY TickType
<1>2. OurState(r) /\ ChallengeAlone(r)
  BY TickFrame DEF Safe, OurState, ChallengeAlone
<1>3. ASSUME r.sessionState = "ACTIVE" PROVE Backed(r)
  <2>1. /\ Backed(e) /\ e.sessionState = "ACTIVE" /\ r.session = e.session
        /\ r.state = e.state /\ r.attached = e.attached /\ r.lastNow = now
        /\ r.controlFault = e.controlFault /\ r.healthy = e.healthy
        /\ e.healthy => e.lastNow <= now
        /\ now < e.session.expiresAt
    BY <1>3, TickFrame DEF Safe
  <2>2. /\ e.session.createdAt \in Nat /\ e.lastNow \in Nat /\ now \in Nat
    BY TimeIsNat DEF EngineState, Session
  <2>3. r.session.createdAt <= r.lastNow
    BY <2>1, <2>2 DEF Backed
  <2> QED BY <1>3, <2>1, <2>3 DEF Backed, SessionBound, Present
<1> QED BY <1>2, <1>3 DEF Safe

(* evaluate() allows transmission only to a held button, in NORMAL mode.   *)
LEMMA AllowNeedsButton ==
  ASSUME NEW c \in SecurityContext, Evaluate(c) = "ALLOW_TX"
  PROVE  /\ c.pttPressed /\ c.systemHealthy /\ c.mode = "NORMAL"
         /\ c.sessionState = "ACTIVE"
BY DEF Evaluate, EvaluateSession, SecurityContext, InRange, Denial, Mode

(* evaluate() gives the emergency indication only where the policy         *)
(* configures it.                                                          *)
LEMMA EmergencyNeedsPolicy ==
  ASSUME NEW c \in SecurityContext, Evaluate(c) = "ALLOW_EMERGENCY_ONLY"
  PROVE  /\ c.pttPressed /\ c.systemHealthy /\ c.deviceStatus = "Active"
         /\ c.mode = "DEGRADED" /\ c.emergencyEnabled
BY DEF Evaluate, EvaluateSession, SecurityContext, Denial

(* After tick() the cached decision is that of the policy, and the last TX *)
(* event fits it.                                                          *)
LEMMA TickDecides ==
  ASSUME NEW e \in EngineState, NEW now \in Time, NEW p \in BOOLEAN,
         NEW r, r = Tick(e, now, p)
  PROVE  Current(r) /\ (Faithful(e) => Faithful(r))
<1> DEFINE a == CheckClock(e, now)
           b == CheckExpiry(a, now)
           d == Evaluate(Context(b, now, p))
<1>1. /\ a \in EngineState /\ a.lastNow = now
      /\ a.trace = e.trace /\ a.lastDecision = e.lastDecision
  <2>1. CASE now < e.lastNow /\ e.healthy
    <3> DEFINE i == Invalidate(e, "DENY_SYSTEM_FAILURE", "NONE")
    <3>1. /\ i \in EngineState
          /\ i.trace = e.trace /\ i.lastDecision = e.lastDecision
      BY InvalidateFields DEF Decision, Denial, SessionState
    <3>2. a = [i EXCEPT !.healthy = FALSE, !.lastNow = now]
      BY <2>1 DEF CheckClock
    <3> HIDE DEF i, a
    <3> QED BY <3>1, <3>2 DEF EngineState
  <2>2. CASE ~(now < e.lastNow /\ e.healthy)
    BY <2>2 DEF CheckClock, EngineState
  <2> QED BY <2>1, <2>2
<1>2. /\ b \in EngineState /\ b.lastNow = now
      /\ b.trace = e.trace /\ b.lastDecision = e.lastDecision
  BY <1>1, InvalidateFields DEF CheckExpiry, Decision, Denial, SessionState
<1>3. r = Decide(b, now, p)
  BY DEF Tick
<1> HIDE DEF b
<1>4. /\ r.lastDecision = d /\ r.pressed = p /\ r.lastNow = now
      /\ r.trace = Traced(b, d, p)
  BY <1>2, <1>3 DEF Decide, EngineState
<1>5. Context(r, now, p) = Context(b, now, p)
  <2>1. /\ r.state = b.state /\ r.attached = b.attached /\ r.denial = b.denial
        /\ r.session = b.session /\ r.sessionState = b.sessionState
        /\ r.healthy = b.healthy
    BY <1>2, <1>3 DEF Decide, EngineState
  <2> QED BY <2>1 DEF Context, EffectiveStatus, Present, SessionBound
<1>6. Current(r)
  BY <1>4, <1>5 DEF Current
<1>7. d = "ALLOW_TX" => p
  <2>1. Context(b, now, p) \in SecurityContext /\ Context(b, now, p).pttPressed = p
    BY <1>2, ContextType DEF Context
  <2> QED BY <2>1, AllowNeedsButton
<1>8. Faithful(e) => Faithful(r)
  <2> HIDE DEF d
  <2> QED BY <1>2, <1>4, <1>7 DEF Faithful, Traced
<1> QED BY <1>6, <1>8

-----------------------------------------------------------------------------
(* The helpers that withdraw whatever was granted.                         *)

(* e withdraws to r: nothing held, memory and decision trace kept.         *)
Withdrawn(e, r) ==
  /\ r \in EngineState /\ Idle(r) /\ Current(r)
  /\ Faithful(e) => Faithful(r)
  /\ r.state = e.state
  /\ r.healthy => e.healthy

(* tick() of an engine without session or challenge leaves it without.     *)
LEMMA IdleTick ==
  ASSUME NEW e \in EngineState, NEW now \in Time, Idle(e),
         NEW r, r = Retick(e, now)
  PROVE  Withdrawn(e, r)
<1>1. e.pressed \in BOOLEAN
  BY DEF EngineState
<1> QED BY <1>1, TickType, TickFrame, TickDecides DEF Retick, Withdrawn, Idle

(* An engine invalidated and then ticked holds neither session nor         *)
(* challenge.                                                              *)
LEMMA InvalidateTick ==
  ASSUME NEW e \in EngineState, NEW now \in Time, NEW d \in Decision,
         NEW s \in SessionState, s # "ACTIVE",
         NEW r, r = Retick(Invalidate(e, d, s), now)
  PROVE  Withdrawn(e, r)
<1> DEFINE i == Invalidate(e, d, s)
<1>1. /\ i \in EngineState /\ Idle(i) /\ i.state = e.state
      /\ i.healthy = e.healthy /\ (Faithful(e) => Faithful(i))
  BY InvalidateFields DEF Idle, Faithful
<1> HIDE DEF i
<1>2. Withdrawn(i, r)
  BY <1>1, IdleTick DEF i
<1> QED BY <1>1, <1>2 DEF Withdrawn

(* deny() leaves neither session nor challenge.                            *)
LEMMA DenyWithdraws ==
  ASSUME NEW e \in EngineState, NEW now \in Time, NEW d \in Decision
  PROVE  Withdrawn(e, Deny(e, d, now))
BY InvalidateTick DEF Deny, SessionState

(* fault() leaves an unhealthy engine with neither session nor challenge.  *)
LEMMA FaultWithdraws ==
  ASSUME NEW e \in EngineState, NEW now \in Time
  PROVE  Withdrawn(e, Fault(e, now)) /\ ~Fault(e, now).healthy
<1> DEFINE f == [e EXCEPT !.healthy = FALSE]
<1>1. /\ f \in EngineState /\ f.state = e.state /\ ~f.healthy
      /\ Faithful(e) => Faithful(f)
  BY DEF EngineState, Faithful
<1>2. Withdrawn(f, Fault(e, now))
  <2> HIDE DEF f
  <2> QED BY <1>1, InvalidateTick DEF Fault, Decision, Denial, SessionState, f
<1> QED BY <1>1, <1>2 DEF Withdrawn

(* rollback() leaves neither session nor challenge.                        *)
LEMMA RollbackWithdraws ==
  ASSUME NEW e \in EngineState, NEW now \in Time
  PROVE  Withdrawn(e, Rollback(e, now))
<1> DEFINE f == [e EXCEPT !.controlFault = TRUE]
<1>1. /\ f \in EngineState /\ f.state = e.state /\ f.healthy = e.healthy
      /\ Faithful(e) => Faithful(f)
  BY DEF EngineState, Faithful
<1>2. Withdrawn(f, Rollback(e, now))
  <2> HIDE DEF f
  <2> QED BY <1>1, DenyWithdraws DEF Rollback, Decision, Denial, f
<1> QED BY <1>1, <1>2 DEF Withdrawn

(* An engine without session and challenge is safe, whatever its state.    *)
LEMMA IdleIsSafe ==
  ASSUME NEW e \in EngineState, Idle(e), OurState(e) PROVE Safe(e)
BY DEF Idle, Safe, ChallengeAlone

-----------------------------------------------------------------------------
(* The invariant and its preservation.                                     *)

SafeInv == /\ Safe(eng)
           /\ eng.hasPending => eng.pending = issued
           /\ MemoryIsDurable
           /\ eng # PoweredOn => Current(eng)
           /\ Faithful(eng)

(* A method that ends by ticking an engine e that is itself in order.      *)
LEMMA TickStep ==
  ASSUME NEW e \in EngineState, NEW now \in Time, NEW p \in BOOLEAN,
         Safe(e), Faithful(e), eng' = Tick(e, now, p),
         e.healthy => e.state = nvs', e.hasPending => e.pending = issued'
  PROVE  SafeInv'
BY TickSafe, TickFrame, TickDecides DEF SafeInv, MemoryIsDurable, Safe, Backed,
   ChallengeAlone, OurState, Current, Faithful

(* A method that ends in deny(), fault() or rollback().                    *)
LEMMA WithdrawStep ==
  ASSUME NEW e \in EngineState, Faithful(e), OurState(e), Withdrawn(e, eng'),
         eng'.healthy => e.state = nvs'
  PROVE  SafeInv'
<1>1. eng' \in EngineState /\ Idle(eng') /\ OurState(eng')
  BY DEF Withdrawn, OurState
<1>2. Safe(eng')
  BY <1>1, IdleIsSafe
<1> QED BY <1>1, <1>2 DEF Withdrawn, SafeInv, MemoryIsDurable, Safe, Backed,
           ChallengeAlone, OurState, Current, Faithful, Idle

(* What the invariant says of the current engine.                          *)
LEMMA SafeFacts ==
  ASSUME TypeOK, SafeInv
  PROVE  /\ eng \in EngineState /\ Safe(eng) /\ Faithful(eng) /\ OurState(eng)
         /\ eng.healthy => eng.state = nvs
BY DEF TypeOK, SafeInv, Safe, MemoryIsDurable

(* A failed save faults the engine, whatever reached the flash.            *)
LEMMA SaveFailsStep ==
  ASSUME NEW e \in EngineState, Faithful(e), OurState(e), NEW now \in Time,
         NEW new, SaveFails(e, new, now)
  PROVE  SafeInv'
BY FaultWithdraws, WithdrawStep DEF SaveFails

(* A method that ends in fault() keeps the invariant.                      *)
LEMMA FaultStep ==
  ASSUME TypeOK, SafeInv, NEW now \in Time, eng' = Fault(eng, now)
  PROVE  SafeInv'
BY SafeFacts, FaultWithdraws, WithdrawStep

(* A method that ends in rollback() keeps the invariant.                   *)
LEMMA RollbackStep ==
  ASSUME TypeOK, SafeInv, NEW now \in Time, eng' = Rollback(eng, now), nvs' = nvs
  PROVE  SafeInv'
<1>1. Withdrawn(eng, eng')
  BY SafeFacts, RollbackWithdraws
<1>2. eng'.healthy => eng.state = nvs'
  BY <1>1, SafeFacts DEF Withdrawn
<1> QED BY <1>1, <1>2, SafeFacts, WithdrawStep

(* begin() and recover() keep the invariant: no session is restored.       *)
LEMMA RecoverStep ==
  ASSUME TypeOK, SafeInv, NEW now \in Time, Recover(now) PROVE SafeInv'
<1> DEFINE e == [eng EXCEPT !.state = nvs, !.healthy = TRUE,
                            !.controlFault = FALSE, !.lastNow = now]
<1>1. CASE Loadable(nvs) /\ eng' = Retick(RequireReauthentication(e), now)
  <2>1. /\ e \in EngineState /\ e.state = nvs /\ Faithful(e)
        /\ e.state.deviceId = "this"
    BY <1>1, SafeFacts DEF TypeOK, EngineState, Faithful, Loadable
  <2> HIDE DEF e
  <2>2. Withdrawn(e, eng')
    BY <1>1, <2>1, InvalidateTick
       DEF RequireReauthentication, Decision, Denial, SessionState
  <2> QED BY <2>1, <2>2, WithdrawStep DEF Recover, EngineOnly, OurState
<1>2. CASE eng' = Fault(eng, now)
  BY <1>2, FaultStep
<1> QED BY <1>1, <1>2 DEF Recover

(* detach() keeps the invariant.                                           *)
LEMMA DetachStep ==
  ASSUME TypeOK, SafeInv, NEW now \in Time, Detach(now) PROVE SafeInv'
<1> DEFINE i == Invalidate(eng, "DENY_NO_CREDENTIAL", "NONE")
           e == [i EXCEPT !.attached = NoId]
<1>1. /\ i \in EngineState /\ Idle(i) /\ i.state = eng.state
      /\ i.healthy = eng.healthy /\ Faithful(i)
  BY SafeFacts, InvalidateFields
     DEF Idle, Faithful, Decision, Denial, SessionState
<1>2. /\ e \in EngineState /\ Idle(e) /\ e.state = eng.state
      /\ e.healthy = eng.healthy /\ Faithful(e)
  <2> HIDE DEF i
  <2> QED BY <1>1 DEF EngineState, Idle, Faithful
<1>3. eng' = Retick(e, now) /\ nvs' = nvs
  BY DEF Detach, EngineOnly
<1> HIDE DEF e
<1>4. Withdrawn(e, eng')
  BY <1>2, <1>3, IdleTick
<1>5. OurState(e) /\ (eng'.healthy => e.state = nvs')
  BY <1>2, <1>3, <1>4, SafeFacts DEF OurState, Withdrawn
<1> QED BY <1>2, <1>4, <1>5, WithdrawStep

(* A new challenge replaces session and challenge and is the newest        *)
(* issued.                                                                 *)
LEMMA IssueChallengeStep ==
  ASSUME TypeOK, SafeInv, NEW now \in Time, NEW e \in EngineState, Faithful(e),
         e.healthy, ~e.controlFault, e.state.deviceStatus = "Active",
         OurState(e), e.state = nvs, IssueChallenge(e, now)
  PROVE  SafeInv'
<1> DEFINE t == RequireReauthentication(e)
           deadline == now + e.state.policy.challengeTimeout
           c == [t EXCEPT !.pending = issued + 1, !.hasPending = TRUE,
                          !.challengeDeadline = deadline]
<1>1. /\ t \in EngineState /\ t.sessionState = "NONE" /\ t.state = e.state
      /\ t.healthy = e.healthy /\ t.controlFault = e.controlFault
      /\ t.trace = e.trace /\ t.lastDecision = e.lastDecision
  BY ReauthenticationFields
<1>2. deadline \in Time /\ issued + 1 \in Nat
  BY ConstantTypes
     DEF IssueChallenge, Time, EngineState, PersistentState, Policy, TypeOK
<1>3. /\ eng' = Retick(c, now) /\ issued' = issued + 1 /\ nvs' = nvs
  BY DEF IssueChallenge
<1> HIDE DEF t, deadline
<1>4. /\ c \in EngineState /\ c.sessionState = "NONE" /\ c.state = e.state
      /\ c.healthy = e.healthy /\ c.controlFault = e.controlFault
      /\ c.pending = issued + 1 /\ c.pressed \in BOOLEAN /\ Faithful(c)
  BY <1>1, <1>2 DEF EngineState, Faithful
<1> HIDE DEF c
<1>5. Safe(c)
  BY <1>4 DEF Safe, ChallengeAlone, OurState
<1> QED BY <1>3, <1>4, <1>5, TickStep DEF Retick

(* The tick at the head of a protocol method keeps the engine in order.    *)
LEMMA RetickFacts ==
  ASSUME TypeOK, SafeInv, NEW now \in Time, NEW t, t = Retick(eng, now)
  PROVE  /\ t \in EngineState /\ Safe(t) /\ Faithful(t) /\ OurState(t)
         /\ Current(t) /\ t.lastNow = now
         /\ t.healthy => t.state = nvs
         /\ t.hasPending => t.pending = issued
<1>1. eng.pressed \in BOOLEAN
  BY SafeFacts DEF EngineState
<1> QED BY <1>1, SafeFacts, TickType, TickSafe, TickFrame, TickDecides
        DEF Retick, Safe, SafeInv

(* beginChallenge() keeps the invariant.                                   *)
LEMMA BeginChallengeStep ==
  ASSUME TypeOK, SafeInv, NEW now \in Time, BeginChallenge(now)
  PROVE  SafeInv'
<1> DEFINE t == Retick(eng, now)
           refused == \/ ~t.healthy \/ t.controlFault
                      \/ t.state.deviceStatus # "Active"
<1>1. CASE refused /\ eng' = t /\ EngineOnly
  BY <1>1, SafeFacts, TickStep DEF Retick, EngineOnly, EngineState, SafeInv
<1>2. CASE ~refused /\ IssueChallenge(t, now)
  BY <1>2, RetickFacts, IssueChallengeStep
<1>3. CASE eng' = Fault(RequireReauthentication(t), now) /\ EngineOnly
  <2> DEFINE i == RequireReauthentication(t)
  <2>1. /\ i \in EngineState /\ i.healthy = t.healthy /\ i.state = t.state
        /\ i.trace = t.trace /\ i.lastDecision = t.lastDecision
    BY RetickFacts, ReauthenticationFields
  <2>2. Faithful(i) /\ OurState(i)
    BY <2>1, RetickFacts DEF Faithful, OurState
  <2> HIDE DEF i
  <2> QED BY <1>3, <2>1, <2>2, FaultWithdraws, WithdrawStep DEF i
<1> QED BY <1>1, <1>2, <1>3 DEF BeginChallenge

(* What a valid verdict says of the credential.                            *)
LEMMA ValidVerdict ==
  ASSUME NEW e \in EngineState, NEW r, Verdict(e, r) = "valid"
  PROVE  LET c == r.credentialId
         IN  /\ Known(e.state, c) /\ ~Revoked(e.state, c) /\ Bound(e.state, c)
             /\ e.state.credentials[c].status = "Active"
             /\ r.nonce = e.pending
             /\ r.counter # e.state.credentials[c].counter
             /\ ~(r.counter < e.state.credentials[c].counter)
BY DEF Verdict

(* The records after one credential's counter is raised, as AcceptResponse *)
(* writes them.                                                            *)
WithCounter(s, c, n) == [s EXCEPT !.credentials[c].counter = n]

(* The records t differ from s in the counter n of c only.                 *)
OnlyCounter(s, t, c, n) ==
  /\ t \in PersistentState
  /\ t.deviceId = s.deviceId /\ t.policy = s.policy
  /\ t.deviceStatus = s.deviceStatus /\ t.revoked = s.revoked
  /\ t.crl = s.crl
  /\ t.credentials[c].counter = n
  /\ t.credentials[c].status = s.credentials[c].status
  /\ t.credentials[c].bound = s.credentials[c].bound
  /\ t.credentials[c].metadataVersion = s.credentials[c].metadataVersion
  /\ \A d \in Credentials \ {c} : t.credentials[d] = s.credentials[d]

(* Raising a counter changes nothing a session rests on.                   *)
LEMMA CounterOnly ==
  ASSUME NEW s \in PersistentState, NEW c \in Credentials, NEW n \in Nat,
         NEW t, t = WithCounter(s, c, n)
  PROVE  OnlyCounter(s, t, c, n)
<1>1. s.credentials[c] \in Metadata
  BY DEF PersistentState
<1> DEFINE m == [s.credentials[c] EXCEPT !.counter = n]
<1>2. /\ m.counter = n /\ m.status = s.credentials[c].status
      /\ m.bound = s.credentials[c].bound
      /\ m.metadataVersion = s.credentials[c].metadataVersion
  BY <1>1 DEF Metadata
<1>3. t = [s EXCEPT !.credentials = [s.credentials EXCEPT ![c] = m]]
  BY DEF WithCounter
<1> HIDE DEF m
<1>4. t \in PersistentState
  BY CounterReplaced DEF WithCounter
<1>5. /\ t.deviceId = s.deviceId /\ t.policy = s.policy
      /\ t.deviceStatus = s.deviceStatus /\ t.revoked = s.revoked
      /\ t.crl = s.crl /\ t.credentials[c] = m
      /\ \A d \in Credentials \ {c} : t.credentials[d] = s.credentials[d]
  BY <1>3 DEF PersistentState
<1> QED BY <1>2, <1>4, <1>5 DEF OnlyCounter

(* A session opened on a valid verdict is backed from its first moment.    *)
LEMMA OpenedIsBacked ==
  ASSUME NEW e \in EngineState, NEW now \in Time,
         e.healthy, ~e.controlFault, ~e.hasPending, e.lastNow = now,
         e.state.deviceId = "this", e.state.deviceStatus = "Active",
         e.state.policy.mode # "REVOKED", e.state.policy.sessionTimeout # 0,
         e.attached \in Credentials, e.attached # NoId,
         Known(e.state, e.attached), ~Revoked(e.state, e.attached),
         Bound(e.state, e.attached),
         e.state.credentials[e.attached].status = "Active",
         now <= TimeMax - e.state.policy.sessionTimeout, Faithful(e),
         NEW o, o = OpenSession(e, now)
  PROVE  /\ o \in EngineState /\ Safe(o) /\ Faithful(o) /\ ~o.hasPending
         /\ o.state = e.state /\ o.pressed = e.pressed
<1>1. o \in EngineState
  BY OpenSessionType
<1>2. /\ o.state = e.state /\ o.pressed = e.pressed /\ o.attached = e.attached
      /\ o.healthy /\ ~o.controlFault /\ ~o.hasPending /\ o.lastNow = now
      /\ o.sessionState = "ACTIVE"
      /\ o.trace = e.trace /\ o.lastDecision = e.lastDecision
      /\ o.session.credentialId = e.attached
      /\ o.session.operatorId = e.state.credentials[e.attached].operatorId
      /\ o.session.createdAt = now
      /\ o.session.expiresAt = now + e.state.policy.sessionTimeout
      /\ o.session.policyVersion = e.state.policy.version
  BY DEF OpenSession, EngineState
<1>3. now < now + e.state.policy.sessionTimeout /\ now <= now
  BY TimeIsNat DEF EngineState, PersistentState, Policy
<1>4. Backed(o)
  BY <1>2, <1>3 DEF Backed, SessionBound, Present, Known, Revoked, Bound
<1> QED BY <1>1, <1>2, <1>4 DEF Safe, ChallengeAlone, OurState, Faithful

(* The last part of validateResponse() keeps the invariant: the counter is *)
(* durable before the session exists.                                      *)
LEMMA AcceptResponseStep ==
  ASSUME TypeOK, SafeInv, NEW now \in Time, NEW e \in EngineState, NEW r,
         r.counter \in Nat, r.credentialId = e.attached, e.attached # NoId,
         e.healthy, ~e.controlFault, ~e.hasPending, e.lastNow = now,
         e.state.deviceStatus = "Active", e.state.policy.mode # "REVOKED",
         OurState(e), Faithful(e), Verdict(e, r) = "valid",
         AcceptResponse(e, r.counter, now)
  PROVE  SafeInv'
<1> DEFINE new   == [e.state EXCEPT !.credentials[e.attached].counter = r.counter]
           saved == [e EXCEPT !.state = new]
<1>1. e.attached \in Credentials /\ e.state \in PersistentState
  BY DEF EngineState
<1>2. /\ new \in PersistentState
      /\ new.deviceId = e.state.deviceId /\ new.policy = e.state.policy
      /\ new.deviceStatus = e.state.deviceStatus
      /\ new.revoked = e.state.revoked
      /\ new.credentials[e.attached].status
           = e.state.credentials[e.attached].status
      /\ new.credentials[e.attached].bound
           = e.state.credentials[e.attached].bound
      /\ new.credentials[e.attached].metadataVersion
           = e.state.credentials[e.attached].metadataVersion
  <2>1. new = WithCounter(e.state, e.attached, r.counter)
    BY DEF WithCounter
  <2> HIDE DEF new
  <2>2. OnlyCounter(e.state, new, e.attached, r.counter)
    BY <1>1, <2>1, CounterOnly
  <2> QED BY <2>2 DEF OnlyCounter
<1> HIDE DEF new
<1>3. /\ saved \in EngineState /\ saved.state = new
      /\ saved.attached = e.attached /\ saved.healthy /\ ~saved.controlFault
      /\ ~saved.hasPending /\ saved.lastNow = now
      /\ saved.pressed \in BOOLEAN /\ Faithful(saved)
  BY <1>2, StateReplaced DEF EngineState, Faithful
<1> HIDE DEF saved
<1>4. OurState(saved)
  BY <1>2, <1>3 DEF OurState
<1>5. CASE SaveFails(e, new, now)
  BY <1>5, SaveFailsStep
<1>6. CASE Saves(new) /\ eng' = Fault(saved, now)
  BY <1>3, <1>4, <1>6, FaultWithdraws, WithdrawStep
<1>7. CASE /\ Saves(new)
           /\ now <= TimeMax - new.policy.sessionTimeout
           /\ eng' = Retick(OpenSession(saved, now), now)
  <2> DEFINE o == OpenSession(saved, now)
  <2>1. new.policy.sessionTimeout # 0 /\ nvs' = new
    BY <1>7 DEF Saves, Decodable, ValidPolicy
  <2>2. /\ Known(new, e.attached) /\ ~Revoked(new, e.attached)
        /\ Bound(new, e.attached)
        /\ new.credentials[e.attached].status = "Active"
        /\ new.deviceId = "this"
    <3>1. /\ Known(e.state, e.attached) /\ ~Revoked(e.state, e.attached)
          /\ Bound(e.state, e.attached)
          /\ e.state.credentials[e.attached].status = "Active"
      BY ValidVerdict
    <3>2. new.deviceId = "this"
      BY <1>2 DEF OurState
    <3> QED BY <1>2, <3>1, <3>2 DEF Known, Revoked, Bound
  <2>3. /\ o \in EngineState /\ Safe(o) /\ Faithful(o) /\ ~o.hasPending
        /\ o.state = new /\ o.pressed = saved.pressed
    <3>1. /\ saved.state.deviceId = "this"
          /\ saved.state.deviceStatus = "Active"
          /\ saved.state.policy.mode # "REVOKED"
          /\ saved.state.policy.sessionTimeout # 0
          /\ saved.attached \in Credentials /\ saved.attached # NoId
          /\ Known(saved.state, saved.attached)
          /\ ~Revoked(saved.state, saved.attached)
          /\ Bound(saved.state, saved.attached)
          /\ saved.state.credentials[saved.attached].status = "Active"
          /\ now <= TimeMax - saved.state.policy.sessionTimeout
      BY <1>1, <1>2, <1>3, <1>7, <2>1, <2>2
    <3>2. o = OpenSession(saved, now)
      OBVIOUS
    <3> HIDE DEF o
    <3>3. /\ o \in EngineState /\ Safe(o) /\ Faithful(o) /\ ~o.hasPending
          /\ o.state = saved.state /\ o.pressed = saved.pressed
      BY <1>3, <3>1, <3>2, OpenedIsBacked
    <3> QED BY <1>3, <3>3
  <2> HIDE DEF o
  <2>4. eng' = Tick(o, now, o.pressed)
    BY <1>7 DEF Retick, o
  <2> QED BY <1>3, <2>1, <2>3, <2>4, TickStep
<1> QED BY <1>5, <1>6, <1>7 DEF AcceptResponse, new, saved

(* validateResponse() keeps the invariant.                                 *)
LEMMA ValidateResponseStep ==
  ASSUME TypeOK, SafeInv, NEW now \in Time, NEW r, r.counter \in Nat,
         r.credentialId \in Credentials \cup {NoId}, ValidateResponse(r, now)
  PROVE  SafeInv'
<1> DEFINE t        == Retick(eng, now)
           consumed == [t EXCEPT !.hasPending = FALSE]
           named    == [consumed EXCEPT !.attached = r.credentialId]
<1>1. /\ t \in EngineState /\ Safe(t) /\ Faithful(t) /\ OurState(t)
      /\ Current(t) /\ t.lastNow = now /\ (t.healthy => t.state = nvs)
  BY RetickFacts
<1> HIDE DEF t
<1>2. /\ consumed \in EngineState /\ consumed.state = t.state
      /\ consumed.healthy = t.healthy /\ consumed.attached = t.attached
      /\ consumed.controlFault = t.controlFault /\ ~consumed.hasPending
      /\ consumed.session = t.session /\ consumed.denial = t.denial
      /\ consumed.sessionState = t.sessionState
      /\ consumed.lastNow = t.lastNow /\ consumed.pressed = t.pressed
      /\ consumed.lastDecision = t.lastDecision /\ consumed.trace = t.trace
  BY <1>1 DEF EngineState
<1> HIDE DEF consumed
<1>3. /\ named \in EngineState /\ named.state = t.state
      /\ named.healthy = t.healthy /\ named.controlFault = t.controlFault
      /\ ~named.hasPending /\ named.lastNow = now
      /\ named.attached = r.credentialId
      /\ named.lastDecision = t.lastDecision /\ named.trace = t.trace
  BY <1>1, <1>2 DEF EngineState
<1> HIDE DEF named
<1>4. /\ Faithful(consumed) /\ Faithful(named)
      /\ OurState(consumed) /\ OurState(named)
  BY <1>1, <1>2, <1>3 DEF Faithful, OurState
<1>5. CASE EngineOnly /\ eng' = consumed
  <2>1. Context(consumed, now, t.pressed) = Context(t, now, t.pressed)
    BY <1>2 DEF Context, EffectiveStatus, Present, SessionBound
  <2>2. Current(consumed)
    BY <1>1, <1>2, <2>1 DEF Current
  <2>3. Safe(consumed)
    BY <1>1, <1>2
       DEF Safe, ChallengeAlone, OurState, Backed, SessionBound, Present
  <2> QED BY <1>1, <1>2, <1>4, <1>5, <2>2, <2>3
          DEF SafeInv, MemoryIsDurable, EngineOnly
<1>6. CASE EngineOnly /\ eng' = Fault(named, now)
  BY <1>3, <1>4, <1>6, FaultWithdraws, WithdrawStep
<1>7. CASE /\ EngineOnly /\ Admission(t, r, now) \in Denial
           /\ eng' = Deny(consumed, Admission(t, r, now), now)
  <2>1. Withdrawn(consumed, eng')
    BY <1>2, <1>7, DenyWithdraws DEF Decision
  <2>2. eng'.healthy => consumed.state = nvs'
    BY <1>1, <1>2, <1>7, <2>1 DEF Withdrawn, EngineOnly
  <2> QED BY <1>2, <1>4, <2>1, <2>2, WithdrawStep
<1>8. CASE /\ EngineOnly /\ Verdict(named, r) \in Denial
           /\ eng' = Deny(named, Verdict(named, r), now)
  <2>1. Withdrawn(named, eng')
    BY <1>3, <1>8, DenyWithdraws DEF Decision
  <2>2. eng'.healthy => named.state = nvs'
    BY <1>1, <1>3, <1>8, <2>1 DEF Withdrawn, EngineOnly
  <2> QED BY <1>3, <1>4, <2>1, <2>2, WithdrawStep
<1>9. CASE /\ Admission(t, r, now) = "admitted"
           /\ Verdict(named, r) = "valid"
           /\ AcceptResponse(named, r.counter, now)
  <2>1. /\ t.healthy /\ ~t.controlFault /\ t.state.deviceStatus = "Active"
        /\ t.state.policy.mode # "REVOKED" /\ r.credentialId # NoId
    BY <1>1, <1>9 DEF Admission, EngineState
  <2> QED BY <1>3, <1>4, <1>9, <2>1, AcceptResponseStep
<1> QED BY <1>5, <1>6, <1>7, <1>8, <1>9
        DEF ValidateResponse, t, consumed, named

-----------------------------------------------------------------------------
(* Administrative updates.                                                 *)

(* A saved update whose engine ticks in a state that is idle or still safe.*)
LEMMA SavedStep ==
  ASSUME NEW e \in EngineState, NEW now \in Time, Safe(e), Faithful(e),
         e.state = nvs', e.hasPending => e.pending = issued',
         eng' = Retick(e, now)
  PROVE  SafeInv'
<1>1. e.pressed \in BOOLEAN
  BY DEF EngineState
<1> QED BY <1>1, TickStep DEF Retick

(* Replacing the state record keeps what else is known of an engine.       *)
LEMMA ReplacedFields ==
  ASSUME NEW e \in EngineState, NEW s \in PersistentState,
         NEW r, r = [e EXCEPT !.state = s]
  PROVE  /\ r \in EngineState /\ r.state = s
         /\ r.attached = e.attached /\ r.session = e.session
         /\ r.sessionState = e.sessionState /\ r.hasPending = e.hasPending
         /\ r.pending = e.pending /\ r.healthy = e.healthy
         /\ r.controlFault = e.controlFault /\ r.lastNow = e.lastNow
         /\ Faithful(e) => Faithful(r)
         /\ OurState(e) /\ s.deviceId = e.state.deviceId => OurState(r)
BY DEF EngineState, Faithful, OurState

(* A saved update that asks for a new authentication keeps the invariant.  *)
LEMMA ReauthenticatedStep ==
  ASSUME NEW e \in EngineState, NEW now \in Time, Faithful(e), OurState(e),
         e.state = nvs', eng' = Retick(RequireReauthentication(e), now)
  PROVE  SafeInv'
<1> DEFINE i == RequireReauthentication(e)
<1>1. /\ i \in EngineState /\ Idle(i) /\ i.state = e.state
      /\ Faithful(i) /\ OurState(i)
  BY ReauthenticationFields DEF Idle, Faithful, OurState
<1>2. Safe(i) /\ ~i.hasPending
  BY <1>1, IdleIsSafe DEF Idle
<1> HIDE DEF i
<1> QED BY <1>1, <1>2, SavedStep DEF i

(* updatePolicy() keeps the invariant.                                     *)
LEMMA UpdatePolicyStep ==
  ASSUME TypeOK, SafeInv, NEW now \in Time, NEW p \in Policies,
         UpdatePolicy(p, now)
  PROVE  SafeInv'
<1> DEFINE new   == [eng.state EXCEPT !.policy = p]
           saved == [eng EXCEPT !.state = new]
<1>1. eng \in EngineState /\ p \in Policy /\ eng.state \in PersistentState
  BY ConstantTypes DEF TypeOK, EngineState
<1>2. new \in PersistentState /\ new.deviceId = eng.state.deviceId
  BY <1>1 DEF PersistentState
<1> HIDE DEF new
<1>3. /\ saved \in EngineState /\ saved.state = new
      /\ Faithful(saved) /\ OurState(saved)
  BY <1>1, <1>2, SafeFacts, ReplacedFields
<1> HIDE DEF saved
<1>4. CASE EngineOnly /\ (eng' = Fault(eng, now) \/ eng' = Rollback(eng, now))
  BY <1>4, FaultStep, RollbackStep DEF EngineOnly
<1>5. CASE SaveFails(eng, new, now)
  BY <1>5, SafeFacts, SaveFailsStep
<1>6. CASE Saves(new) /\ eng' = Retick(RequireReauthentication(saved), now)
  BY <1>3, <1>6, ReauthenticatedStep DEF Saves
<1> QED BY <1>4, <1>5, <1>6 DEF UpdatePolicy, SavePolicy, new, saved

(* New metadata ends the session of the attached credential, and no other. *)
LEMMA SaveMetadataStep ==
  ASSUME TypeOK, SafeInv, NEW now \in Time, NEW c \in Credentials,
         NEW m \in Metadata, SaveMetadata(c, m, now)
  PROVE  SafeInv'
<1> DEFINE new   == [eng.state EXCEPT !.credentials[c] = Merged(@, m)]
           saved == [eng EXCEPT !.state = new]
<1>1. eng \in EngineState /\ eng.state \in PersistentState
  BY DEF TypeOK, EngineState
<1>2. /\ new \in PersistentState /\ new.deviceId = eng.state.deviceId
      /\ new.policy = eng.state.policy
      /\ new.deviceStatus = eng.state.deviceStatus
      /\ new.revoked = eng.state.revoked
      /\ \A d \in Credentials \ {c} :
           new.credentials[d] = eng.state.credentials[d]
  <2>1. Merged(eng.state.credentials[c], m) \in Metadata
    BY <1>1, MergedType DEF PersistentState
  <2> QED BY <1>1, <2>1 DEF PersistentState
<1> HIDE DEF new
<1>3. /\ saved \in EngineState /\ saved.state = new
      /\ Faithful(saved) /\ OurState(saved)
      /\ saved.attached = eng.attached /\ saved.session = eng.session
      /\ saved.sessionState = eng.sessionState
      /\ saved.hasPending = eng.hasPending /\ saved.pending = eng.pending
      /\ saved.healthy = eng.healthy /\ saved.controlFault = eng.controlFault
      /\ saved.lastNow = eng.lastNow
  BY <1>1, <1>2, SafeFacts, ReplacedFields
<1> HIDE DEF saved
<1>4. CASE SaveFails(eng, new, now)
  BY <1>4, SafeFacts, SaveFailsStep
<1>5. CASE /\ Saves(new) /\ eng.attached = c
           /\ eng' = Retick(RequireReauthentication(saved), now)
  BY <1>3, <1>5, ReauthenticatedStep DEF Saves
<1>6. CASE Saves(new) /\ eng.attached # c /\ eng' = Retick(saved, now)
  <2>1. eng.attached # NoId =>
          new.credentials[eng.attached] = eng.state.credentials[eng.attached]
    BY <1>1, <1>2, <1>6 DEF EngineState
  <2>2. eng.sessionState = "ACTIVE" => Backed(eng)
    BY SafeFacts DEF Safe
  <2>3. saved.sessionState = "ACTIVE" => Backed(saved)
    BY <1>2, <1>3, <2>1, <2>2
       DEF Backed, SessionBound, Present, Known, Revoked, Bound
  <2>4. Safe(saved)
    <3>1. ChallengeAlone(eng)
      BY SafeFacts DEF Safe
    <3>2. ChallengeAlone(saved)
      BY <1>2, <1>3, <3>1 DEF ChallengeAlone
    <3> QED BY <1>3, <2>3, <3>2 DEF Safe
  <2>5. eng.hasPending => eng.pending = issued
    BY DEF SafeInv
  <2> QED BY <1>3, <1>6, <2>4, <2>5, SavedStep DEF Saves
<1> QED BY <1>4, <1>5, <1>6 DEF SaveMetadata, new, saved

(* updateCredential() keeps the invariant.                                 *)
LEMMA UpdateCredentialStep ==
  ASSUME TypeOK, SafeInv, NEW now \in Time, NEW u \in MetadataUpdates,
         UpdateCredential(u[1], u[2], now)
  PROVE  SafeInv'
<1>1. u[1] \in Credentials /\ u[2] \in Metadata
  BY ConstantTypes
<1>2. CASE EngineOnly /\ (eng' = Fault(eng, now) \/ eng' = Rollback(eng, now))
  BY <1>2, FaultStep, RollbackStep DEF EngineOnly
<1> QED BY <1>1, <1>2, SaveMetadataStep DEF UpdateCredential

(* A stored list ends the session of a credential it names, and every      *)
(* challenge.                                                              *)
LEMMA SaveRevocationListStep ==
  ASSUME TypeOK, SafeInv, NEW now \in Time, NEW l \in RevocationList,
         SaveRevocationList(l, now)
  PROVE  SafeInv'
<1> DEFINE new == [eng.state EXCEPT !.crl = l, !.revoked = @ \cup l.entries]
           e   == [eng EXCEPT !.state = new, !.hasPending = FALSE]
<1>1. eng \in EngineState /\ eng.state \in PersistentState
  BY DEF TypeOK, EngineState
<1>2. /\ new \in PersistentState /\ new.deviceId = eng.state.deviceId
      /\ new.policy = eng.state.policy
      /\ new.deviceStatus = eng.state.deviceStatus
      /\ new.credentials = eng.state.credentials
  BY <1>1 DEF PersistentState, RevocationList
<1> HIDE DEF new
<1>3. /\ e \in EngineState /\ e.state = new /\ ~e.hasPending
      /\ Faithful(e) /\ OurState(e)
      /\ e.attached = eng.attached /\ e.session = eng.session
      /\ e.sessionState = eng.sessionState
      /\ e.healthy = eng.healthy /\ e.controlFault = eng.controlFault
      /\ e.lastNow = eng.lastNow
  BY <1>1, <1>2, SafeFacts DEF EngineState, Faithful, OurState
<1> HIDE DEF e
<1>4. CASE SaveFails(eng, new, now)
  BY <1>4, SafeFacts, SaveFailsStep
<1>5. CASE Saves(new) /\ eng' = EnforceRevocation(e, now)
  <2>1. CASE Present(e) /\ Revoked(e.state, e.attached)
    <3> DEFINE d == Deny(e, "DENY_CREDENTIAL_REVOKED", now)
    <3>1. d \in EngineState /\ Withdrawn(e, d)
      BY <1>3, DenyWithdraws DEF Withdrawn, Decision, Denial
    <3> HIDE DEF d
    <3>2. Idle(d) /\ Faithful(d) /\ OurState(d) /\ d.state = new
      BY <1>3, <3>1 DEF Withdrawn, OurState
    <3>3. Safe(d) /\ ~d.hasPending
      BY <3>1, <3>2, IdleIsSafe DEF Idle
    <3>4. eng' = Retick(d, now)
      BY <1>5, <2>1 DEF EnforceRevocation, d
    <3> QED BY <1>5, <3>1, <3>2, <3>3, <3>4, SavedStep DEF Saves
  <2>2. CASE ~(Present(e) /\ Revoked(e.state, e.attached))
    <3>1. eng.sessionState = "ACTIVE" => Backed(eng)
      BY SafeFacts DEF Safe
    <3>2. e.sessionState = "ACTIVE" => Backed(e)
      BY <1>2, <1>3, <2>2, <3>1
         DEF Backed, SessionBound, Present, Known, Revoked, Bound
    <3>3. Safe(e)
      BY <1>3, <3>2 DEF Safe, ChallengeAlone
    <3> QED BY <1>3, <1>5, <2>2, <3>3, SavedStep DEF Saves, EnforceRevocation
  <2> QED BY <2>1, <2>2
<1> QED BY <1>4, <1>5 DEF SaveRevocationList, new, e

(* applyRevocationList() keeps the invariant.                              *)
LEMMA ApplyRevocationListStep ==
  ASSUME TypeOK, SafeInv, NEW now \in Time, NEW l \in RevocationLists,
         ApplyRevocationList(l, now)
  PROVE  SafeInv'
<1>1. l \in RevocationList
  BY ConstantTypes
<1>2. CASE EngineOnly /\ (eng' = Fault(eng, now) \/ eng' = Rollback(eng, now))
  BY <1>2, FaultStep, RollbackStep DEF EngineOnly
<1> QED BY <1>1, <1>2, SaveRevocationListStep DEF ApplyRevocationList

(* setDeviceStatus() keeps the invariant.                                  *)
LEMMA SetDeviceStatusStep ==
  ASSUME TypeOK, SafeInv, NEW now \in Time, NEW status,
         SetDeviceStatus(status, now)
  PROVE  SafeInv'
<1> DEFINE new   == [eng.state EXCEPT !.deviceStatus = status]
           saved == [eng EXCEPT !.state = new]
<1>1. CASE eng' = Fault(eng, now)
  BY <1>1, FaultStep
<1>2. CASE SaveFails(eng, new, now)
  BY <1>2, SafeFacts, SaveFailsStep
<1>3. CASE status \in Status /\ Saves(new)
  <2>1. eng \in EngineState /\ eng.state \in PersistentState
    BY DEF TypeOK, EngineState
  <2>2. new \in PersistentState /\ new.deviceId = eng.state.deviceId
    BY <1>3, <2>1 DEF PersistentState
  <2>3. nvs' = new
    BY <1>3 DEF Saves
  <2> HIDE DEF new
  <2>4. /\ saved \in EngineState /\ saved.state = new
        /\ Faithful(saved) /\ OurState(saved)
    BY <2>1, <2>2, SafeFacts, ReplacedFields
  <2> HIDE DEF saved
  <2>5. CASE eng' = Retick(RequireReauthentication(saved), now)
    BY <2>3, <2>4, <2>5, ReauthenticatedStep
  <2>6. CASE eng' = Retick(Invalidate(saved, "DENY_DEVICE_REVOKED", "REVOKED"),
                           now)
    <3>1. Withdrawn(saved, eng')
      BY <2>4, <2>6, InvalidateTick DEF Decision, Denial, SessionState
    <3> QED BY <2>3, <2>4, <3>1, WithdrawStep
  <2> QED BY <1>1, <1>2, <1>3, <2>5, <2>6 DEF SetDeviceStatus, new, saved
<1> QED BY <1>1, <1>2, <1>3 DEF SetDeviceStatus

(* The engine as constructed satisfies the invariant.                      *)
LEMMA SafeInit == Init => SafeInv
BY DEF Init, SafeInv, PoweredOn, Safe, ChallengeAlone, OurState,
       MemoryIsDurable, Faithful

(* Every step keeps the invariant, one method at a time.                   *)
LEMMA SafeNext == TypeOK /\ SafeInv /\ [Next]_vars => SafeInv'
<1> SUFFICES ASSUME TypeOK, SafeInv, [Next]_vars PROVE SafeInv'
  OBVIOUS
<1>1. CASE UNCHANGED vars
  BY <1>1 DEF vars, SafeInv, MemoryIsDurable
<1>2. CASE PowerCycle
  BY <1>2 DEF PowerCycle, EngineOnly, SafeInv, PoweredOn, Safe, ChallengeAlone,
              OurState, MemoryIsDurable, Faithful
<1>3. ASSUME NEW now \in Time, Calls(now) PROVE SafeInv'
  <2>1. CASE Recover(now)
    BY <2>1, RecoverStep
  <2>2. CASE \E pressed \in BOOLEAN : Service(now, pressed)
    BY <2>2, SafeFacts, TickStep DEF Service, EngineOnly, SafeInv
  <2>3. CASE ReportFault(now)
    BY <2>3, FaultStep DEF ReportFault
  <2>4. CASE Detach(now)
    BY <2>4, DetachStep
  <2>5. CASE BeginChallenge(now)
    BY <2>5, BeginChallengeStep
  <2>6. CASE \E a \in Answers, n \in 0..issued :
               ValidateResponse(Challenged(a, n), now)
    BY <2>6, ChallengedType, ValidateResponseStep
  <2>7. CASE \E p \in Policies : UpdatePolicy(p, now)
    BY <2>7, UpdatePolicyStep
  <2>8. CASE \E u \in MetadataUpdates : UpdateCredential(u[1], u[2], now)
    BY <2>8, UpdateCredentialStep
  <2>9. CASE \E l \in RevocationLists : ApplyRevocationList(l, now)
    BY <2>9, ApplyRevocationListStep
  <2>10. CASE \E s1 \in Status \cup {OutOfRange} : SetDeviceStatus(s1, now)
    BY <2>10, SetDeviceStatusStep
  <2> QED BY <1>3, <2>1, <2>2, <2>3, <2>4, <2>5, <2>6, <2>7, <2>8, <2>9, <2>10
          DEF Calls
<1> QED BY <1>1, <1>2, <1>3 DEF Next

(* The inductive invariant holds in every reachable state.                 *)
LEMMA SafeAlways == Spec => [](TypeOK /\ SafeInv)
<1>1. TypeOK /\ SafeInv /\ [Next]_vars => (TypeOK /\ SafeInv)'
  BY NextType, SafeNext
<1> QED BY <1>1, InitType, SafeInit, PTL DEF Spec

(* A current decision lets nobody transmit but the owner of a session.     *)
LEMMA GrantFollows ==
  ASSUME NEW e \in EngineState, e # PoweredOn => Current(e)
  PROVE  /\ e.lastDecision = "ALLOW_TX" =>
              /\ e.sessionState = "ACTIVE" /\ e.pressed
              /\ e.state.policy.mode = "NORMAL"
         /\ e.lastDecision = "ALLOW_EMERGENCY_ONLY" =>
              /\ e.healthy /\ e.pressed
              /\ e.state.deviceStatus = "Active"
              /\ e.state.policy.mode = "DEGRADED"
              /\ e.state.policy.emergencyEnabled
<1>1. CASE e = PoweredOn
  BY <1>1 DEF PoweredOn
<1>2. CASE e # PoweredOn
  <2> DEFINE c == Context(e, e.lastNow, e.pressed)
  <2>1. /\ c \in SecurityContext /\ c.systemHealthy = e.healthy
        /\ c.pttPressed = e.pressed /\ c.sessionState = e.sessionState
        /\ c.mode = e.state.policy.mode
        /\ c.deviceStatus = e.state.deviceStatus
        /\ c.emergencyEnabled = e.state.policy.emergencyEnabled
    <3>1. e.lastNow \in Time /\ e.pressed \in BOOLEAN
      BY DEF EngineState
    <3> QED BY <3>1, ContextType DEF Context
  <2>2. e.lastDecision = Evaluate(c)
    BY <1>2 DEF Current
  <2> HIDE DEF c
  <2> QED BY <2>1, <2>2, AllowNeedsButton, EmergencyNeedsPolicy
<1> QED BY <1>1, <1>2

-----------------------------------------------------------------------------
(* A session never outlives any of the conditions it was granted under.    *)
THEOREM SessionsAreBacked == Spec => []SessionBacked
<1>1. SafeInv => SessionBacked
  BY DEF SafeInv, Safe, SessionBacked
<1> QED BY <1>1, SafeAlways, PTL

(* A pending challenge is the newest, excludes a session, and is dropped   *)
(* by every fault, rollback and withdrawal of the device.                  *)
THEOREM ChallengesAreExclusive == Spec => []ChallengeExclusive
<1>1. SafeInv => ChallengeExclusive
  BY DEF SafeInv, Safe, ChallengeAlone, ChallengeExclusive
<1> QED BY <1>1, SafeAlways, PTL

(* The cached decision is always the policy's decision for the state.      *)
THEOREM DecisionsAreCurrent == Spec => []DecisionCurrent
<1>1. SafeInv => DecisionCurrent
  BY DEF SafeInv, Current, DecisionCurrent
<1> QED BY <1>1, SafeAlways, PTL

(* Transmission is granted to nobody but the owner of a live session who   *)
(* holds the button, in NORMAL mode.                                       *)
THEOREM GrantsAreAuthorized == Spec => []GrantAuthorized
<1>1. TypeOK /\ SafeInv => GrantAuthorized
  BY GrantFollows DEF TypeOK, SafeInv, GrantAuthorized
<1> QED BY <1>1, SafeAlways, PTL

(* The TX events alone tell whether transmission is granted.               *)
THEOREM TracesAreFaithful == Spec => []TraceFaithful
<1>1. SafeInv => TraceFaithful
  BY DEF SafeInv, Faithful, TraceFaithful
<1> QED BY <1>1, SafeAlways, PTL

(* A healthy engine holds nothing in memory that a restart would not find, *)
(* whatever saves failed or half succeeded before.                         *)
THEOREM MemoryIsAlwaysDurable == Spec => []MemoryIsDurable
<1>1. SafeInv => MemoryIsDurable
  BY DEF SafeInv
<1> QED BY <1>1, SafeAlways, PTL

-----------------------------------------------------------------------------
(***************************************************************************)
(* What the flash remembers, for every value of the constants: no floor    *)
(* the engine vouched for is ever lowered, and so no counter ever opens a  *)
(* second session.                                                         *)
(*                                                                         *)
(* A snapshot is built from the memory of the engine, which after a failed *)
(* save may differ from the flash.  The invariant is therefore that both   *)
(* keep the floors of the ledger; memory that was never loaded (no device  *)
(* id) keeps nothing, but does not decode and is never stored.             *)
(***************************************************************************)

Holds(s) == s.deviceId # "none" => KeepsFloors(s)

FloorsHeld == KeepsFloors(nvs) /\ Holds(eng.state)

(* t lowers no version, counter or revocation of s.                        *)
Raises(s, t) ==
  /\ t.deviceId = s.deviceId
  /\ s.policy.version <= t.policy.version
  /\ s.crl.version <= t.crl.version
  /\ s.revoked \subseteq t.revoked
  /\ \A c \in Credentials :
       /\ s.credentials[c].metadataVersion <= t.credentials[c].metadataVersion
       /\ s.credentials[c].counter <= t.credentials[c].counter

(* The numbers a snapshot is compared by.                                  *)
LEMMA SnapshotNumbers ==
  ASSUME NEW s \in PersistentState
  PROVE  /\ s.policy.version \in Nat /\ s.crl.version \in Nat
         /\ s.policy \in Policy
         /\ \A c \in Credentials : /\ s.credentials[c] \in Metadata
                                   /\ s.credentials[c].metadataVersion \in Nat
                                   /\ s.credentials[c].counter \in Nat
BY DEF PersistentState, Policy, RevocationList, Metadata

(* The numbers of the ledger.                                              *)
LEMMA LedgerNumbers ==
  ASSUME TypeOK
  PROVE  /\ ledger \in Ledger /\ ledger.policy \in Nat /\ ledger.crl \in Nat
         /\ \A c \in Credentials : /\ ledger.metadata[c] \in Nat
                                   /\ ledger.served[c] \in Nat
BY DEF TypeOK, Ledger

(* What raises a snapshot keeps its floors.                                *)
LEMMA RaisesKeeps ==
  ASSUME TypeOK, NEW s \in PersistentState, NEW t \in PersistentState,
         KeepsFloors(s), Raises(s, t)
  PROVE  KeepsFloors(t)
<1>1. /\ ledger.policy <= t.policy.version /\ ledger.crl <= t.crl.version
      /\ ledger.revoked \subseteq t.revoked
  BY SnapshotNumbers, LedgerNumbers DEF KeepsFloors, Raises
<1>2. ASSUME NEW c \in Credentials
      PROVE  /\ ledger.metadata[c] <= t.credentials[c].metadataVersion
             /\ ledger.served[c] <= t.credentials[c].counter
  BY SnapshotNumbers, LedgerNumbers DEF KeepsFloors, Raises
<1> QED BY <1>1, <1>2 DEF KeepsFloors

(* A snapshot may be equal to the one it was built from.                   *)
LEMMA RaisesItself == ASSUME NEW s \in PersistentState PROVE Raises(s, s)
BY SnapshotNumbers DEF Raises

(* What decodes was built from a loaded state and keeps its floors.        *)
LEMMA DecodableKeeps ==
  ASSUME TypeOK, NEW s \in PersistentState, NEW new \in PersistentState,
         Holds(s), Raises(s, new), Decodable(new)
  PROVE  KeepsFloors(new)
BY RaisesKeeps DEF Holds, Raises, Decodable

-----------------------------------------------------------------------------
(* The ways a method can end.                                              *)

(* Nothing durable happened: memory, flash and ledger are as they were.    *)
LEMMA UntouchedKeeps ==
  ASSUME FloorsHeld, eng'.state = eng.state, EngineOnly PROVE FloorsHeld'
BY DEF FloorsHeld, Holds, KeepsFloors, EngineOnly

(* A failed save keeps the floors, whether or not it reached the flash.    *)
LEMMA SaveFailsKeeps ==
  ASSUME TypeOK, FloorsHeld, NEW e \in EngineState, e.state = eng.state,
         NEW new \in PersistentState, Raises(eng.state, new),
         NEW now \in Time, SaveFails(e, new, now)
  PROVE  FloorsHeld'
<1>1. eng'.state = eng.state /\ ledger' = ledger
  BY FaultWithdraws DEF SaveFails, Withdrawn
<1>2. Decodable(new) => KeepsFloors(new)
  BY DecodableKeeps DEF FloorsHeld, TypeOK, EngineState
<1>3. nvs' = nvs \/ (nvs' = new /\ Decodable(new))
  BY DEF SaveFails
<1> QED BY <1>1, <1>2, <1>3 DEF FloorsHeld, Holds, KeepsFloors

(* A save that raises the snapshot and is not vouched for keeps the floors.*)
LEMMA SavedKeeps ==
  ASSUME TypeOK, FloorsHeld, NEW new \in PersistentState,
         Raises(eng.state, new), Saves(new), eng'.state = new,
         ledger' = ledger
  PROVE  FloorsHeld'
<1>1. KeepsFloors(new)
  BY DecodableKeeps DEF FloorsHeld, TypeOK, EngineState, Saves
<1> QED BY <1>1 DEF FloorsHeld, Holds, KeepsFloors, Saves

(* A save that is vouched for, one kind of floor at a time.                *)
LEMMA VouchedKeeps ==
  ASSUME TypeOK, FloorsHeld, NEW new \in PersistentState,
         Raises(eng.state, new), Saves(new), eng'.state = new,
         \/ ledger' = [ledger EXCEPT !.policy = new.policy.version]
         \/ ledger' = [ledger EXCEPT !.crl = new.crl.version,
                                     !.revoked = ledger'.revoked]
            /\ ledger'.revoked \subseteq new.revoked
         \/ \E c \in Credentials : ledger' =
              [ledger EXCEPT !.metadata[c] = new.credentials[c].metadataVersion]
         \/ \E c \in Credentials : ledger' =
              [ledger EXCEPT !.served[c] = new.credentials[c].counter]
  PROVE  FloorsHeld'
<1>1. KeepsFloors(new)
  BY DecodableKeeps DEF FloorsHeld, TypeOK, EngineState, Saves
<1>2. /\ new.policy.version <= new.policy.version
      /\ new.crl.version <= new.crl.version
      /\ \A c \in Credentials :
           /\ new.credentials[c].metadataVersion
                <= new.credentials[c].metadataVersion
           /\ new.credentials[c].counter <= new.credentials[c].counter
  BY SnapshotNumbers
<1>3. ledger \in Ledger
  BY LedgerNumbers
<1>4. nvs' = new /\ eng'.state = new
  BY DEF Saves
<1>5. KeepsFloors(new)'
  <2>1. CASE ledger' = [ledger EXCEPT !.policy = new.policy.version]
    BY <1>1, <1>2, <1>3, <2>1 DEF KeepsFloors, Ledger
  <2>2. CASE /\ ledger' = [ledger EXCEPT !.crl = new.crl.version,
                                         !.revoked = ledger'.revoked]
             /\ ledger'.revoked \subseteq new.revoked
    BY <1>1, <1>2, <1>3, <2>2 DEF KeepsFloors, Ledger
  <2>3. ASSUME NEW c \in Credentials,
               ledger' = [ledger EXCEPT !.metadata[c]
                                          = new.credentials[c].metadataVersion]
        PROVE  KeepsFloors(new)'
    BY <1>1, <1>2, <1>3, <2>3 DEF KeepsFloors, Ledger
  <2>4. ASSUME NEW c \in Credentials,
               ledger' = [ledger EXCEPT !.served[c]
                                          = new.credentials[c].counter]
        PROVE  KeepsFloors(new)'
    BY <1>1, <1>2, <1>3, <2>4 DEF KeepsFloors, Ledger
  <2> QED BY <2>1, <2>2, <2>3, <2>4
<1> QED BY <1>4, <1>5 DEF FloorsHeld, Holds, KeepsFloors

-----------------------------------------------------------------------------
(* One lemma per method.                                                   *)

(* recover() takes over the flash, or nothing.                             *)
LEMMA RecoverKeeps ==
  ASSUME TypeOK, FloorsHeld, NEW now \in Time, Recover(now)
  PROVE  FloorsHeld'
<1> DEFINE e == [eng EXCEPT !.state = nvs, !.healthy = TRUE,
                            !.controlFault = FALSE, !.lastNow = now]
<1>1. e \in EngineState /\ e.state = nvs /\ eng \in EngineState
  BY DEF TypeOK, EngineState
<1>2. CASE eng' = Retick(RequireReauthentication(e), now)
  <2> HIDE DEF e
  <2>1. Withdrawn(e, eng')
    BY <1>1, <1>2, InvalidateTick
       DEF RequireReauthentication, Decision, Denial, SessionState
  <2>2. eng'.state = nvs
    BY <1>1, <2>1 DEF Withdrawn
  <2> QED BY <2>2 DEF Recover, EngineOnly, FloorsHeld, Holds, KeepsFloors
<1>3. CASE eng' = Fault(eng, now)
  BY <1>1, <1>3, FaultWithdraws, UntouchedKeeps DEF Recover, Withdrawn
<1> QED BY <1>2, <1>3 DEF Recover

(* detach() touches nothing durable.                                       *)
LEMMA DetachKeeps ==
  ASSUME TypeOK, FloorsHeld, NEW now \in Time, Detach(now) PROVE FloorsHeld'
<1> DEFINE i == Invalidate(eng, "DENY_NO_CREDENTIAL", "NONE")
           e == [i EXCEPT !.attached = NoId]
<1>1. i \in EngineState /\ Idle(i) /\ i.state = eng.state
  BY InvalidateFields DEF TypeOK, Idle, Decision, Denial, SessionState
<1> HIDE DEF i
<1>2. e \in EngineState /\ Idle(e) /\ e.state = eng.state
  BY <1>1 DEF EngineState, Idle
<1> HIDE DEF e
<1>3. eng' = Retick(e, now)
  BY DEF Detach, i, e
<1>4. eng'.state = eng.state
  BY <1>2, <1>3, IdleTick DEF Withdrawn
<1> QED BY <1>4, UntouchedKeeps DEF Detach

(* The tick at the head of a protocol method keeps the state.              *)
LEMMA RetickKeeps ==
  ASSUME TypeOK, NEW now \in Time, NEW t, t = Retick(eng, now)
  PROVE  t \in EngineState /\ t.state = eng.state
<1>1. eng \in EngineState /\ eng.pressed \in BOOLEAN
  BY DEF TypeOK, EngineState
<1> QED BY <1>1, TickType, TickFrame DEF Retick

(* beginChallenge() touches nothing durable.                               *)
LEMMA BeginChallengeKeeps ==
  ASSUME TypeOK, FloorsHeld, NEW now \in Time, BeginChallenge(now)
  PROVE  FloorsHeld'
<1> DEFINE t == Retick(eng, now)
           i == RequireReauthentication(t)
           c == [i EXCEPT !.pending = issued + 1, !.hasPending = TRUE,
                          !.challengeDeadline =
                             now + t.state.policy.challengeTimeout]
<1>1. t \in EngineState /\ t.state = eng.state
  BY RetickKeeps
<1>2. nvs' = nvs /\ ledger' = ledger
  BY DEF BeginChallenge, IssueChallenge, EngineOnly
<1> HIDE DEF t
<1>3. i \in EngineState /\ i.state = eng.state
  BY <1>1, ReauthenticationFields
<1>4. CASE IssueChallenge(t, now)
  <2>1. now + t.state.policy.challengeTimeout \in Time /\ issued + 1 \in Nat
    BY <1>1, <1>4, ConstantTypes DEF IssueChallenge, Time, EngineState,
       PersistentState, Policy, TypeOK
  <2> HIDE DEF i
  <2>2. c \in EngineState /\ c.state = eng.state /\ c.pressed \in BOOLEAN
    BY <1>3, <2>1 DEF EngineState
  <2>3. eng' = Tick(c, now, c.pressed)
    BY <1>4 DEF IssueChallenge, Retick, i
  <2> HIDE DEF c
  <2>4. eng'.state = eng.state
    BY <2>2, <2>3, TickFrame
  <2> QED BY <1>2, <2>4 DEF FloorsHeld, Holds, KeepsFloors
<1>5. CASE eng' = Fault(i, now)
  <2> HIDE DEF i
  <2>1. eng'.state = eng.state
    BY <1>3, <1>5, FaultWithdraws DEF Withdrawn
  <2> QED BY <1>2, <2>1 DEF FloorsHeld, Holds, KeepsFloors
<1>6. CASE eng' = t
  BY <1>1, <1>2, <1>6 DEF FloorsHeld, Holds, KeepsFloors
<1> QED BY <1>4, <1>5, <1>6 DEF BeginChallenge, t

(* The stored counter rises, and is vouched for when the session opens.    *)
LEMMA AcceptResponseKeeps ==
  ASSUME TypeOK, FloorsHeld, NEW now \in Time, NEW e \in EngineState, NEW r,
         r.counter \in Nat, r.credentialId = e.attached, e.attached # NoId,
         e.state = eng.state, Verdict(e, r) = "valid",
         AcceptResponse(e, r.counter, now)
  PROVE  FloorsHeld'
<1> DEFINE c     == e.attached
           new   == [e.state EXCEPT !.credentials[c].counter = r.counter]
           saved == [e EXCEPT !.state = new]
<1>1. c \in Credentials /\ e.state \in PersistentState
  BY DEF EngineState
<1>2. /\ new \in PersistentState
      /\ new.deviceId = e.state.deviceId /\ new.policy = e.state.policy
      /\ new.revoked = e.state.revoked /\ new.crl = e.state.crl
      /\ new.credentials[c].counter = r.counter
      /\ new.credentials[c].metadataVersion
           = e.state.credentials[c].metadataVersion
      /\ \A d \in Credentials \ {c} :
           new.credentials[d] = e.state.credentials[d]
  <2>1. new = WithCounter(e.state, c, r.counter)
    BY DEF WithCounter
  <2> HIDE DEF c, new
  <2>2. OnlyCounter(e.state, new, c, r.counter)
    BY <1>1, <2>1, CounterOnly
  <2> QED BY <2>2 DEF OnlyCounter
<1> HIDE DEF new
<1>3. Raises(eng.state, new)
  <2>1. e.state.credentials[c].counter <= r.counter
    BY <1>1, ValidVerdict, SnapshotNumbers
  <2>2. ASSUME NEW d \in Credentials
        PROVE  /\ e.state.credentials[d].metadataVersion
                    <= new.credentials[d].metadataVersion
               /\ e.state.credentials[d].counter <= new.credentials[d].counter
    <3>1. CASE d = c
      BY <1>1, <1>2, <2>1, <3>1, SnapshotNumbers
    <3>2. CASE d # c
      BY <1>1, <1>2, <3>2, SnapshotNumbers
    <3> QED BY <3>1, <3>2
  <2>3. /\ e.state.policy.version <= new.policy.version
        /\ e.state.crl.version <= new.crl.version
    BY <1>1, <1>2, SnapshotNumbers
  <2> QED BY <1>2, <2>2, <2>3 DEF Raises
<1>4. saved \in EngineState /\ saved.state = new /\ saved.pressed \in BOOLEAN
  BY <1>2, StateReplaced DEF EngineState
<1> HIDE DEF saved
<1>5. CASE SaveFails(e, new, now)
  BY <1>2, <1>3, <1>5, SaveFailsKeeps
<1>6. CASE Saves(new) /\ eng' = Fault(saved, now) /\ UNCHANGED ledger
  BY <1>2, <1>3, <1>4, <1>6, FaultWithdraws, SavedKeeps DEF Withdrawn
<1>7. CASE /\ Saves(new)
           /\ now <= TimeMax - new.policy.sessionTimeout
           /\ eng' = Retick(OpenSession(saved, now), now)
           /\ ledger' = [ledger EXCEPT !.served[c] = r.counter]
  <2> DEFINE o == OpenSession(saved, now)
  <2>1. saved.attached = c
    BY DEF saved, EngineState
  <2>2. o \in EngineState
    BY <1>1, <1>4, <1>7, <2>1, OpenSessionType
  <2>3. o.state = new /\ o.pressed \in BOOLEAN
    BY <1>4 DEF OpenSession, EngineState
  <2> HIDE DEF o
  <2>4. eng' = Tick(o, now, o.pressed)
    BY <1>7 DEF Retick, o
  <2>5. eng'.state = new
    BY <2>2, <2>3, <2>4, TickFrame
  <2> QED BY <1>1, <1>2, <1>3, <1>7, <2>5, VouchedKeeps
<1> QED BY <1>5, <1>6, <1>7 DEF AcceptResponse, new, saved

(* validateResponse() touches nothing durable unless it accepts.           *)
LEMMA ValidateResponseKeeps ==
  ASSUME TypeOK, FloorsHeld, NEW now \in Time, NEW r, r.counter \in Nat,
         r.credentialId \in Credentials \cup {NoId}, ValidateResponse(r, now)
  PROVE  FloorsHeld'
<1> DEFINE t        == Retick(eng, now)
           consumed == [t EXCEPT !.hasPending = FALSE]
           named    == [consumed EXCEPT !.attached = r.credentialId]
<1>1. t \in EngineState /\ t.state = eng.state
  BY RetickKeeps
<1> HIDE DEF t
<1>2. consumed \in EngineState /\ consumed.state = eng.state
  BY <1>1 DEF EngineState
<1> HIDE DEF consumed
<1>3. /\ named \in EngineState /\ named.state = eng.state
      /\ named.attached = r.credentialId
  BY <1>2 DEF EngineState
<1> HIDE DEF named
<1>4. CASE EngineOnly /\ eng' = consumed
  BY <1>2, <1>4, UntouchedKeeps
<1>5. CASE EngineOnly /\ eng' = Fault(named, now)
  BY <1>3, <1>5, FaultWithdraws, UntouchedKeeps DEF Withdrawn
<1>6. CASE /\ EngineOnly /\ Admission(t, r, now) \in Denial
           /\ eng' = Deny(consumed, Admission(t, r, now), now)
  <2>1. eng'.state = eng.state
    BY <1>2, <1>6, DenyWithdraws DEF Withdrawn, Decision
  <2> QED BY <1>6, <2>1, UntouchedKeeps
<1>7. CASE /\ EngineOnly /\ Verdict(named, r) \in Denial
           /\ eng' = Deny(named, Verdict(named, r), now)
  <2>1. eng'.state = eng.state
    BY <1>3, <1>7, DenyWithdraws DEF Withdrawn, Decision
  <2> QED BY <1>7, <2>1, UntouchedKeeps
<1>8. CASE /\ Admission(t, r, now) = "admitted"
           /\ Verdict(named, r) = "valid"
           /\ AcceptResponse(named, r.counter, now)
  <2>1. r.credentialId # NoId
    BY <1>8 DEF Admission
  <2> QED BY <1>3, <1>8, <2>1, AcceptResponseKeeps
<1> QED BY <1>4, <1>5, <1>6, <1>7, <1>8
        DEF ValidateResponse, t, consumed, named

(* A policy is newer than the one it replaces.                             *)
LEMMA UpdatePolicyKeeps ==
  ASSUME TypeOK, FloorsHeld, NEW now \in Time, NEW p \in Policies,
         UpdatePolicy(p, now)
  PROVE  FloorsHeld'
<1> DEFINE s     == eng.state
           new   == [s EXCEPT !.policy = p]
           saved == [eng EXCEPT !.state = new]
<1>1. eng \in EngineState /\ p \in Policy /\ s \in PersistentState
  BY ConstantTypes DEF TypeOK, EngineState
<1>2. /\ new \in PersistentState /\ new.deviceId = s.deviceId
      /\ new.policy = p /\ new.crl = s.crl /\ new.revoked = s.revoked
      /\ new.credentials = s.credentials
  BY <1>1 DEF PersistentState
<1> HIDE DEF new
<1>3. saved \in EngineState /\ saved.state = new
  BY <1>1, <1>2, ReplacedFields
<1>4. CASE EngineOnly /\ (eng' = Fault(eng, now) \/ eng' = Rollback(eng, now))
  <2>1. eng'.state = eng.state
    BY <1>1, <1>4, FaultWithdraws, RollbackWithdraws DEF Withdrawn
  <2> QED BY <1>4, <2>1, UntouchedKeeps
<1>5. CASE p.version > s.policy.version /\ SavePolicy(p, now)
  <2>1. Raises(s, new)
    BY <1>1, <1>2, <1>5, SnapshotNumbers DEF Raises, Policy
  <2>2. CASE SaveFails(eng, new, now)
    BY <1>1, <1>2, <2>1, <2>2, SaveFailsKeeps
  <2>3. CASE /\ Saves(new)
             /\ eng' = Retick(RequireReauthentication(saved), now)
             /\ ledger' = [ledger EXCEPT !.policy = p.version]
    <3> HIDE DEF saved, s
    <3>1. Withdrawn(saved, eng')
      BY <1>3, <2>3, InvalidateTick
         DEF RequireReauthentication, Decision, Denial, SessionState
    <3>2. eng'.state = new
      BY <1>3, <3>1 DEF Withdrawn
    <3> QED BY <1>2, <2>1, <2>3, <3>2, VouchedKeeps DEF s
  <2> QED BY <1>5, <2>2, <2>3 DEF SavePolicy, new, saved
<1> QED BY <1>4, <1>5 DEF UpdatePolicy

(* Metadata is newer than what it replaces, and keeps the larger counter.  *)
LEMMA UpdateCredentialKeeps ==
  ASSUME TypeOK, FloorsHeld, NEW now \in Time, NEW c \in Credentials,
         NEW m \in Metadata, UpdateCredential(c, m, now)
  PROVE  FloorsHeld'
<1> DEFINE s     == eng.state
           old   == s.credentials[c]
           new   == [s EXCEPT !.credentials[c] = Merged(@, m)]
           saved == [eng EXCEPT !.state = new]
<1>1. eng \in EngineState /\ s \in PersistentState /\ old \in Metadata
  BY DEF TypeOK, EngineState, PersistentState
<1>2. /\ Merged(old, m) \in Metadata
      /\ Merged(old, m).metadataVersion = m.metadataVersion
      /\ old.counter <= Merged(old, m).counter
  <2>1. old.counter \in Nat /\ m.counter \in Nat
    BY <1>1 DEF Metadata
  <2> HIDE DEF old
  <2> QED BY <1>1, <2>1 DEF Merged, Metadata
<1>3. /\ new \in PersistentState /\ new.deviceId = s.deviceId
      /\ new.policy = s.policy /\ new.crl = s.crl /\ new.revoked = s.revoked
      /\ new.credentials[c] = Merged(old, m)
      /\ \A d \in Credentials \ {c} : new.credentials[d] = s.credentials[d]
  BY <1>1, <1>2 DEF PersistentState
<1> HIDE DEF new
<1>4. saved \in EngineState /\ saved.state = new
  BY <1>1, <1>3, ReplacedFields
<1>5. CASE EngineOnly /\ (eng' = Fault(eng, now) \/ eng' = Rollback(eng, now))
  <2>1. eng'.state = eng.state
    BY <1>1, <1>5, FaultWithdraws, RollbackWithdraws DEF Withdrawn
  <2> QED BY <1>5, <2>1, UntouchedKeeps
<1>6. CASE /\ ~(Known(s, c) /\ m.metadataVersion <= old.metadataVersion)
           /\ SaveMetadata(c, m, now)
  <2>1. old.metadataVersion <= m.metadataVersion
    BY <1>1, <1>6 DEF Known, Metadata
  <2>2. ASSUME NEW d \in Credentials
        PROVE  /\ s.credentials[d].metadataVersion
                    <= new.credentials[d].metadataVersion
               /\ s.credentials[d].counter <= new.credentials[d].counter
    <3>1. CASE d = c
      BY <1>2, <1>3, <2>1, <3>1
    <3>2. CASE d # c
      BY <1>1, <1>3, <3>2, SnapshotNumbers
    <3> QED BY <3>1, <3>2
  <2>3. Raises(s, new)
    BY <1>1, <1>3, <2>2, SnapshotNumbers DEF Raises
  <2>4. CASE SaveFails(eng, new, now)
    BY <1>1, <1>3, <2>3, <2>4, SaveFailsKeeps
  <2>5. CASE /\ Saves(new)
             /\ eng' = Retick(IF eng.attached = c
                              THEN RequireReauthentication(saved)
                              ELSE saved, now)
             /\ ledger' = [ledger EXCEPT !.metadata[c] = m.metadataVersion]
    <3>1. new.credentials[c].metadataVersion = m.metadataVersion
      BY <1>2, <1>3
    <3>2. ledger' = [ledger EXCEPT !.metadata[c] =
                       new.credentials[c].metadataVersion]
      BY <2>5, <3>1
    <3> HIDE DEF saved, s, old
    <3>3. CASE eng' = Retick(RequireReauthentication(saved), now)
      <4>1. Withdrawn(saved, eng')
        BY <1>4, <3>3, InvalidateTick
           DEF RequireReauthentication, Decision, Denial, SessionState
      <4>2. eng'.state = new
        BY <1>4, <4>1 DEF Withdrawn
      <4> QED BY <1>3, <2>3, <2>5, <3>2, <4>2, VouchedKeeps DEF s
    <3>4. CASE eng' = Retick(saved, now)
      <4>1. saved.pressed \in BOOLEAN
        BY <1>4 DEF EngineState
      <4>2. eng'.state = new
        BY <1>4, <3>4, <4>1, TickFrame DEF Retick
      <4> QED BY <1>3, <2>3, <2>5, <3>2, <4>2, VouchedKeeps DEF s
    <3> QED BY <2>5, <3>3, <3>4
  <2> QED BY <1>6, <2>4, <2>5 DEF SaveMetadata, new, saved
<1> QED BY <1>5, <1>6 DEF UpdateCredential

(* Revocations are cumulative, and the list is newer than the one before.  *)
LEMMA ApplyRevocationListKeeps ==
  ASSUME TypeOK, FloorsHeld, NEW now \in Time, NEW l \in RevocationLists,
         ApplyRevocationList(l, now)
  PROVE  FloorsHeld'
<1> DEFINE s   == eng.state
           new == [s EXCEPT !.crl = l, !.revoked = @ \cup l.entries]
           e   == [eng EXCEPT !.state = new, !.hasPending = FALSE]
<1>1. eng \in EngineState /\ s \in PersistentState /\ l \in RevocationList
  BY ConstantTypes DEF TypeOK, EngineState
<1>2. /\ new \in PersistentState /\ new.deviceId = s.deviceId
      /\ new.policy = s.policy /\ new.credentials = s.credentials
      /\ new.crl = l /\ new.revoked = s.revoked \cup l.entries
  BY <1>1 DEF PersistentState, RevocationList
<1> HIDE DEF new
<1>3. e \in EngineState /\ e.state = new /\ e.pressed \in BOOLEAN
  BY <1>1, <1>2 DEF EngineState
<1>4. CASE EngineOnly /\ (eng' = Fault(eng, now) \/ eng' = Rollback(eng, now))
  <2>1. eng'.state = eng.state
    BY <1>1, <1>4, FaultWithdraws, RollbackWithdraws DEF Withdrawn
  <2> QED BY <1>4, <2>1, UntouchedKeeps
<1>5. CASE l.version > s.crl.version /\ SaveRevocationList(l, now)
  <2>1. Raises(s, new)
    BY <1>1, <1>2, <1>5, SnapshotNumbers DEF Raises, RevocationList
  <2>2. CASE SaveFails(eng, new, now)
    BY <1>1, <1>2, <2>1, <2>2, SaveFailsKeeps
  <2>3. CASE /\ Saves(new) /\ eng' = EnforceRevocation(e, now)
             /\ ledger' = [ledger EXCEPT !.crl = l.version,
                                         !.revoked = @ \cup l.entries]
    <3> HIDE DEF e, s
    <3>1. eng'.state = new
      <4> DEFINE d == Deny(e, "DENY_CREDENTIAL_REVOKED", now)
      <4>1. d \in EngineState /\ d.state = new /\ d.pressed \in BOOLEAN
        BY <1>3, DenyWithdraws DEF Withdrawn, Decision, Denial, EngineState
      <4> HIDE DEF d
      <4>2. eng' = Tick(d, now, d.pressed) \/ eng' = Tick(e, now, e.pressed)
        BY <2>3 DEF EnforceRevocation, Retick, d
      <4> QED BY <1>3, <4>1, <4>2, TickFrame
    <3>2. ledger.revoked \subseteq new.revoked
      <4>1. KeepsFloors(new)
        BY <1>1, <1>2, <2>1, <2>3, DecodableKeeps DEF FloorsHeld, Saves, s
      <4> QED BY <4>1 DEF KeepsFloors
    <3>3. /\ ledger'.revoked = ledger.revoked \cup l.entries
          /\ ledger' = [ledger EXCEPT !.crl = new.crl.version,
                                      !.revoked = ledger'.revoked]
      BY <1>2, <2>3, LedgerNumbers DEF Ledger
    <3>4. ledger'.revoked \subseteq new.revoked
      BY <1>2, <3>2, <3>3
    <3> QED BY <1>2, <2>1, <2>3, <3>1, <3>3, <3>4, VouchedKeeps DEF s
  <2> QED BY <1>5, <2>2, <2>3 DEF SaveRevocationList, new, e
<1> QED BY <1>4, <1>5 DEF ApplyRevocationList

(* A device status has no floor.                                           *)
LEMMA SetDeviceStatusKeeps ==
  ASSUME TypeOK, FloorsHeld, NEW now \in Time, NEW status,
         SetDeviceStatus(status, now)
  PROVE  FloorsHeld'
<1> DEFINE s     == eng.state
           new   == [s EXCEPT !.deviceStatus = status]
           saved == [eng EXCEPT !.state = new]
<1>1. eng \in EngineState /\ s \in PersistentState
  BY DEF TypeOK, EngineState
<1>2. CASE eng' = Fault(eng, now) /\ EngineOnly
  BY <1>1, <1>2, FaultWithdraws, UntouchedKeeps DEF Withdrawn
<1>3. CASE status \in Status
  <2>1. /\ new \in PersistentState /\ new.deviceId = s.deviceId
        /\ new.policy = s.policy /\ new.crl = s.crl /\ new.revoked = s.revoked
        /\ new.credentials = s.credentials
    BY <1>1, <1>3 DEF PersistentState
  <2> HIDE DEF new
  <2>2. Raises(s, new)
    BY <1>1, <2>1, SnapshotNumbers DEF Raises
  <2>3. saved \in EngineState /\ saved.state = new
    BY <1>1, <2>1, ReplacedFields
  <2>4. CASE SaveFails(eng, new, now)
    BY <1>1, <2>1, <2>2, <2>4, SaveFailsKeeps
  <2>5. CASE /\ Saves(new) /\ ledger' = ledger
             /\ \/ eng' = Retick(RequireReauthentication(saved), now)
                \/ eng' = Retick(Invalidate(saved, "DENY_DEVICE_REVOKED",
                                            "REVOKED"), now)
    <3> HIDE DEF saved, s
    <3>1. Withdrawn(saved, eng')
      BY <2>3, <2>5, InvalidateTick
         DEF RequireReauthentication, Decision, Denial, SessionState
    <3> QED BY <2>1, <2>2, <2>3, <2>5, <3>1, SavedKeeps DEF Withdrawn, s
  <2> QED BY <1>2, <1>3, <2>4, <2>5 DEF SetDeviceStatus, new, saved
<1> QED BY <1>2, <1>3 DEF SetDeviceStatus

(* Nothing is vouched for at the start.                                    *)
LEMMA FloorsInit == Init => FloorsHeld
<1> SUFFICES ASSUME Init PROVE FloorsHeld
  OBVIOUS
<1>1. nvs \in PersistentState
  BY ConstantTypes DEF Init
<1>2. KeepsFloors(nvs)
  BY <1>1, SnapshotNumbers DEF Init, EmptyLedger, KeepsFloors
<1> QED BY <1>2 DEF FloorsHeld, Holds, Init, PoweredOn, BlankState

(* Every step keeps the floors, one method at a time.                      *)
LEMMA FloorsNext == TypeOK /\ FloorsHeld /\ [Next]_vars => FloorsHeld'
<1> SUFFICES ASSUME TypeOK, FloorsHeld, [Next]_vars PROVE FloorsHeld'
  OBVIOUS
<1>1. CASE UNCHANGED vars
  BY <1>1 DEF vars, FloorsHeld, Holds, KeepsFloors
<1>2. CASE PowerCycle
  BY <1>2 DEF PowerCycle, EngineOnly, FloorsHeld, Holds, KeepsFloors,
              PoweredOn, BlankState
<1>3. ASSUME NEW now \in Time, Calls(now) PROVE FloorsHeld'
  <2>1. CASE \E pressed \in BOOLEAN : Service(now, pressed)
    BY <2>1, TickFrame, UntouchedKeeps DEF Service, TypeOK
  <2>2. CASE ReportFault(now)
    BY <2>2, FaultWithdraws, UntouchedKeeps DEF ReportFault, Withdrawn, TypeOK
  <2>3. CASE \E a \in Answers, n \in 0..issued :
               ValidateResponse(Challenged(a, n), now)
    BY <2>3, ChallengedType, ValidateResponseKeeps
  <2>4. CASE \E u \in MetadataUpdates : UpdateCredential(u[1], u[2], now)
    BY <2>4, ConstantTypes, UpdateCredentialKeeps
  <2> QED BY <1>3, <2>1, <2>2, <2>3, <2>4, RecoverKeeps, DetachKeeps,
             BeginChallengeKeeps, UpdatePolicyKeeps, ApplyRevocationListKeeps,
             SetDeviceStatusKeeps DEF Calls
<1> QED BY <1>1, <1>2, <1>3 DEF Next

(* Flash and loaded memory keep the floors in every reachable state.       *)
LEMMA FloorsAlways == Spec => []FloorsHeld
<1>1. TypeOK /\ FloorsHeld /\ [Next]_vars => FloorsHeld'
  BY FloorsNext
<1> QED BY <1>1, FloorsInit, TypeCorrect, PTL DEF Spec

-----------------------------------------------------------------------------
(* Nothing that was accepted is ever forgotten: versions, revocations and  *)
(* the counter of every session survive failed saves and power cycles.     *)
THEOREM FloorsAlwaysSurvive == Spec => []FloorsSurvive
<1>1. FloorsHeld => FloorsSurvive
  BY DEF FloorsHeld, FloorsSurvive
<1> QED BY <1>1, FloorsAlways, PTL

-----------------------------------------------------------------------------
(***************************************************************************)
(* What no step of the engine may do, for every value of the constants:    *)
(* open a session on an old counter or a settled challenge, or leave a     *)
(* fault other than through the flash.                                     *)
(*                                                                         *)
(* All methods but three carry over at most what the engine had.  The      *)
(* exceptions are the power cycle, recover() and an accepted response.     *)
(***************************************************************************)

(* r holds no session but the one e held, and no better health.            *)
Carries(e, r) ==
  /\ r.sessionState = "ACTIVE" =>
       e.sessionState = "ACTIVE" /\ r.session = e.session
  /\ r.healthy => e.healthy
  /\ e.controlFault => r.controlFault

(* Carrying over twice is carrying over.                                   *)
LEMMA CarriesOn ==
  ASSUME NEW d, NEW e, NEW r, Carries(d, e), Carries(e, r)
  PROVE  Carries(d, r)
BY DEF Carries

(* tick() may end a session and notice a fault, no more.                   *)
LEMMA TickCarries ==
  ASSUME NEW e \in EngineState, NEW now \in Time, NEW p \in BOOLEAN
  PROVE  Carries(e, Tick(e, now, p))
BY TickFrame DEF Carries

(* So may a tick with the button as last seen.                             *)
LEMMA RetickCarries ==
  ASSUME NEW e \in EngineState, NEW now \in Time,
         NEW r, r = Retick(e, now)
  PROVE  r \in EngineState /\ Carries(e, r)
<1>1. e.pressed \in BOOLEAN
  BY DEF EngineState
<1> QED BY <1>1, TickCarries, TickType DEF Retick

(* invalidate() carries nothing over.                                      *)
LEMMA InvalidateCarries ==
  ASSUME NEW e \in EngineState, NEW d \in Decision, NEW s \in SessionState,
         s # "ACTIVE", NEW i, i = Invalidate(e, d, s)
  PROVE  i \in EngineState /\ Carries(e, i)
BY InvalidateFields DEF Carries

(* Nor does it when tick() follows.                                        *)
LEMMA InvalidateTickCarries ==
  ASSUME NEW e \in EngineState, NEW now \in Time, NEW d \in Decision,
         NEW s \in SessionState, s # "ACTIVE",
         NEW r, r = Retick(Invalidate(e, d, s), now)
  PROVE  Carries(e, r)
<1> DEFINE i == Invalidate(e, d, s)
<1>1. i \in EngineState /\ Carries(e, i)
  BY InvalidateCarries
<1> HIDE DEF i
<1>2. Carries(i, r)
  BY <1>1, RetickCarries DEF i
<1> QED BY <1>1, <1>2, CarriesOn

(* deny() carries nothing over.                                            *)
LEMMA DenyCarries ==
  ASSUME NEW e \in EngineState, NEW now \in Time, NEW d \in Decision
  PROVE  Carries(e, Deny(e, d, now))
BY InvalidateTickCarries DEF Deny, SessionState

(* fault() carries nothing over.                                           *)
LEMMA FaultCarries ==
  ASSUME NEW e \in EngineState, NEW now \in Time
  PROVE  Carries(e, Fault(e, now))
<1> DEFINE f == [e EXCEPT !.healthy = FALSE]
<1>1. f \in EngineState /\ Carries(e, f)
  BY DEF EngineState, Carries
<1> HIDE DEF f
<1>2. Carries(f, Fault(e, now))
  BY <1>1, InvalidateTickCarries
     DEF Fault, Decision, Denial, SessionState, f
<1> QED BY <1>1, <1>2, CarriesOn

(* rollback() carries nothing over, and latches.                           *)
LEMMA RollbackCarries ==
  ASSUME NEW e \in EngineState, NEW now \in Time
  PROVE  Carries(e, Rollback(e, now))
<1> DEFINE f == [e EXCEPT !.controlFault = TRUE]
<1>1. f \in EngineState /\ Carries(e, f)
  BY DEF EngineState, Carries
<1> HIDE DEF f
<1>2. Carries(f, Rollback(e, now))
  BY <1>1, DenyCarries DEF Rollback, Decision, Denial, f
<1> QED BY <1>1, <1>2, CarriesOn

(* Asking for a new authentication carries nothing over.                   *)
LEMMA ReauthenticationCarries ==
  ASSUME NEW e \in EngineState, NEW i, i = RequireReauthentication(e)
  PROVE  i \in EngineState /\ Carries(e, i)
BY InvalidateCarries
   DEF RequireReauthentication, Decision, Denial, SessionState

(* A new persistent state does not touch the session.                      *)
LEMMA ReplacedCarries ==
  ASSUME NEW e \in EngineState, NEW s \in PersistentState,
         NEW r, r = [e EXCEPT !.state = s]
  PROVE  r \in EngineState /\ Carries(e, r)
BY ReplacedFields DEF Carries

(* Neither does a new persistent state that ends in a withdrawal.          *)
LEMMA ReplacedAndWithdrawnCarries ==
  ASSUME NEW e \in EngineState, NEW s \in PersistentState, NEW now \in Time,
         NEW d \in Decision, NEW k \in SessionState, k # "ACTIVE",
         NEW r, r = Retick(Invalidate([e EXCEPT !.state = s], d, k), now)
  PROVE  Carries(e, r)
<1> DEFINE f == [e EXCEPT !.state = s]
<1>1. f \in EngineState /\ Carries(e, f)
  BY ReplacedCarries
<1> HIDE DEF f
<1>2. Carries(f, r)
  BY <1>1, InvalidateTickCarries DEF f
<1> QED BY <1>1, <1>2, CarriesOn

-----------------------------------------------------------------------------
(* One lemma per method that carries over.                                 *)

(* detach() carries nothing over.                                          *)
LEMMA DetachCarries ==
  ASSUME TypeOK, NEW now \in Time, Detach(now) PROVE Carries(eng, eng')
<1> DEFINE i == Invalidate(eng, "DENY_NO_CREDENTIAL", "NONE")
           e == [i EXCEPT !.attached = NoId]
<1>1. i \in EngineState /\ Carries(eng, i)
  BY InvalidateCarries DEF TypeOK, Decision, Denial, SessionState
<1> HIDE DEF i
<1>2. e \in EngineState /\ Carries(eng, e)
  BY <1>1 DEF EngineState, Carries
<1> HIDE DEF e
<1>3. Carries(e, eng')
  BY <1>2, RetickCarries DEF Detach, i, e
<1> QED BY <1>2, <1>3, CarriesOn

(* beginChallenge() carries nothing over.                                  *)
LEMMA BeginChallengeCarries ==
  ASSUME TypeOK, NEW now \in Time, BeginChallenge(now)
  PROVE  Carries(eng, eng')
<1> DEFINE t == Retick(eng, now)
           i == RequireReauthentication(t)
           deadline == now + t.state.policy.challengeTimeout
           c == [i EXCEPT !.pending = issued + 1, !.hasPending = TRUE,
                          !.challengeDeadline = deadline]
<1>1. t \in EngineState /\ Carries(eng, t)
  BY RetickCarries DEF TypeOK
<1> HIDE DEF t
<1>2. i \in EngineState /\ Carries(t, i)
  BY <1>1, ReauthenticationCarries
<1>3. CASE IssueChallenge(t, now)
  <2>1. deadline \in Time /\ issued + 1 \in Nat
    BY <1>1, <1>3, ConstantTypes DEF IssueChallenge, Time, EngineState,
       PersistentState, Policy, TypeOK
  <2> HIDE DEF i, deadline
  <2>2. c \in EngineState /\ Carries(i, c)
    BY <1>2, <2>1 DEF EngineState, Carries
  <2>3. eng' = Retick(c, now)
    BY <1>3 DEF IssueChallenge, i, deadline
  <2> HIDE DEF c
  <2>4. Carries(c, eng')
    BY <2>2, <2>3, RetickCarries
  <2> QED BY <1>1, <1>2, <2>2, <2>4 DEF Carries
<1>4. CASE eng' = Fault(i, now)
  <2> HIDE DEF i
  <2>1. Carries(i, eng')
    BY <1>2, <1>4, FaultCarries
  <2> QED BY <1>1, <1>2, <2>1 DEF Carries
<1>5. CASE eng' = t
  BY <1>1, <1>5
<1> QED BY <1>3, <1>4, <1>5 DEF BeginChallenge, t

(* updatePolicy() carries nothing over.                                    *)
LEMMA UpdatePolicyCarries ==
  ASSUME TypeOK, NEW now \in Time, NEW p \in Policies, UpdatePolicy(p, now)
  PROVE  Carries(eng, eng')
<1> DEFINE new == [eng.state EXCEPT !.policy = p]
<1>1. eng \in EngineState /\ new \in PersistentState
  BY ConstantTypes DEF TypeOK, EngineState, PersistentState
<1> HIDE DEF new
<1>2. CASE eng' = Fault(eng, now) \/ eng' = Rollback(eng, now)
  BY <1>1, <1>2, FaultCarries, RollbackCarries
<1>3. CASE eng' = Retick(RequireReauthentication([eng EXCEPT !.state = new]),
                         now)
  BY <1>1, <1>3, ReplacedAndWithdrawnCarries
     DEF RequireReauthentication, Decision, Denial, SessionState
<1> QED BY <1>2, <1>3 DEF UpdatePolicy, SavePolicy, SaveFails, new

(* updateCredential() keeps the session of another credential at most.     *)
LEMMA UpdateCredentialCarries ==
  ASSUME TypeOK, NEW now \in Time, NEW c \in Credentials, NEW m \in Metadata,
         UpdateCredential(c, m, now)
  PROVE  Carries(eng, eng')
<1> DEFINE new == [eng.state EXCEPT !.credentials[c] = Merged(@, m)]
           saved == [eng EXCEPT !.state = new]
<1>1. eng \in EngineState /\ eng.state \in PersistentState
  BY DEF TypeOK, EngineState
<1>2. new \in PersistentState
  <2>1. Merged(eng.state.credentials[c], m) \in Metadata
    BY <1>1, MergedType DEF PersistentState
  <2> QED BY <1>1, <2>1 DEF PersistentState
<1> HIDE DEF new
<1>3. CASE eng' = Fault(eng, now) \/ eng' = Rollback(eng, now)
  BY <1>1, <1>3, FaultCarries, RollbackCarries
<1>4. CASE eng' = Retick(RequireReauthentication(saved), now)
  BY <1>1, <1>2, <1>4, ReplacedAndWithdrawnCarries
     DEF RequireReauthentication, Decision, Denial, SessionState
<1>5. CASE eng' = Retick(saved, now)
  <2>1. saved \in EngineState /\ Carries(eng, saved)
    BY <1>1, <1>2, ReplacedCarries
  <2> HIDE DEF saved
  <2>2. Carries(saved, eng')
    BY <1>5, <2>1, RetickCarries
  <2> QED BY <2>1, <2>2, CarriesOn
<1> QED BY <1>3, <1>4, <1>5
        DEF UpdateCredential, SaveMetadata, SaveFails, new, saved

(* applyRevocationList() keeps the session of an unlisted credential at    *)
(* most.                                                                   *)
LEMMA ApplyRevocationListCarries ==
  ASSUME TypeOK, NEW now \in Time, NEW l \in RevocationLists,
         ApplyRevocationList(l, now)
  PROVE  Carries(eng, eng')
<1> DEFINE new == [eng.state EXCEPT !.crl = l, !.revoked = @ \cup l.entries]
           e   == [eng EXCEPT !.state = new, !.hasPending = FALSE]
           d   == Deny(e, "DENY_CREDENTIAL_REVOKED", now)
<1>1. eng \in EngineState /\ new \in PersistentState
  BY ConstantTypes DEF TypeOK, EngineState, PersistentState, RevocationList
<1> HIDE DEF new
<1>2. e \in EngineState /\ Carries(eng, e)
  BY <1>1 DEF EngineState, Carries
<1>3. CASE eng' = Fault(eng, now) \/ eng' = Rollback(eng, now)
  BY <1>1, <1>3, FaultCarries, RollbackCarries
<1>4. CASE eng' = Retick(e, now)
  <2> HIDE DEF e
  <2>1. Carries(e, eng')
    BY <1>2, <1>4, RetickCarries
  <2> QED BY <1>2, <2>1, CarriesOn
<1>5. CASE eng' = Retick(d, now)
  <2> HIDE DEF e
  <2>1. d \in EngineState /\ Carries(e, d)
    BY <1>2, DenyWithdraws, DenyCarries DEF Withdrawn, Decision, Denial
  <2> HIDE DEF d
  <2>2. Carries(d, eng')
    BY <1>5, <2>1, RetickCarries
  <2> QED BY <1>2, <2>1, <2>2 DEF Carries
<1> QED BY <1>3, <1>4, <1>5 DEF ApplyRevocationList, SaveRevocationList,
           SaveFails, EnforceRevocation, new, e, d

(* setDeviceStatus() carries nothing over.                                 *)
LEMMA SetDeviceStatusCarries ==
  ASSUME TypeOK, NEW now \in Time, NEW status, SetDeviceStatus(status, now)
  PROVE  Carries(eng, eng')
<1> DEFINE new   == [eng.state EXCEPT !.deviceStatus = status]
           saved == [eng EXCEPT !.state = new]
<1>1. eng \in EngineState /\ eng.state \in PersistentState
  BY DEF TypeOK, EngineState
<1>2. CASE eng' = Fault(eng, now)
  BY <1>1, <1>2, FaultCarries
<1>3. CASE /\ status \in Status
           /\ \/ eng' = Retick(RequireReauthentication(saved), now)
              \/ eng' = Retick(Invalidate(saved, "DENY_DEVICE_REVOKED",
                                          "REVOKED"), now)
  <2>1. new \in PersistentState
    BY <1>1, <1>3 DEF PersistentState
  <2> HIDE DEF new
  <2> QED BY <1>1, <1>3, <2>1, ReplacedAndWithdrawnCarries
          DEF RequireReauthentication, Decision, Denial, SessionState
<1> QED BY <1>2, <1>3 DEF SetDeviceStatus, SaveFails, new, saved

-----------------------------------------------------------------------------
(* The three methods that do not carry over.                               *)

(* What both action properties ask of a step.                              *)
GoodStep ==
  /\ OpensFreshly
  /\ LeavesFault =>
       /\ eng' = PoweredOn \/ (eng'.healthy /\ eng'.state = nvs)
       /\ eng'.sessionState = "NONE" /\ ~eng'.hasPending

(* A step that carries over opens nothing and leaves no fault.             *)
LEMMA CarriesIsGood == ASSUME Carries(eng, eng') PROVE GoodStep
BY DEF Carries, GoodStep, OpensFreshly, SessionOpens, LeavesFault

(* tick() of a withdrawn engine at the time it was withdrawn says NONE.    *)
LEMMA FreshTick ==
  ASSUME NEW e \in EngineState, NEW now \in Time, e.lastNow = now,
         NEW r, r = Retick(RequireReauthentication(e), now)
  PROVE  r.sessionState = "NONE" /\ r.healthy = e.healthy
<1> DEFINE i == RequireReauthentication(e)
<1>1. /\ i \in EngineState /\ i.sessionState = "NONE" /\ i.lastNow = now
      /\ i.healthy = e.healthy
  BY InvalidateFields
     DEF RequireReauthentication, Decision, Denial, SessionState
<1>2. ~(now < now)
  BY TimeIsNat
<1>3. r = Decide(CheckExpiry(CheckClock(i, now), now), now, i.pressed)
  BY DEF Retick, Tick
<1> HIDE DEF i
<1>4. CheckClock(i, now) = i
  BY <1>1, <1>2 DEF CheckClock, EngineState
<1>5. CheckExpiry(i, now) = i
  BY <1>1 DEF CheckExpiry
<1> QED BY <1>1, <1>3, <1>4, <1>5 DEF Decide, EngineState

(* recover() leaves a fault only with what the flash holds, and holds      *)
(* nothing itself.                                                         *)
LEMMA RecoverIsGood ==
  ASSUME TypeOK, NEW now \in Time, Recover(now) PROVE GoodStep
<1> DEFINE e == [eng EXCEPT !.state = nvs, !.healthy = TRUE,
                            !.controlFault = FALSE, !.lastNow = now]
<1>1. eng \in EngineState
  BY DEF TypeOK
<1>2. CASE eng' = Retick(RequireReauthentication(e), now)
  <2>1. e \in EngineState /\ e.state = nvs /\ e.healthy /\ e.lastNow = now
    BY DEF TypeOK, EngineState
  <2> HIDE DEF e
  <2>2. Withdrawn(e, eng')
    BY <1>2, <2>1, InvalidateTick
       DEF RequireReauthentication, Decision, Denial, SessionState
  <2>3. eng'.sessionState = "NONE" /\ eng'.healthy
    BY <1>2, <2>1, FreshTick
  <2> QED BY <2>1, <2>2, <2>3
          DEF GoodStep, OpensFreshly, SessionOpens, Withdrawn, Idle
<1>3. CASE eng' = Fault(eng, now)
  BY <1>1, <1>3, FaultCarries, CarriesIsGood
<1> QED BY <1>2, <1>3 DEF Recover

(* A power cycle holds nothing.                                            *)
LEMMA PowerCycleIsGood == ASSUME PowerCycle PROVE GoodStep
BY DEF PowerCycle, GoodStep, OpensFreshly, SessionOpens, PoweredOn

(* A session opens on a counter above the stored one, and the stored one   *)
(* is above all that came before.                                          *)
LEMMA AcceptResponseIsGood ==
  ASSUME TypeOK, FloorsHeld, NEW now \in Time, NEW e \in EngineState, NEW r,
         r.counter \in Nat, r.credentialId = e.attached, e.attached # NoId,
         e.state = eng.state, e.state.deviceId = "this",
         Verdict(e, r) = "valid", ~e.hasPending,
         Carries(eng, e), e.healthy, ~e.controlFault,
         eng.hasPending, now < eng.challengeDeadline,
         AcceptResponse(e, r.counter, now)
  PROVE  GoodStep
<1> DEFINE c     == e.attached
           new   == [e.state EXCEPT !.credentials[c].counter = r.counter]
           saved == [e EXCEPT !.state = new]
           o     == OpenSession(saved, now)
<1>1. c \in Credentials /\ e.state \in PersistentState
  BY DEF EngineState
<1>2. new \in PersistentState /\ new.credentials[c].counter = r.counter
  <2>1. new = WithCounter(e.state, c, r.counter)
    BY DEF WithCounter
  <2> HIDE DEF c, new
  <2>2. OnlyCounter(e.state, new, c, r.counter)
    BY <1>1, <2>1, CounterOnly
  <2> QED BY <2>2 DEF OnlyCounter
<1> HIDE DEF new
<1>3. /\ saved \in EngineState /\ saved.attached = c /\ saved.state = new
      /\ saved.hasPending = e.hasPending /\ saved.healthy = e.healthy
      /\ saved.controlFault = e.controlFault
      /\ Carries(e, saved)
  <2>1. Carries(e, saved)
    BY <1>2, ReplacedCarries
  <2>2. saved \in EngineState /\ saved.state = new
    BY <1>2, ReplacedCarries DEF EngineState
  <2> QED BY <2>1, <2>2 DEF EngineState
<1> HIDE DEF saved
<1>4. CASE eng' = Fault(e, now)
  <2>1. Carries(e, eng')
    BY <1>4, FaultCarries
  <2> QED BY <2>1, CarriesOn, CarriesIsGood
<1>5. CASE eng' = Fault(saved, now)
  <2>1. Carries(saved, eng')
    BY <1>3, <1>5, FaultCarries
  <2>2. Carries(eng, eng')
    BY <1>3, <2>1 DEF Carries
  <2> QED BY <2>2, CarriesIsGood
<1>6. CASE /\ Saves(new) /\ eng' = Retick(o, now)
           /\ now <= TimeMax - new.policy.sessionTimeout
  <2>1. o \in EngineState
    BY <1>1, <1>3, <1>6, OpenSessionType
  <2>2. /\ ~o.hasPending /\ o.pressed \in BOOLEAN /\ o.healthy
        /\ ~o.controlFault
        /\ o.session.credentialId = c /\ o.session.createdAt = now
    BY <1>3 DEF OpenSession, EngineState
  <2> HIDE DEF o
  <2>3. eng' = Tick(o, now, o.pressed)
    BY <1>6 DEF Retick
  <2>4. /\ ~eng'.hasPending /\ eng'.controlFault = o.controlFault
        /\ eng'.sessionState = "ACTIVE" => eng'.session = o.session
    BY <2>1, <2>2, <2>3, TickFrame
  <2>5. ledger.served[c] < r.counter
    <3>1. ledger.served[c] <= e.state.credentials[c].counter
      BY <1>1 DEF FloorsHeld, Holds, KeepsFloors
    <3>2. e.state.credentials[c].counter < r.counter
      BY <1>1, ValidVerdict, SnapshotNumbers
    <3> QED BY <1>1, <3>1, <3>2, SnapshotNumbers, LedgerNumbers
  <2>6. nvs'.credentials[c].counter = r.counter
    BY <1>2, <1>6 DEF Saves
  <2>7. OpensFreshly
    BY <1>1, <2>2, <2>4, <2>5, <2>6, LedgerNumbers
       DEF OpensFreshly, SessionOpens
  <2>8. ~LeavesFault
    BY <2>2, <2>4 DEF LeavesFault, Carries
  <2> QED BY <2>7, <2>8 DEF GoodStep
<1> QED BY <1>4, <1>5, <1>6
        DEF AcceptResponse, SaveFails, new, saved, o

(* validateResponse() opens a session in no other way.                     *)
LEMMA ValidateResponseIsGood ==
  ASSUME TypeOK, SafeInv, FloorsHeld, NEW now \in Time, NEW r,
         r.counter \in Nat, r.credentialId \in Credentials \cup {NoId},
         ValidateResponse(r, now)
  PROVE  GoodStep
<1> DEFINE t        == Retick(eng, now)
           consumed == [t EXCEPT !.hasPending = FALSE]
           named    == [consumed EXCEPT !.attached = r.credentialId]
<1>1. /\ t \in EngineState /\ OurState(t) /\ Carries(eng, t)
      /\ t.state = eng.state /\ t.challengeDeadline = eng.challengeDeadline
      /\ t.hasPending => eng.hasPending
  <2>1. eng \in EngineState /\ eng.pressed \in BOOLEAN
    BY DEF TypeOK, EngineState
  <2> QED BY <2>1, RetickFacts, RetickCarries, TickFrame DEF Retick
<1> HIDE DEF t
<1>2. /\ consumed \in EngineState /\ consumed.state = t.state
      /\ consumed.healthy = t.healthy
      /\ consumed.controlFault = t.controlFault /\ ~consumed.hasPending
      /\ Carries(t, consumed)
  BY <1>1 DEF EngineState, Carries
<1> HIDE DEF consumed
<1>3. /\ named \in EngineState /\ named.state = t.state
      /\ named.healthy = t.healthy /\ named.controlFault = t.controlFault
      /\ named.attached = r.credentialId /\ ~named.hasPending
      /\ Carries(consumed, named)
  BY <1>2 DEF EngineState, Carries
<1> HIDE DEF named
<1>4. Carries(eng, consumed) /\ Carries(eng, named)
  BY <1>1, <1>2, <1>3 DEF Carries
<1>5. CASE eng' = consumed
  BY <1>4, <1>5, CarriesIsGood
<1>6. CASE eng' = Fault(named, now)
  <2>1. Carries(named, eng')
    BY <1>3, <1>6, FaultCarries
  <2> QED BY <1>4, <2>1, CarriesOn, CarriesIsGood
<1>7. CASE /\ Admission(t, r, now) \in Denial
           /\ eng' = Deny(consumed, Admission(t, r, now), now)
  <2>1. Carries(consumed, eng')
    BY <1>2, <1>7, DenyCarries DEF Decision
  <2> QED BY <1>4, <2>1, CarriesOn, CarriesIsGood
<1>8. CASE /\ Verdict(named, r) \in Denial
           /\ eng' = Deny(named, Verdict(named, r), now)
  <2>1. Carries(named, eng')
    BY <1>3, <1>8, DenyCarries DEF Decision
  <2> QED BY <1>4, <2>1, CarriesOn, CarriesIsGood
<1>9. CASE /\ Admission(t, r, now) = "admitted"
           /\ Verdict(named, r) = "valid"
           /\ AcceptResponse(named, r.counter, now)
  <2>1. /\ t.healthy /\ ~t.controlFault /\ r.credentialId # NoId
        /\ t.hasPending /\ ~(now >= t.challengeDeadline)
    BY <1>1, <1>9 DEF Admission, EngineState
  <2>2. now \in Nat /\ t.challengeDeadline \in Nat
    BY <1>1, TimeIsNat DEF EngineState
  <2>3. named.state.deviceId = "this" /\ now < eng.challengeDeadline
    BY <1>1, <1>3, <2>1, <2>2 DEF OurState
  <2> QED BY <1>1, <1>3, <1>4, <1>9, <2>1, <2>3, AcceptResponseIsGood
<1> QED BY <1>5, <1>6, <1>7, <1>8, <1>9
        DEF ValidateResponse, t, consumed, named

(* Every step is good, one method at a time.                               *)
LEMMA StepsAreGood ==
  TypeOK /\ SafeInv /\ FloorsHeld /\ [Next]_vars => [GoodStep]_vars
<1> SUFFICES ASSUME TypeOK, SafeInv, FloorsHeld, Next PROVE GoodStep
  OBVIOUS
<1>1. CASE PowerCycle
  BY <1>1, PowerCycleIsGood
<1>2. ASSUME NEW now \in Time, Calls(now) PROVE GoodStep
  <2>1. CASE Recover(now)
    BY <2>1, RecoverIsGood
  <2>2. CASE \E pressed \in BOOLEAN : Service(now, pressed)
    BY <2>2, TickCarries, CarriesIsGood DEF Service, TypeOK
  <2>3. CASE ReportFault(now)
    BY <2>3, FaultCarries, CarriesIsGood DEF ReportFault, TypeOK
  <2>4. CASE Detach(now)
    BY <2>4, DetachCarries, CarriesIsGood
  <2>5. CASE BeginChallenge(now)
    BY <2>5, BeginChallengeCarries, CarriesIsGood
  <2>6. CASE \E a \in Answers, n \in 0..issued :
               ValidateResponse(Challenged(a, n), now)
    BY <2>6, ChallengedType, ValidateResponseIsGood
  <2>7. CASE \E p \in Policies : UpdatePolicy(p, now)
    BY <2>7, UpdatePolicyCarries, CarriesIsGood
  <2>8. CASE \E u \in MetadataUpdates : UpdateCredential(u[1], u[2], now)
    BY <2>8, ConstantTypes, UpdateCredentialCarries, CarriesIsGood
  <2>9. CASE \E l \in RevocationLists : ApplyRevocationList(l, now)
    BY <2>9, ApplyRevocationListCarries, CarriesIsGood
  <2>10. CASE \E s1 \in Status \cup {OutOfRange} : SetDeviceStatus(s1, now)
    BY <2>10, SetDeviceStatusCarries, CarriesIsGood
  <2> QED BY <1>2, <2>1, <2>2, <2>3, <2>4, <2>5, <2>6, <2>7, <2>8, <2>9, <2>10
          DEF Calls
<1> QED BY <1>1, <1>2 DEF Next

(* Every behaviour takes good steps only.                                  *)
LEMMA AlwaysGood == Spec => [][GoodStep]_vars
<1> QED BY StepsAreGood, SafeAlways, FloorsAlways, PTL DEF Spec

-----------------------------------------------------------------------------
(* A response opens at most one session: repeated, delayed or answered     *)
(* over an older challenge, across power cycles and failed saves, it opens *)
(* none.                                                                   *)
THEOREM NothingIsReplayed == Spec => NoReplay
<1>1. GoodStep => OpensFreshly
  BY DEF GoodStep
<1> QED BY <1>1, AlwaysGood, PTL DEF NoReplay

(* A fault or a latched rollback ends in a reload of the flash or a power  *)
(* cycle, and takes session and challenge with it.                         *)
THEOREM FaultsAreLatched == Spec => FaultsLatch
<1>1. GoodStep =>
        (LeavesFault => /\ eng' = PoweredOn \/ (eng'.healthy /\ eng'.state = nvs)
                        /\ eng'.sessionState = "NONE" /\ ~eng'.hasPending)
  BY DEF GoodStep
<1> QED BY <1>1, AlwaysGood, PTL DEF FaultsLatch

=============================================================================
