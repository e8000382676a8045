---------------------------- MODULE HermesPolicy ----------------------------
(***************************************************************************)
(* The vocabulary of the security engine and its stateless policy          *)
(* function: the enumerations of hermes_security.h, the SecurityContext    *)
(* handed to a decision, and evaluate().                                   *)
(*                                                                         *)
(* evaluate() re-checks the range of the enumerations it is handed, since  *)
(* they are casts of stored bytes; OutOfRange stands for every byte value  *)
(* that names no enumerator.                                               *)
(***************************************************************************)
EXTENDS Naturals

Status       == {"Active", "Revoked", "Disabled"}
BindingMode  == {"Disabled", "AllowList"}
Mode         == {"NORMAL", "DEGRADED", "REVOKED"}
SessionState == {"NONE", "ACTIVE", "EXPIRED", "REVOKED"}

(* Decisions 2..14: the only ones evaluate() passes through from denial_.  *)
Denial ==
  {"DENY_NO_CREDENTIAL", "DENY_AUTH_FAILED", "DENY_REPLAY",
   "DENY_COUNTER_ROLLBACK", "DENY_CREDENTIAL_REVOKED", "DENY_DEVICE_REVOKED",
   "DENY_BINDING", "DENY_SESSION_EXPIRED", "DENY_SYSTEM_FAILURE",
   "DENY_POLICY_ROLLBACK", "DENY_REAUTHENTICATION_REQUIRED",
   "DENY_PTT_RELEASED", "DENY_DEGRADED"}

Decision == Denial \cup {"ALLOW_TX", "ALLOW_EMERGENCY_ONLY"}

OutOfRange == "out of range"

SecurityContext ==
  [systemHealthy : BOOLEAN, deviceStatus : Status \cup {OutOfRange},
   credentialStatus : Status \cup {OutOfRange}, credentialPresent : BOOLEAN,
   credentialAuthenticated : BOOLEAN, bindingValid : BOOLEAN,
   counterFresh : BOOLEAN, sessionBound : BOOLEAN,
   sessionState : SessionState \cup {OutOfRange},
   sessionDeadline : Nat, now : Nat, pttPressed : BOOLEAN,
   mode : Mode \cup {OutOfRange}, emergencyEnabled : BOOLEAN,
   denial : Decision \cup {OutOfRange}]

InRange(c) == /\ c.deviceStatus \in Status
              /\ c.mode \in Mode
              /\ c.sessionState \in SessionState
              /\ c.denial \in Decision

(***************************************************************************)
(* The decision once health, revocation, the rollback latch and DEGRADED   *)
(* mode are out of the way: the gates of normal transmission, first        *)
(* failure wins.                                                           *)
(***************************************************************************)
EvaluateSession(c) ==
  IF ~c.credentialAuthenticated
  THEN IF c.denial \in Denial THEN c.denial ELSE "DENY_AUTH_FAILED"
  ELSE IF ~c.credentialPresent THEN "DENY_NO_CREDENTIAL"
  ELSE IF c.credentialStatus # "Active" THEN "DENY_AUTH_FAILED"
  ELSE IF ~c.bindingValid \/ ~c.sessionBound THEN "DENY_BINDING"
  ELSE IF ~c.counterFresh THEN "DENY_REPLAY"
  ELSE IF c.sessionDeadline = 0 THEN "DENY_SYSTEM_FAILURE"
  ELSE IF c.sessionState = "EXPIRED" \/ c.now >= c.sessionDeadline
       THEN "DENY_SESSION_EXPIRED"
  ELSE IF c.sessionState # "ACTIVE" THEN "DENY_REAUTHENTICATION_REQUIRED"
  ELSE IF c.pttPressed THEN "ALLOW_TX" ELSE "DENY_PTT_RELEASED"

(* evaluate(): the first matching line decides.                            *)
Evaluate(c) ==
  IF ~c.systemHealthy \/ ~InRange(c) THEN "DENY_SYSTEM_FAILURE"
  ELSE IF c.deviceStatus # "Active" \/ c.mode = "REVOKED"
       THEN "DENY_DEVICE_REVOKED"
  ELSE IF c.credentialStatus = "Revoked" THEN "DENY_CREDENTIAL_REVOKED"
  ELSE IF c.denial = "DENY_POLICY_ROLLBACK" THEN "DENY_POLICY_ROLLBACK"
  ELSE IF c.mode = "DEGRADED"
       THEN IF c.emergencyEnabled /\ c.pttPressed
            THEN "ALLOW_EMERGENCY_ONLY" ELSE "DENY_DEGRADED"
  ELSE EvaluateSession(c)

=============================================================================
