-------------------------- MODULE LegacySimulator --------------------------
(***************************************************************************)
(* The v0.1 Python simulator: class StateMachine with its policy function, *)
(* driven one command at a time by Simulator.execute(), which reads the    *)
(* status (and so refreshes the machine) after every command.              *)
(*                                                                         *)
(* The helpers are operators from a machine record to a machine record,    *)
(* named as in the source.  The clock is injected and shared: it may move  *)
(* between two commands (PassTime), or by the advance_time command.        *)
(*                                                                         *)
(* A command with a malformed argument raises before it changes anything   *)
(* and is not modelled, nor is the wording of events: gateEvent is the     *)
(* last of TX_ALLOWED and TX_DISABLED, deniedFor the reason in the last    *)
(* TX_DENIED.                                                              *)
(***************************************************************************)
EXTENDS Naturals

CONSTANTS
  Registered,      \* credential ids of the configuration
  Strangers,       \* ids a tag may show that are not registered
  NoId, NoDeadline, \* None
  Configurations,  \* initial credential tables: Registered -> Credential
  GracePeriods,    \* grace_period_ms of the configurations considered
  TimeMax          \* bound on the virtual clock

Ids == Registered \cup Strangers

Credential == [authorized : BOOLEAN, revoked : BOOLEAN]

AuthState == {"UNAUTHENTICATED", "AUTHORIZED", "GRACE_PERIOD", "REVOKED",
              "SYSTEM_FAILURE"}

Denial == {"DENY_NO_CREDENTIAL", "DENY_UNKNOWN_CREDENTIAL",
           "DENY_CREDENTIAL_EXPIRED", "DENY_DEVICE_REVOKED",
           "DENY_SYSTEM_FAILURE", "DENY_CREDENTIAL_REVOKED",
           "DENY_CREDENTIAL_UNAUTHORIZED", "DENY_REAUTHENTICATION_REQUIRED",
           "DENY_PTT_RELEASED", "DENY_INVALID_STATE"}

TxDecision == Denial \cup {"ALLOW"}

Machine ==
  [grace : Nat, credentials : [Registered -> Credential],
   revoked : BOOLEAN, healthy : BOOLEAN,
   attached : Ids \cup {NoId}, session : Registered \cup {NoId},
   auth : AuthState, pressed : BOOLEAN, sessionValid : BOOLEAN,
   deadline : Nat \cup {NoDeadline}, denial : TxDecision,
   decision : TxDecision, gateEvent : {"none", "TX_ALLOWED", "TX_DISABLED"},
   deniedFor : Denial \cup {"none"}]

ASSUME LegacyConstants ==
  /\ NoId \notin Ids /\ Registered \cap Strangers = {}
  /\ NoDeadline \notin Nat
  /\ Configurations \subseteq [Registered -> Credential]
  /\ GracePeriods \subseteq Nat
  /\ TimeMax \in Nat

NewMachine(table, grace) ==
  [grace |-> grace, credentials |-> table, revoked |-> FALSE,
   healthy |-> TRUE, attached |-> NoId, session |-> NoId,
   auth |-> "UNAUTHENTICATED", pressed |-> FALSE, sessionValid |-> FALSE,
   deadline |-> NoDeadline, denial |-> "DENY_NO_CREDENTIAL",
   decision |-> "DENY_NO_CREDENTIAL", gateEvent |-> "none",
   deniedFor |-> "none"]

-----------------------------------------------------------------------------
(* policy.evaluate() on machine.context().                                 *)

(* The id whose credential the context carries: attached, else in session. *)
Identity(m) == IF m.attached # NoId THEN m.attached ELSE m.session

Identified(m) == Identity(m) \in Registered

(* The gates once the state is AUTHORIZED or GRACE_PERIOD.                 *)
EvaluateSession(m, now) ==
  IF ~Identified(m) THEN "DENY_NO_CREDENTIAL"
  ELSE IF ~m.sessionValid THEN "DENY_REAUTHENTICATION_REQUIRED"
  ELSE IF /\ m.auth = "GRACE_PERIOD"
          /\ m.attached # NoId \/ m.deadline = NoDeadline
       THEN "DENY_INVALID_STATE"
  ELSE IF m.auth = "GRACE_PERIOD" /\ now >= m.deadline
       THEN "DENY_CREDENTIAL_EXPIRED"
  ELSE IF /\ m.auth = "AUTHORIZED"
          /\ m.attached # Identity(m) \/ m.deadline # NoDeadline
       THEN "DENY_INVALID_STATE"
  ELSE IF m.pressed THEN "ALLOW" ELSE "DENY_PTT_RELEASED"

Evaluate(m, now) ==
  IF ~m.healthy THEN "DENY_SYSTEM_FAILURE"
  ELSE IF m.revoked THEN "DENY_DEVICE_REVOKED"
  ELSE IF m.auth = "SYSTEM_FAILURE" THEN "DENY_SYSTEM_FAILURE"
  ELSE IF Identified(m) /\ m.credentials[Identity(m)].revoked
       THEN "DENY_CREDENTIAL_REVOKED"
  ELSE IF Identified(m) /\ ~m.credentials[Identity(m)].authorized
       THEN "DENY_CREDENTIAL_UNAUTHORIZED"
  ELSE IF m.auth \in {"AUTHORIZED", "GRACE_PERIOD"} THEN EvaluateSession(m, now)
  ELSE IF m.denial \in {"ALLOW", "DENY_PTT_RELEASED"} THEN "DENY_INVALID_STATE"
  ELSE m.denial

-----------------------------------------------------------------------------
(* The private helpers of StateMachine.                                    *)

(* Mutant: events follow the button instead of the decision.               *)
ReconcileByButton(m, now, forceDenial, forceDisabled) ==
  LET d == Evaluate(m, now)
  IN  [m EXCEPT !.decision = d,
                !.gateEvent = IF ~m.pressed THEN @
                              ELSE IF d = "ALLOW" THEN "TX_ALLOWED"
                              ELSE "TX_DISABLED",
                !.deniedFor = IF m.pressed THEN d ELSE @]

Reconcile(m, now, forceDenial, forceDisabled) ==
  LET d == Evaluate(m, now)
      allowed == d = "ALLOW"
      wasAllowed == m.decision = "ALLOW"
  IN  [m EXCEPT
         !.decision = d,
         !.gateEvent =
            IF allowed /\ ~wasAllowed THEN "TX_ALLOWED"
            ELSE IF ~allowed /\ (wasAllowed \/ forceDisabled) THEN "TX_DISABLED"
            ELSE @,
         !.deniedFor =
            IF ~allowed /\ m.pressed /\ (d # m.decision \/ forceDenial)
            THEN d ELSE @]

Reconciled(m, now) == Reconcile(m, now, FALSE, FALSE)

(* Mutant: a fault does not show in the authentication state.              *)
InvalidateUnmarked(m, reason) ==
  [m EXCEPT !.sessionValid = FALSE, !.deadline = NoDeadline,
            !.denial = reason,
            !.auth = IF m.revoked \/ reason = "DENY_CREDENTIAL_REVOKED"
                     THEN "REVOKED" ELSE "UNAUTHENTICATED"]

Invalidate(m, reason) ==
  [m EXCEPT !.sessionValid = FALSE, !.deadline = NoDeadline,
            !.denial = reason,
            !.auth = IF ~m.healthy THEN "SYSTEM_FAILURE"
                     ELSE IF m.revoked \/ reason = "DENY_CREDENTIAL_REVOKED"
                     THEN "REVOKED" ELSE "UNAUTHENTICATED"]

Expired(m, now) == m.auth = "GRACE_PERIOD" /\ now >= m.deadline

(* Mutant: a session that expires does not touch the decision.             *)
RefreshUndecided(m, now) ==
  IF Expired(m, now) THEN Invalidate(m, "DENY_CREDENTIAL_EXPIRED") ELSE m

Refresh(m, now) ==
  Reconciled(IF Expired(m, now) THEN Invalidate(m, "DENY_CREDENTIAL_EXPIRED")
                                ELSE m, now)

-----------------------------------------------------------------------------
VARIABLES
  machine,  \* the StateMachine
  clock,    \* clock.now_ms, shared with whoever injected it
  lostAt    \* history: when the credential was last removed

vars == <<machine, clock, lostAt>>

Init == /\ \E table \in Configurations, grace \in GracePeriods :
             machine = NewMachine(table, grace)
        /\ clock = 0
        /\ lostAt = 0

(* Every command begins with a refresh and is followed by status().        *)
Fresh == Refresh(machine, clock)

Execute(m) == /\ machine' = Refresh(m, clock)
              /\ UNCHANGED clock

Command(m) == Execute(m) /\ UNCHANGED lostAt

Status == Command(machine)

PassTime == /\ clock' \in clock + 1 .. TimeMax
            /\ UNCHANGED <<machine, lostAt>>

AdvanceTime(ms) ==
  /\ clock + ms <= TimeMax
  /\ clock' = clock + ms
  /\ machine' = Refresh(machine, clock')
  /\ UNCHANGED lostAt

(* Why the credential just attached gets no session, or "none".            *)
Refusal(m) ==
  IF ~m.healthy THEN "DENY_SYSTEM_FAILURE"
  ELSE IF m.revoked THEN "DENY_DEVICE_REVOKED"
  ELSE IF ~Identified(m) THEN "DENY_UNKNOWN_CREDENTIAL"
  ELSE IF m.credentials[m.attached].revoked THEN "DENY_CREDENTIAL_REVOKED"
  ELSE IF ~m.credentials[m.attached].authorized
       THEN "DENY_CREDENTIAL_UNAUTHORIZED"
  ELSE "none"

(* Mutant: the replacement takes over the grace window.                    *)
AttachCredentialInheriting(id) ==
  LET named == [Fresh EXCEPT !.attached = id, !.session = NoId]
  IN  Command(Reconciled(
        IF Refusal(named) = "none"
        THEN [named EXCEPT !.session = id, !.sessionValid = TRUE,
                           !.auth = "AUTHORIZED"]
        ELSE Invalidate(named, Refusal(named)), clock))

(* A replacement inherits neither session nor grace window.                *)
AttachCredential(id) ==
  LET named == Invalidate([Fresh EXCEPT !.attached = id, !.session = NoId],
                          "DENY_REAUTHENTICATION_REQUIRED")
  IN  Command(Reconciled(
        IF Refusal(named) = "none"
        THEN [named EXCEPT !.session = id, !.sessionValid = TRUE,
                           !.auth = "AUTHORIZED"]
        ELSE Invalidate(named, Refusal(named)), clock))

(* Mutant: detaching again restarts the grace period.                      *)
RemoveAgain(m) ==
  IF m.auth \in {"AUTHORIZED", "GRACE_PERIOD"} /\ m.sessionValid
  THEN [m EXCEPT !.attached = NoId, !.auth = "GRACE_PERIOD",
                 !.deadline = clock + m.grace]
  ELSE Invalidate([m EXCEPT !.attached = NoId, !.session = NoId],
                  "DENY_NO_CREDENTIAL")

(* A second detach changes nothing: it cannot extend the deadline.         *)
Remove(m) ==
  IF m.attached = NoId THEN m
  ELSE IF m.auth = "AUTHORIZED" /\ m.sessionValid
  THEN [m EXCEPT !.attached = NoId, !.auth = "GRACE_PERIOD",
                 !.deadline = clock + m.grace]
  ELSE Invalidate([m EXCEPT !.attached = NoId, !.session = NoId],
                  "DENY_NO_CREDENTIAL")

DetachCredential ==
  /\ Execute(Remove(Fresh))
  /\ lostAt' = IF Fresh.attached = NoId THEN lostAt ELSE clock

(* Mutant: a press that is denied is not told so.                          *)
PttPressQuietly ==
  Command(IF Fresh.pressed THEN Fresh
          ELSE Reconciled([Fresh EXCEPT !.pressed = TRUE], clock))

PttPress ==
  Command(IF Fresh.pressed THEN Fresh
          ELSE Reconcile([Fresh EXCEPT !.pressed = TRUE], clock, TRUE, FALSE))

(* TX_DISABLED is reported on release whether or not there was a TX.       *)
PttRelease ==
  Command(IF ~Fresh.pressed THEN Fresh
          ELSE [Reconciled([Fresh EXCEPT !.pressed = FALSE], clock)
                  EXCEPT !.gateEvent = "TX_DISABLED"])

RevokeDevice ==
  Command(IF Fresh.revoked THEN Fresh
          ELSE Reconcile(Invalidate([Fresh EXCEPT !.revoked = TRUE],
                                    "DENY_DEVICE_REVOKED"),
                         clock, FALSE, TRUE))

RestoreDevice ==
  Command(IF ~Fresh.revoked THEN Fresh
          ELSE Reconciled(Invalidate([Fresh EXCEPT !.revoked = FALSE],
                                     "DENY_REAUTHENTICATION_REQUIRED"), clock))

(* Revoking a credential ends its session, in its grace period too.        *)
Withdraw(m, id) ==
  IF id \in {m.attached, m.session}
  THEN Invalidate(m, "DENY_CREDENTIAL_REVOKED") ELSE m

RevokeCredential(id) ==
  Command(IF Fresh.credentials[id].revoked THEN Fresh
          ELSE Reconciled(
                 Withdraw([Fresh EXCEPT !.credentials[id].revoked = TRUE], id),
                 clock))

SystemFault ==
  Command(IF ~Fresh.healthy THEN Fresh
          ELSE Reconcile(Invalidate([Fresh EXCEPT !.healthy = FALSE],
                                    "DENY_SYSTEM_FAILURE"),
                         clock, FALSE, TRUE))

(* Mutant: recovery resumes the session of the credential still attached.  *)
SystemRecoverResuming ==
  Command(IF Fresh.healthy THEN Fresh
          ELSE LET up == Invalidate([Fresh EXCEPT !.healthy = TRUE],
                                    "DENY_REAUTHENTICATION_REQUIRED")
               IN  Reconciled(IF up.session = NoId \/ up.attached # up.session
                                 \/ Refusal(up) # "none" THEN up
                              ELSE [up EXCEPT !.sessionValid = TRUE,
                                              !.auth = "AUTHORIZED"], clock))

SystemRecover ==
  Command(IF Fresh.healthy THEN Fresh
          ELSE Reconciled(Invalidate([Fresh EXCEPT !.healthy = TRUE],
                                     "DENY_REAUTHENTICATION_REQUIRED"), clock))

(* Revocations and the clock survive a reboot, the button does not.        *)
SystemReboot ==
  Command(Reconcile(
    Invalidate([Fresh EXCEPT !.healthy = TRUE, !.attached = NoId,
                             !.session = NoId, !.pressed = FALSE],
               "DENY_NO_CREDENTIAL"), clock, FALSE, TRUE))

Next ==
  \/ Status \/ PassTime
  \/ \E ms \in 0..TimeMax : AdvanceTime(ms)
  \/ \E id \in Ids : AttachCredential(id)
  \/ DetachCredential
  \/ PttPress \/ PttRelease
  \/ RevokeDevice \/ RestoreDevice
  \/ \E id \in Registered : RevokeCredential(id)
  \/ SystemFault \/ SystemRecover \/ SystemReboot

Spec == Init /\ [][Next]_vars

-----------------------------------------------------------------------------
(* Properties.                                                             *)

(* Every attribute of StateMachine holds a value of its declared type.     *)
TypeOK == /\ machine \in Machine
          /\ clock \in 0..TimeMax
          /\ lostAt \in 0..TimeMax

(* A session belongs to a registered, authorized, unrevoked credential of  *)
(* a healthy device in service.  Either that credential is attached, or it *)
(* was removed and the deadline is one grace period after the removal:     *)
(* nothing the operator does extends it.  Without a session there is no    *)
(* deadline and no authorized state.                                       *)
Authentic(m) ==
  /\ m.healthy /\ ~m.revoked
  /\ m.session # NoId
  /\ m.credentials[m.session].authorized /\ ~m.credentials[m.session].revoked
  /\ \/ /\ m.auth = "AUTHORIZED"
        /\ m.attached = m.session /\ m.deadline = NoDeadline
     \/ /\ m.auth = "GRACE_PERIOD"
        /\ m.attached = NoId /\ m.deadline = lostAt + m.grace

SessionAuthentic ==
  IF machine.sessionValid THEN Authentic(machine)
  ELSE /\ machine.auth \notin {"AUTHORIZED", "GRACE_PERIOD"}
       /\ machine.deadline = NoDeadline

(* The authentication state mirrors the device: a fault shows as           *)
(* SYSTEM_FAILURE exactly as long as it lasts, whatever is revoked and     *)
(* restored meanwhile, and a revoked healthy device as REVOKED.            *)
AuthMirrorsDevice ==
  /\ machine.auth = "SYSTEM_FAILURE" <=> ~machine.healthy
  /\ machine.healthy /\ machine.revoked => machine.auth = "REVOKED"

(* Every command reports the decision of the moment it returns, however    *)
(* far the clock moved since the command before.                           *)
ReportCurrent ==
  [][machine' # machine => machine'.decision = Evaluate(machine', clock')]_vars

(* No sequence of commands builds a state the policy calls inconsistent.   *)
NeverInconsistent == machine.decision # "DENY_INVALID_STATE"

(* Transmission starts only because the operator presses the button or     *)
(* presents a credential, never because something recovered.               *)
StartedByOperator ==
  [][machine.decision # "ALLOW" /\ machine'.decision = "ALLOW" =>
       \/ ~machine.pressed /\ machine'.pressed
       \/ /\ ~machine.sessionValid /\ machine'.attached = machine'.session
          /\ machine'.healthy = machine.healthy
          /\ machine'.revoked = machine.revoked]_vars

(* The event log tells the gate: the last TX_ALLOWED or TX_DISABLED event  *)
(* is TX_ALLOWED just when transmission is allowed.                        *)
GateEventFaithful ==
  machine.gateEvent = "TX_ALLOWED" <=> machine.decision = "ALLOW"

(* An operator who holds the button and is denied has been told, and the   *)
(* reason last told is the reason in force.                                *)
DenialTold ==
  machine.pressed /\ machine.decision # "ALLOW" =>
    machine.deniedFor = machine.decision

=============================================================================
