----------------------- MODULE LegacySimulatorProofs ------------------------
(***************************************************************************)
(* The v0.1 simulator, for every configuration, every set of tags, every   *)
(* grace period and every sequence of commands.                            *)
(*                                                                         *)
(* Sound(m, lost), Told(m) and Decided(m) speak of one machine record, so  *)
(* that the private helpers of StateMachine get lemmas of their own.       *)
(* Decided does not hold in the middle of a command: it is what the        *)
(* refresh at its end, by Simulator.execute(), establishes.                *)
(***************************************************************************)
EXTENDS LegacySimulator, TLAPS

(* Why a machine without a session denies: never for the button, which is  *)
(* looked at last, and never for an inconsistency.                         *)
Reason == Denial \ {"DENY_PTT_RELEASED", "DENY_INVALID_STATE"}

(* A session in force, its credential last removed at time lost.           *)
Backed(m, lost) ==
  /\ m.healthy /\ ~m.revoked
  /\ m.session # NoId
  /\ m.credentials[m.session].authorized /\ ~m.credentials[m.session].revoked
  /\ \/ /\ m.auth = "AUTHORIZED"
        /\ m.attached = m.session /\ m.deadline = NoDeadline
     \/ /\ m.auth = "GRACE_PERIOD"
        /\ m.attached = NoId /\ m.deadline = lost + m.grace

Sound(m, lost) ==
  /\ IF m.sessionValid THEN Backed(m, lost)
     ELSE /\ m.auth \notin {"AUTHORIZED", "GRACE_PERIOD"}
          /\ m.deadline = NoDeadline
  /\ m.auth = "SYSTEM_FAILURE" <=> ~m.healthy
  /\ m.healthy /\ m.revoked => m.auth = "REVOKED"
  /\ m.denial \in Reason

(* The events handed out so far tell the decision.                         *)
Told(m) ==
  /\ m.gateEvent = "TX_ALLOWED" <=> m.decision = "ALLOW"
  /\ m.pressed /\ m.decision # "ALLOW" => m.deniedFor = m.decision

(* The decision follows from the session and the button.                   *)
Decided(m) ==
  /\ m.decision # "DENY_INVALID_STATE"
  /\ m.decision = "ALLOW" <=> m.sessionValid /\ m.pressed

SimulatorInv == /\ TypeOK
                /\ Sound(machine, lostAt)
                /\ Told(machine)
                /\ Decided(machine)

-----------------------------------------------------------------------------
(* The policy.                                                             *)

(* evaluate() always returns a decision.                                   *)
LEMMA EvaluateType ==
  ASSUME NEW m \in Machine, NEW now PROVE Evaluate(m, now) \in TxDecision
BY DEF Evaluate, EvaluateSession, Machine, TxDecision, Denial

(* Nothing is allowed while the button is released.                        *)
LEMMA AllowNeedsButton ==
  ASSUME NEW m, NEW now, Evaluate(m, now) = "ALLOW" PROVE m.pressed
BY DEF Evaluate, EvaluateSession

(* A machine whose session has not run out is allowed to transmit just     *)
(* when it has a session and the button is held, and is never found        *)
(* inconsistent.                                                           *)
LEMMA EvaluateSound ==
  ASSUME NEW m \in Machine, NEW now \in Nat, NEW lost \in Nat,
         Sound(m, lost), ~Expired(m, now)
  PROVE  /\ Evaluate(m, now) # "DENY_INVALID_STATE"
         /\ Evaluate(m, now) = "ALLOW" <=> m.sessionValid /\ m.pressed
<1>1. CASE ~m.sessionValid
  BY <1>1 DEF Sound, Evaluate, Reason, Denial
<1>2. CASE m.sessionValid
  <2>1. Backed(m, lost)
    BY <1>2 DEF Sound
  <2>2. Identity(m) = m.session /\ m.session \in Registered
    BY <2>1 DEF Backed, Identity, Machine
  <2>3. EvaluateSession(m, now) = IF m.pressed THEN "ALLOW" ELSE "DENY_PTT_RELEASED"
    BY <1>2, <2>1, <2>2, LegacyConstants
       DEF EvaluateSession, Identified, Backed, Expired, Machine
  <2>4. Evaluate(m, now) = EvaluateSession(m, now)
    BY <2>1, <2>2 DEF Evaluate, Backed, Machine
  <2> QED BY <1>2, <2>3, <2>4
<1> QED BY <1>1, <1>2 DEF Machine

-----------------------------------------------------------------------------
(* The private helpers of StateMachine.                                    *)

(* r is what _reconcile() makes of m, whatever it is forced to tell.       *)
Reconciles(m, now, r) ==
  \E fd, fs \in BOOLEAN : r = Reconcile(m, now, fd, fs)

(* r decides anew at now and is m in all a session rests on.               *)
Redecided(m, now, r) ==
  /\ r.decision = Evaluate(m, now)
  /\ r.attached = m.attached /\ r.session = m.session
  /\ r.sessionValid = m.sessionValid /\ r.pressed = m.pressed
  /\ r.healthy = m.healthy /\ r.revoked = m.revoked
  /\ r.auth = m.auth /\ r.deadline = m.deadline

(* _reconcile() touches the decision and the events only.                  *)
LEMMA ReconcileKeeps ==
  ASSUME NEW m \in Machine, NEW now, NEW lost, Sound(m, lost),
         NEW r, Reconciles(m, now, r)
  PROVE  r \in Machine /\ Sound(r, lost) /\ Redecided(m, now, r)
<1> PICK fd \in BOOLEAN, fs \in BOOLEAN : r = Reconcile(m, now, fd, fs)
  BY DEF Reconciles
<1> DEFINE d == Evaluate(m, now)
           told == IF d # "ALLOW" /\ m.pressed /\ (d # m.decision \/ fd)
                   THEN d ELSE m.deniedFor
           gate == IF d = "ALLOW" /\ m.decision # "ALLOW" THEN "TX_ALLOWED"
                   ELSE IF d # "ALLOW" /\ (m.decision = "ALLOW" \/ fs)
                   THEN "TX_DISABLED" ELSE m.gateEvent
<1>1. d \in TxDecision
  BY EvaluateType
<1>2. r = [m EXCEPT !.decision = d, !.gateEvent = gate, !.deniedFor = told]
  BY DEF Reconcile
<1> HIDE DEF d
<1>3. /\ told \in Denial \cup {"none"}
      /\ gate \in {"none", "TX_ALLOWED", "TX_DISABLED"}
  BY <1>1 DEF Machine, TxDecision
<1> HIDE DEF told, gate
<1>4. r \in Machine
  BY <1>1, <1>2, <1>3 DEF Machine
<1>5. /\ r.attached = m.attached /\ r.session = m.session
      /\ r.sessionValid = m.sessionValid /\ r.pressed = m.pressed
      /\ r.healthy = m.healthy /\ r.revoked = m.revoked
      /\ r.auth = m.auth /\ r.deadline = m.deadline
      /\ r.credentials = m.credentials /\ r.grace = m.grace
      /\ r.denial = m.denial /\ r.decision = d
  BY <1>2 DEF Machine
<1>6. Sound(r, lost)
  BY <1>5 DEF Sound, Backed
<1> QED BY <1>4, <1>5, <1>6 DEF d, Redecided

(* It tells every change of the decision; a denial under a held button is  *)
(* told when it changes, or when the press itself is being answered (fd).  *)
LEMMA ForcedReconcileTells ==
  ASSUME NEW m \in Machine, NEW now, NEW fd \in BOOLEAN, NEW fs \in BOOLEAN,
         m.gateEvent = "TX_ALLOWED" <=> m.decision = "ALLOW", fd \/ Told(m),
         NEW r, r = Reconcile(m, now, fd, fs)
  PROVE  Told(r)
<1> DEFINE d == Evaluate(m, now)
<1> HIDE DEF d
<1>1. /\ r.decision = d /\ r.pressed = m.pressed
      /\ r.gateEvent = IF d = "ALLOW" /\ m.decision # "ALLOW" THEN "TX_ALLOWED"
                       ELSE IF d # "ALLOW" /\ (m.decision = "ALLOW" \/ fs)
                       THEN "TX_DISABLED" ELSE m.gateEvent
      /\ r.deniedFor = IF /\ d # "ALLOW" /\ m.pressed
                          /\ d # m.decision \/ fd
                       THEN d ELSE m.deniedFor
  BY DEF Reconcile, Machine, d
<1>2. r.gateEvent = "TX_ALLOWED" <=> r.decision = "ALLOW"
  BY <1>1
<1>3. r.pressed /\ r.decision # "ALLOW" => r.deniedFor = r.decision
  BY <1>1 DEF Told
<1> QED BY <1>2, <1>3 DEF Told

LEMMA ReconcileTells ==
  ASSUME NEW m \in Machine, NEW now, Told(m), NEW r, Reconciles(m, now, r)
  PROVE  Told(r)
<1> PICK fd \in BOOLEAN, fs \in BOOLEAN : r = Reconcile(m, now, fd, fs)
  BY DEF Reconciles
<1> QED BY ForcedReconcileTells DEF Told

(* _invalidate() leaves a sound machine without a session, whatever the    *)
(* machine was.                                                            *)
LEMMA InvalidateSound ==
  ASSUME NEW m \in Machine, NEW reason \in Reason, NEW lost,
         NEW r, r = Invalidate(m, reason)
  PROVE  /\ r \in Machine /\ Sound(r, lost) /\ ~r.sessionValid
         /\ r.attached = m.attached /\ r.session = m.session
         /\ r.pressed = m.pressed
         /\ r.healthy = m.healthy /\ r.revoked = m.revoked
         /\ r.decision = m.decision /\ r.gateEvent = m.gateEvent
         /\ r.deniedFor = m.deniedFor /\ r.deadline = NoDeadline
         /\ r.auth # "GRACE_PERIOD" /\ r.credentials = m.credentials
<1>1. reason \in TxDecision
  BY DEF Reason, TxDecision
<1>2. {"SYSTEM_FAILURE", "REVOKED", "UNAUTHENTICATED"} \subseteq AuthState
  BY DEF AuthState
<1>3. r \in Machine
  <2> DEFINE auth == IF ~m.healthy THEN "SYSTEM_FAILURE"
                     ELSE IF m.revoked \/ reason = "DENY_CREDENTIAL_REVOKED"
                     THEN "REVOKED" ELSE "UNAUTHENTICATED"
  <2>1. auth \in AuthState
    BY <1>2
  <2>2. r = [m EXCEPT !.sessionValid = FALSE, !.deadline = NoDeadline,
                      !.denial = reason, !.auth = auth]
    BY DEF Invalidate
  <2> HIDE DEF auth
  <2> QED BY <1>1, <2>1, <2>2 DEF Machine
<1>4. /\ r.attached = m.attached /\ r.session = m.session
      /\ r.pressed = m.pressed /\ r.credentials = m.credentials
      /\ r.healthy = m.healthy /\ r.revoked = m.revoked
      /\ r.decision = m.decision /\ r.gateEvent = m.gateEvent
      /\ r.deniedFor = m.deniedFor /\ r.deadline = NoDeadline
      /\ ~r.sessionValid /\ r.denial = reason
      /\ r.auth = IF ~m.healthy THEN "SYSTEM_FAILURE"
                  ELSE IF m.revoked \/ reason = "DENY_CREDENTIAL_REVOKED"
                  THEN "REVOKED" ELSE "UNAUTHENTICATED"
  BY DEF Invalidate, Machine
<1>5. Sound(r, lost) /\ r.auth # "GRACE_PERIOD"
  BY <1>4 DEF Sound
<1> QED BY <1>3, <1>4, <1>5

(* refresh() ends a grace period that is over, and opens nothing.          *)
LEMMA RefreshKeeps ==
  ASSUME NEW m \in Machine, NEW now \in Nat, NEW lost \in Nat,
         Sound(m, lost), Told(m), NEW r, r = Refresh(m, now)
  PROVE  /\ r \in Machine /\ Sound(r, lost) /\ Told(r) /\ Decided(r)
         /\ r.attached = m.attached /\ r.session = m.session
         /\ r.pressed = m.pressed
         /\ r.sessionValid => m.sessionValid
         /\ r.healthy = m.healthy /\ r.revoked = m.revoked
<1> DEFINE x == IF Expired(m, now) THEN Invalidate(m, "DENY_CREDENTIAL_EXPIRED")
                                   ELSE m
<1>1. "DENY_CREDENTIAL_EXPIRED" \in Reason
  BY DEF Reason, Denial
<1>2. /\ x \in Machine /\ Sound(x, lost) /\ ~Expired(x, now)
      /\ x.attached = m.attached /\ x.session = m.session
      /\ x.pressed = m.pressed /\ x.decision = m.decision
      /\ x.gateEvent = m.gateEvent /\ x.deniedFor = m.deniedFor
      /\ x.sessionValid => m.sessionValid
      /\ x.healthy = m.healthy /\ x.revoked = m.revoked
  <2>1. CASE Expired(m, now)
    <3>1. x = Invalidate(m, "DENY_CREDENTIAL_EXPIRED")
      BY <2>1
    <3> HIDE DEF x
    <3> QED BY <1>1, <3>1, InvalidateSound DEF Expired
  <2> QED BY <2>1
<1>3. r = Reconcile(x, now, FALSE, FALSE)
  BY DEF Refresh, Reconciled
<1> HIDE DEF x
<1>4. Told(x)
  BY <1>2 DEF Told
<1>5. Reconciles(x, now, r)
  BY <1>3 DEF Reconciles
<1>6. /\ r \in Machine /\ Sound(r, lost)
      /\ r.decision = Evaluate(x, now)
      /\ r.attached = m.attached /\ r.session = m.session
      /\ r.sessionValid = x.sessionValid /\ r.pressed = m.pressed
      /\ r.healthy = m.healthy /\ r.revoked = m.revoked
  <2>1. x \in Machine /\ Sound(x, lost)
    BY <1>2
  <2>2. r \in Machine /\ Sound(r, lost) /\ Redecided(x, now, r)
    BY <1>5, <2>1, ReconcileKeeps
  <2> QED BY <1>2, <2>2 DEF Redecided
<1>7. Told(r)
  BY <1>2, <1>4, <1>5, ReconcileTells
<1>8. Decided(r)
  BY <1>2, <1>6, EvaluateSound DEF Decided
<1> QED BY <1>2, <1>6, <1>7, <1>8

(* evaluate() reads neither the last decision nor the events.              *)
LEMMA RefreshReportsCurrent ==
  ASSUME NEW m \in Machine, NEW now, NEW r, r = Refresh(m, now)
  PROVE  r.decision = Evaluate(r, now)
<1> DEFINE x == IF Expired(m, now) THEN Invalidate(m, "DENY_CREDENTIAL_EXPIRED")
                                   ELSE m
<1>1. "DENY_CREDENTIAL_EXPIRED" \in Reason
  BY DEF Reason, Denial
<1>2. x \in Machine
  BY <1>1, InvalidateSound
<1>3. r = Reconcile(x, now, FALSE, FALSE)
  BY DEF Refresh, Reconciled
<1> HIDE DEF x
<1>4. /\ r.decision = Evaluate(x, now)
      /\ r.grace = x.grace /\ r.credentials = x.credentials
      /\ r.revoked = x.revoked /\ r.healthy = x.healthy
      /\ r.attached = x.attached /\ r.session = x.session
      /\ r.auth = x.auth /\ r.pressed = x.pressed
      /\ r.sessionValid = x.sessionValid /\ r.deadline = x.deadline
      /\ r.denial = x.denial
  BY <1>2, <1>3 DEF Reconcile, Machine
<1>5. Evaluate(r, now) = Evaluate(x, now)
  BY <1>4 DEF Evaluate, EvaluateSession, Identified, Identity
<1> QED BY <1>4, <1>5

(* Both after one another, as most commands use them.                      *)
LEMMA InvalidatedFacts ==
  ASSUME NEW m \in Machine, NEW reason \in Reason, NEW lost, NEW now, Told(m),
         NEW r, Reconciles(Invalidate(m, reason), now, r)
  PROVE  /\ r \in Machine /\ Sound(r, lost) /\ Told(r) /\ ~r.sessionValid
         /\ r.pressed = m.pressed
<1> DEFINE i == Invalidate(m, reason)
<1>1. /\ i \in Machine /\ Sound(i, lost) /\ ~i.sessionValid
      /\ i.pressed = m.pressed /\ i.decision = m.decision
      /\ i.gateEvent = m.gateEvent /\ i.deniedFor = m.deniedFor
  BY InvalidateSound
<1> HIDE DEF i
<1>2. Told(i)
  BY <1>1 DEF Told
<1>3. Reconciles(i, now, r)
  BY DEF i
<1>4. Told(r)
  BY <1>1, <1>2, <1>3, ReconcileTells
<1>5. /\ r \in Machine /\ Sound(r, lost)
      /\ r.sessionValid = i.sessionValid /\ r.pressed = i.pressed
  BY <1>1, <1>3, ReconcileKeeps DEF Redecided
<1> QED BY <1>1, <1>4, <1>5

-----------------------------------------------------------------------------
(* Commands.                                                               *)

(* What a step may do: start a transmission only by the operator's hand,   *)
(* and leave no stale decision.                                            *)
OperatorStarts ==
  machine.decision # "ALLOW" /\ machine'.decision = "ALLOW" =>
    \/ ~machine.pressed /\ machine'.pressed
    \/ /\ ~machine.sessionValid /\ machine'.attached = machine'.session
       /\ machine'.healthy = machine.healthy
       /\ machine'.revoked = machine.revoked

Current == machine' # machine => machine'.decision = Evaluate(machine', clock')

StepGood == OperatorStarts /\ Current

(* The refresh a command begins with.                                      *)
LEMMA FreshFacts ==
  ASSUME SimulatorInv
  PROVE  /\ Fresh \in Machine /\ Sound(Fresh, lostAt) /\ Told(Fresh)
         /\ Fresh.attached = machine.attached
         /\ Fresh.session = machine.session
         /\ Fresh.pressed = machine.pressed
         /\ Fresh.sessionValid => machine.sessionValid
         /\ Fresh.healthy = machine.healthy /\ Fresh.revoked = machine.revoked
         /\ clock \in Nat /\ lostAt \in Nat
<1>1. machine \in Machine /\ clock \in Nat /\ lostAt \in Nat
  BY LegacyConstants DEF SimulatorInv, TypeOK
<1> QED BY <1>1, RefreshKeeps DEF SimulatorInv, Fresh

(* The refresh a command ends with settles the decision on the machine the *)
(* command made.                                                           *)
LEMMA ExecuteKeeps ==
  ASSUME SimulatorInv, NEW m \in Machine, Sound(m, lostAt'), Told(m),
         Execute(m), lostAt' \in 0..TimeMax
  PROVE  /\ SimulatorInv'
         /\ machine'.attached = m.attached /\ machine'.session = m.session
         /\ machine'.pressed = m.pressed
         /\ machine'.sessionValid => m.sessionValid
         /\ machine'.healthy = m.healthy /\ machine'.revoked = m.revoked
        /\ Current
<1>1. clock \in 0..TimeMax /\ clock \in Nat /\ lostAt' \in Nat
  BY LegacyConstants DEF SimulatorInv, TypeOK
<1>2. machine' = Refresh(m, clock) /\ clock' = clock
  BY DEF Execute
<1>3. Current
  BY <1>2, RefreshReportsCurrent DEF Current
<1> QED BY <1>1, <1>2, <1>3, RefreshKeeps DEF SimulatorInv, TypeOK

(* A command that gives no session and presses no button starts nothing.   *)
LEMMA QuietCommand ==
  ASSUME SimulatorInv, NEW m \in Machine, Sound(m, lostAt'), Told(m),
         Execute(m), lostAt' \in 0..TimeMax,
         m.sessionValid => machine.sessionValid, m.pressed => machine.pressed
  PROVE  SimulatorInv' /\ StepGood
BY ExecuteKeeps DEF StepGood, OperatorStarts, SimulatorInv, Decided

LEMMA LostAtKept ==
  ASSUME SimulatorInv, UNCHANGED lostAt
  PROVE  lostAt' \in 0..TimeMax /\ lostAt' = lostAt
BY DEF SimulatorInv, TypeOK

(* status                                                                  *)
LEMMA StatusKeeps ==
  ASSUME SimulatorInv, Status PROVE SimulatorInv' /\ StepGood
<1>1. machine \in Machine /\ Sound(machine, lostAt) /\ Told(machine)
  BY DEF SimulatorInv, TypeOK
<1> QED BY <1>1, QuietCommand, LostAtKept DEF Status, Command

(* The clock moves, by itself or by the advance_time command.              *)
LEMMA TimeKeeps ==
  ASSUME SimulatorInv, PassTime \/ \E ms \in 0..TimeMax : AdvanceTime(ms)
  PROVE  SimulatorInv' /\ StepGood
<1>1. CASE PassTime
  BY <1>1, LegacyConstants
     DEF PassTime, SimulatorInv, TypeOK, StepGood, OperatorStarts, Current
<1>2. ASSUME NEW ms \in 0..TimeMax, AdvanceTime(ms)
      PROVE  SimulatorInv' /\ StepGood
  <2>1. clock' \in 0..TimeMax /\ clock' \in Nat /\ lostAt' = lostAt
    BY <1>2, LegacyConstants DEF AdvanceTime, SimulatorInv, TypeOK
  <2>2. machine \in Machine /\ lostAt \in Nat /\ lostAt \in 0..TimeMax
    BY LegacyConstants DEF SimulatorInv, TypeOK
  <2>3. machine' = Refresh(machine, clock')
    BY <1>2 DEF AdvanceTime
  <2>4. /\ machine' \in Machine /\ Sound(machine', lostAt)
        /\ Told(machine') /\ Decided(machine')
        /\ machine'.pressed = machine.pressed
        /\ machine'.sessionValid => machine.sessionValid
    BY <2>1, <2>2, <2>3, RefreshKeeps DEF SimulatorInv
  <2>5. Current
    BY <2>2, <2>3, RefreshReportsCurrent DEF Current
  <2> QED BY <2>1, <2>2, <2>4, <2>5
          DEF SimulatorInv, TypeOK, Decided, StepGood, OperatorStarts
<1> QED BY <1>1, <1>2

(* Why a credential is refused, and what it means that it is not.          *)
LEMMA RefusalFacts ==
  ASSUME NEW m \in Machine, NEW id \in Ids, m.attached = id
  PROVE  /\ Refusal(m) \in Reason \cup {"none"}
         /\ Refusal(m) = "none" =>
              /\ m.healthy /\ ~m.revoked /\ id \in Registered /\ id # NoId
              /\ m.credentials[id].authorized /\ ~m.credentials[id].revoked
BY LegacyConstants DEF Refusal, Reason, Denial, Identified, Identity

(* Attaching a credential in good standing opens a session in its name and *)
(* no other way does.                                                      *)
LEMMA AttachKeeps ==
  ASSUME SimulatorInv, NEW id \in Ids, AttachCredential(id)
  PROVE  SimulatorInv' /\ StepGood
<1> DEFINE bare  == [Fresh EXCEPT !.attached = id, !.session = NoId]
           named == Invalidate(bare, "DENY_REAUTHENTICATION_REQUIRED")
           given == IF Refusal(named) = "none"
                    THEN [named EXCEPT !.session = id, !.sessionValid = TRUE,
                                       !.auth = "AUTHORIZED"]
                    ELSE Invalidate(named, Refusal(named))
           made  == Reconciled(given, clock)
<1>1. Command(made)
  BY DEF AttachCredential
<1>2. /\ bare \in Machine /\ bare.attached = id /\ Told(bare)
      /\ bare.healthy = machine.healthy /\ bare.revoked = machine.revoked
      /\ bare.pressed = machine.pressed
  BY FreshFacts DEF Machine, Told
<1>3. "DENY_REAUTHENTICATION_REQUIRED" \in Reason
  BY DEF Reason, Denial
<1> HIDE DEF bare
<1>4. /\ named \in Machine /\ Sound(named, lostAt) /\ ~named.sessionValid
      /\ named.attached = id /\ named.deadline = NoDeadline
      /\ named.healthy = machine.healthy /\ named.revoked = machine.revoked
      /\ named.pressed = machine.pressed
      /\ named.decision = bare.decision /\ named.gateEvent = bare.gateEvent
      /\ named.deniedFor = bare.deniedFor
  BY <1>2, <1>3, InvalidateSound
<1> HIDE DEF named
<1>5. Told(named)
  BY <1>2, <1>4 DEF Told
<1>6. /\ Refusal(named) \in Reason \cup {"none"}
      /\ Refusal(named) = "none" =>
           /\ named.healthy /\ ~named.revoked /\ id \in Registered /\ id # NoId
           /\ named.credentials[id].authorized /\ ~named.credentials[id].revoked
  BY <1>4, RefusalFacts
<1>7. /\ given \in Machine /\ Sound(given, lostAt) /\ Told(given)
      /\ given.pressed = machine.pressed
      /\ given.sessionValid => /\ given.attached = given.session
                               /\ given.healthy = machine.healthy
                               /\ given.revoked = machine.revoked
  <2>1. CASE Refusal(named) = "none"
    <3>1. given = [named EXCEPT !.session = id, !.sessionValid = TRUE,
                                !.auth = "AUTHORIZED"]
      BY <2>1
    <3> HIDE DEF given
    <3>2. given \in Machine
      BY <1>4, <1>6, <2>1, <3>1 DEF Machine, AuthState
    <3>3. /\ given.session = id /\ given.sessionValid
          /\ given.auth = "AUTHORIZED" /\ given.attached = id
          /\ given.deadline = NoDeadline /\ given.denial = named.denial
          /\ given.healthy = named.healthy /\ given.revoked = named.revoked
          /\ given.pressed = named.pressed
          /\ given.credentials = named.credentials
          /\ given.decision = named.decision
          /\ given.gateEvent = named.gateEvent
          /\ given.deniedFor = named.deniedFor
      BY <1>4, <3>1 DEF Machine
    <3>4. Sound(given, lostAt)
      BY <1>4, <1>6, <2>1, <3>3 DEF Sound, Backed
    <3>5. Told(given)
      BY <1>5, <3>3 DEF Told
    <3> QED BY <1>4, <3>2, <3>3, <3>4, <3>5
  <2>2. CASE Refusal(named) # "none"
    <3>1. given = Invalidate(named, Refusal(named)) /\ Refusal(named) \in Reason
      BY <1>6, <2>2
    <3> HIDE DEF given
    <3>2. /\ given \in Machine /\ Sound(given, lostAt) /\ ~given.sessionValid
          /\ given.pressed = named.pressed /\ given.decision = named.decision
          /\ given.gateEvent = named.gateEvent
          /\ given.deniedFor = named.deniedFor
      BY <1>4, <3>1, InvalidateSound
    <3> QED BY <1>4, <1>5, <3>2 DEF Told
  <2> QED BY <2>1, <2>2
<1> HIDE DEF given
<1>8. Reconciles(given, clock, made)
  BY DEF Reconciles, Reconciled
<1> HIDE DEF made
<1>9. /\ made \in Machine /\ Sound(made, lostAt)
      /\ made.attached = given.attached /\ made.session = given.session
      /\ made.sessionValid = given.sessionValid
      /\ made.pressed = given.pressed
      /\ made.healthy = given.healthy /\ made.revoked = given.revoked
  BY <1>7, <1>8, ReconcileKeeps DEF Redecided
<1>10. Told(made)
  BY <1>7, <1>8, ReconcileTells
<1>11. Execute(made) /\ lostAt' = lostAt /\ lostAt' \in 0..TimeMax
  BY <1>1, LostAtKept DEF Command
<1>12. /\ SimulatorInv'
       /\ machine'.attached = made.attached /\ machine'.session = made.session
       /\ machine'.pressed = made.pressed
       /\ machine'.sessionValid => made.sessionValid
       /\ machine'.healthy = made.healthy /\ machine'.revoked = made.revoked
       /\ Current
  BY <1>9, <1>10, <1>11, ExecuteKeeps
<1>13. OperatorStarts
  BY <1>7, <1>9, <1>12 DEF OperatorStarts, SimulatorInv, Decided
<1> QED BY <1>12, <1>13 DEF StepGood

(* Most other commands either find nothing to do ...                       *)
LEMMA NothingToDo ==
  ASSUME SimulatorInv, Command(Fresh) PROVE SimulatorInv' /\ StepGood
BY FreshFacts, QuietCommand, LostAtKept DEF Command

(* ... or end the session and reconcile.                                   *)
LEMMA InvalidatingCommand ==
  ASSUME SimulatorInv, NEW m \in Machine, Told(m), m.pressed => machine.pressed,
         NEW reason \in Reason,
         NEW r, Reconciles(Invalidate(m, reason), clock, r), Command(r)
  PROVE  SimulatorInv' /\ StepGood
<1>1. /\ r \in Machine /\ Sound(r, lostAt) /\ Told(r) /\ ~r.sessionValid
      /\ r.pressed = m.pressed
  BY InvalidatedFacts
<1> QED BY <1>1, QuietCommand, LostAtKept DEF Command

(* device_revoke                                                           *)
LEMMA RevokeDeviceKeeps ==
  ASSUME SimulatorInv, RevokeDevice PROVE SimulatorInv' /\ StepGood
<1> DEFINE m == [Fresh EXCEPT !.revoked = TRUE]
           r == Reconcile(Invalidate(m, "DENY_DEVICE_REVOKED"), clock, FALSE, TRUE)
<1>1. /\ m \in Machine /\ Told(m) /\ m.pressed = machine.pressed
      /\ "DENY_DEVICE_REVOKED" \in Reason
  <2>1. Fresh \in Machine /\ Told(Fresh) /\ Fresh.pressed = machine.pressed
    BY FreshFacts
  <2>2. /\ m \in Machine /\ m.pressed = Fresh.pressed
        /\ m.decision = Fresh.decision /\ m.gateEvent = Fresh.gateEvent
        /\ m.deniedFor = Fresh.deniedFor
    BY <2>1 DEF Machine
  <2> QED BY <2>1, <2>2 DEF Told, Reason, Denial
<1>2. Reconciles(Invalidate(m, "DENY_DEVICE_REVOKED"), clock, r)
  BY DEF Reconciles
<1>3. Command(Fresh) \/ Command(r)
  BY DEF RevokeDevice
<1> HIDE DEF m, r
<1> QED BY <1>1, <1>2, <1>3, NothingToDo, InvalidatingCommand

(* device_restore                                                          *)
LEMMA RestoreDeviceKeeps ==
  ASSUME SimulatorInv, RestoreDevice PROVE SimulatorInv' /\ StepGood
<1> DEFINE m == [Fresh EXCEPT !.revoked = FALSE]
           r == Reconciled(Invalidate(m, "DENY_REAUTHENTICATION_REQUIRED"), clock)
<1>1. /\ m \in Machine /\ Told(m) /\ m.pressed = machine.pressed
      /\ "DENY_REAUTHENTICATION_REQUIRED" \in Reason
  <2>1. Fresh \in Machine /\ Told(Fresh) /\ Fresh.pressed = machine.pressed
    BY FreshFacts
  <2>2. /\ m \in Machine /\ m.pressed = Fresh.pressed
        /\ m.decision = Fresh.decision /\ m.gateEvent = Fresh.gateEvent
        /\ m.deniedFor = Fresh.deniedFor
    BY <2>1 DEF Machine
  <2> QED BY <2>1, <2>2 DEF Told, Reason, Denial
<1>2. Reconciles(Invalidate(m, "DENY_REAUTHENTICATION_REQUIRED"), clock, r)
  BY DEF Reconciles, Reconciled
<1>3. Command(Fresh) \/ Command(r)
  BY DEF RestoreDevice
<1> HIDE DEF m, r
<1> QED BY <1>1, <1>2, <1>3, NothingToDo, InvalidatingCommand

(* system_fault                                                            *)
LEMMA SystemFaultKeeps ==
  ASSUME SimulatorInv, SystemFault PROVE SimulatorInv' /\ StepGood
<1> DEFINE m == [Fresh EXCEPT !.healthy = FALSE]
           r == Reconcile(Invalidate(m, "DENY_SYSTEM_FAILURE"), clock, FALSE, TRUE)
<1>1. /\ m \in Machine /\ Told(m) /\ m.pressed = machine.pressed
      /\ "DENY_SYSTEM_FAILURE" \in Reason
  <2>1. Fresh \in Machine /\ Told(Fresh) /\ Fresh.pressed = machine.pressed
    BY FreshFacts
  <2>2. /\ m \in Machine /\ m.pressed = Fresh.pressed
        /\ m.decision = Fresh.decision /\ m.gateEvent = Fresh.gateEvent
        /\ m.deniedFor = Fresh.deniedFor
    BY <2>1 DEF Machine
  <2> QED BY <2>1, <2>2 DEF Told, Reason, Denial
<1>2. Reconciles(Invalidate(m, "DENY_SYSTEM_FAILURE"), clock, r)
  BY DEF Reconciles
<1>3. Command(Fresh) \/ Command(r)
  BY DEF SystemFault
<1> HIDE DEF m, r
<1> QED BY <1>1, <1>2, <1>3, NothingToDo, InvalidatingCommand

(* system_recover                                                          *)
LEMMA SystemRecoverKeeps ==
  ASSUME SimulatorInv, SystemRecover PROVE SimulatorInv' /\ StepGood
<1> DEFINE m == [Fresh EXCEPT !.healthy = TRUE]
           r == Reconciled(Invalidate(m, "DENY_REAUTHENTICATION_REQUIRED"), clock)
<1>1. /\ m \in Machine /\ Told(m) /\ m.pressed = machine.pressed
      /\ "DENY_REAUTHENTICATION_REQUIRED" \in Reason
  <2>1. Fresh \in Machine /\ Told(Fresh) /\ Fresh.pressed = machine.pressed
    BY FreshFacts
  <2>2. /\ m \in Machine /\ m.pressed = Fresh.pressed
        /\ m.decision = Fresh.decision /\ m.gateEvent = Fresh.gateEvent
        /\ m.deniedFor = Fresh.deniedFor
    BY <2>1 DEF Machine
  <2> QED BY <2>1, <2>2 DEF Told, Reason, Denial
<1>2. Reconciles(Invalidate(m, "DENY_REAUTHENTICATION_REQUIRED"), clock, r)
  BY DEF Reconciles, Reconciled
<1>3. Command(Fresh) \/ Command(r)
  BY DEF SystemRecover
<1> HIDE DEF m, r
<1> QED BY <1>1, <1>2, <1>3, NothingToDo, InvalidatingCommand

(* system_reboot                                                           *)
LEMMA SystemRebootKeeps ==
  ASSUME SimulatorInv, SystemReboot PROVE SimulatorInv' /\ StepGood
<1> DEFINE m == [Fresh EXCEPT !.healthy = TRUE, !.attached = NoId,
                              !.session = NoId, !.pressed = FALSE]
           r == Reconcile(Invalidate(m, "DENY_NO_CREDENTIAL"), clock, FALSE, TRUE)
<1>1. /\ m \in Machine /\ Told(m) /\ ~m.pressed
      /\ "DENY_NO_CREDENTIAL" \in Reason
  <2>1. Fresh \in Machine /\ Told(Fresh)
    BY FreshFacts
  <2>2. /\ m \in Machine /\ ~m.pressed
        /\ m.decision = Fresh.decision /\ m.gateEvent = Fresh.gateEvent
        /\ m.deniedFor = Fresh.deniedFor
    BY <2>1 DEF Machine
  <2> QED BY <2>1, <2>2 DEF Told, Reason, Denial
<1>2. Reconciles(Invalidate(m, "DENY_NO_CREDENTIAL"), clock, r)
  BY DEF Reconciles
<1>3. Command(r)
  BY DEF SystemReboot
<1> HIDE DEF m, r
<1> QED BY <1>1, <1>2, <1>3, InvalidatingCommand

(* credential_revoke: a session of another credential goes on.             *)
LEMMA RevokeCredentialKeeps ==
  ASSUME SimulatorInv, NEW id \in Registered, RevokeCredential(id)
  PROVE  SimulatorInv' /\ StepGood
<1> DEFINE m == [Fresh EXCEPT !.credentials[id].revoked = TRUE]
           r == Reconciled(Withdraw(m, id), clock)
<1>1. Command(Fresh) \/ Command(r)
  BY DEF RevokeCredential
<1>2. [Fresh.credentials[id] EXCEPT !.revoked = TRUE] \in Credential
  <2>1. Fresh.credentials[id] \in Credential
    BY FreshFacts DEF Machine
  <2> QED BY <2>1 DEF Credential
<1>3. /\ m \in Machine /\ Told(m) /\ m.pressed = machine.pressed
      /\ m.attached = Fresh.attached /\ m.session = Fresh.session
      /\ m.sessionValid = Fresh.sessionValid /\ m.auth = Fresh.auth
      /\ m.healthy = Fresh.healthy /\ m.revoked = Fresh.revoked
      /\ m.deadline = Fresh.deadline /\ m.grace = Fresh.grace
      /\ m.denial = Fresh.denial
      /\ \A c \in Registered \ {id} : m.credentials[c] = Fresh.credentials[c]
  <2>1. Fresh \in Machine /\ Told(Fresh) /\ Fresh.pressed = machine.pressed
    BY FreshFacts
  <2> DEFINE marked == [Fresh.credentials[id] EXCEPT !.revoked = TRUE]
             creds  == [Fresh.credentials EXCEPT ![id] = marked]
  <2>2. /\ creds \in [Registered -> Credential]
        /\ \A c \in Registered \ {id} : creds[c] = Fresh.credentials[c]
    BY <1>2, <2>1 DEF Machine
  <2>3. m = [Fresh EXCEPT !.credentials = creds]
    OBVIOUS
  <2> HIDE DEF m, creds
  <2>4. /\ m \in Machine /\ m.credentials = creds
        /\ m.pressed = Fresh.pressed /\ m.decision = Fresh.decision
        /\ m.gateEvent = Fresh.gateEvent /\ m.deniedFor = Fresh.deniedFor
        /\ m.attached = Fresh.attached /\ m.session = Fresh.session
        /\ m.sessionValid = Fresh.sessionValid /\ m.auth = Fresh.auth
        /\ m.healthy = Fresh.healthy /\ m.revoked = Fresh.revoked
        /\ m.deadline = Fresh.deadline /\ m.grace = Fresh.grace
        /\ m.denial = Fresh.denial
    BY <2>1, <2>2, <2>3 DEF Machine
  <2> QED BY <2>1, <2>2, <2>4 DEF Told
<1>4. "DENY_CREDENTIAL_REVOKED" \in Reason
  BY DEF Reason, Denial
<1> HIDE DEF m
<1>5. CASE Command(r) /\ id \in {m.attached, m.session}
  <2>1. Reconciles(Invalidate(m, "DENY_CREDENTIAL_REVOKED"), clock, r)
    BY <1>5 DEF Reconciles, Reconciled, Withdraw
  <2> HIDE DEF r
  <2> QED BY <1>3, <1>4, <1>5, <2>1, InvalidatingCommand
<1>6. CASE Command(r) /\ id \notin {m.attached, m.session}
  <2>1. Reconciles(m, clock, r)
    BY <1>6 DEF Reconciles, Reconciled, Withdraw
  <2> HIDE DEF r
  <2>2. Sound(m, lostAt)
    BY <1>3, <1>6, FreshFacts DEF Sound, Backed, Machine
  <2>3. /\ r \in Machine /\ Sound(r, lostAt)
        /\ r.sessionValid = m.sessionValid /\ r.pressed = m.pressed
    BY <1>3, <2>1, <2>2, ReconcileKeeps DEF Redecided
  <2>4. Told(r)
    BY <1>3, <2>1, ReconcileTells
  <2> QED BY <1>3, <1>6, <2>3, <2>4, FreshFacts, QuietCommand, LostAtKept
          DEF Command
<1> QED BY <1>1, <1>5, <1>6, NothingToDo

(* credential_remove: the grace period starts now, and starts once.        *)
LEMMA DetachKeeps ==
  ASSUME SimulatorInv, DetachCredential
  PROVE  SimulatorInv' /\ StepGood
<1> DEFINE r == Remove(Fresh)
           kept == [Fresh EXCEPT !.attached = NoId, !.auth = "GRACE_PERIOD",
                                 !.deadline = clock + Fresh.grace]
           bare == [Fresh EXCEPT !.attached = NoId, !.session = NoId]
<1>1. /\ Execute(r)
      /\ lostAt' = IF Fresh.attached = NoId THEN lostAt ELSE clock
      /\ lostAt' \in 0..TimeMax
  BY DEF DetachCredential, SimulatorInv, TypeOK
<1>2. /\ r \in Machine /\ Sound(r, lostAt') /\ Told(r)
      /\ r.pressed = machine.pressed /\ (r.sessionValid => machine.sessionValid)
  <2>1. CASE Fresh.attached = NoId
    BY <1>1, <2>1, FreshFacts DEF Remove
  <2>2. CASE /\ Fresh.attached # NoId
             /\ Fresh.auth = "AUTHORIZED" /\ Fresh.sessionValid
    <3>1. r = kept /\ lostAt' = clock
      BY <1>1, <2>2 DEF Remove
    <3>2. kept \in Machine
      <4>1. /\ Fresh \in Machine /\ clock + Fresh.grace \in Nat
            /\ "GRACE_PERIOD" \in AuthState
        BY FreshFacts DEF Machine, AuthState
      <4> DEFINE due == clock + Fresh.grace
      <4> HIDE DEF due
      <4>2. kept = [Fresh EXCEPT !.attached = NoId, !.auth = "GRACE_PERIOD",
                                 !.deadline = due] /\ due \in Nat
        BY <4>1 DEF due
      <4> QED BY <4>1, <4>2 DEF Machine
    <3>3. /\ kept.attached = NoId /\ kept.auth = "GRACE_PERIOD"
          /\ kept.deadline = clock + kept.grace
          /\ kept.session = Fresh.session /\ kept.sessionValid
          /\ kept.healthy = Fresh.healthy /\ kept.revoked = Fresh.revoked
          /\ kept.credentials = Fresh.credentials
          /\ kept.denial = Fresh.denial /\ kept.pressed = Fresh.pressed
          /\ kept.decision = Fresh.decision
          /\ kept.gateEvent = Fresh.gateEvent
          /\ kept.deniedFor = Fresh.deniedFor
      BY <2>2, FreshFacts DEF Machine
    <3> HIDE DEF kept, r
    <3>4. Sound(kept, clock) /\ Told(kept)
      BY <2>2, <3>3, FreshFacts DEF Sound, Backed, Told
    <3> QED BY <2>2, <3>1, <3>2, <3>3, <3>4, FreshFacts
  <2>3. CASE /\ Fresh.attached # NoId
             /\ ~(Fresh.auth = "AUTHORIZED" /\ Fresh.sessionValid)
    <3>1. r = Invalidate(bare, "DENY_NO_CREDENTIAL")
      BY <2>3 DEF Remove
    <3>2. /\ bare \in Machine /\ Told(bare) /\ bare.pressed = machine.pressed
          /\ "DENY_NO_CREDENTIAL" \in Reason
      <4>1. /\ Fresh \in Machine /\ Told(Fresh)
            /\ Fresh.pressed = machine.pressed
        BY FreshFacts
      <4>2. /\ bare \in Machine /\ bare.pressed = Fresh.pressed
            /\ bare.decision = Fresh.decision
            /\ bare.gateEvent = Fresh.gateEvent
            /\ bare.deniedFor = Fresh.deniedFor
        BY <4>1 DEF Machine
      <4> QED BY <4>1, <4>2 DEF Told, Reason, Denial
    <3> HIDE DEF bare, r
    <3>3. /\ r \in Machine /\ Sound(r, lostAt') /\ ~r.sessionValid
          /\ r.pressed = bare.pressed /\ r.decision = bare.decision
          /\ r.gateEvent = bare.gateEvent /\ r.deniedFor = bare.deniedFor
      BY <3>1, <3>2, InvalidateSound
    <3> QED BY <3>2, <3>3 DEF Told
  <2> QED BY <2>1, <2>2, <2>3
<1> HIDE DEF r
<1> QED BY <1>1, <1>2, QuietCommand

(* ptt_press: a denial is told even if nothing changed.                    *)
LEMMA PttPressKeeps ==
  ASSUME SimulatorInv, PttPress PROVE SimulatorInv' /\ StepGood
<1> DEFINE m == [Fresh EXCEPT !.pressed = TRUE]
           r == Reconcile(m, clock, TRUE, FALSE)
<1>1. Command(Fresh) \/ (~machine.pressed /\ Command(r))
  BY FreshFacts DEF PttPress
<1>2. /\ m \in Machine /\ m.pressed
      /\ m.gateEvent = Fresh.gateEvent /\ m.decision = Fresh.decision
      /\ m.attached = Fresh.attached /\ m.session = Fresh.session
      /\ m.sessionValid = Fresh.sessionValid /\ m.auth = Fresh.auth
      /\ m.healthy = Fresh.healthy /\ m.revoked = Fresh.revoked
      /\ m.deadline = Fresh.deadline /\ m.grace = Fresh.grace
      /\ m.denial = Fresh.denial /\ m.credentials = Fresh.credentials
  BY FreshFacts DEF Machine
<1> HIDE DEF m
<1>3. Sound(m, lostAt) /\ (m.gateEvent = "TX_ALLOWED" <=> m.decision = "ALLOW")
  BY <1>2, FreshFacts DEF Sound, Backed, Told
<1>4. Reconciles(m, clock, r)
  BY DEF Reconciles
<1>5. Told(r)
  BY <1>2, <1>3, ForcedReconcileTells
<1> HIDE DEF r
<1>6. r \in Machine /\ Sound(r, lostAt) /\ r.pressed
  BY <1>2, <1>3, <1>4, ReconcileKeeps DEF Redecided
<1>7. CASE ~machine.pressed /\ Command(r)
  <2>1. SimulatorInv' /\ machine'.pressed /\ Current
    BY <1>5, <1>6, <1>7, ExecuteKeeps, LostAtKept DEF Command
  <2> QED BY <1>7, <2>1 DEF StepGood, OperatorStarts
<1> QED BY <1>1, <1>7, NothingToDo

(* ptt_release: TX_DISABLED is told whether or not there was a TX.         *)
LEMMA PttReleaseKeeps ==
  ASSUME SimulatorInv, PttRelease PROVE SimulatorInv' /\ StepGood
<1> DEFINE m == [Fresh EXCEPT !.pressed = FALSE]
           r == Reconciled(m, clock)
           t == [r EXCEPT !.gateEvent = "TX_DISABLED"]
<1>1. Command(Fresh) \/ Command(t)
  BY DEF PttRelease
<1>2. /\ m \in Machine /\ ~m.pressed
      /\ m.attached = Fresh.attached /\ m.session = Fresh.session
      /\ m.sessionValid = Fresh.sessionValid /\ m.auth = Fresh.auth
      /\ m.healthy = Fresh.healthy /\ m.revoked = Fresh.revoked
      /\ m.deadline = Fresh.deadline /\ m.grace = Fresh.grace
      /\ m.denial = Fresh.denial /\ m.credentials = Fresh.credentials
  BY FreshFacts DEF Machine
<1> HIDE DEF m
<1>3. Sound(m, lostAt)
  BY <1>2, FreshFacts DEF Sound, Backed
<1>4. Reconciles(m, clock, r)
  BY DEF Reconciles, Reconciled
<1> HIDE DEF r
<1>5. /\ r \in Machine /\ Sound(r, lostAt) /\ ~r.pressed
      /\ r.sessionValid = m.sessionValid /\ r.decision = Evaluate(m, clock)
  BY <1>2, <1>3, <1>4, ReconcileKeeps DEF Redecided
<1>6. r.decision # "ALLOW"
  BY <1>2, <1>5, AllowNeedsButton
<1>7. /\ t \in Machine /\ ~t.pressed /\ t.gateEvent = "TX_DISABLED"
      /\ t.decision = r.decision /\ t.sessionValid = r.sessionValid
      /\ t.attached = r.attached /\ t.session = r.session
      /\ t.auth = r.auth /\ t.healthy = r.healthy /\ t.revoked = r.revoked
      /\ t.deadline = r.deadline /\ t.grace = r.grace
      /\ t.denial = r.denial /\ t.credentials = r.credentials
  BY <1>5 DEF Machine
<1> HIDE DEF t
<1>8. Sound(t, lostAt) /\ Told(t)
  BY <1>5, <1>6, <1>7 DEF Sound, Backed, Told
<1>9. CASE Command(t)
  BY <1>2, <1>5, <1>7, <1>8, <1>9, FreshFacts, QuietCommand, LostAtKept
     DEF Command
<1> QED BY <1>1, <1>9, NothingToDo

-----------------------------------------------------------------------------
(* The specification.                                                      *)

LEMMA SimulatorInvInit == Init => SimulatorInv
<1> SUFFICES ASSUME Init PROVE SimulatorInv
  OBVIOUS
<1> PICK table \in Configurations, grace \in GracePeriods :
           machine = NewMachine(table, grace)
  BY DEF Init
<1>1. table \in [Registered -> Credential] /\ grace \in Nat
  BY LegacyConstants
<1>2. /\ "UNAUTHENTICATED" \in AuthState
      /\ "DENY_NO_CREDENTIAL" \in TxDecision
  BY DEF AuthState, TxDecision, Denial
<1>3. machine \in Machine
  BY <1>1, <1>2 DEF NewMachine, Machine
<1>4. Sound(machine, lostAt) /\ Told(machine) /\ Decided(machine)
  BY DEF NewMachine, Sound, Told, Decided, Reason, Denial
<1> QED BY <1>3, <1>4, LegacyConstants DEF Init, SimulatorInv, TypeOK

LEMMA SimulatorStep ==
  ASSUME SimulatorInv, [Next]_vars
  PROVE  SimulatorInv' /\ (StepGood \/ UNCHANGED vars)
<1>1. CASE Next
  <2>1. CASE Status \/ SystemFault \/ SystemRecover \/ SystemReboot
    BY <2>1, StatusKeeps, SystemFaultKeeps, SystemRecoverKeeps,
       SystemRebootKeeps
  <2>2. CASE PassTime \/ \E ms \in 0..TimeMax : AdvanceTime(ms)
    BY <2>2, TimeKeeps
  <2>3. CASE \E id \in Ids : AttachCredential(id)
    BY <2>3, AttachKeeps
  <2>4. CASE DetachCredential
    BY <2>4, DetachKeeps
  <2>5. CASE PttPress \/ PttRelease
    BY <2>5, PttPressKeeps, PttReleaseKeeps
  <2>6. CASE RevokeDevice \/ RestoreDevice
    BY <2>6, RevokeDeviceKeeps, RestoreDeviceKeeps
  <2>7. CASE \E id \in Registered : RevokeCredential(id)
    BY <2>7, RevokeCredentialKeeps
  <2> QED BY <1>1, <2>1, <2>2, <2>3, <2>4, <2>5, <2>6, <2>7 DEF Next
<1>2. CASE UNCHANGED vars
  BY <1>2 DEF vars, SimulatorInv, TypeOK, Sound, Backed, Told, Decided
<1> QED BY <1>1, <1>2

(* Every state reached between commands has a sound session, a decision    *)
(* that follows from it, and events that told the decision.                *)
THEOREM SimulatorInvariant == Spec => []SimulatorInv
<1>1. Init => SimulatorInv
  BY SimulatorInvInit
<1>2. SimulatorInv /\ [Next]_vars => SimulatorInv'
  BY SimulatorStep
<1> QED BY <1>1, <1>2, PTL DEF Spec

(* Every attribute of StateMachine keeps its type under any sequence of    *)
(* commands and any movement of the clock.                                 *)
THEOREM SimulatorTyped == Spec => []TypeOK
<1>1. SimulatorInv => TypeOK
  BY DEF SimulatorInv
<1> QED BY <1>1, SimulatorInvariant, PTL

(* A session is only ever held by a credential in good standing, and its   *)
(* grace period ends one grace period after the credential left.           *)
THEOREM SimulatorSessionAuthentic == Spec => []SessionAuthentic
<1>1. SimulatorInv => SessionAuthentic
  BY DEF SimulatorInv, Sound, Backed, SessionAuthentic, Authentic
<1> QED BY <1>1, SimulatorInvariant, PTL

(* The authentication state never disagrees with a fault or a revocation.  *)
THEOREM SimulatorAuthMirrorsDevice == Spec => []AuthMirrorsDevice
<1>1. SimulatorInv => AuthMirrorsDevice
  BY DEF SimulatorInv, Sound, AuthMirrorsDevice
<1> QED BY <1>1, SimulatorInvariant, PTL

(* Reading the last gate event is reading the gate.                        *)
THEOREM SimulatorGateEventFaithful == Spec => []GateEventFaithful
<1>1. SimulatorInv => GateEventFaithful
  BY DEF SimulatorInv, Told, GateEventFaithful
<1> QED BY <1>1, SimulatorInvariant, PTL

(* Whoever holds the button and is denied has been told why.               *)
THEOREM SimulatorDenialTold == Spec => []DenialTold
<1>1. SimulatorInv => DenialTold
  BY DEF SimulatorInv, Told, DenialTold
<1> QED BY <1>1, SimulatorInvariant, PTL

(* The branches of evaluate() for inconsistent contexts are never taken.   *)
THEOREM SimulatorNeverInconsistent == Spec => []NeverInconsistent
<1>1. SimulatorInv => NeverInconsistent
  BY DEF SimulatorInv, Decided, NeverInconsistent
<1> QED BY <1>1, SimulatorInvariant, PTL

(* No recovery, restoration, reboot or passing of time starts a            *)
(* transmission: the operator does, by button or by credential.            *)
THEOREM SimulatorStartedByOperator == Spec => StartedByOperator
<1>1. SimulatorInv /\ [Next]_vars => [OperatorStarts]_vars
  BY SimulatorStep DEF StepGood
<1> QED BY <1>1, SimulatorInvariant, PTL
        DEF Spec, StartedByOperator, OperatorStarts

(* Every command reports the decision of the moment at which it returns.   *)
THEOREM SimulatorReportCurrent == Spec => ReportCurrent
<1>1. SimulatorInv /\ [Next]_vars => [Current]_vars
  BY SimulatorStep DEF StepGood
<1> QED BY <1>1, SimulatorInvariant, PTL DEF Spec, ReportCurrent, Current

=============================================================================
