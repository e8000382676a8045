------------------------ MODULE SecureRuntimeProofs -------------------------
(***************************************************************************)
(* The v0.2 loop around the engine, for every value of the constants.      *)
(*                                                                         *)
(* The loop calls six methods of the engine and nothing else of it.  What  *)
(* HermesEngineProofs proves of those methods therefore holds in the loop  *)
(* as well (LoopCallKeeps), and what is left is how the loop turns         *)
(* decisions into the level of a pin: RuntimeInv says what a HIGH gate     *)
(* means at each point of an iteration.                                    *)
(***************************************************************************)
EXTENDS SecureRuntime, HermesEngineRefinement

-----------------------------------------------------------------------------
(* The PTT controller.                                                     *)

(* The low word of the clock is a value of millis().                       *)
LEMMA LowWordType == ASSUME NEW t \in Nat PROVE LowWord(t) \in Millis
BY PttConstants DEF LowWord, Millis

(* Debouncing touches neither the gate nor the latches.                    *)
LEMMA UpdateButtonFacts ==
  ASSUME NEW p \in Ptt, NEW pressed \in BOOLEAN, NEW now \in Millis,
         NEW r, r = UpdateButton(p, pressed, now)
  PROVE  /\ r \in Ptt
         /\ r.gate = p.gate /\ r.txEnabled = p.txEnabled
         /\ r.systemReady = p.systemReady
         /\ r.permanentFault = p.permanentFault
<1> DEFINE s == Sampled(p, pressed, now)
<1>1. /\ s \in Ptt
      /\ s.gate = p.gate /\ s.txEnabled = p.txEnabled
      /\ s.systemReady = p.systemReady
      /\ s.permanentFault = p.permanentFault
  BY DEF Sampled, Ptt
<1>2. r = s \/ r = [s EXCEPT !.stable = s.raw]
  BY DEF UpdateButton
<1> HIDE DEF s
<1> QED BY <1>1, <1>2 DEF Ptt

(* The gate is HIGH only for an authenticated engine and a controller      *)
(* without a latched fault.                                                *)
LEMMA ApplyAuthorizationFacts ==
  ASSUME NEW p \in Ptt, p.gate = p.txEnabled, NEW authenticated \in BOOLEAN,
         NEW r, r = ApplyAuthorization(p, authenticated)
  PROVE  /\ r \in Ptt
         /\ r.gate = r.txEnabled
         /\ r.gate => authenticated /\ ~r.permanentFault
         /\ r.permanentFault = p.permanentFault
<1> DEFINE enable == /\ p.systemReady /\ ~p.permanentFault
                     /\ authenticated /\ p.stable
           lit == ~enable /\ (p.stable \/ p.permanentFault)
           s == SetTxEnabled(p, enable)
<1>1. enable \in BOOLEAN /\ lit \in BOOLEAN
  BY DEF Ptt
<1>2. enable => authenticated /\ ~p.permanentFault
  OBVIOUS
<1>3. r = [s EXCEPT !.ledDeny = lit]
  BY DEF ApplyAuthorization
<1> HIDE DEF enable, lit
<1>4. /\ s \in Ptt /\ s.gate = enable /\ s.txEnabled = enable
      /\ s.permanentFault = p.permanentFault
  BY <1>1 DEF SetTxEnabled, Ptt
<1> HIDE DEF s
<1> QED BY <1>1, <1>2, <1>3, <1>4 DEF Ptt

-----------------------------------------------------------------------------
(* The calls the loop makes.                                               *)

LoopCall(now) ==
  \/ Recover(now)
  \/ \E pressed \in BOOLEAN : Service(now, pressed)
  \/ ReportFault(now)
  \/ Detach(now)
  \/ BeginChallenge(now)
  \/ \E n \in Nat :
       ValidateResponse([credentialId |-> Glove, keyId |-> GloveKey,
                         counter |-> n, nonce |-> eng.pending], now)

EngineInv == TypeOK /\ SafeInv /\ FloorsHeld

(* The glove's answers are responses.                                      *)
LEMMA GloveAnswers ==
  ASSUME NEW n \in Nat,
         NEW r, r = [credentialId |-> Glove, keyId |-> GloveKey,
                     counter |-> n, nonce |-> eng.pending]
  PROVE  r.counter \in Nat /\ r.credentialId \in Credentials \cup {NoId}
BY RuntimeConstants

(* Every one of them keeps what the engine promises on its own.            *)
LEMMA LoopCallSound ==
  ASSUME EngineInv, NEW now \in Time, LoopCall(now)
  PROVE  EngineInv' /\ GoodStep
<1> USE DEF EngineInv
<1>1. CASE Recover(now)
  BY <1>1, RecoverType, RecoverStep, RecoverKeeps, RecoverIsGood
<1>2. ASSUME NEW pressed \in BOOLEAN, Service(now, pressed)
      PROVE  EngineInv' /\ GoodStep
  <2>1. TypeOK'
    BY <1>2, TickType DEF Service, EngineOnly, TypeOK
  <2>2. SafeInv'
    BY <1>2, SafeFacts, TickStep DEF Service, EngineOnly, SafeInv
  <2>3. FloorsHeld'
    BY <1>2, TickFrame, UntouchedKeeps DEF Service, TypeOK
  <2>4. GoodStep
    BY <1>2, TickCarries, CarriesIsGood DEF Service, TypeOK
  <2> QED BY <2>1, <2>2, <2>3, <2>4
<1>3. CASE ReportFault(now)
  <2>1. TypeOK'
    BY <1>3, FaultType DEF ReportFault, EngineOnly, TypeOK
  <2>2. SafeInv'
    BY <1>3, FaultStep DEF ReportFault
  <2>3. FloorsHeld'
    BY <1>3, FaultWithdraws, UntouchedKeeps
       DEF ReportFault, Withdrawn, TypeOK
  <2>4. GoodStep
    BY <1>3, FaultCarries, CarriesIsGood DEF ReportFault, TypeOK
  <2> QED BY <2>1, <2>2, <2>3, <2>4
<1>4. CASE Detach(now)
  BY <1>4, DetachType, DetachStep, DetachKeeps, DetachCarries, CarriesIsGood
<1>5. CASE BeginChallenge(now)
  BY <1>5, BeginChallengeType, BeginChallengeStep, BeginChallengeKeeps,
     BeginChallengeCarries, CarriesIsGood
<1>6. ASSUME NEW n \in Nat, NEW r,
             r = [credentialId |-> Glove, keyId |-> GloveKey,
                  counter |-> n, nonce |-> eng.pending],
             ValidateResponse(r, now)
      PROVE  EngineInv' /\ GoodStep
  BY <1>6, GloveAnswers, ValidateResponseType, ValidateResponseStep,
     ValidateResponseKeeps, ValidateResponseIsGood
<1> QED BY <1>1, <1>2, <1>3, <1>4, <1>5, <1>6 DEF LoopCall

(* And every one of them is a step of the gate.                            *)
LEMMA LoopCallRefines ==
  ASSUME EngineInv, EngineInv', NEW now \in Time, LoopCall(now)
  PROVE  Gate!Next
<1> Between
  BY DEF EngineInv, Between
<1>1. CASE Recover(now)
  BY <1>1, RecoverPass
<1>2. CASE \E pressed \in BOOLEAN : Service(now, pressed)
  BY <1>2, ServicePass
<1>3. CASE ReportFault(now)
  BY <1>3, FaultWithdraws, WithdrawnPass
     DEF ReportFault, EngineOnly, Between, TypeOK
<1>4. CASE Detach(now)
  BY <1>4, DetachPass
<1>5. CASE BeginChallenge(now)
  BY <1>5, BeginChallengeAsks
<1>6. ASSUME NEW n \in Nat, NEW r,
             r = [credentialId |-> Glove, keyId |-> GloveKey,
                  counter |-> n, nonce |-> eng.pending],
             ValidateResponse(r, now)
      PROVE  Gate!Next
  BY <1>6, GloveAnswers, ValidateResponseGrants
<1> QED BY <1>1, <1>2, <1>3, <1>4, <1>5, <1>6 DEF LoopCall

GoodCall == GoodStep /\ Gate!Next

LEMMA LoopCallKeeps ==
  ASSUME EngineInv, NEW now \in Time, LoopCall(now)
  PROVE  EngineInv' /\ GoodCall
BY LoopCallSound, LoopCallRefines DEF GoodCall

(* A fault, a recovery and a detach leave neither session nor challenge.   *)
LEMMA FaultIdle ==
  ASSUME TypeOK, NEW now \in Time, eng' = Fault(eng, now) PROVE Idle(eng')
BY FaultWithdraws DEF Withdrawn, TypeOK

LEMMA RecoverIdle ==
  ASSUME TypeOK, NEW now \in Time, Recover(now) PROVE Idle(eng')
<1> DEFINE e == [eng EXCEPT !.state = nvs, !.healthy = TRUE,
                            !.controlFault = FALSE, !.lastNow = now]
<1>1. CASE eng' = Retick(RequireReauthentication(e), now)
  <2>1. e \in EngineState
    BY DEF TypeOK, EngineState
  <2> HIDE DEF e
  <2>2. Withdrawn(e, eng')
    BY <1>1, <2>1, InvalidateTick
       DEF RequireReauthentication, Decision, Denial, SessionState
  <2> QED BY <2>2 DEF Withdrawn
<1> QED BY <1>1, FaultIdle DEF Recover

LEMMA DetachIdle ==
  ASSUME TypeOK, NEW now \in Time, Detach(now) PROVE Idle(eng')
<1> DEFINE i == Invalidate(eng, "DENY_NO_CREDENTIAL", "NONE")
           e == [i EXCEPT !.attached = NoId]
<1>1. i \in EngineState /\ Idle(i)
  BY InvalidateFields DEF TypeOK, Idle, Decision, Denial, SessionState
<1> HIDE DEF i
<1>2. e \in EngineState /\ Idle(e) /\ eng' = Retick(e, now)
  BY <1>1 DEF EngineState, Idle, Detach, i
<1> HIDE DEF e
<1> QED BY <1>2, IdleTick DEF Withdrawn

(* Whatever becomes of a response, its challenge is used up.               *)
LEMMA ValidateResponseSettles ==
  ASSUME TypeOK, NEW now \in Time, NEW r, r.counter \in Nat,
         r.credentialId \in Credentials \cup {NoId}, ValidateResponse(r, now)
  PROVE  ~eng'.hasPending
<1> DEFINE t        == Retick(eng, now)
           consumed == [t EXCEPT !.hasPending = FALSE]
           named    == [consumed EXCEPT !.attached = r.credentialId]
           new      == [named.state EXCEPT
                          !.credentials[named.attached].counter = r.counter]
           saved    == [named EXCEPT !.state = new]
           opened   == OpenSession(saved, now)
<1>1. t \in EngineState
  BY RetickType DEF TypeOK
<1>2. consumed \in EngineState /\ ~consumed.hasPending
  BY <1>1 DEF EngineState
<1>3. named \in EngineState /\ ~named.hasPending
  BY <1>2 DEF EngineState
<1>4. CASE eng' = consumed
  BY <1>2, <1>4
<1>5. CASE Admission(t, r, now) \in Denial
           /\ eng' = Deny(consumed, Admission(t, r, now), now)
  BY <1>2, <1>5, DenyWithdraws DEF Withdrawn, Idle, Decision
<1>6. CASE Verdict(named, r) \in Denial
           /\ eng' = Deny(named, Verdict(named, r), now)
  BY <1>3, <1>6, DenyWithdraws DEF Withdrawn, Idle, Decision
<1>7. CASE eng' = Fault(named, now)
  BY <1>3, <1>7, FaultWithdraws DEF Withdrawn, Idle
<1>8. CASE Admission(t, r, now) = "admitted"
           /\ AcceptResponse(named, r.counter, now)
  <2>1. named.attached \in Credentials
    BY <1>2, <1>8 DEF Admission, EngineState
  <2>2. named.attached # NoId
    BY <2>1, ConstantTypes
  <2>3. new \in PersistentState
    BY <1>3, <2>1, CounterReplaced DEF EngineState
  <2>4. /\ saved \in EngineState /\ ~saved.hasPending
        /\ saved.attached # NoId /\ saved.state = new
    <3> HIDE DEF new, named
    <3> QED BY <1>3, <2>2, <2>3 DEF EngineState
  <2>5. CASE eng' = Fault(saved, now)
    BY <2>4, <2>5, FaultWithdraws DEF Withdrawn, Idle
  <2>6. CASE /\ now <= TimeMax - new.policy.sessionTimeout
             /\ eng' = Retick(opened, now)
    <3>1. opened \in EngineState
      <4> HIDE DEF saved, new
      <4> QED BY <2>4, <2>6, OpenSessionType
    <3>2. ~opened.hasPending
      <4> HIDE DEF saved
      <4> QED BY <2>4 DEF OpenSession, EngineState
    <3> HIDE DEF opened
    <3>3. opened.pressed \in BOOLEAN
      BY <3>1 DEF EngineState
    <3> QED BY <2>6, <3>1, <3>2, <3>3, TickFrame DEF Retick
  <2>7. CASE eng' = Fault(named, now)
    BY <1>7, <2>7
  <2> QED BY <1>8, <2>5, <2>6, <2>7 DEF AcceptResponse, SaveFails
<1> QED BY <1>4, <1>5, <1>6, <1>7, <1>8 DEF ValidateResponse

(* The service takes nothing up, and its grant is a session's that has     *)
(* time left.                                                              *)
LEMMA ServiceGrants ==
  ASSUME EngineInv, NEW now \in Time, NEW pressed \in BOOLEAN,
         Service(now, pressed)
  PROVE  /\ eng'.hasPending => eng.hasPending
         /\ eng'.sessionState = "ACTIVE" => eng.sessionState = "ACTIVE"
         /\ eng'.session.expiresAt \in Time
         /\ eng'.lastDecision = "ALLOW_TX" =>
              /\ eng'.sessionState = "ACTIVE"
              /\ now < eng'.session.expiresAt
<1>1. EngineInv'
  BY LoopCallKeeps DEF LoopCall
<1>2. eng' \in EngineState /\ (eng' # PoweredOn => Current(eng')) /\ Safe(eng')
  BY <1>1 DEF EngineInv, TypeOK, SafeInv
<1>3. /\ eng'.lastNow = now
      /\ eng'.hasPending => eng.hasPending
      /\ eng'.sessionState = "ACTIVE" => eng.sessionState = "ACTIVE"
  BY TickFrame DEF EngineInv, TypeOK, Service
<1>4. eng'.lastDecision = "ALLOW_TX" => eng'.sessionState = "ACTIVE"
  <2> DEFINE e == eng'
  <2>1. e \in EngineState /\ (e # PoweredOn => Current(e))
    BY <1>2
  <2> HIDE DEF e
  <2>2. e.lastDecision = "ALLOW_TX" => e.sessionState = "ACTIVE"
    BY <2>1, GrantFollows
  <2> QED BY <2>2 DEF e
<1> QED BY <1>2, <1>3, <1>4 DEF Safe, Backed, EngineState, Session

-----------------------------------------------------------------------------
(* The inductive invariant.                                                *)

Longest(S) == CHOOSE d \in S : \A other \in S : other <= d

(* What the controller remembers, and what holds the gate LOW for good.    *)
Latched ==
  /\ ptt.gate = ptt.txEnabled
  /\ bootFailed => ptt.permanentFault
  /\ ptt.permanentFault \/ pc = "setup" => ~ptt.gate
  /\ build = "default" => eng.sessionState # "ACTIVE" /\ ~ptt.gate

(* How far the clock may have run past the deadline of the session that    *)
(* raised the gate, at each point of an iteration.                         *)
Overrun ==
  ptt.gate =>
    /\ pc = "delay" => clock < lease
    /\ pc = "first" => clock < lease + LoopDelay
    /\ pc = "command" => clock < lease + Longest(CommandTimes)
    /\ pc \in {"respond", "second"} =>
         clock < lease + Longest(CommandTimes) + Longest(ResponseTimes)

RuntimeInv == /\ RuntimeTypeOK /\ SafeInv /\ FloorsHeld
              /\ Latched /\ GateWindow /\ ChallengeSettled /\ Overrun

(* A step of the loop keeps the invariant, and what it asks of the engine  *)
(* is a good step of the engine.                                           *)
StepKeeps == RuntimeInv' /\ (GoodCall \/ UNCHANGED vars)

LEMMA LongestIsLongest ==
  ASSUME NEW S, S \subseteq Nat, \E d \in S : \A other \in S : other <= d
  PROVE  Longest(S) \in Nat /\ \A d \in S : d <= Longest(S)
BY DEF Longest

LEMMA LongestTimes ==
  /\ Longest(CommandTimes) \in Nat
  /\ \A d \in CommandTimes : d \in Nat /\ d <= Longest(CommandTimes)
  /\ Longest(ResponseTimes) \in Nat
  /\ \A d \in ResponseTimes : d \in Nat /\ d <= Longest(ResponseTimes)
<1>1. Longest(CommandTimes) \in Nat /\ \A d \in CommandTimes : d <= Longest(CommandTimes)
  BY RuntimeConstants, LongestIsLongest
<1>2. Longest(ResponseTimes) \in Nat /\ \A d \in ResponseTimes : d <= Longest(ResponseTimes)
  BY RuntimeConstants, LongestIsLongest
<1> QED BY <1>1, <1>2, RuntimeConstants

(* The clock and the lease are numbers; the clock is a time of the engine. *)
LEMMA Clocks ==
  ASSUME RuntimeTypeOK
  PROVE  clock \in Time /\ clock \in Nat /\ lease \in Nat /\ LoopDelay \in Nat
BY RuntimeConstants, ConstantTypes DEF RuntimeTypeOK, Time

LEMMA ElapsesFacts ==
  ASSUME RuntimeTypeOK, NEW d \in Nat, Elapses(d)
  PROVE  clock' \in 0..Horizon /\ clock' = clock + d
BY RuntimeConstants, ConstantTypes DEF RuntimeTypeOK, Elapses, Time

(* ptt.updateSecurity(): the gate is HIGH after it exactly for a session   *)
(* in force that has time left.                                            *)
LEMMA UpdateSecurityFacts ==
  ASSUME RuntimeInv, UpdateSecurity
  PROVE  /\ EngineInv' /\ GoodCall
         /\ eng'.hasPending => eng.hasPending
         /\ eng'.sessionState = "ACTIVE" => eng.sessionState = "ACTIVE"
         /\ ptt' \in Ptt /\ ptt'.gate = ptt'.txEnabled
         /\ ptt'.permanentFault = ptt.permanentFault
         /\ lease' \in Time
         /\ ptt'.gate => /\ ~ptt'.permanentFault
                         /\ eng'.lastDecision = "ALLOW_TX"
                         /\ eng'.sessionState = "ACTIVE"
                         /\ clock < lease'
<1> DEFINE now == LowWord(clock)
           p   == UpdateButton(ptt, button, now)
           ok  == eng'.lastDecision = "ALLOW_TX"
<1>1. /\ clock \in Time /\ clock \in Nat /\ ptt \in Ptt /\ button \in BOOLEAN
      /\ ptt.gate = ptt.txEnabled /\ lease \in Time
  BY Clocks DEF RuntimeInv, RuntimeTypeOK, Latched
<1>2. /\ Service(clock, p.stable) /\ ptt' = ApplyAuthorization(p, ok)
      /\ lease' = IF ok THEN eng'.session.expiresAt ELSE lease
  BY DEF UpdateSecurity
<1>3. now \in Millis
  BY <1>1, LowWordType
<1> HIDE DEF now
<1>4. /\ p \in Ptt /\ p.gate = p.txEnabled
      /\ p.permanentFault = ptt.permanentFault
  BY <1>1, <1>3, UpdateButtonFacts
<1>5. p.stable \in BOOLEAN
  BY <1>4 DEF Ptt
<1> HIDE DEF p
<1>6. EngineInv
  BY DEF RuntimeInv, RuntimeTypeOK, EngineInv
<1>7. EngineInv' /\ GoodCall
  BY <1>1, <1>2, <1>5, <1>6, LoopCallKeeps DEF LoopCall
<1>8. /\ eng'.hasPending => eng.hasPending
      /\ eng'.sessionState = "ACTIVE" => eng.sessionState = "ACTIVE"
      /\ eng'.session.expiresAt \in Time
      /\ ok => eng'.sessionState = "ACTIVE" /\ clock < eng'.session.expiresAt
  BY <1>1, <1>2, <1>5, <1>6, ServiceGrants
<1>9. ok \in BOOLEAN /\ (ok => eng'.lastDecision = "ALLOW_TX")
  OBVIOUS
<1> HIDE DEF ok
<1>10. /\ ptt' \in Ptt /\ ptt'.gate = ptt'.txEnabled
       /\ ptt'.gate => ok /\ ~ptt'.permanentFault
       /\ ptt'.permanentFault = p.permanentFault
  BY <1>2, <1>4, <1>9, ApplyAuthorizationFacts
<1> QED BY <1>1, <1>2, <1>4, <1>7, <1>8, <1>9, <1>10

LEMMA FirstServiceKeeps ==
  ASSUME RuntimeInv, NEW d \in CommandTimes, FirstService(d) PROVE StepKeeps
<1>1. clock' \in 0..Horizon /\ clock' = clock + d
  BY LongestTimes, ElapsesFacts DEF FirstService, RuntimeInv
<1>2. clock \in Nat /\ d \in Nat /\ d <= Longest(CommandTimes)
      /\ Longest(CommandTimes) \in Nat
  BY Clocks, LongestTimes DEF RuntimeInv
<1>3. RuntimeTypeOK' /\ SafeInv' /\ FloorsHeld' /\ GoodCall
  BY <1>1, UpdateSecurityFacts
     DEF FirstService, RuntimeInv, RuntimeTypeOK, EngineInv
<1>4. Latched' /\ GateWindow' /\ ChallengeSettled'
  BY UpdateSecurityFacts
     DEF FirstService, RuntimeInv, Latched, GateWindow, ChallengeSettled
<1>5. Overrun'
  <2>1. ptt'.gate => clock < lease' /\ lease' \in Nat
    BY UpdateSecurityFacts, TimeIsNat DEF FirstService
  <2>2. pc' = "command"
    BY DEF FirstService
  <2> QED BY <1>1, <1>2, <2>1, <2>2 DEF Overrun
<1> QED BY <1>3, <1>4, <1>5 DEF StepKeeps, RuntimeInv

LEMMA SecondServiceKeeps ==
  ASSUME RuntimeInv, SecondService PROVE StepKeeps
<1>1. RuntimeTypeOK' /\ SafeInv' /\ FloorsHeld' /\ GoodCall
  BY UpdateSecurityFacts
     DEF SecondService, RuntimeInv, RuntimeTypeOK, EngineInv
<1>2. Latched' /\ GateWindow' /\ ChallengeSettled'
  BY UpdateSecurityFacts
     DEF SecondService, RuntimeInv, Latched, GateWindow, ChallengeSettled
<1>3. Overrun'
  BY UpdateSecurityFacts DEF SecondService, Overrun
<1> QED BY <1>1, <1>2, <1>3 DEF StepKeeps, RuntimeInv

(* In the delay and while the button moves the engine rests.               *)
LEMMA EngineRests ==
  ASSUME RuntimeInv, UNCHANGED vars PROVE EngineInv'
BY DEF vars, RuntimeInv, RuntimeTypeOK, EngineInv, TypeOK, SafeInv,
       MemoryIsDurable, FloorsHeld, Holds, KeepsFloors

LEMMA DelayKeeps == ASSUME RuntimeInv, Delay PROVE StepKeeps
<1>1. clock' \in 0..Horizon /\ clock' = clock + LoopDelay
  BY Clocks, ElapsesFacts DEF Delay, RuntimeInv
<1>2. EngineInv' /\ UNCHANGED eng
  BY EngineRests DEF Delay, vars
<1>3. RuntimeTypeOK' /\ Latched' /\ GateWindow' /\ ChallengeSettled'
  BY <1>1, <1>2 DEF Delay, RuntimeInv, RuntimeTypeOK, EngineInv, Latched,
                    GateWindow, ChallengeSettled
<1>4. Overrun'
  BY <1>1, Clocks DEF Delay, RuntimeInv, Overrun
<1> QED BY <1>2, <1>3, <1>4 DEF StepKeeps, RuntimeInv, EngineInv, Delay

LEMMA MoveButtonKeeps == ASSUME RuntimeInv, MoveButton PROVE StepKeeps
<1>1. EngineInv' /\ UNCHANGED eng
  BY EngineRests DEF MoveButton, vars
<1>2. RuntimeTypeOK' /\ Latched' /\ GateWindow' /\ ChallengeSettled' /\ Overrun'
  BY <1>1 DEF MoveButton, RuntimeInv, RuntimeTypeOK, EngineInv, Latched,
              GateWindow, ChallengeSettled, Overrun
<1> QED BY <1>1, <1>2 DEF StepKeeps, RuntimeInv, EngineInv, MoveButton

-----------------------------------------------------------------------------
(* setup().                                                                *)

LEMMA LatchFacts ==
  ASSUME NEW p \in Ptt
  PROVE  /\ LatchPermanentFault(p) \in Ptt
         /\ LatchPermanentFault(p).permanentFault
         /\ ~LatchPermanentFault(p).gate /\ ~LatchPermanentFault(p).txEnabled
         /\ SetSystemReady(p) \in Ptt
         /\ SetSystemReady(p).gate = p.gate
         /\ SetSystemReady(p).txEnabled = p.txEnabled
         /\ SetSystemReady(p).permanentFault = p.permanentFault
BY DEF LatchPermanentFault, SetSystemReady, Ptt

(* The end of setup(), however it ends: the gate stays LOW.                *)
LEMMA SetupKeeps ==
  ASSUME RuntimeInv, ReaderFails \/ Boot PROVE StepKeeps
<1>1. /\ clock \in Time /\ ptt \in Ptt /\ pc = "setup" /\ ~ptt.gate
      /\ ptt.gate = ptt.txEnabled /\ EngineInv /\ TypeOK
  BY Clocks DEF RuntimeInv, RuntimeTypeOK, Latched, ReaderFails, Boot, EngineInv
<1>2. EngineInv' /\ GoodCall
  BY <1>1, LoopCallKeeps DEF ReaderFails, Boot, LoopCall
<1>3. Idle(eng')
  BY <1>1, FaultIdle, RecoverIdle DEF ReaderFails, Boot, ReportFault
<1>4. eng'.healthy \in BOOLEAN
  BY <1>2 DEF EngineInv, TypeOK, EngineState
<1>5. /\ ptt' \in Ptt /\ ~ptt'.gate /\ ~ptt'.txEnabled
      /\ bootFailed' => ptt'.permanentFault
  <2>1. ptt' = SetSystemReady(ptt) \/ ptt' = LatchPermanentFault(ptt)
    BY DEF ReaderFails, Boot
  <2>2. ptt' \in Ptt /\ ~ptt'.gate /\ ~ptt'.txEnabled
    BY <1>1, <2>1, LatchFacts
  <2>3. bootFailed' => ptt' = LatchPermanentFault(ptt)
    BY <1>4 DEF ReaderFails, Boot
  <2> QED BY <1>1, <2>2, <2>3, LatchFacts
<1>6. ptt'.gate = ptt'.txEnabled /\ pc' = "first"
  BY <1>5 DEF Ptt, ReaderFails, Boot
<1>7. RuntimeTypeOK'
  BY <1>2, <1>4, <1>5
     DEF ReaderFails, Boot, RuntimeInv, RuntimeTypeOK, EngineInv
<1>8. Latched' /\ GateWindow' /\ ChallengeSettled' /\ Overrun'
  BY <1>3, <1>5, <1>6
     DEF Latched, GateWindow, ChallengeSettled, Overrun, Idle
<1> QED BY <1>2, <1>7, <1>8 DEF StepKeeps, RuntimeInv, EngineInv

-----------------------------------------------------------------------------
(* Between the two services.                                               *)

(* A step to "respond" or "second" that leaves the controller alone.       *)
MidIteration == /\ pc \in {"command", "respond"} /\ pc' \in {"respond", "second"}
           /\ UNCHANGED <<build, ptt, button, reader, bootFailed, lease>>

LEMMA MidIterationKeeps ==
  ASSUME RuntimeInv, MidIteration, EngineInv', GoodCall \/ UNCHANGED vars,
         clock' \in 0..Horizon, glove' \in Nat,
         \/ clock' = clock
         \/ pc = "command" /\ \E d \in ResponseTimes : clock' = clock + d,
         pc' = "second" => ~eng'.hasPending,
         build = "default" => eng'.sessionState # "ACTIVE"
  PROVE  StepKeeps
<1>1. RuntimeTypeOK'
  BY DEF MidIteration, RuntimeInv, RuntimeTypeOK, EngineInv
<1>2. Latched' /\ GateWindow' /\ ChallengeSettled'
  BY DEF MidIteration, RuntimeInv, Latched, GateWindow, ChallengeSettled
<1>3. Overrun'
  BY Clocks, LongestTimes DEF MidIteration, RuntimeInv, Overrun
<1> QED BY <1>1, <1>2, <1>3 DEF StepKeeps, RuntimeInv, EngineInv

LEMMA NoCommandKeeps == ASSUME RuntimeInv, NoCommand PROVE StepKeeps
<1>1. EngineInv' /\ UNCHANGED eng /\ UNCHANGED vars
  BY EngineRests DEF NoCommand, vars
<1>2. /\ ~eng.hasPending /\ (build = "default" => eng.sessionState # "ACTIVE")
      /\ clock \in 0..Horizon /\ glove \in Nat
  BY DEF NoCommand, RuntimeInv, RuntimeTypeOK, Latched, ChallengeSettled
<1> QED BY <1>1, <1>2, MidIterationKeeps DEF NoCommand, OnlyEngine, MidIteration

LEMMA ChallengeKeeps ==
  ASSUME RuntimeInv, NEW d \in ResponseTimes, Challenge(d) PROVE StepKeeps
<1>1. clock' \in 0..Horizon /\ clock' = clock + d
  BY LongestTimes, ElapsesFacts DEF Challenge, RuntimeInv
<1>2. /\ clock \in Time /\ EngineInv /\ TypeOK /\ glove \in Nat
      /\ build = "default" => eng.sessionState # "ACTIVE"
  BY Clocks DEF RuntimeInv, RuntimeTypeOK, EngineInv, Latched
<1>3. EngineInv' /\ GoodCall
  BY <1>2, LoopCallKeeps DEF Challenge, LoopCall
<1>4. eng'.sessionState = "ACTIVE" => eng.sessionState = "ACTIVE"
  BY <1>2, BeginChallengeCarries DEF Challenge, Carries
<1>5. /\ MidIteration /\ glove' = glove
      /\ pc = "command" /\ (pc' = "second" => ~eng'.hasPending)
  BY DEF Challenge, OnlyEngine, MidIteration
<1> QED BY <1>1, <1>2, <1>3, <1>4, <1>5, MidIterationKeeps

(* Detach, fault, recovery and a transport that does not answer.           *)
LEMMA IdlingKeeps ==
  ASSUME RuntimeInv, Remove \/ SerialFault \/ SerialRecover \/ NoResponse
  PROVE  StepKeeps
<1>1. /\ clock \in Time /\ EngineInv /\ TypeOK /\ glove \in Nat
      /\ clock \in 0..Horizon
  BY Clocks DEF RuntimeInv, RuntimeTypeOK, EngineInv
<1>2. EngineInv' /\ GoodCall
  BY <1>1, LoopCallKeeps
     DEF Remove, SerialFault, SerialRecover, NoResponse, LoopCall
<1>3. Idle(eng')
  BY <1>1, FaultIdle, RecoverIdle, DetachIdle
     DEF Remove, SerialFault, SerialRecover, NoResponse, ReportFault
<1>4. glove' \in Nat
  BY <1>1 DEF Remove, SerialFault, SerialRecover, NoResponse, OnlyEngine
<1>5. MidIteration /\ clock' = clock
  BY DEF Remove, SerialFault, SerialRecover, NoResponse, OnlyEngine, MidIteration
<1> QED BY <1>1, <1>2, <1>3, <1>4, <1>5, MidIterationKeeps DEF Idle

LEMMA RespondKeeps == ASSUME RuntimeInv, Respond PROVE StepKeeps
<1> DEFINE r == [credentialId |-> Glove, keyId |-> GloveKey,
                 counter |-> glove + 1, nonce |-> eng.pending]
<1>1. /\ clock \in Time /\ EngineInv /\ TypeOK /\ glove \in Nat
      /\ clock \in 0..Horizon /\ glove + 1 \in Nat
  BY Clocks DEF RuntimeInv, RuntimeTypeOK, EngineInv
<1>2. EngineInv' /\ GoodCall
  BY <1>1, LoopCallKeeps DEF Respond, LoopCall
<1>3. ~eng'.hasPending
  <2>1. r.counter \in Nat /\ r.credentialId \in Credentials \cup {NoId}
    BY <1>1, GloveAnswers
  <2>2. ValidateResponse(r, clock)
    BY DEF Respond
  <2> HIDE DEF r
  <2> QED BY <1>1, <2>1, <2>2, ValidateResponseSettles
<1>4. MidIteration /\ clock' = clock /\ glove' \in Nat /\ build # "default"
  BY <1>1 DEF Respond, MidIteration
<1> QED BY <1>1, <1>2, <1>3, <1>4, MidIterationKeeps

-----------------------------------------------------------------------------
(* The specification.                                                      *)

LEMMA RuntimeInvInit == RuntimeInit => RuntimeInv
<1> SUFFICES ASSUME RuntimeInit PROVE RuntimeInv
  OBVIOUS
<1>1. TypeOK /\ SafeInv /\ FloorsHeld
  BY InitType, SafeInit, FloorsInit DEF RuntimeInit
<1>2. eng.sessionState = "NONE" /\ ~eng.hasPending
  BY DEF RuntimeInit, Init, PoweredOn
<1>3. ptt \in Ptt /\ ~ptt.gate /\ ptt.gate = ptt.txEnabled
  BY PttConstants DEF RuntimeInit, Begin, Ptt, Millis
<1>4. 0 \in 0..Horizon
  BY RuntimeConstants, ConstantTypes DEF Time
<1>5. RuntimeTypeOK
  BY <1>1, <1>3, <1>4, ZeroIsATime DEF RuntimeInit, RuntimeTypeOK
<1>6. Latched /\ GateWindow /\ ChallengeSettled /\ Overrun
  BY <1>2, <1>3
     DEF RuntimeInit, Latched, GateWindow, ChallengeSettled, Overrun
<1> QED BY <1>1, <1>5, <1>6 DEF RuntimeInv

LEMMA RuntimeStep ==
  RuntimeInv /\ [RuntimeNext]_runtimeVars => RuntimeInv' /\ [GoodCall]_vars
<1> SUFFICES ASSUME RuntimeInv, [RuntimeNext]_runtimeVars
             PROVE  StepKeeps
  BY DEF StepKeeps
<1>1. CASE RuntimeNext
  BY <1>1, SetupKeeps, FirstServiceKeeps, NoCommandKeeps, ChallengeKeeps,
     IdlingKeeps, RespondKeeps, SecondServiceKeeps, DelayKeeps, MoveButtonKeeps
     DEF RuntimeNext
<1>2. CASE UNCHANGED runtimeVars
  <2>1. EngineInv' /\ UNCHANGED eng /\ UNCHANGED vars
    BY <1>2, EngineRests DEF runtimeVars, vars
  <2> QED BY <1>2, <2>1
          DEF runtimeVars, loopVars, StepKeeps, RuntimeInv, RuntimeTypeOK,
              EngineInv, Latched, GateWindow, ChallengeSettled, Overrun
<1> QED BY <1>1, <1>2

(* At every point of every iteration the loop is in order.                 *)
THEOREM RuntimeInvariant == RuntimeSpec => []RuntimeInv
<1>1. RuntimeInv /\ [RuntimeNext]_runtimeVars => RuntimeInv'
  BY RuntimeStep
<1> QED BY <1>1, RuntimeInvInit, PTL DEF RuntimeSpec

(* Engine, controller and loop keep their types; the time handed to the    *)
(* engine is always one, and the time handed to the controller a uint32.   *)
THEOREM RuntimeTyped == RuntimeSpec => []RuntimeTypeOK
<1>1. RuntimeInv => RuntimeTypeOK
  BY DEF RuntimeInv
<1> QED BY <1>1, RuntimeInvariant, PTL

(* Outside the few steps between a command and the service after it, the   *)
(* gate is HIGH only while the engine allows it, to a session in force.    *)
THEOREM GateFollowsEngine == RuntimeSpec => []GateWindow
<1>1. RuntimeInv => GateWindow
  BY DEF RuntimeInv
<1> QED BY <1>1, RuntimeInvariant, PTL

(* However slow commands and answers are, the gate outlives the session    *)
(* that raised it by less than the longest gap between two services.       *)
THEOREM OverrunIsBounded == RuntimeSpec => []OverrunBounded
<1>1. RuntimeInv => OverrunBounded
  <2> SUFFICES ASSUME RuntimeInv, ptt.gate PROVE clock < lease + LongestGap
    BY DEF OverrunBounded
  <2> DEFINE c == Longest(CommandTimes)
             a == Longest(ResponseTimes)
  <2>1. LongestGap = IF c + a > LoopDelay THEN c + a ELSE LoopDelay
    BY DEF LongestGap, Longest
  <2>2. /\ clock \in Nat /\ lease \in Nat /\ LoopDelay \in Nat \ {0}
        /\ c \in Nat /\ a \in Nat
    BY Clocks, LongestTimes, RuntimeConstants DEF RuntimeInv
  <2>3. /\ pc \in {"first", "command", "respond", "second", "delay"}
        /\ pc = "delay" => clock < lease
        /\ pc = "first" => clock < lease + LoopDelay
        /\ pc = "command" => clock < lease + c
        /\ pc \in {"respond", "second"} => clock < lease + c + a
    BY DEF RuntimeInv, RuntimeTypeOK, Latched, Overrun
  <2> HIDE DEF c, a
  <2> QED BY <2>1, <2>2, <2>3
<1> QED BY <1>1, RuntimeInvariant, PTL

(* No challenge is carried from one iteration into the next.               *)
THEOREM ChallengesSettle == RuntimeSpec => []ChallengeSettled
<1>1. RuntimeInv => ChallengeSettled
  BY DEF RuntimeInv
<1> QED BY <1>1, RuntimeInvariant, PTL

(* After a failed setup(), and in the default build always, the gate stays *)
(* LOW, whatever the engine comes to decide.                               *)
THEOREM GateStaysLow == RuntimeSpec => []GateHeldLow
<1>1. RuntimeInv => GateHeldLow
  BY DEF RuntimeInv, Latched, GateHeldLow
<1> QED BY <1>1, RuntimeInvariant, PTL

(* What the engine promises to any caller it keeps in the loop, so that a  *)
(* HIGH gate outside the window stands on a session backed in full.        *)
THEOREM EngineSafeInLoop ==
  RuntimeSpec => [](/\ SessionBacked /\ ChallengeExclusive /\ DecisionCurrent
                    /\ GrantAuthorized /\ TraceFaithful /\ MemoryIsDurable
                    /\ FloorsSurvive)
<1>1. RuntimeInv => /\ SessionBacked /\ ChallengeExclusive /\ DecisionCurrent
                    /\ TraceFaithful /\ MemoryIsDurable /\ FloorsSurvive
  BY DEF RuntimeInv, SafeInv, Safe, ChallengeAlone, Current, Faithful,
         FloorsHeld, SessionBacked, ChallengeExclusive, DecisionCurrent,
         TraceFaithful, FloorsSurvive
<1>2. RuntimeInv => GrantAuthorized
  BY GrantFollows
     DEF RuntimeInv, RuntimeTypeOK, TypeOK, SafeInv, GrantAuthorized
<1> QED BY <1>1, <1>2, RuntimeInvariant, PTL

(* Nor does the loop make the engine take a step that opens a session on   *)
(* an old counter or challenge, or leave a fault but through the flash.    *)
THEOREM EngineStepsInLoop == RuntimeSpec => NoReplay /\ FaultsLatch
<1>1. RuntimeInv /\ [RuntimeNext]_runtimeVars => [GoodStep]_vars
  BY RuntimeStep DEF GoodCall
<1>2. RuntimeSpec => [][GoodStep]_vars
  BY <1>1, RuntimeInvariant, PTL DEF RuntimeSpec
<1>3. [GoodStep]_vars => [OpensFreshly]_vars
  BY DEF GoodStep
<1>4. [GoodStep]_vars =>
        [LeavesFault => /\ eng' = PoweredOn \/ (eng'.healthy /\ eng'.state = nvs)
                        /\ eng'.sessionState = "NONE" /\ ~eng'.hasPending]_vars
  BY DEF GoodStep
<1> QED BY <1>2, <1>3, <1>4, PTL DEF NoReplay, FaultsLatch

(* Nor can anyone who watches the engine in the loop tell it from the      *)
(* gate: whatever tags, commands, answers and failures the loop meets, a   *)
(* session is one the gate grants and holds no longer than the gate does.  *)
THEOREM LoopImplementsGate == RuntimeSpec => GateSpec
<1>1. RuntimeInv /\ [RuntimeNext]_runtimeVars => [Gate!Next]_(Gate!gateVars)
  <2>1. UNCHANGED vars => UNCHANGED Gate!gateVars
    BY DEF vars, Gate!gateVars, Lease, Question
  <2> QED BY <2>1, RuntimeStep DEF GoodCall
<1>2. RuntimeInit => Gate!Init
  BY InitRefines DEF RuntimeInit
<1> QED BY <1>1, <1>2, RuntimeInvariant, PTL DEF RuntimeSpec, GateSpec, Gate!Spec

(* The pin is under the gate's rule: outside the few steps between a       *)
(* command and the service after it, it is HIGH only under a lease, which  *)
(* is in its time, beside no question, and granted on a counter the glove  *)
(* was never granted one on before.                                        *)
THEOREM PinStandsOnLease ==
  RuntimeSpec => [](/\ LeaseInForce
                    /\ ptt.gate /\ pc \notin {"command", "respond", "second"} =>
                         Lease # NoSession)
<1>1. RuntimeInv /\ LeaseInForce =>
        (ptt.gate /\ pc \notin {"command", "respond", "second"} =>
           Lease # NoSession)
  BY DEF RuntimeInv, GateWindow, LeaseInForce
<1> QED BY <1>1, RuntimeInvariant, LoopImplementsGate, GateKeepsLeases, PTL

=============================================================================
