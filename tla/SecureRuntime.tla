--------------------------- MODULE SecureRuntime ---------------------------
(***************************************************************************)
(* The v0.2 firmware (secure_runtime.cpp): one loop that services the PTT  *)
(* controller from the engine's decision, hands the engine at most one     *)
(* command, services the controller again, and sleeps.                     *)
(*                                                                         *)
(* build is "mock", where a command comes from the serial line and a       *)
(* software glove answers challenges, or "default", where it comes from    *)
(* the NFC reader and no transport can answer.  The default build ships    *)
(* without trust anchor and with an empty store; it is modelled here with  *)
(* both possibly provisioned, which only adds behaviours.                  *)
(*                                                                         *)
(* The clock (esp_timer, 64 bits) never goes back.  It advances while the  *)
(* reader is polled, while the transport answers and in the delay; the     *)
(* button may move between any two steps.  Horizon bounds it.              *)
(***************************************************************************)
EXTENDS HermesEngine, PttController

CONSTANTS
  Glove, GloveKey,   \* the credential the mock transport answers for
  CommandTimes,      \* how long reading a command or a tag may take
  ResponseTimes,     \* how long the transport may take
  LoopDelay,         \* MAIN_LOOP_DELAY_MS
  Horizon            \* bound on the clock

(* Nothing in the loop waits without end (a byte that has arrived is read, *)
(* the reader polls up to its timeout, no transport waits for an answer):  *)
(* there is a longest time for a command and for an answer.                *)
ASSUME RuntimeConstants ==
  /\ Glove \in Credentials /\ GloveKey \in KeyIds
  /\ CommandTimes \subseteq Nat /\ ResponseTimes \subseteq Nat
  /\ \E d \in CommandTimes : \A other \in CommandTimes : other <= d
  /\ \E d \in ResponseTimes : \A other \in ResponseTimes : other <= d
  /\ LoopDelay \in Nat \ {0}
  /\ Horizon \in Time

VARIABLES
  build,       \* which of the two builds this is
  pc,          \* the next step of setup() and loop()
  clock,       \* nowMs()
  ptt,         \* the PttController
  button,      \* is the button held, as the pin shows it
  reader,      \* readerReady; the mock build has no reader to fail
  glove,       \* the counter in the glove's own store
  bootFailed,  \* history: setup() gave up
  lease        \* history: the deadline of the session that last allowed TX

loopVars == <<build, pc, clock, ptt, button, reader, glove, bootFailed, lease>>

runtimeVars == <<vars, loopVars>>

RuntimeInit ==
  /\ Init
  /\ build \in {"mock", "default"}
  /\ pc = "setup"
  /\ clock = 0
  /\ button \in BOOLEAN
  /\ ptt = Begin(button, 0)
  /\ reader = FALSE
  /\ glove = 0
  /\ bootFailed = FALSE
  /\ lease = 0

(* Mutant: the controller is handed the whole timestamp.                   *)
WholeWord(t) == t

(* static_cast<uint32_t>(nowMs)                                            *)
LowWord(t) == t % Width

Elapses(d) == clock + d <= Horizon /\ clock' = clock + d

(* The reader of the default build does not come up.                       *)
ReaderFails ==
  /\ pc = "setup" /\ build = "default"
  /\ ReportFault(clock)
  /\ ptt' = LatchPermanentFault(ptt)
  /\ bootFailed' = TRUE
  /\ pc' = "first"
  /\ UNCHANGED <<build, clock, button, reader, glove, lease>>

(* Mutant: the result of engine.begin() is not looked at.                  *)
BootRegardless ==
  /\ pc = "setup"
  /\ Recover(clock)
  /\ ptt' = SetSystemReady(ptt)
  /\ bootFailed' = ~eng'.healthy
  /\ reader' = TRUE
  /\ pc' = "first"
  /\ UNCHANGED <<build, clock, button, glove, lease>>

(* engine.begin() reports whether it recovered the stored state.           *)
Boot ==
  /\ pc = "setup"
  /\ Recover(clock)
  /\ ptt' = IF eng'.healthy THEN SetSystemReady(ptt) ELSE LatchPermanentFault(ptt)
  /\ bootFailed' = ~eng'.healthy
  /\ reader' = TRUE
  /\ pc' = "first"
  /\ UNCHANGED <<build, clock, button, glove, lease>>

(* Mutant: the gate is set from the decision of the tick before.           *)
UpdateSecurityBehind ==
  LET p == UpdateButton(ptt, button, LowWord(clock))
  IN  /\ Service(clock, p.stable)
      /\ ptt' = ApplyAuthorization(p, eng.lastDecision = "ALLOW_TX")
      /\ lease' = IF eng'.lastDecision = "ALLOW_TX" THEN eng'.session.expiresAt
                  ELSE lease

(* Mutant: nothing is done while the gate is up and the button is steady.  *)
UpdateSecurityOnChange ==
  LET p == UpdateButton(ptt, button, LowWord(clock))
  IN  IF p = ptt /\ p.gate THEN UNCHANGED <<vars, ptt, lease>>
      ELSE /\ Service(clock, p.stable)
           /\ ptt' = ApplyAuthorization(p, eng'.lastDecision = "ALLOW_TX")
           /\ lease' = IF eng'.lastDecision = "ALLOW_TX"
                       THEN eng'.session.expiresAt ELSE lease

(* ptt.updateSecurity(engine, nowMs())                                     *)
UpdateSecurity ==
  LET p == UpdateButton(ptt, button, LowWord(clock))
  IN  /\ Service(clock, p.stable)
      /\ ptt' = ApplyAuthorization(p, eng'.lastDecision = "ALLOW_TX")
      /\ lease' = IF eng'.lastDecision = "ALLOW_TX" THEN eng'.session.expiresAt
                  ELSE lease

(* The service at the top of loop(), then the time a command takes to come.*)
FirstService(d) ==
  /\ pc = "first"
  /\ UpdateSecurity
  /\ Elapses(d)
  /\ pc' = "command"
  /\ UNCHANGED <<build, button, reader, glove, bootFailed>>

SecondService ==
  /\ pc = "second"
  /\ UpdateSecurity
  /\ pc' = "delay"
  /\ UNCHANGED <<build, clock, button, reader, glove, bootFailed>>

Delay ==
  /\ pc = "delay"
  /\ Elapses(LoopDelay)
  /\ pc' = "first"
  /\ UNCHANGED <<vars, build, ptt, button, reader, glove, bootFailed, lease>>

-----------------------------------------------------------------------------
(* Between the two services: at most one command.                          *)

Listening == build = "mock" \/ (reader /\ eng.healthy)

OnlyEngine == UNCHANGED <<build, ptt, button, reader, glove, bootFailed, lease>>

NoCommand ==
  /\ pc = "command" /\ (build = "mock" \/ ~Listening)
  /\ pc' = "second"
  /\ UNCHANGED <<vars, clock>> /\ OnlyEngine

(* Serial `a', or a tag in the field; with a challenge the transport is    *)
(* asked and may take its time.                                            *)
Challenge(d) ==
  /\ pc = "command" /\ Listening
  /\ BeginChallenge(clock)
  /\ pc' = IF eng'.hasPending THEN "respond" ELSE "second"
  /\ Elapses(d)
  /\ OnlyEngine

(* Serial `d', or no tag in the field.                                     *)
Remove ==
  /\ pc = "command" /\ Listening
  /\ Detach(clock)
  /\ pc' = "second"
  /\ UNCHANGED clock /\ OnlyEngine

(* Serial `f' and `r'.                                                     *)
SerialFault ==
  /\ pc = "command" /\ build = "mock"
  /\ ReportFault(clock)
  /\ pc' = "second"
  /\ UNCHANGED clock /\ OnlyEngine

SerialRecover ==
  /\ pc = "command" /\ build = "mock"
  /\ Recover(clock)
  /\ pc' = "second"
  /\ UNCHANGED clock /\ OnlyEngine

(* The mock glove makes its next counter durable, then answers; the UID    *)
(* reader of the default build never does.                                 *)
Respond ==
  /\ pc = "respond" /\ build = "mock"
  /\ glove' = glove + 1
  /\ ValidateResponse([credentialId |-> Glove, keyId |-> GloveKey,
                       counter |-> glove + 1, nonce |-> eng.pending], clock)
  /\ pc' = "second"
  /\ UNCHANGED <<build, clock, ptt, button, reader, bootFailed, lease>>

(* Mutant: a transport that does not answer is not reported.               *)
NoResponseIgnored ==
  /\ pc = "respond"
  /\ pc' = "second"
  /\ glove' \in IF build = "mock" THEN {glove, glove + 1} ELSE {glove}
  /\ UNCHANGED <<vars, build, clock, ptt, button, reader, bootFailed, lease>>

(* The transport fails, before or after the glove has used up a counter.   *)
NoResponse ==
  /\ pc = "respond"
  /\ ReportFault(clock)
  /\ pc' = "second"
  /\ glove' \in IF build = "mock" THEN {glove, glove + 1} ELSE {glove}
  /\ UNCHANGED <<build, clock, ptt, button, reader, bootFailed, lease>>

MoveButton ==
  /\ button' = ~button
  /\ UNCHANGED <<vars, build, pc, clock, ptt, reader, glove, bootFailed, lease>>

RuntimeNext ==
  \/ ReaderFails \/ Boot
  \/ \E d \in CommandTimes : FirstService(d)
  \/ NoCommand
  \/ \E d \in ResponseTimes : Challenge(d)
  \/ Remove \/ SerialFault \/ SerialRecover
  \/ Respond \/ NoResponse
  \/ SecondService \/ Delay
  \/ MoveButton

RuntimeSpec == RuntimeInit /\ [][RuntimeNext]_runtimeVars

-----------------------------------------------------------------------------
(* Properties.                                                             *)

(* Engine, controller and loop hold values of their types; the controller  *)
(* works on the low word of the clock.                                     *)
RuntimeTypeOK ==
  /\ TypeOK
  /\ build \in {"mock", "default"}
  /\ pc \in {"setup", "first", "command", "respond", "second", "delay"}
  /\ clock \in 0..Horizon /\ ptt \in Ptt
  /\ button \in BOOLEAN /\ reader \in BOOLEAN /\ bootFailed \in BOOLEAN
  /\ glove \in Nat /\ lease \in Time

(* The gate and the engine disagree only inside an iteration: a HIGH gate  *)
(* without a session in force exists only from a command that took the     *)
(* session away to the service that follows it.                            *)
GateWindow ==
  ptt.gate /\ pc \notin {"command", "respond", "second"} =>
    eng.lastDecision = "ALLOW_TX" /\ eng.sessionState = "ACTIVE"

(* The longest the loop may take from one service to the next.             *)
LongestGap ==
  LET longest(S) == CHOOSE d \in S : \A other \in S : other <= d
      command    == longest(CommandTimes) + longest(ResponseTimes)
  IN  IF command > LoopDelay THEN command ELSE LoopDelay

(* However long commands and answers take, the gate is HIGH past the       *)
(* deadline of the session that raised it for less than that gap.          *)
OverrunBounded == ptt.gate => clock < lease + LongestGap

(* A challenge is answered or given up within the iteration that issued    *)
(* it: none is pending when the loop services the controller.              *)
ChallengeSettled == pc # "respond" => ~eng.hasPending

(* Nothing ever raises the gate after setup() gave up, even if the engine  *)
(* is later recovered and authenticates a glove, nor in the default build, *)
(* where UID discovery cannot grant TX, not even with a provisioned store  *)
(* and trust anchor.                                                       *)
GateHeldLow == bootFailed \/ build = "default" => ~ptt.gate

=============================================================================
