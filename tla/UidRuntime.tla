----------------------------- MODULE UidRuntime -----------------------------
(***************************************************************************)
(* The UID proof of concept (main.cpp): one loop that polls the NFC        *)
(* reader, lets class NfcAuth keep the tag authorized for a grace period   *)
(* after its last good read, and drives the PTT controller.                *)
(*                                                                         *)
(* Time passes in the poll, up to its timeout, and in the delay that ends  *)
(* an iteration; the button and the tag may change between any two steps.  *)
(* A tag in the field may or may not be read.  millis() wraps; the ages    *)
(* below are true durations, kept only for the properties and not counted  *)
(* beyond AgeMax.  credentialObserved_, lastUid_ and                       *)
(* lastCredentialSeenAtMs_ decide nothing but which log lines are printed  *)
(* and are left out.                                                       *)
(***************************************************************************)
EXTENDS PttController

CONSTANTS
  Grace,      \* AUTH_GRACE_PERIOD_MS
  PollTime,   \* NFC_POLL_TIMEOUT_MS
  LoopDelay,  \* MAIN_LOOP_DELAY_MS
  Booting,    \* how long setup() may take
  AgeMax      \* ages are counted up to here

Tag == {"none", "authorized", "other"}

(* Between two reads of the clock an age must stay below the wrap.         *)
ASSUME UidConstants ==
  /\ Grace \in Nat \ {0} /\ PollTime \in Nat /\ LoopDelay \in Nat \ {0}
  /\ Booting \subseteq Nat
  /\ Grace + 2 * (PollTime + LoopDelay) < Width
  /\ Debounce + 2 * (PollTime + LoopDelay) < Width
  /\ AgeMax \in Nat
  /\ AgeMax >= Grace + 2 * (PollTime + LoopDelay)
  /\ AgeMax >= Debounce + 2 * (PollTime + LoopDelay)

NfcAuth == [operational : BOOLEAN, authorized : BOOLEAN,
            hasTimestamp : BOOLEAN, lastSeen : Millis]

VARIABLES
  pc,      \* the call loop() makes next
  millis,  \* the clock
  ptt,     \* the PttController
  nfc,     \* the NfcAuth
  button,  \* is the button held, as the pin shows it
  tag,     \* the tag in the field of the reader
  read,    \* what the last poll read
  age      \* true ages: of the last good read, of the released button, of
           \* the run of equal button samples

vars == <<pc, millis, ptt, nfc, button, tag, read, age>>

Ages == [seen : 0..AgeMax, released : 0..AgeMax, steady : 0..AgeMax]

Older(n, d) == IF n + d > AgeMax THEN AgeMax ELSE n + d

Aged(a, d) == [seen |-> Older(a.seen, d), released |-> Older(a.released, d),
               steady |-> Older(a.steady, d)]

(* Mutant: the clock does not wrap.                                        *)
LaterUnwrapped(d) == millis' = millis + d

Later(d) == millis' = (millis + d) % Width

Init == /\ pc = "setup"
        /\ millis \in Millis
        /\ button \in BOOLEAN /\ tag \in Tag
        /\ ptt = Begin(button, millis)
        /\ nfc = [operational |-> FALSE, authorized |-> FALSE,
                  hasTimestamp |-> FALSE, lastSeen |-> 0]
        /\ read = "none"
        /\ age = [seen |-> AgeMax, released |-> 0, steady |-> 0]

(* The rest of setup(), after ptt.begin(): the reader comes up or not.     *)
Setup(d) ==
  /\ pc = "setup"
  /\ \/ /\ nfc' = [nfc EXCEPT !.operational = TRUE]
        /\ ptt' = SetSystemReady(ptt)
        /\ pc' = "poll"
     \/ /\ ptt' = LatchPermanentFault(ptt)
        /\ pc' = "service"
        /\ UNCHANGED nfc
  /\ Later(d) /\ age' = Aged(age, d)
  /\ UNCHANGED <<button, tag, read>>

(* Mutant: the timestamp of the first good read is not marked as set.      *)
ObservedUnstamped(n, uid, now) ==
  IF uid = "authorized" THEN [n EXCEPT !.authorized = TRUE, !.lastSeen = now]
  ELSE IF \/ uid = "other"
          \/ /\ n.authorized /\ n.hasTimestamp
             /\ Elapsed(now, n.lastSeen) >= Grace
  THEN [n EXCEPT !.authorized = FALSE, !.hasTimestamp = FALSE]
  ELSE n

(* NfcAuth.update() once a poll that began at `now' has read uid.          *)
Observed(n, uid, now) ==
  IF uid = "authorized"
  THEN [n EXCEPT !.authorized = TRUE, !.hasTimestamp = TRUE, !.lastSeen = now]
  ELSE IF \/ uid = "other"
          \/ /\ n.authorized /\ n.hasTimestamp
             /\ Elapsed(now, n.lastSeen) >= Grace
  THEN [n EXCEPT !.authorized = FALSE, !.hasTimestamp = FALSE]
  ELSE n

(* Mutant: without a tag the rest of the iteration is skipped.             *)
PollSkippingService(d, uid) ==
  /\ pc = "poll"
  /\ nfc' = Observed(nfc, uid, millis)
  /\ read' = uid
  /\ Later(d)
  /\ age' = Aged([age EXCEPT !.seen = IF uid = "authorized" THEN 0 ELSE @], d)
  /\ pc' = IF uid = "none" THEN "delay" ELSE "service"
  /\ UNCHANGED <<ptt, button, tag>>

(* nfcAuth.update(millis()): the clock is read before the poll waits.      *)
Poll(d, uid) ==
  /\ pc = "poll"
  /\ nfc' = Observed(nfc, uid, millis)
  /\ read' = uid
  /\ Later(d)
  /\ age' = Aged([age EXCEPT !.seen = IF uid = "authorized" THEN 0 ELSE @], d)
  /\ pc' = "service"
  /\ UNCHANGED <<ptt, button, tag>>

(* pttController.update(isAuthorized(), millis())                          *)
ServicePtt ==
  /\ pc = "service"
  /\ ptt' = Update(ptt, nfc.operational /\ nfc.authorized, button, millis)
  /\ age' = [age EXCEPT !.steady = IF button = ptt.raw THEN @ ELSE 0]
  /\ pc' = "delay"
  /\ UNCHANGED <<millis, nfc, button, tag, read>>

Delay ==
  /\ pc = "delay"
  /\ Later(LoopDelay) /\ age' = Aged(age, LoopDelay)
  /\ pc' = IF nfc.operational THEN "poll" ELSE "service"
  /\ UNCHANGED <<ptt, nfc, button, tag, read>>

Loop == \/ \E d \in Booting : Setup(d)
        \/ \E d \in 0..PollTime, uid \in {"none", tag} : Poll(d, uid)
        \/ ServicePtt
        \/ Delay

(* The operator and the glove, at any moment.                              *)
MoveButton == /\ button' = ~button
              /\ age' = [age EXCEPT !.released = 0]
              /\ UNCHANGED <<pc, millis, ptt, nfc, tag, read>>

MoveTag == /\ tag' \in Tag \ {tag}
           /\ UNCHANGED <<pc, millis, ptt, nfc, button, read, age>>

Next == Loop \/ MoveButton \/ MoveTag

(* The loop runs; nobody is obliged to move.                               *)
Spec == Init /\ [][Next]_vars /\ WF_vars(Loop)

-----------------------------------------------------------------------------
(* Properties.                                                             *)

(* Every variable holds a value of its type; in particular the clock and   *)
(* the timestamps stay within uint32.                                      *)
TypeOK == /\ pc \in {"setup", "poll", "service", "delay"}
          /\ millis \in Millis
          /\ ptt \in Ptt /\ nfc \in NfcAuth
          /\ button \in BOOLEAN /\ tag \in Tag /\ read \in Tag
          /\ age \in Ages

(* The gate is never HIGH longer after the last good read of the           *)
(* authorized tag than the grace period and the two polls and the delay    *)
(* that may pass before the loop notices, across every wrap of millis().   *)
ExposureBounded == ptt.gate => age.seen < Grace + 2 * PollTime + LoopDelay

(* A released button brings the gate down within the debounce interval and *)
(* two iterations of the loop, whatever the reader does.                   *)
ReleaseBounded ==
  ptt.gate /\ ~button =>
    age.released < Debounce + 2 * (PollTime + LoopDelay)

(* A press or a release is believed only after samples have agreed for the *)
(* debounce interval in true time, not merely modulo the clock's width.    *)
BounceFiltered ==
  [][ptt'.stable # ptt.stable => age'.steady >= Debounce]_vars

(* The outputs agree: the allow LED and the controller's memory follow the *)
(* gate, the two LEDs are never lit together, and a reader that failed     *)
(* during setup leaves the gate LOW and the deny LED lit for good.         *)
OutputsAgree ==
  /\ ptt.gate = ptt.txEnabled /\ ptt.gate = ptt.ledAllow
  /\ ~(ptt.ledAllow /\ ptt.ledDeny)
  /\ ptt.permanentFault => ~ptt.gate /\ ptt.ledDeny
  /\ pc # "setup" => (ptt.permanentFault <=> ~nfc.operational)

(* An operator who keeps the button down near a working reader gets to     *)
(* transmit again and again as long as the tag is read again and again.    *)
HeldButtonServed ==
  <>[](button /\ nfc.operational) /\ []<>(read = "authorized")
    => []<>ptt.gate

(* Once the button stays up, or the authorized tag is read no more, the    *)
(* gate goes down and stays down.                                          *)
GateComesDown ==
  <>[](~button) \/ <>[](read # "authorized") => <>[](~ptt.gate)

=============================================================================
