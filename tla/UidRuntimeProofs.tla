-------------------------- MODULE UidRuntimeProofs --------------------------
(***************************************************************************)
(* The UID proof of concept, for every value of the time constants.        *)
(*                                                                         *)
(* All its timing is done modulo the width of millis().  What is proved is *)
(* that the loop reads the clock often enough for that: a difference of    *)
(* two clock values is the true age of a read or of a button sample as     *)
(* long as it matters.                                                     *)
(***************************************************************************)
EXTENDS UidRuntime, TLAPS

-----------------------------------------------------------------------------
(* Arithmetic of a clock that wraps.                                       *)

(* An elapsed time is the difference, corrected for one wrap.              *)
LEMMA ElapsedFacts ==
  ASSUME NEW m \in Millis, NEW t \in Millis
  PROVE  /\ Elapsed(m, t) \in Millis
         /\ Elapsed(m, t) = IF t <= m THEN m - t ELSE m - t + Width
BY PttConstants DEF Elapsed, Millis

(* A time is a number of whole turns and a clock value.                    *)
LEMMA Turns ==
  ASSUME NEW x \in Nat, NEW n, n = x % Width
  PROVE  n \in Millis /\ \E q \in Nat : x = q * Width + n
<1>1. x = (x \div Width) * Width + (x % Width) /\ x \div Width \in Nat
  BY PttConstants
<1>2. x % Width \in Millis
  BY PttConstants DEF Millis
<1>3. \E q \in Nat : x = q * Width + n
  <2> DEFINE k == x \div Width
  <2>1. k \in Nat /\ x = k * Width + n
    BY <1>1
  <2> HIDE DEF k
  <2> QED BY <2>1
<1> QED BY <1>2, <1>3

(* Time that passes is added to an elapsed time, unless the sum does not   *)
(* fit the clock; then whole turns are lost.                               *)
LEMMA TimePasses ==
  ASSUME NEW m \in Millis, NEW t \in Millis, NEW d \in Nat,
         NEW n, n = (m + d) % Width
  PROVE  /\ n \in Millis
         /\ Elapsed(n, t) <= Elapsed(m, t) + d
         /\ Elapsed(m, t) + d < Width => Elapsed(n, t) = Elapsed(m, t) + d
<1>1. m + d \in Nat
  BY PttConstants DEF Millis
<1> PICK q \in Nat : m + d = q * Width + n
  BY <1>1, Turns
<1>2. n \in Millis
  BY <1>1, Turns
<1> DEFINE turned == q * Width
<1>3. /\ m + d = turned + n /\ turned \in Nat
      /\ q = 0 => turned = 0
      /\ q = 1 => turned = Width
      /\ q > 1 => turned >= 2 * Width
  BY PttConstants DEF Millis
<1> HIDE DEF turned
<1>4. /\ Elapsed(m, t) = IF t <= m THEN m - t ELSE m - t + Width
      /\ Elapsed(n, t) = IF t <= n THEN n - t ELSE n - t + Width
  BY <1>2, ElapsedFacts
<1>5. Width \in Nat \ {0}
  BY PttConstants
<1> QED BY <1>2, <1>3, <1>4, <1>5 DEF Millis

(* An age counts up to AgeMax and stays there.                             *)
LEMMA OlderFacts ==
  ASSUME NEW n \in 0..AgeMax, NEW d \in Nat, NEW r, r = Older(n, d)
  PROVE  /\ r \in 0..AgeMax /\ n <= r /\ r <= n + d
         /\ n + d <= AgeMax => r = n + d
         /\ n + d > AgeMax => r = AgeMax
BY UidConstants DEF Older

LEMMA AgedFacts ==
  ASSUME NEW a \in Ages, NEW d \in Nat, NEW r, r = Aged(a, d)
  PROVE  /\ r \in Ages
         /\ r.seen = Older(a.seen, d) /\ r.released = Older(a.released, d)
         /\ r.steady = Older(a.steady, d)
<1>1. /\ Older(a.seen, d) \in 0..AgeMax /\ Older(a.released, d) \in 0..AgeMax
      /\ Older(a.steady, d) \in 0..AgeMax
  BY OlderFacts DEF Ages
<1> QED BY <1>1 DEF Aged, Ages

-----------------------------------------------------------------------------
(* The PTT controller.                                                     *)

(* A sample that moves restarts the debounce interval; the stable value    *)
(* follows one that has not moved for the interval.                        *)
LEMMA UpdateButtonFacts ==
  ASSUME NEW p \in Ptt, NEW pressed \in BOOLEAN, NEW now \in Millis,
         NEW r, r = UpdateButton(p, pressed, now)
  PROVE  /\ r \in Ptt /\ r.raw = pressed
         /\ r.changedAt = IF pressed = p.raw THEN p.changedAt ELSE now
         /\ r.stable = p.stable \/ Elapsed(now, r.changedAt) >= Debounce
         /\ r.raw = r.stable \/ Elapsed(now, r.changedAt) < Debounce
         /\ r.gate = p.gate /\ r.txEnabled = p.txEnabled
         /\ r.ledAllow = p.ledAllow /\ r.permanentFault = p.permanentFault
<1> DEFINE s == Sampled(p, pressed, now)
<1>1. /\ s \in Ptt /\ s.raw = pressed /\ s.stable = p.stable
      /\ s.changedAt = IF pressed = p.raw THEN p.changedAt ELSE now
      /\ s.gate = p.gate /\ s.txEnabled = p.txEnabled
      /\ s.ledAllow = p.ledAllow /\ s.permanentFault = p.permanentFault
  BY DEF Sampled, Ptt
<1>2. r = IF s.raw # s.stable /\ Elapsed(now, s.changedAt) >= Debounce
          THEN [s EXCEPT !.stable = s.raw] ELSE s
  BY DEF UpdateButton
<1> HIDE DEF s
<1>3. Elapsed(now, s.changedAt) \in Nat /\ Debounce \in Nat
  <2>1. s.changedAt \in Millis
    BY <1>1 DEF Ptt
  <2>2. Elapsed(now, s.changedAt) \in Millis
    BY <2>1, ElapsedFacts
  <2> QED BY <2>2, PttConstants DEF Millis
<1>4. CASE s.raw # s.stable /\ Elapsed(now, s.changedAt) >= Debounce
  <2>1. r = [s EXCEPT !.stable = s.raw]
    BY <1>2, <1>4
  <2>2. /\ r \in Ptt /\ r.stable = s.raw /\ r.raw = s.raw
        /\ r.changedAt = s.changedAt
        /\ r.gate = s.gate /\ r.txEnabled = s.txEnabled
        /\ r.ledAllow = s.ledAllow /\ r.permanentFault = s.permanentFault
    BY <1>1, <2>1 DEF Ptt
  <2> QED BY <1>1, <1>4, <2>2
<1>5. CASE ~(s.raw # s.stable /\ Elapsed(now, s.changedAt) >= Debounce)
  <2>1. r = s
    BY <1>2, <1>5
  <2>2. s.raw = s.stable \/ Elapsed(now, s.changedAt) < Debounce
    BY <1>3, <1>5
  <2> QED BY <1>1, <2>1, <2>2
<1> QED BY <1>4, <1>5

(* The outputs of a controller.                                            *)
Agree(p) ==
  /\ p.gate = p.txEnabled /\ p.gate = p.ledAllow
  /\ ~(p.ledAllow /\ p.ledDeny)
  /\ p.permanentFault => ~p.gate /\ p.ledDeny

(* They are set from one and the same decision.                            *)
LEMMA ApplyAuthorizationFacts ==
  ASSUME NEW p \in Ptt, p.gate = p.txEnabled, p.gate = p.ledAllow,
         NEW authenticated \in BOOLEAN,
         NEW r, r = ApplyAuthorization(p, authenticated)
  PROVE  /\ r \in Ptt /\ Agree(r)
         /\ r.gate => authenticated /\ r.stable
         /\ r.permanentFault = p.permanentFault
         /\ r.raw = p.raw /\ r.stable = p.stable /\ r.changedAt = p.changedAt
<1> DEFINE enable == /\ p.systemReady /\ ~p.permanentFault
                     /\ authenticated /\ p.stable
           lit == ~enable /\ (p.stable \/ p.permanentFault)
           s == SetTxEnabled(p, enable)
<1>1. /\ enable \in BOOLEAN /\ lit \in BOOLEAN
      /\ enable => authenticated /\ p.stable /\ ~p.permanentFault /\ ~lit
      /\ p.permanentFault => lit
  BY DEF Ptt
<1>2. r = [s EXCEPT !.ledDeny = lit]
  BY DEF ApplyAuthorization
<1> HIDE DEF enable, lit
<1>3. /\ s \in Ptt /\ s.gate = enable /\ s.txEnabled = enable
      /\ s.ledAllow = enable /\ s.permanentFault = p.permanentFault
      /\ s.raw = p.raw /\ s.stable = p.stable /\ s.changedAt = p.changedAt
  BY <1>1 DEF SetTxEnabled, Ptt
<1> HIDE DEF s
<1>4. /\ r \in Ptt /\ r.gate = enable /\ r.txEnabled = enable
      /\ r.ledAllow = enable /\ r.ledDeny = lit
      /\ r.permanentFault = p.permanentFault
      /\ r.raw = p.raw /\ r.stable = p.stable /\ r.changedAt = p.changedAt
  BY <1>1, <1>2, <1>3 DEF Ptt
<1> QED BY <1>1, <1>4 DEF Agree

-----------------------------------------------------------------------------
(* The inductive invariant.                                                *)

(* What the loop may spend between the service of the controller and the   *)
(* call it makes next.                                                     *)
Lag == IF pc = "poll" THEN LoopDelay
       ELSE IF pc = "service" THEN LoopDelay + PollTime ELSE 0

(* The reader is polled only if it came up; during setup() all is off.     *)
Started ==
  /\ pc = "poll" => nfc.operational
  /\ pc = "setup" => /\ ~ptt.gate /\ ~ptt.stable /\ ~ptt.permanentFault
                     /\ ~ptt.ledDeny /\ ~nfc.operational /\ ~nfc.authorized

(* A tag is authorized on a timestamp whose age modulo the clock's width   *)
(* is its true age.                                                        *)
Stamped ==
  nfc.authorized =>
    /\ nfc.operational /\ nfc.hasTimestamp
    /\ age.seen = Elapsed(millis, nfc.lastSeen)
    /\ age.seen < Grace + PollTime + IF pc = "poll" THEN LoopDelay ELSE 0

(* A HIGH gate is out of date only between a poll and the service after.   *)
Exposed ==
  ptt.gate =>
    /\ ptt.stable
    /\ IF pc = "service" THEN age.seen < Grace + 2 * PollTime + LoopDelay
                         ELSE nfc.authorized

(* A stable press that the samples contradict is younger than Debounce at  *)
(* every service, and the button was let go shortly before the samples     *)
(* showed it.                                                              *)
Contradicted ==
  ptt.stable /\ ~ptt.raw => Elapsed(millis, ptt.changedAt) < Debounce + Lag

LetGo ==
  ptt.stable /\ ~button =>
    age.released <= IF ptt.raw THEN Lag
                    ELSE Elapsed(millis, ptt.changedAt) + PollTime + LoopDelay

(* The samples have agreed for as long as the controller believes, or for  *)
(* the debounce interval.                                                  *)
Steady ==
  age.steady >= Debounce \/ Elapsed(millis, ptt.changedAt) <= age.steady

UidInv == /\ TypeOK /\ OutputsAgree /\ Started /\ Stamped /\ Exposed
          /\ Contradicted /\ LetGo /\ Steady

(* What a step does to the stable value of the button.                     *)
Filtered == ptt'.stable # ptt.stable => age'.steady >= Debounce

(* What the invariant says of the types of the parts.                      *)
LEMMA UidTypes ==
  ASSUME TypeOK
  PROVE  /\ millis \in Millis /\ ptt.changedAt \in Millis
         /\ nfc.lastSeen \in Millis
         /\ age.seen \in 0..AgeMax /\ age.released \in 0..AgeMax
         /\ age.steady \in 0..AgeMax
         /\ age.seen \in Nat /\ age.released \in Nat /\ age.steady \in Nat
         /\ Elapsed(millis, ptt.changedAt) \in Nat
         /\ Elapsed(millis, nfc.lastSeen) \in Nat
<1>1. /\ millis \in Millis /\ ptt.changedAt \in Millis /\ nfc.lastSeen \in Millis
      /\ age.seen \in 0..AgeMax /\ age.released \in 0..AgeMax
      /\ age.steady \in 0..AgeMax
  BY DEF TypeOK, Ptt, NfcAuth, Ages
<1>2. /\ Elapsed(millis, ptt.changedAt) \in Millis
      /\ Elapsed(millis, nfc.lastSeen) \in Millis
  BY <1>1, ElapsedFacts
<1> QED BY <1>1, <1>2, PttConstants, UidConstants DEF Millis

(* The time constants.                                                     *)
LEMMA UidNumbers ==
  /\ Grace \in Nat \ {0} /\ PollTime \in Nat /\ LoopDelay \in Nat
  /\ Debounce \in Nat /\ Width \in Nat /\ AgeMax \in Nat
  /\ Grace + 2 * PollTime + LoopDelay <= AgeMax
  /\ Grace + 2 * PollTime + LoopDelay < Width
  /\ Debounce + 2 * PollTime + 2 * LoopDelay <= AgeMax
  /\ Debounce + 2 * PollTime + 2 * LoopDelay < Width
BY PttConstants, UidConstants

(* d milliseconds later: the clock, the age of the last sample and read.   *)
LEMMA LaterFacts ==
  ASSUME TypeOK, NEW d \in Nat, Later(d), NEW t \in Millis
  PROVE  /\ millis' \in Millis
         /\ Elapsed(millis', t) \in Nat
         /\ Elapsed(millis', t) <= Elapsed(millis, t) + d
         /\ Elapsed(millis, t) + d < Width =>
              Elapsed(millis', t) = Elapsed(millis, t) + d
<1>1. millis \in Millis /\ millis' = (millis + d) % Width
  BY DEF TypeOK, Later
<1>2. /\ millis' \in Millis
      /\ Elapsed(millis', t) <= Elapsed(millis, t) + d
      /\ Elapsed(millis, t) + d < Width =>
           Elapsed(millis', t) = Elapsed(millis, t) + d
  BY <1>1, TimePasses
<1>3. Elapsed(millis', t) \in Millis
  BY <1>2, ElapsedFacts
<1> QED BY <1>2, <1>3, PttConstants DEF Millis

(* Time that passes without a sample keeps Steady.                         *)
LEMMA SteadyKept ==
  ASSUME TypeOK, Steady, NEW d \in Nat, Later(d),
         age'.steady = Older(age.steady, d), ptt'.changedAt = ptt.changedAt
  PROVE  Steady'
<1>1. /\ Elapsed(millis', ptt.changedAt) \in Nat
      /\ Elapsed(millis', ptt.changedAt) <= Elapsed(millis, ptt.changedAt) + d
  BY UidTypes, LaterFacts
<1>2. /\ age'.steady \in 0..AgeMax /\ age.steady <= age'.steady
      /\ age.steady + d <= AgeMax => age'.steady = age.steady + d
      /\ age.steady + d > AgeMax => age'.steady = AgeMax
  BY UidTypes, OlderFacts
<1> QED BY <1>1, <1>2, UidTypes, UidNumbers DEF Steady

-----------------------------------------------------------------------------
(* Every action keeps it.                                                  *)

(* setup() leaves the gate LOW, no press believed and no tag authorized,   *)
(* however long it takes.                                                  *)
LEMMA SetupKeeps ==
  ASSUME UidInv, NEW d \in Booting, Setup(d)
  PROVE  UidInv' /\ Filtered
<1>1. /\ TypeOK /\ OutputsAgree /\ Started /\ Steady /\ pc = "setup"
      /\ d \in Nat /\ Later(d) /\ age' = Aged(age, d)
      /\ button' = button /\ tag' = tag /\ read' = read
  BY UidConstants DEF UidInv, Setup
<1>2. /\ ~ptt.gate /\ ~ptt.stable /\ ~ptt.permanentFault /\ ~ptt.ledDeny
      /\ ~ptt.txEnabled /\ ~ptt.ledAllow
      /\ ~nfc.operational /\ ~nfc.authorized
      /\ ptt \in Ptt /\ nfc \in NfcAuth
  BY <1>1 DEF Started, OutputsAgree, TypeOK, Ptt
<1>3. /\ millis' \in Millis /\ age' \in Ages
      /\ age'.steady = Older(age.steady, d)
  <2>1. age \in Ages /\ millis \in Millis
    BY <1>1 DEF TypeOK
  <2>2. age' \in Ages /\ age'.steady = Older(age.steady, d)
    BY <1>1, <2>1, AgedFacts
  <2>3. millis' \in Millis
    BY <1>1, <2>1, LaterFacts
  <2> QED BY <2>2, <2>3
<1>4. /\ ptt' \in Ptt /\ nfc' \in NfcAuth /\ pc' \in {"poll", "service"}
      /\ ptt'.gate = FALSE /\ ptt'.txEnabled = FALSE /\ ptt'.ledAllow = FALSE
      /\ ptt'.stable = FALSE /\ ptt'.changedAt = ptt.changedAt
      /\ nfc'.authorized = FALSE
      /\ pc' = "poll" => nfc'.operational
      /\ ptt'.permanentFault => ptt'.ledDeny
      /\ ptt'.permanentFault = ~nfc'.operational
  <2>1. CASE /\ nfc' = [nfc EXCEPT !.operational = TRUE]
             /\ ptt' = SetSystemReady(ptt)
             /\ pc' = "poll"
    <3>1. /\ nfc' \in NfcAuth /\ nfc'.operational = TRUE
          /\ nfc'.authorized = FALSE
      BY <1>2, <2>1 DEF NfcAuth
    <3>2. /\ ptt' \in Ptt
          /\ ptt'.gate = FALSE /\ ptt'.txEnabled = FALSE
          /\ ptt'.ledAllow = FALSE /\ ptt'.stable = FALSE
          /\ ptt'.changedAt = ptt.changedAt /\ ptt'.permanentFault = FALSE
      BY <1>2, <2>1 DEF SetSystemReady, Ptt
    <3> QED BY <2>1, <3>1, <3>2
  <2>2. CASE /\ ptt' = LatchPermanentFault(ptt)
             /\ pc' = "service"
             /\ UNCHANGED nfc
    <3>1. /\ ptt' \in Ptt
          /\ ptt'.gate = FALSE /\ ptt'.txEnabled = FALSE
          /\ ptt'.ledAllow = FALSE /\ ptt'.stable = FALSE
          /\ ptt'.changedAt = ptt.changedAt /\ ptt'.permanentFault = TRUE
          /\ ptt'.ledDeny = TRUE
      BY <1>2, <2>2 DEF LatchPermanentFault, Ptt
    <3>2. nfc'.operational = FALSE /\ nfc'.authorized = FALSE
      BY <1>2, <2>2 DEF NfcAuth
    <3> QED BY <1>2, <2>2, <3>1, <3>2
  <2> QED BY <2>1, <2>2 DEF Setup
<1>5. TypeOK'
  BY <1>1, <1>3, <1>4 DEF TypeOK
<1>6. OutputsAgree' /\ Started'
  BY <1>4 DEF OutputsAgree, Started
<1>7. Stamped' /\ Exposed' /\ Contradicted' /\ LetGo'
  BY <1>4 DEF Stamped, Exposed, Contradicted, LetGo
<1>8. Steady'
  BY <1>1, <1>3, <1>4, SteadyKept
<1>9. Filtered
  BY <1>2, <1>4 DEF Filtered, Ptt
<1> QED BY <1>5, <1>6, <1>7, <1>8, <1>9 DEF UidInv

(* After a poll the tag is authorized because it has just been read, or    *)
(* because nothing has changed and the grace period is not over.           *)
LEMMA ObservedFacts ==
  ASSUME NEW n \in NfcAuth, NEW uid \in Tag, NEW now \in Millis,
         n.authorized => n.hasTimestamp,
         NEW r, r = Observed(n, uid, now)
  PROVE  /\ r \in NfcAuth /\ r.operational = n.operational
         /\ \/ ~r.authorized
            \/ uid = "authorized" /\ r.hasTimestamp /\ r.lastSeen = now
            \/ /\ uid # "authorized" /\ r = n /\ n.authorized
               /\ Elapsed(now, n.lastSeen) < Grace
<1>1. CASE uid = "authorized"
  BY <1>1 DEF Observed, NfcAuth
<1> DEFINE over == Elapsed(now, n.lastSeen) >= Grace
           lost == \/ uid = "other"
                   \/ n.authorized /\ n.hasTimestamp /\ over
<1>2. CASE uid # "authorized" /\ lost
  <2>1. r = [n EXCEPT !.authorized = FALSE, !.hasTimestamp = FALSE]
    BY <1>2 DEF Observed
  <2> QED BY <2>1 DEF NfcAuth
<1>3. CASE uid # "authorized" /\ ~lost
  <2>1. r = n
    BY <1>3 DEF Observed
  <2>2. CASE n.authorized
    <3>1. Elapsed(now, n.lastSeen) \in Nat
      BY ElapsedFacts, PttConstants DEF NfcAuth, Millis
    <3>2. ~over
      BY <1>3, <2>2
    <3>3. Elapsed(now, n.lastSeen) < Grace
      BY <3>1, <3>2, UidNumbers
    <3> QED BY <1>3, <2>1, <2>2, <3>3
  <2> QED BY <2>1, <2>2
<1> QED BY <1>1, <1>2, <1>3

LEMMA PollKeeps ==
  ASSUME UidInv, NEW d \in 0..PollTime, NEW uid \in Tag, Poll(d, uid)
  PROVE  UidInv' /\ Filtered
<1>1. /\ TypeOK /\ OutputsAgree /\ Started /\ Stamped /\ Exposed
      /\ Contradicted /\ LetGo /\ Steady /\ pc = "poll" /\ pc' = "service"
      /\ d \in Nat /\ d <= PollTime /\ Later(d)
      /\ nfc' = Observed(nfc, uid, millis) /\ read' = uid
      /\ ptt' = ptt /\ button' = button /\ tag' = tag
  BY UidNumbers DEF UidInv, Poll
<1> DEFINE since == IF uid = "authorized" THEN 0 ELSE age.seen
           a == [age EXCEPT !.seen = since]
<1>2. /\ a \in Ages /\ a.seen = since /\ a.released = age.released
      /\ a.steady = age.steady /\ since \in 0..AgeMax
      /\ uid = "authorized" => since = 0
      /\ uid # "authorized" => since = age.seen
  BY <1>1, UidTypes, UidNumbers DEF TypeOK, Ages
<1>3. age' = Aged(a, d)
  BY DEF Poll
<1> HIDE DEF since, a
<1>4. /\ age' \in Ages
      /\ age'.seen = Older(since, d) /\ age'.released = Older(age.released, d)
      /\ age'.steady = Older(age.steady, d)
  BY <1>1, <1>2, <1>3, AgedFacts
<1>5. /\ age'.seen \in Nat /\ age'.seen <= since + d
      /\ since + d <= AgeMax => age'.seen = since + d
      /\ age'.released \in Nat /\ age'.released <= age.released + d
  <2>1. /\ age'.seen \in 0..AgeMax /\ age'.seen <= since + d
        /\ since + d <= AgeMax => age'.seen = since + d
    BY <1>1, <1>2, <1>4, OlderFacts
  <2>2. age'.released \in 0..AgeMax /\ age'.released <= age.released + d
    BY <1>1, <1>4, UidTypes, OlderFacts
  <2> QED BY <2>1, <2>2, UidNumbers
<1>6. /\ nfc' \in NfcAuth /\ nfc'.operational = nfc.operational
      /\ \/ ~nfc'.authorized
         \/ uid = "authorized" /\ nfc'.hasTimestamp /\ nfc'.lastSeen = millis
         \/ /\ uid # "authorized" /\ nfc' = nfc /\ nfc.authorized
            /\ Elapsed(millis, nfc.lastSeen) < Grace
  BY <1>1, ObservedFacts DEF TypeOK, Stamped
<1>7. nfc.operational
  BY <1>1 DEF Started
<1>8. TypeOK'
  BY <1>1, <1>4, <1>6, UidTypes, LaterFacts DEF TypeOK
<1>9. OutputsAgree' /\ Started'
  BY <1>1, <1>6, <1>7 DEF OutputsAgree, Started
<1>10. Stamped'
  <2>1. CASE ~nfc'.authorized
    BY <2>1 DEF Stamped
  <2>2. CASE uid = "authorized" /\ nfc'.hasTimestamp /\ nfc'.lastSeen = millis
    <3>1. Elapsed(millis, millis) = 0
      BY <1>1, UidTypes, ElapsedFacts DEF Millis
    <3>2. Elapsed(millis', nfc'.lastSeen) = d
      BY <1>1, <2>2, <3>1, UidTypes, LaterFacts, UidNumbers
    <3>3. since = 0
      BY <1>2, <2>2
    <3>4. age'.seen = d /\ d < Grace + PollTime
      BY <1>1, <1>5, <3>3, UidNumbers
    <3> QED BY <1>1, <1>6, <1>7, <2>2, <3>2, <3>4, UidNumbers DEF Stamped
  <2>3. CASE /\ uid # "authorized" /\ nfc' = nfc /\ nfc.authorized
             /\ Elapsed(millis, nfc.lastSeen) < Grace
    <3>1. /\ since = Elapsed(millis, nfc.lastSeen) /\ since < Grace
          /\ nfc.hasTimestamp
      BY <1>1, <1>2, <2>3 DEF Stamped
    <3>2. Elapsed(millis', nfc.lastSeen) = since + d
      BY <1>1, <1>2, <3>1, UidTypes, LaterFacts, UidNumbers
    <3>3. age'.seen = since + d /\ age'.seen < Grace + PollTime
      BY <1>1, <1>2, <1>5, <3>1, UidNumbers
    <3> QED BY <1>1, <1>7, <2>3, <3>1, <3>2, <3>3, UidNumbers DEF Stamped
  <2> QED BY <1>6, <2>1, <2>2, <2>3
<1>11. Exposed'
  <2> SUFFICES ASSUME ptt'.gate PROVE Exposed'
    BY DEF Exposed
  <2>1. ptt.stable /\ nfc.authorized
    BY <1>1 DEF Exposed
  <2>2. age.seen < Grace + PollTime + LoopDelay
    BY <1>1, <2>1 DEF Stamped
  <2>3. age'.seen < Grace + 2 * PollTime + LoopDelay
    BY <1>1, <1>2, <1>5, <2>2, UidTypes, UidNumbers
  <2> QED BY <1>1, <2>1, <2>3 DEF Exposed
<1>12. Contradicted' /\ LetGo'
  <2>1. Lag = LoopDelay /\ Lag' = LoopDelay + PollTime
    BY <1>1 DEF Lag
  <2>2. /\ Elapsed(millis', ptt.changedAt) \in Nat
        /\ Elapsed(millis', ptt.changedAt) <= Elapsed(millis, ptt.changedAt) + d
        /\ Elapsed(millis, ptt.changedAt) + d < Width =>
             Elapsed(millis', ptt.changedAt) = Elapsed(millis, ptt.changedAt) + d
    BY <1>1, UidTypes, LaterFacts
  <2>3. Contradicted'
    BY <1>1, <2>1, <2>2, UidTypes, UidNumbers DEF Contradicted
  <2>4. LetGo'
    <3> SUFFICES ASSUME ptt.stable, ~button PROVE LetGo'
      BY <1>1 DEF LetGo
    <3>1. CASE ptt.raw
      BY <1>1, <1>5, <2>1, <3>1, UidTypes, UidNumbers DEF LetGo
    <3>2. CASE ~ptt.raw
      <4>1. Elapsed(millis, ptt.changedAt) < Debounce + LoopDelay
        BY <1>1, <2>1, <3>2 DEF Contradicted
      <4>2. age.released <= Elapsed(millis, ptt.changedAt) + PollTime + LoopDelay
        BY <1>1, <3>2 DEF LetGo
      <4>3. age'.released <= Elapsed(millis', ptt.changedAt) + PollTime + LoopDelay
        BY <1>1, <1>5, <2>2, <4>1, <4>2, UidTypes, UidNumbers
      <4> QED BY <1>1, <3>2, <4>3 DEF LetGo
    <3> QED BY <3>1, <3>2
  <2> QED BY <2>3, <2>4
<1>13. Steady'
  BY <1>1, <1>4, SteadyKept
<1>14. Filtered
  BY <1>1 DEF Filtered
<1> QED BY <1>8, <1>9, <1>10, <1>11, <1>12, <1>13, <1>14 DEF UidInv

(* The controller is served with the clock and the button of one instant.  *)
LEMMA ServicePttKeeps ==
  ASSUME UidInv, ServicePtt
  PROVE  UidInv' /\ Filtered
<1>1. /\ TypeOK /\ OutputsAgree /\ Started /\ Stamped /\ Exposed
      /\ Contradicted /\ LetGo /\ Steady /\ pc = "service" /\ pc' = "delay"
      /\ age' = [age EXCEPT !.steady = IF button = ptt.raw THEN @ ELSE 0]
      /\ millis' = millis /\ nfc' = nfc /\ button' = button /\ tag' = tag
      /\ read' = read
  BY DEF UidInv, ServicePtt
<1> DEFINE p == UpdateButton(ptt, button, millis)
           authenticated == nfc.operational /\ nfc.authorized
           idle == Elapsed(millis, ptt.changedAt)
           sampled == Elapsed(millis, ptt'.changedAt)
<1>2. /\ ptt \in Ptt /\ nfc \in NfcAuth /\ button \in BOOLEAN
      /\ millis \in Millis /\ authenticated \in BOOLEAN
  BY <1>1 DEF TypeOK, NfcAuth
<1>3. /\ p \in Ptt /\ p.raw = button
      /\ p.changedAt = IF button = ptt.raw THEN ptt.changedAt ELSE millis
      /\ p.stable = ptt.stable \/ Elapsed(millis, p.changedAt) >= Debounce
      /\ p.raw = p.stable \/ Elapsed(millis, p.changedAt) < Debounce
      /\ p.gate = ptt.gate /\ p.txEnabled = ptt.txEnabled
      /\ p.ledAllow = ptt.ledAllow /\ p.permanentFault = ptt.permanentFault
  BY <1>2, UpdateButtonFacts
<1>4. ptt' = ApplyAuthorization(p, authenticated)
  BY DEF ServicePtt, Update
<1> HIDE DEF p, authenticated
<1>5. p.gate = p.txEnabled /\ p.gate = p.ledAllow
  BY <1>1, <1>3 DEF OutputsAgree
<1>6. /\ ptt' \in Ptt /\ Agree(ptt')
      /\ ptt'.gate => authenticated /\ ptt'.stable
      /\ ptt'.permanentFault = ptt.permanentFault
      /\ ptt'.raw = button /\ ptt'.stable = p.stable
      /\ ptt'.changedAt = p.changedAt
  BY <1>2, <1>3, <1>4, <1>5, ApplyAuthorizationFacts
<1>7. /\ age' \in Ages /\ age'.seen = age.seen /\ age'.released = age.released
      /\ button = ptt.raw => age'.steady = age.steady
      /\ button # ptt.raw => age'.steady = 0
  BY <1>1, UidNumbers DEF TypeOK, Ages
<1>8. /\ idle \in Nat /\ Debounce \in Nat
      /\ button = ptt.raw => sampled = idle
      /\ button # ptt.raw => sampled = 0
  <2>1. Elapsed(millis, millis) = 0
    BY <1>2, ElapsedFacts DEF Millis
  <2> QED BY <1>1, <1>3, <1>6, <2>1, UidTypes, UidNumbers
<1>9. /\ ptt'.stable = ptt.stable \/ sampled >= Debounce
      /\ ptt'.raw = ptt'.stable \/ sampled < Debounce
  BY <1>3, <1>6
<1> HIDE DEF idle, sampled
<1>10. /\ sampled \in Nat
       /\ age'.steady \in Nat
       /\ age'.steady >= Debounce \/ sampled <= age'.steady
  BY <1>1, <1>7, <1>8, UidTypes DEF Steady, idle
<1>11. TypeOK'
  BY <1>1, <1>6, <1>7 DEF TypeOK
<1>12. OutputsAgree' /\ Started'
  BY <1>1, <1>6 DEF OutputsAgree, Started, Agree
<1>13. Stamped'
  BY <1>1, <1>7, UidTypes, UidNumbers DEF Stamped
<1>14. Exposed'
  BY <1>1, <1>6 DEF Exposed, authenticated
<1>15. Contradicted'
  <2> SUFFICES ASSUME ptt'.stable, ~ptt'.raw
               PROVE  Elapsed(millis', ptt'.changedAt) < Debounce + Lag'
    BY DEF Contradicted
  <2>1. sampled < Debounce
    BY <1>9
  <2>2. Lag' = 0
    BY <1>1 DEF Lag
  <2> QED BY <1>1, <1>8, <1>10, <2>1, <2>2 DEF sampled
<1>16. LetGo'
  <2> SUFFICES ASSUME ptt'.stable, ~button
               PROVE  age.released <= sampled + PollTime + LoopDelay
    BY <1>1, <1>6, <1>7 DEF LetGo, sampled
  <2>1. ptt'.raw # ptt'.stable
    BY <1>6
  <2>2. sampled < Debounce
    BY <1>9, <2>1
  <2>3. ~(sampled >= Debounce)
    BY <1>8, <1>10, <2>2
  <2>4. ptt.stable
    BY <1>9, <2>3
  <2>5. CASE ptt.raw
    <3>1. age.released <= LoopDelay + PollTime
      BY <1>1, <2>4, <2>5 DEF LetGo, Lag
    <3> QED BY <1>1, <1>10, <3>1, UidTypes, UidNumbers
  <2>6. CASE ~ptt.raw
    <3>1. age.released <= idle + PollTime + LoopDelay
      BY <1>1, <2>4, <2>6 DEF LetGo, idle
    <3>2. button = ptt.raw
      BY <1>2, <2>6 DEF Ptt
    <3> QED BY <1>8, <3>1, <3>2
  <2> QED BY <2>5, <2>6
<1>17. Steady'
  BY <1>1, <1>10 DEF Steady, sampled
<1>18. Filtered
  BY <1>8, <1>9, <1>10 DEF Filtered
<1> QED BY <1>11, <1>12, <1>13, <1>14, <1>15, <1>16, <1>17, <1>18 DEF UidInv

(* A reader that did not come up has latched the fault: it is not polled,  *)
(* and the gate is LOW.                                                    *)
LEMMA DelayKeeps ==
  ASSUME UidInv, Delay
  PROVE  UidInv' /\ Filtered
<1>1. /\ TypeOK /\ OutputsAgree /\ Started /\ Stamped /\ Exposed
      /\ Contradicted /\ LetGo /\ Steady /\ pc = "delay"
      /\ Later(LoopDelay) /\ age' = Aged(age, LoopDelay)
      /\ pc' = IF nfc.operational THEN "poll" ELSE "service"
      /\ ptt' = ptt /\ nfc' = nfc /\ button' = button /\ tag' = tag
      /\ read' = read
  BY DEF UidInv, Delay
<1>2. LoopDelay \in Nat
  BY UidNumbers
<1>3. /\ age' \in Ages /\ age'.seen = Older(age.seen, LoopDelay)
      /\ age'.released = Older(age.released, LoopDelay)
      /\ age'.steady = Older(age.steady, LoopDelay)
  BY <1>1, <1>2, AgedFacts DEF TypeOK
<1>4. /\ age'.released \in Nat /\ age'.released <= age.released + LoopDelay
      /\ age'.seen \in Nat
      /\ age.seen + LoopDelay <= AgeMax => age'.seen = age.seen + LoopDelay
  <2>1. /\ age'.seen \in 0..AgeMax
        /\ age.seen + LoopDelay <= AgeMax => age'.seen = age.seen + LoopDelay
    BY <1>1, <1>2, <1>3, UidTypes, OlderFacts
  <2>2. /\ age'.released \in 0..AgeMax
        /\ age'.released <= age.released + LoopDelay
    BY <1>1, <1>2, <1>3, UidTypes, OlderFacts
  <2> QED BY <2>1, <2>2, UidNumbers
<1>5. Lag = 0 /\ (Lag' = LoopDelay \/ Lag' = LoopDelay + PollTime)
  BY <1>1 DEF Lag
<1>6. TypeOK'
  BY <1>1, <1>2, <1>3, UidTypes, LaterFacts DEF TypeOK
<1>7. OutputsAgree' /\ Started'
  BY <1>1 DEF OutputsAgree, Started
<1>8. Stamped'
  <2> SUFFICES ASSUME nfc.authorized PROVE Stamped'
    BY <1>1 DEF Stamped
  <2>1. /\ nfc.operational /\ nfc.hasTimestamp
        /\ age.seen = Elapsed(millis, nfc.lastSeen)
        /\ age.seen < Grace + PollTime
    BY <1>1, UidTypes, UidNumbers DEF Stamped
  <2>2. Elapsed(millis', nfc.lastSeen) = age.seen + LoopDelay
    BY <1>1, <1>2, <2>1, UidTypes, LaterFacts, UidNumbers
  <2>3. /\ age'.seen = age.seen + LoopDelay
        /\ age'.seen < Grace + PollTime + LoopDelay
    BY <1>1, <1>4, <2>1, UidTypes, UidNumbers
  <2> QED BY <1>1, <2>1, <2>2, <2>3 DEF Stamped
<1>9. Exposed'
  <2> SUFFICES ASSUME ptt.gate PROVE Exposed'
    BY <1>1 DEF Exposed
  <2>1. ptt.stable /\ nfc.authorized
    BY <1>1 DEF Exposed
  <2>2. nfc.operational
    BY <1>1, <2>1 DEF Stamped
  <2> QED BY <1>1, <2>1, <2>2 DEF Exposed
<1>10. /\ Elapsed(millis', ptt.changedAt) \in Nat
       /\ Elapsed(millis', ptt.changedAt)
            <= Elapsed(millis, ptt.changedAt) + LoopDelay
       /\ Elapsed(millis, ptt.changedAt) + LoopDelay < Width =>
            Elapsed(millis', ptt.changedAt)
              = Elapsed(millis, ptt.changedAt) + LoopDelay
  BY <1>1, <1>2, UidTypes, LaterFacts
<1>11. Contradicted'
  BY <1>1, <1>5, <1>10, UidTypes, UidNumbers DEF Contradicted
<1>12. LetGo'
  <2> SUFFICES ASSUME ptt.stable, ~button PROVE LetGo'
    BY <1>1 DEF LetGo
  <2>1. CASE ptt.raw
    <3>1. age.released <= 0
      BY <1>1, <1>5, <2>1 DEF LetGo
    <3>2. age'.released <= Lag'
      BY <1>1, <1>4, <1>5, <3>1, UidTypes, UidNumbers
    <3> QED BY <1>1, <2>1, <3>2 DEF LetGo
  <2>2. CASE ~ptt.raw
    <3>1. Elapsed(millis, ptt.changedAt) < Debounce + 0
      BY <1>1, <1>5, <2>2 DEF Contradicted
    <3>2. age.released <= Elapsed(millis, ptt.changedAt) + PollTime + LoopDelay
      BY <1>1, <2>2 DEF LetGo
    <3>3. age'.released <= Elapsed(millis', ptt.changedAt) + PollTime + LoopDelay
      BY <1>1, <1>4, <1>10, <3>1, <3>2, UidTypes, UidNumbers
    <3> QED BY <1>1, <2>2, <3>3 DEF LetGo
  <2> QED BY <2>1, <2>2
<1>13. Steady'
  BY <1>1, <1>2, <1>3, SteadyKept
<1>14. Filtered
  BY <1>1 DEF Filtered
<1> QED BY <1>6, <1>7, <1>8, <1>9, <1>11, <1>12, <1>13, <1>14 DEF UidInv

(* The operator's and the glove's moves change neither the loop's state    *)
(* nor the clock.                                                          *)
LEMMA MoveKeeps ==
  ASSUME UidInv, MoveButton \/ MoveTag
  PROVE  UidInv' /\ Filtered
<1>1. /\ TypeOK /\ OutputsAgree /\ Started /\ Stamped /\ Exposed
      /\ Contradicted /\ LetGo /\ Steady
      /\ pc' = pc /\ millis' = millis /\ ptt' = ptt /\ nfc' = nfc /\ read' = read
  BY DEF UidInv, MoveButton, MoveTag
<1>2. /\ TypeOK' /\ LetGo'
      /\ age'.seen = age.seen /\ age'.steady = age.steady
  <2>1. CASE MoveButton
    <3>1. /\ age' \in Ages /\ age'.seen = age.seen
          /\ age'.steady = age.steady /\ age'.released = 0
      BY <1>1, <2>1, UidNumbers DEF MoveButton, TypeOK, Ages
    <3>2. Lag' \in Nat
      BY <1>1, UidNumbers DEF Lag
    <3>3. TypeOK'
      BY <1>1, <2>1, <3>1 DEF MoveButton, TypeOK
    <3>4. LetGo'
      BY <1>1, <3>1, <3>2, UidTypes, UidNumbers DEF LetGo
    <3> QED BY <3>1, <3>3, <3>4
  <2>2. CASE MoveTag
    BY <1>1, <2>2 DEF MoveTag, TypeOK, LetGo, Lag
  <2> QED BY <2>1, <2>2
<1>3. OutputsAgree' /\ Started'
  BY <1>1 DEF OutputsAgree, Started
<1>4. Stamped' /\ Exposed'
  BY <1>1, <1>2 DEF Stamped, Exposed
<1>5. Contradicted' /\ Steady'
  BY <1>1, <1>2 DEF Contradicted, Steady, Lag
<1>6. Filtered
  BY <1>1 DEF Filtered
<1> QED BY <1>1, <1>2, <1>3, <1>4, <1>5, <1>6 DEF UidInv

-----------------------------------------------------------------------------
(* The theorems.                                                           *)

LEMMA UidInit == Init => UidInv
<1> SUFFICES ASSUME Init PROVE UidInv
  OBVIOUS
<1>1. /\ pc = "setup" /\ millis \in Millis /\ button \in BOOLEAN /\ tag \in Tag
      /\ read = "none"
      /\ ptt \in Ptt /\ ~ptt.gate /\ ~ptt.stable /\ ~ptt.permanentFault
      /\ ~ptt.ledDeny /\ ~ptt.txEnabled /\ ~ptt.ledAllow
      /\ ptt.changedAt = millis
      /\ nfc \in NfcAuth /\ ~nfc.operational /\ ~nfc.authorized
      /\ age \in Ages /\ age.steady = 0
  BY PttConstants, UidNumbers DEF Init, Begin, Ptt, NfcAuth, Millis, Ages, Tag
<1>2. TypeOK
  BY <1>1 DEF TypeOK, Tag
<1>3. OutputsAgree /\ Started
  BY <1>1 DEF Init, Begin, OutputsAgree, Started
<1>4. Stamped /\ Exposed /\ Contradicted /\ LetGo
  BY <1>1 DEF Stamped, Exposed, Contradicted, LetGo
<1>5. Steady
  <2>1. Elapsed(millis, millis) = 0
    BY <1>1, ElapsedFacts DEF Millis
  <2> QED BY <1>1, <2>1 DEF Steady
<1> QED BY <1>2, <1>3, <1>4, <1>5 DEF UidInv

LEMMA UidNext == UidInv /\ [Next]_vars => UidInv' /\ (Filtered \/ UNCHANGED vars)
<1> SUFFICES ASSUME UidInv, [Next]_vars
             PROVE  UidInv' /\ (Filtered \/ UNCHANGED vars)
  OBVIOUS
<1>1. CASE \E d \in Booting : Setup(d)
  BY <1>1, SetupKeeps
<1>2. CASE \E d \in 0..PollTime, uid \in {"none", tag} : Poll(d, uid)
  <2>1. tag \in Tag
    BY DEF UidInv, TypeOK
  <2> PICK d \in 0..PollTime, uid \in Tag : Poll(d, uid)
    BY <1>2, <2>1 DEF Tag
  <2> QED BY PollKeeps
<1>3. CASE ServicePtt
  BY <1>3, ServicePttKeeps
<1>4. CASE Delay
  BY <1>4, DelayKeeps
<1>5. CASE MoveButton \/ MoveTag
  BY <1>5, MoveKeeps
<1>6. CASE UNCHANGED vars
  BY <1>6 DEF vars, UidInv, TypeOK, OutputsAgree, Started, Stamped, Exposed,
              Contradicted, LetGo, Steady, Lag
<1> QED BY <1>1, <1>2, <1>3, <1>4, <1>5, <1>6 DEF Next, Loop

(* The inductive invariant of the proof of concept: what the loop, the     *)
(* reader and the controller say of each other at every call, with the     *)
(* time that has really passed.                                            *)
THEOREM UidInvariant == Spec => []UidInv
<1>1. Init => UidInv
  BY UidInit
<1>2. UidInv /\ [Next]_vars => UidInv'
  BY UidNext
<1> QED BY <1>1, <1>2, PTL DEF Spec

(* The clock, the timestamps and the controller keep their types: nothing  *)
(* leaves uint32.                                                          *)
THEOREM UidTyped == Spec => []TypeOK
<1>1. UidInv => TypeOK
  BY DEF UidInv
<1> QED BY <1>1, UidInvariant, PTL

(* The allow LED, the gate and the controller's memory of it never part,   *)
(* and a failed reader leaves the gate LOW for good.                       *)
THEOREM OutputsAlwaysAgree == Spec => []OutputsAgree
<1>1. UidInv => OutputsAgree
  BY DEF UidInv
<1> QED BY <1>1, UidInvariant, PTL

(* The gate is HIGH for less than the grace period, two polls and a delay  *)
(* after the last good read, in true time, at every value of the clock.    *)
THEOREM ExposureIsBounded == Spec => []ExposureBounded
<1>1. UidInv => ExposureBounded
  <2> SUFFICES ASSUME UidInv, ptt.gate
               PROVE  age.seen < Grace + 2 * PollTime + LoopDelay
    BY DEF ExposureBounded
  <2>1. TypeOK /\ Stamped /\ Exposed
    BY DEF UidInv
  <2>2. CASE pc = "service"
    BY <2>1, <2>2 DEF Exposed
  <2>3. CASE pc # "service"
    <3>1. nfc.authorized
      BY <2>1, <2>3 DEF Exposed
    <3> QED BY <2>1, <3>1, UidTypes, UidNumbers DEF Stamped
  <2> QED BY <2>2, <2>3
<1> QED BY <1>1, UidInvariant, PTL

(* After a release the gate is HIGH for less than the debounce interval    *)
(* and two iterations of the loop.                                         *)
THEOREM ReleaseIsBounded == Spec => []ReleaseBounded
<1>1. UidInv => ReleaseBounded
  <2> SUFFICES ASSUME UidInv, ptt.gate, ~button
               PROVE  age.released < Debounce + 2 * (PollTime + LoopDelay)
    BY DEF ReleaseBounded
  <2>1. TypeOK /\ Exposed /\ Contradicted /\ LetGo
    BY DEF UidInv
  <2>2. ptt.stable
    BY <2>1 DEF Exposed
  <2>3. Lag \in Nat /\ Lag <= LoopDelay + PollTime
    BY UidNumbers DEF Lag
  <2>4. CASE ptt.raw
    <3>1. age.released <= Lag
      BY <2>1, <2>2, <2>4 DEF LetGo
    <3>2. LoopDelay > 0
      BY UidConstants
    <3> QED BY <2>1, <2>3, <3>1, <3>2, UidTypes, UidNumbers
  <2>5. CASE ~ptt.raw
    <3>1. /\ Elapsed(millis, ptt.changedAt) < Debounce + Lag
          /\ age.released
               <= Elapsed(millis, ptt.changedAt) + PollTime + LoopDelay
      BY <2>1, <2>2, <2>5 DEF Contradicted, LetGo
    <3> QED BY <2>1, <2>3, <3>1, UidTypes, UidNumbers
  <2> QED BY <2>4, <2>5
<1> QED BY <1>1, UidInvariant, PTL

(* A press or a release is believed only after samples that agreed for the *)
(* debounce interval in true time.                                         *)
THEOREM BouncesAreFiltered == Spec => BounceFiltered
<1>1. UidInv /\ [Next]_vars =>
        [ptt'.stable # ptt.stable => age'.steady >= Debounce]_vars
  BY UidNext DEF Filtered
<1> QED BY <1>1, UidInvariant, PTL DEF Spec, BounceFiltered

=============================================================================
