------------------------ MODULE HermesProtocolProofs ------------------------
(***************************************************************************)
(* The protocol of PTT and glove, for every value of the constants: how    *)
(* many challenges, counters and disturbances there are, and how the steps *)
(* of the two sides, of power and of time interleave.                      *)
(*                                                                         *)
(* The PTT's own invariant is that of HermesEngine, and is kept here by    *)
(* the same lemmas, method by method.  What is added says that every       *)
(* answer at large was made by this glove, over what it says it is over,   *)
(* with a counter the glove has behind it.                                 *)
(***************************************************************************)
EXTENDS HermesProtocol, HermesEngineRefinement

Challenges == [device : Device, nonce : Nat]

(* An answer as the glove makes it.                                        *)
Genuine(a) ==
  /\ a.challenge \in Challenges /\ a.counter \in Nat
  /\ a.era \in Nat /\ a.era <= era
  /\ a.mac = Hmac(GloveKey, Transcript(a.challenge, a.counter))

GloveInv ==
  /\ glove \in Nat /\ era \in Nat /\ events \in Nat
  /\ \A a \in sent : Genuine(a) /\ (a.era = era => a.counter <= glove)
  /\ GloveNeverRepeats

Floor == nvs.credentials[Glove].counter

(* Whatever the PTT has stored for the glove it got from it.               *)
FloorAnswered ==
  Floor # 0 => \E a \in sent : a.challenge.device = "this" /\ a.counter = Floor

ChallengeNamed == eng.hasPending => issued # 0

EngineInv == TypeOK /\ SafeInv /\ ChallengeNamed

ProtocolInv == EngineInv /\ GloveInv /\ FloorAnswered

-----------------------------------------------------------------------------
(* The PTT's side.                                                         *)

(* The methods that judge no response.                                     *)
LocalStep(now) ==
  \/ PowerCycle
  \/ Recover(now)
  \/ \E pressed \in BOOLEAN : Service(now, pressed)
  \/ ReportFault(now)
  \/ BeginChallenge(now)

(* They open no session, store nothing, and leave no challenge but an old  *)
(* one or a new one with a number.                                         *)
Quiet == /\ ~SessionOpens
         /\ nvs' = nvs
         /\ ChallengeNamed'

(* The power comes back to an engine without session or challenge.         *)
LEMMA PowerCycleQuiet ==
  ASSUME EngineInv, PowerCycle PROVE EngineInv' /\ Quiet
<1>1. TypeOK'
  BY PoweredOnType DEF PowerCycle, EngineOnly, EngineInv, TypeOK
<1>2. SafeInv'
  BY DEF PowerCycle, EngineOnly, SafeInv, PoweredOn, Safe, ChallengeAlone,
         OurState, MemoryIsDurable, Faithful
<1>3. Quiet
  BY DEF PowerCycle, EngineOnly, PoweredOn, Quiet, SessionOpens, ChallengeNamed
<1> QED BY <1>1, <1>2, <1>3 DEF EngineInv, Quiet

(* begin() and recover() leave neither.                                    *)
LEMMA RecoverQuiet ==
  ASSUME EngineInv, NEW now \in Time, Recover(now) PROVE EngineInv' /\ Quiet
<1> DEFINE e == [eng EXCEPT !.state = nvs, !.healthy = TRUE,
                            !.controlFault = FALSE, !.lastNow = now]
<1>1. TypeOK' /\ SafeInv'
  BY RecoverType, RecoverStep DEF EngineInv
<1>2. eng \in EngineState /\ e \in EngineState
  BY DEF EngineInv, TypeOK, EngineState
<1> HIDE DEF e
<1>3. CASE eng' = Retick(RequireReauthentication(e), now)
  <2>1. Idle(eng')
    BY <1>2, <1>3, InvalidateTick DEF RequireReauthentication, Withdrawn,
       Decision, Denial, SessionState
  <2> QED BY <1>1, <2>1 DEF Recover, EngineOnly, Idle, Quiet, SessionOpens,
          ChallengeNamed, EngineInv
<1>4. CASE eng' = Fault(eng, now)
  <2>1. Idle(eng')
    BY <1>2, <1>4, FaultWithdraws DEF Withdrawn
  <2> QED BY <1>1, <2>1 DEF Recover, EngineOnly, Idle, Quiet, SessionOpens,
          ChallengeNamed, EngineInv
<1> QED BY <1>3, <1>4 DEF Recover, e

(* tick() opens nothing and issues nothing.                                *)
LEMMA ServiceQuiet ==
  ASSUME EngineInv, NEW now \in Time, NEW p \in BOOLEAN, Service(now, p)
  PROVE  EngineInv' /\ Quiet
<1>1. eng \in EngineState
  BY DEF EngineInv, TypeOK
<1>2. TypeOK'
  BY <1>1, TickType DEF Service, EngineOnly, EngineInv, TypeOK
<1>3. SafeInv'
  BY <1>1, SafeFacts, TickStep DEF Service, EngineOnly, EngineInv, SafeInv
<1>4. Quiet
  BY <1>1, TickFrame DEF Service, EngineOnly, EngineInv, Quiet, SessionOpens,
     ChallengeNamed
<1> QED BY <1>2, <1>3, <1>4 DEF EngineInv, Quiet

(* fault() leaves neither session nor challenge.                           *)
LEMMA ReportFaultQuiet ==
  ASSUME EngineInv, NEW now \in Time, ReportFault(now)
  PROVE  EngineInv' /\ Quiet
<1>1. eng \in EngineState
  BY DEF EngineInv, TypeOK
<1>2. TypeOK'
  BY <1>1, FaultType DEF ReportFault, EngineOnly, EngineInv, TypeOK
<1>3. SafeInv'
  BY FaultStep DEF ReportFault, EngineInv
<1>4. Idle(eng')
  BY <1>1, FaultWithdraws DEF ReportFault, Withdrawn
<1>5. Quiet
  BY <1>4 DEF ReportFault, EngineOnly, Idle, Quiet, SessionOpens, ChallengeNamed
<1> QED BY <1>2, <1>3, <1>5 DEF EngineInv, Quiet

(* beginChallenge() issues a challenge with a number, if any.              *)
LEMMA BeginChallengeQuiet ==
  ASSUME EngineInv, NEW now \in Time, BeginChallenge(now)
  PROVE  EngineInv' /\ Quiet
<1> DEFINE t == Retick(eng, now)
<1>1. eng \in EngineState /\ eng.pressed \in BOOLEAN /\ issued \in Nat
  BY DEF EngineInv, TypeOK, EngineState
<1>2. TypeOK' /\ SafeInv'
  BY BeginChallengeType, BeginChallengeStep DEF EngineInv
<1>3. ~SessionOpens
  BY BeginChallengeCarries DEF EngineInv, Carries, SessionOpens
<1>4. /\ t \in EngineState
      /\ t.hasPending => eng.hasPending
  BY <1>1, TickFrame, RetickType DEF Retick
<1> HIDE DEF t
<1>5. CASE eng' = t /\ EngineOnly
  BY <1>2, <1>3, <1>4, <1>5 DEF EngineOnly, EngineInv, Quiet, ChallengeNamed
<1>6. CASE IssueChallenge(t, now)
  BY <1>1, <1>2, <1>3, <1>6
     DEF IssueChallenge, EngineInv, Quiet, ChallengeNamed
<1>7. CASE eng' = Fault(RequireReauthentication(t), now) /\ EngineOnly
  <2>1. Idle(eng')
    BY <1>4, <1>7, FaultWithdraws, RequireReauthenticationType DEF Withdrawn
  <2> QED BY <1>2, <1>3, <1>7, <2>1
          DEF EngineOnly, EngineInv, Quiet, ChallengeNamed, Idle
<1> QED BY <1>5, <1>6, <1>7 DEF BeginChallenge, t

(* What they have in common.                                               *)
LEMMA LocalQuiet ==
  ASSUME EngineInv, NEW now \in Time, LocalStep(now)
  PROVE  EngineInv' /\ Quiet
BY PowerCycleQuiet, RecoverQuiet, ServiceQuiet, ReportFaultQuiet,
   BeginChallengeQuiet DEF LocalStep

-----------------------------------------------------------------------------
(* A response is judged.                                                   *)

(* The response is over the pending challenge.                             *)
Fits(r) == eng.hasPending /\ r.nonce = eng.pending

(* What judging r may do: store its counter and open a session if it fits, *)
(* and settle the challenge in any case.                                   *)
Judged(r) ==
  /\ ~eng'.hasPending
  /\ SessionOpens =>
       Fits(r) /\ nvs'.credentials[r.credentialId].counter = r.counter
  /\ nvs' = nvs \/ (Fits(r) /\ nvs' = [nvs EXCEPT
                                         !.credentials[r.credentialId].counter
                                           = r.counter])

(* A valid response stores its counter first.                              *)
LEMMA AcceptResponseJudged ==
  ASSUME TypeOK, NEW now \in Time, NEW e \in EngineState, NEW r,
         r.counter \in Nat, r.credentialId = e.attached, e.attached # NoId,
         ~e.hasPending, e.state = nvs, Carries(eng, e), Fits(r),
         AcceptResponse(e, r.counter, now)
  PROVE  Judged(r)
<1> DEFINE new   == [e.state EXCEPT !.credentials[e.attached].counter = r.counter]
           saved == [e EXCEPT !.state = new]
           o     == OpenSession(saved, now)
<1>1. e.attached \in Credentials /\ e.state \in PersistentState
  BY DEF EngineState
<1>2. new \in PersistentState /\ new.credentials[e.attached].counter = r.counter
  <2>1. new = WithCounter(e.state, e.attached, r.counter)
    BY DEF WithCounter
  <2> HIDE DEF new
  <2>2. OnlyCounter(e.state, new, e.attached, r.counter)
    BY <1>1, <2>1, CounterOnly
  <2> QED BY <2>2 DEF OnlyCounter
<1>3. new = [nvs EXCEPT !.credentials[r.credentialId].counter = r.counter]
  OBVIOUS
<1> HIDE DEF new
<1>4. /\ saved \in EngineState /\ ~saved.hasPending
      /\ saved.attached = e.attached /\ saved.state = new
      /\ Carries(e, saved)
  <2>1. saved \in EngineState /\ Carries(e, saved)
    BY <1>2, ReplacedCarries
  <2> QED BY <2>1 DEF EngineState
<1> HIDE DEF saved
<1>5. CASE SaveFails(e, new, now)
  <2>1. Idle(eng') /\ Carries(e, eng')
    BY <1>5, FaultWithdraws, FaultCarries DEF SaveFails, Withdrawn
  <2>2. nvs' = nvs \/ nvs' = new
    BY <1>5 DEF SaveFails
  <2> QED BY <1>3, <2>1, <2>2 DEF Judged, SessionOpens, Idle
<1>6. CASE Saves(new) /\ eng' = Fault(saved, now)
  <2>1. Idle(eng')
    BY <1>4, <1>6, FaultWithdraws DEF Withdrawn
  <2> QED BY <1>3, <1>6, <2>1 DEF Judged, SessionOpens, Idle, Saves
<1>7. CASE /\ Saves(new) /\ eng' = Retick(o, now)
           /\ now <= TimeMax - new.policy.sessionTimeout
  <2>1. o \in EngineState
    BY <1>1, <1>4, <1>7, OpenSessionType
  <2>2. ~o.hasPending /\ o.pressed \in BOOLEAN
    BY <1>4, <2>1 DEF OpenSession, EngineState
  <2> HIDE DEF o
  <2>3. ~eng'.hasPending
    BY <1>7, <2>1, <2>2, TickFrame DEF Retick
  <2> QED BY <1>2, <1>3, <1>7, <2>3 DEF Judged, Saves
<1> QED BY <1>5, <1>6, <1>7 DEF AcceptResponse, SaveFails, new, saved, o

(* validateResponse() judges, whatever the response.                       *)
LEMMA ValidateResponseJudged ==
  ASSUME TypeOK, SafeInv, NEW now \in Time, NEW r, r.counter \in Nat,
         r.credentialId \in Credentials \cup {NoId}, ValidateResponse(r, now)
  PROVE  Judged(r)
<1> DEFINE t        == Retick(eng, now)
           consumed == [t EXCEPT !.hasPending = FALSE]
           named    == [consumed EXCEPT !.attached = r.credentialId]
<1>1. /\ t \in EngineState /\ Carries(eng, t)
      /\ t.hasPending => eng.hasPending /\ t.pending = eng.pending
      /\ t.healthy => t.state = nvs
  <2>1. eng \in EngineState
    BY DEF TypeOK
  <2>2. t.hasPending => eng.hasPending
    BY <2>1, TickFrame DEF Retick, EngineState
  <2> QED BY <2>1, <2>2, RetickFacts, RetickCarries DEF SafeInv
<1> HIDE DEF t
<1>2. /\ consumed \in EngineState /\ ~consumed.hasPending
      /\ consumed.pending = t.pending /\ consumed.healthy = t.healthy
      /\ consumed.state = t.state /\ Carries(eng, consumed)
  BY <1>1 DEF EngineState, Carries
<1> HIDE DEF consumed
<1>3. /\ named \in EngineState /\ ~named.hasPending
      /\ named.pending = t.pending /\ named.healthy = t.healthy
      /\ named.state = t.state /\ named.attached = r.credentialId
      /\ Carries(eng, named)
  BY <1>2 DEF EngineState, Carries
<1> HIDE DEF named
<1>4. CASE eng' = consumed /\ EngineOnly
  BY <1>2, <1>4 DEF Judged, Carries, SessionOpens, EngineOnly
<1>5. CASE Idle(eng') /\ EngineOnly
  BY <1>5 DEF Judged, Idle, SessionOpens, EngineOnly
<1>6. CASE /\ Admission(t, r, now) \in Denial
           /\ eng' = Deny(consumed, Admission(t, r, now), now) /\ EngineOnly
  BY <1>2, <1>5, <1>6, DenyWithdraws DEF Withdrawn, Decision
<1>7. CASE /\ Verdict(named, r) \in Denial
           /\ eng' = Deny(named, Verdict(named, r), now) /\ EngineOnly
  BY <1>3, <1>5, <1>7, DenyWithdraws DEF Withdrawn, Decision
<1>8. CASE eng' = Fault(named, now) /\ EngineOnly
  BY <1>3, <1>5, <1>8, FaultWithdraws DEF Withdrawn
<1>9. CASE /\ Admission(t, r, now) = "admitted"
           /\ Verdict(named, r) = "valid"
           /\ AcceptResponse(named, r.counter, now)
  <2>1. t.healthy /\ t.hasPending /\ r.credentialId # NoId
    BY <1>1, <1>9 DEF Admission, EngineState
  <2>2. Fits(r)
    BY <1>1, <1>3, <1>9, <2>1, ValidVerdict DEF Fits
  <2> QED BY <1>1, <1>3, <1>9, <2>1, <2>2, AcceptResponseJudged
<1> QED BY <1>4, <1>6, <1>7, <1>8, <1>9
        DEF ValidateResponse, t, consumed, named

-----------------------------------------------------------------------------
(* The glove's side.                                                       *)

(* A transcript says which challenge it answers.                           *)
LEMMA TranscriptNamesChallenge ==
  ASSUME NEW c \in Challenges, NEW d \in Challenges, NEW m, NEW n,
         Hmac(GloveKey, Transcript(c, m)) = Hmac(GloveKey, Transcript(d, n))
  PROVE  c = d
<1>1. Transcript(c, m) = Transcript(d, n)
  BY DEF Hmac
<1>2. /\ Transcript(c, m).device = c.device /\ Transcript(c, m).nonce = c.nonce
      /\ Transcript(d, n).device = d.device /\ Transcript(d, n).nonce = d.nonce
  BY DEF Transcript
<1>3. c.device = d.device /\ c.nonce = d.nonce
  BY <1>1, <1>2
<1> QED BY <1>3 DEF Challenges

(* An answer that verifies is an answer to the pending challenge.          *)
LEMMA VerifiedAnswersPending ==
  ASSUME TypeOK, GloveInv, NEW a \in sent, VerifyCredential(a)
  PROVE  a.challenge = Pending
<1>1. Pending \in Challenges
  BY DEF TypeOK, EngineState, Pending, Challenges, Device
<1>2. /\ a.challenge \in Challenges
      /\ a.mac = Hmac(GloveKey, Transcript(a.challenge, a.counter))
  BY DEF GloveInv, Genuine
<1> QED BY <1>1, <1>2, TranscriptNamesChallenge DEF VerifyCredential

(* Answering with the next counter keeps all that is known of answers.     *)
LEMMA RespondKeeps ==
  ASSUME GloveInv, NEW c \in Challenges, Respond(c), events' \in Nat
  PROVE  GloveInv'
<1> DEFINE new == Answer(c, glove + 1)
<1>1. /\ glove \in Nat /\ era \in Nat /\ glove' = glove + 1 /\ era' = era
      /\ sent' = sent \cup {new}
  BY DEF GloveInv, Respond
<1>2. /\ Genuine(new) /\ new.era = era /\ new.counter = glove + 1
  BY <1>1 DEF Genuine, Answer, Challenges
<1> HIDE DEF new
<1>3. \A a \in sent' : Genuine(a) /\ (a.era = era => a.counter <= glove + 1)
  BY <1>1, <1>2 DEF GloveInv, Genuine
<1>4. \A a \in sent' : (Genuine(a) /\ (a.era = era => a.counter <= glove))'
  BY <1>1, <1>3 DEF Genuine
<1>5. \A a \in sent : a.era = new.era => a.counter # new.counter
  BY <1>1, <1>2 DEF GloveInv, Genuine
<1>6. GloveNeverRepeats'
  BY <1>1, <1>5 DEF GloveInv, GloveNeverRepeats
<1> QED BY <1>1, <1>4, <1>6 DEF GloveInv

(* A counter used up without an answer keeps it too.                       *)
LEMMA RespondFailsKeeps ==
  ASSUME GloveInv, RespondFails, events' \in Nat PROVE GloveInv'
<1>1. /\ glove \in Nat /\ era \in Nat /\ glove' \in Nat /\ glove <= glove'
      /\ era' = era /\ sent' = sent
  BY DEF GloveInv, RespondFails
<1>2. \A a \in sent' : (Genuine(a) /\ (a.era = era => a.counter <= glove))'
  BY <1>1 DEF GloveInv, Genuine
<1>3. GloveNeverRepeats'
  BY <1>1 DEF GloveInv, GloveNeverRepeats
<1> QED BY <1>1, <1>2, <1>3 DEF GloveInv

(* A store put back begins an era no answer is from.                       *)
LEMMA PutBackKeeps ==
  ASSUME GloveInv, PutBack, events' \in Nat PROVE GloveInv'
<1>1. /\ era \in Nat /\ era' = era + 1 /\ sent' = sent /\ glove' \in Nat
  BY DEF GloveInv, PutBack
<1>2. \A a \in sent : Genuine(a)
  BY DEF GloveInv
<1>3. \A a \in sent' : (Genuine(a) /\ (a.era = era => a.counter <= glove))'
  BY <1>1, <1>2 DEF Genuine
<1>4. GloveNeverRepeats'
  BY <1>1 DEF GloveInv, GloveNeverRepeats
<1> QED BY <1>1, <1>3, <1>4 DEF GloveInv

(* So does what does not touch the glove.                                  *)
LEMMA AwayKeeps ==
  ASSUME GloveInv, UNCHANGED gloveVars, events' \in Nat PROVE GloveInv'
BY DEF GloveInv, gloveVars, Genuine, GloveNeverRepeats

-----------------------------------------------------------------------------
(* Both sides.                                                             *)

(* The four kinds of step: the PTT alone (an answer may fail to come), an  *)
(* answer arriving, the glove answering, and its store being put back.     *)
LocalKind == /\ \E now \in Time : LocalStep(now)
             /\ UNCHANGED gloveVars \/ RespondFails

ArrivalKind == \E a \in sent : Deliver(a)

AnswerKind == UNCHANGED vars /\ \E c \in Challenges : Respond(c)

PutBackKind == UNCHANGED vars /\ PutBack

(* Every step is one of the four.                                          *)
LEMMA FourKinds ==
  ASSUME TypeOK, GloveInv, ProtocolNext
  PROVE  /\ events' \in Nat
         /\ LocalKind \/ ArrivalKind \/ AnswerKind \/ PutBackKind
<1>1. Now \in Time /\ issued \in Nat /\ events \in Nat
  BY DEF TypeOK, EngineState, Now, GloveInv
<1>2. events' \in Nat
  BY <1>1 DEF ProtocolNext, Disturbance
<1> SUFFICES LocalKind \/ ArrivalKind \/ AnswerKind \/ PutBackKind
  BY <1>2
<1>3. Pending \in Challenges
  BY DEF TypeOK, EngineState, Pending, Challenges, Device
<1>4. CASE Ask \/ Mend \/ AskAgain \/ RecoverAnyway \/ LosePower
  BY <1>1, <1>4 DEF Ask, Mend, AskAgain, RecoverAnyway, LosePower, LocalKind,
     LocalStep
<1>5. CASE Rest
  BY <1>1, <1>5 DEF Rest, LocalKind, LocalStep
<1>6. CASE LapseTime
  <2>1. Now + 1 \in Time
    BY <1>1, <1>6, ConstantTypes DEF LapseTime, Time
  <2> QED BY <1>6, <2>1 DEF LapseTime, LocalKind, LocalStep
<1>7. CASE NoAnswer
  BY <1>1, <1>7 DEF NoAnswer, LocalKind, LocalStep
<1>8. CASE Arrive \/ Stray
  BY <1>8 DEF Arrive, Stray, ArrivalKind
<1>9. CASE EngineFails
  BY <1>1, <1>9 DEF EngineFails, LocalKind, LocalStep, ArrivalKind
<1>10. CASE Reply
  BY <1>3, <1>10 DEF Reply, AnswerKind
<1>11. CASE ForeignUse
  <2>1. [device |-> "other", nonce |-> events + 1] \in Challenges
    BY <1>1 DEF Challenges, Device
  <2> QED BY <1>11, <2>1 DEF ForeignUse, AnswerKind
<1>12. CASE PutBack
  BY <1>12 DEF PutBack, PutBackKind
<1> QED BY <1>4, <1>5, <1>6, <1>7, <1>8, <1>9, <1>10, <1>11, <1>12
        DEF ProtocolNext, Undisturbed, Disturbance

(* The PTT's own steps keep the invariant and open nothing.                *)
LEMMA LocalStepKeeps ==
  ASSUME ProtocolInv, LocalKind, events' \in Nat
  PROVE  ProtocolInv' /\ OpensOnItsAnswer
<1>1. EngineInv' /\ Quiet
  BY LocalQuiet DEF LocalKind, ProtocolInv
<1>2. GloveInv' /\ sent' = sent
  BY AwayKeeps, RespondFailsKeeps
     DEF LocalKind, ProtocolInv, RespondFails, gloveVars
<1>3. FloorAnswered'
  BY <1>1, <1>2 DEF Quiet, ProtocolInv, FloorAnswered, Floor
<1> QED BY <1>1, <1>2, <1>3 DEF ProtocolInv, Quiet, OpensOnItsAnswer

(* An arriving answer is taken only if it is to the pending challenge.     *)
LEMMA ArrivalKeeps ==
  ASSUME ProtocolInv, ArrivalKind, events' \in Nat
  PROVE  ProtocolInv' /\ OpensOnItsAnswer
<1> PICK a \in sent : Deliver(a)
  BY DEF ArrivalKind
<1> DEFINE r == [credentialId |-> Glove, keyId |-> GloveKey,
                 counter |-> a.counter,
                 nonce |-> IF VerifyCredential(a) THEN eng.pending ELSE 0]
<1>1. /\ TypeOK /\ SafeInv /\ GloveInv /\ FloorAnswered /\ ChallengeNamed
      /\ Now \in Time /\ Glove \in Credentials /\ nvs \in PersistentState
      /\ r.counter = a.counter /\ a.counter \in Nat /\ r.credentialId = Glove
  BY ProtocolConstants DEF ProtocolInv, EngineInv, TypeOK, EngineState, Now,
     GloveInv, Genuine
<1>2. Fits(r) => a.challenge = Pending
  <2>1. ASSUME Fits(r), ~VerifyCredential(a) PROVE FALSE
    <3>1. r.nonce = 0 /\ eng.hasPending /\ eng.pending = 0
      BY <2>1 DEF Fits
    <3> QED BY <1>1, <3>1 DEF SafeInv, ChallengeNamed
  <2> QED BY <1>1, <2>1, VerifiedAnswersPending
<1>3. ValidateResponse(r, Now) /\ UNCHANGED gloveVars
  BY DEF Deliver
<1> HIDE DEF r
<1>4. TypeOK' /\ SafeInv'
  BY <1>1, <1>3, ValidateResponseType, ValidateResponseStep
<1>5. Judged(r)
  BY <1>1, <1>3, ValidateResponseJudged
<1>6. GloveInv' /\ sent' = sent
  BY <1>1, <1>3, AwayKeeps DEF gloveVars
<1>7. FloorAnswered'
  <2>1. CASE nvs' = nvs
    BY <1>1, <1>6, <2>1 DEF FloorAnswered, Floor
  <2>2. CASE /\ Fits(r)
             /\ nvs' = [nvs EXCEPT !.credentials[r.credentialId].counter
                                     = r.counter]
    <3>1. nvs'.credentials[Glove].counter = a.counter
      <4>1. nvs' = WithCounter(nvs, Glove, a.counter)
        BY <1>1, <2>2 DEF WithCounter
      <4>2. OnlyCounter(nvs, nvs', Glove, a.counter)
        BY <1>1, <4>1, CounterOnly
      <4> QED BY <4>2 DEF OnlyCounter
    <3>2. a.challenge.device = "this"
      BY <1>2, <2>2 DEF Pending
    <3> QED BY <1>6, <3>1, <3>2 DEF FloorAnswered, Floor
  <2> QED BY <1>5, <2>1, <2>2 DEF Judged
<1>8. OpensOnItsAnswer
  BY <1>1, <1>2, <1>5 DEF Judged, OpensOnItsAnswer
<1>9. ChallengeNamed'
  BY <1>5 DEF Judged, ChallengeNamed
<1> QED BY <1>4, <1>6, <1>7, <1>8, <1>9 DEF ProtocolInv, EngineInv

(* What happens on the glove's side leaves the PTT as it is.               *)
LEMMA GloveStepKeeps ==
  ASSUME ProtocolInv, AnswerKind \/ PutBackKind, events' \in Nat
  PROVE  ProtocolInv' /\ OpensOnItsAnswer
<1>1. GloveInv' /\ sent \subseteq sent'
  BY RespondKeeps, PutBackKeeps
     DEF AnswerKind, PutBackKind, ProtocolInv, Respond, PutBack
<1>2. eng' = eng /\ nvs' = nvs /\ issued' = issued /\ ledger' = ledger
  BY DEF AnswerKind, PutBackKind, vars
<1>3. EngineInv'
  BY <1>2 DEF ProtocolInv, EngineInv, TypeOK, SafeInv, MemoryIsDurable,
     ChallengeNamed
<1>4. FloorAnswered'
  BY <1>1, <1>2 DEF ProtocolInv, FloorAnswered, Floor
<1>5. OpensOnItsAnswer
  BY <1>2 DEF OpensOnItsAnswer, SessionOpens
<1> QED BY <1>1, <1>3, <1>4, <1>5 DEF ProtocolInv

(* Every step keeps the invariant, and opens a session in agreement.       *)
LEMMA ProtocolStepKeeps ==
  ProtocolInv /\ [ProtocolNext]_protocolVars
    => ProtocolInv' /\ [OpensOnItsAnswer]_protocolVars
<1>1. ASSUME ProtocolInv, ProtocolNext PROVE ProtocolInv' /\ OpensOnItsAnswer
  BY <1>1, FourKinds, LocalStepKeeps, ArrivalKeeps, GloveStepKeeps
     DEF ProtocolInv, EngineInv
<1>2. ASSUME ProtocolInv, UNCHANGED protocolVars PROVE ProtocolInv'
  <2>1. events' \in Nat /\ sent' = sent /\ eng' = eng /\ nvs' = nvs
    BY <1>2 DEF protocolVars, vars, gloveVars, ProtocolInv, GloveInv
  <2>2. GloveInv'
    BY <1>2, <2>1, AwayKeeps DEF protocolVars, ProtocolInv
  <2>3. EngineInv'
    BY <1>2 DEF protocolVars, vars, ProtocolInv, EngineInv, TypeOK, SafeInv,
       MemoryIsDurable, ChallengeNamed
  <2>4. FloorAnswered'
    BY <1>2, <2>1 DEF ProtocolInv, FloorAnswered, Floor
  <2> QED BY <2>2, <2>3, <2>4 DEF ProtocolInv
<1> QED BY <1>1, <1>2

(* A new glove and a PTT that has registered it.                           *)
LEMMA ProtocolStart == ProtocolInit => ProtocolInv
<1> SUFFICES ASSUME ProtocolInit PROVE ProtocolInv
  OBVIOUS
<1>1. Init /\ glove = 0 /\ era = 0 /\ sent = {} /\ events = 0
  BY DEF ProtocolInit
<1>2. EngineInv
  BY <1>1, InitType, SafeInit DEF EngineInv, ChallengeNamed, Init, PoweredOn
<1>3. GloveInv
  BY <1>1 DEF GloveInv, GloveNeverRepeats
<1>4. FloorAnswered
  BY <1>1, GloveIsNew DEF Init, FloorAnswered, Floor
<1> QED BY <1>2, <1>3, <1>4 DEF ProtocolInv

(* The invariant holds throughout.                                         *)
LEMMA ProtocolAlways == ProtocolSpec => []ProtocolInv
<1>1. ProtocolInv /\ [ProtocolNext]_protocolVars => ProtocolInv'
  BY ProtocolStepKeeps
<1> QED BY <1>1, ProtocolStart, PTL DEF ProtocolSpec

-----------------------------------------------------------------------------
(* Short of its store being put back, the glove signs no two answers with  *)
(* one counter, whatever saves fail and whoever asks.                      *)
THEOREM GloveAnswersOnce == ProtocolSpec => []GloveNeverRepeats
<1>1. ProtocolInv => GloveNeverRepeats
  BY DEF ProtocolInv, GloveInv
<1> QED BY <1>1, ProtocolAlways, PTL

(* The PTT's stored counter is that of an answer to a challenge of its own,*)
(* and a glove that was not put back is not behind it.                     *)
THEOREM FloorsStayBelowGlove == ProtocolSpec => []FloorBelowGlove
<1>1. ProtocolInv => FloorBelowGlove
  <2> SUFFICES ASSUME ProtocolInv, Floor # 0
               PROVE  /\ \E a \in sent : a.challenge.device = "this"
                                           /\ a.counter = Floor
                      /\ era = 0 => Floor <= glove
    BY DEF FloorBelowGlove, Floor
  <2>1. PICK a \in sent : a.challenge.device = "this" /\ a.counter = Floor
    BY DEF ProtocolInv, FloorAnswered
  <2>2. era = 0 => a.era = era
    BY DEF ProtocolInv, GloveInv, Genuine
  <2>3. era = 0 => Floor <= glove
    BY <2>1, <2>2 DEF ProtocolInv, GloveInv
  <2> QED BY <2>1, <2>3
<1> QED BY <1>1, ProtocolAlways, PTL

(* A session opens only on an answer the glove made to the challenge that  *)
(* was pending, whichever of its answers arrive, in whichever order.       *)
THEOREM SidesAgree == ProtocolSpec => Agreement
<1>1. ProtocolInv /\ [ProtocolNext]_protocolVars
        => [OpensOnItsAnswer]_protocolVars
  BY ProtocolStepKeeps
<1> QED BY <1>1, ProtocolAlways, PTL DEF ProtocolSpec, Agreement

-----------------------------------------------------------------------------
(* The PTT of the protocol is the gate of AuthGate.                        *)

(* What the PTT does in the protocol keeps its floors, and is a step of    *)
(* the gate.                                                               *)
LEMMA LocalStepRefines ==
  ASSUME TypeOK, SafeInv, FloorsHeld, TypeOK', SafeInv',
         NEW now \in Time, LocalStep(now)
  PROVE  FloorsHeld' /\ Gate!Next
<1>1. CASE PowerCycle
  <2>1. FloorsHeld'
    BY <1>1 DEF PowerCycle, EngineOnly, FloorsHeld, Holds, KeepsFloors,
                PoweredOn, BlankState
  <2>2. Keeps(eng, eng')
    BY <1>1, IdleKeeps DEF PowerCycle, PoweredOn, Idle
  <2> QED BY <1>1, <2>1, <2>2, PassStep DEF PowerCycle, EngineOnly, Between
<1>2. CASE Recover(now)
  BY <1>2, RecoverKeeps, RecoverPass DEF Between
<1>3. CASE \E pressed \in BOOLEAN : Service(now, pressed)
  <2>1. FloorsHeld'
    BY <1>3, TickFrame, UntouchedKeeps DEF Service, TypeOK
  <2> QED BY <1>3, <2>1, ServicePass DEF Between
<1>4. CASE ReportFault(now)
  <2>1. FloorsHeld'
    BY <1>4, FaultWithdraws, UntouchedKeeps DEF ReportFault, Withdrawn, TypeOK
  <2>2. Between
    BY <2>1 DEF Between
  <2> QED BY <1>4, <2>1, <2>2, FaultWithdraws, WithdrawnPass
          DEF ReportFault, EngineOnly, TypeOK
<1>5. CASE BeginChallenge(now)
  BY <1>5, BeginChallengeKeeps, BeginChallengeAsks DEF Between
<1> QED BY <1>1, <1>2, <1>3, <1>4, <1>5 DEF LocalStep

LEMMA ArrivalRefines ==
  ASSUME ProtocolInv, FloorsHeld, TypeOK', SafeInv', ArrivalKind
  PROVE  FloorsHeld' /\ Gate!Next
<1> PICK a \in sent : Deliver(a)
  BY DEF ArrivalKind
<1> DEFINE r == [credentialId |-> Glove, keyId |-> GloveKey,
                 counter |-> a.counter,
                 nonce |-> IF VerifyCredential(a) THEN eng.pending ELSE 0]
<1>1. /\ TypeOK /\ SafeInv /\ Now \in Time
      /\ r.counter \in Nat /\ r.credentialId \in Credentials \cup {NoId}
  BY ProtocolConstants DEF ProtocolInv, EngineInv, TypeOK, EngineState, Now,
     GloveInv, Genuine
<1>2. ValidateResponse(r, Now)
  BY DEF Deliver
<1> HIDE DEF r
<1>3. FloorsHeld'
  BY <1>1, <1>2, ValidateResponseKeeps
<1> QED BY <1>1, <1>2, <1>3, ValidateResponseGrants DEF Between

LEMMA ProtocolStepRefines ==
  ASSUME ProtocolInv, FloorsHeld, [ProtocolNext]_protocolVars
  PROVE  FloorsHeld' /\ [Gate!Next]_(Gate!gateVars)
<1>1. TypeOK' /\ SafeInv' /\ TypeOK /\ SafeInv /\ GloveInv
  BY ProtocolStepKeeps DEF ProtocolInv, EngineInv
<1>2. CASE UNCHANGED vars
  BY <1>2 DEF vars, FloorsHeld, Holds, KeepsFloors, Gate!gateVars, Lease, Question
<1>3. CASE LocalKind
  BY <1>1, <1>3, LocalStepRefines DEF LocalKind
<1>4. CASE ArrivalKind
  BY <1>1, <1>4, ArrivalRefines
<1>5. CASE ProtocolNext
  BY <1>1, <1>2, <1>3, <1>4, <1>5, FourKinds DEF AnswerKind, PutBackKind
<1> QED BY <1>2, <1>5 DEF protocolVars

(* Whatever the glove, the channel, other PTTs and the two stores do, the  *)
(* PTT grants sessions, and ends them, as the abstract gate does: with     *)
(* Agreement, to the answers its own glove made to its last question.      *)
THEOREM ProtocolImplementsGate == ProtocolSpec => GateSpec
<1>1. ProtocolInit => FloorsHeld /\ Gate!Init
  BY FloorsInit, InitRefines DEF ProtocolInit
<1>2. ProtocolInv /\ FloorsHeld /\ [ProtocolNext]_protocolVars
        => FloorsHeld' /\ [Gate!Next]_(Gate!gateVars)
  BY ProtocolStepRefines
<1> QED BY <1>1, <1>2, ProtocolAlways, PTL DEF ProtocolSpec, GateSpec, Gate!Spec

=============================================================================
