--------------------------- MODULE HermesProtocol ---------------------------
(***************************************************************************)
(* The challenge-response protocol end to end: a PTT (HermesEngine), a     *)
(* glove with a counter in a store of its own (MockCredentialTransport),   *)
(* and everything the glove has ever answered, from which an answer may    *)
(* reach the PTT at any time, again, or never.                             *)
(*                                                                         *)
(* The glove serves other PTTs too: their challenges use up its counter,   *)
(* and its answers to them may reach this one.  Its store may be put back  *)
(* (an older image restored), as security_test.cpp does; each time begins  *)
(* a new era.                                                              *)
(*                                                                         *)
(* Cryptography is symbolic: a MAC is the pair of key and data, so it      *)
(* verifies over nothing but the data it was made over.                    *)
(*                                                                         *)
(* Steps of the protocol are unbounded.  What disturbs it (time running    *)
(* out, power, faults, failing stores, strays, foreign use) happens at     *)
(* most MaxEvents times, so that liveness asks what a behaviour does once  *)
(* it is left alone.                                                       *)
(***************************************************************************)
EXTENDS HermesEngine

CONSTANTS
  Glove, GloveKey,   \* the credential of the glove and the id of its key
  CounterMax,        \* the largest counter, 2^64-1 in the code
  MaxEvents          \* bound on disturbances

ASSUME ProtocolConstants ==
  /\ Glove \in Credentials /\ GloveKey \in KeyIds
  /\ CounterMax \in Nat \ {0}
  /\ MaxEvents \in Nat

(* The PTT registered the glove before it was ever used.                   *)
ASSUME GloveIsNew == \A s \in Provisioned : s.credentials[Glove].counter = 0

VARIABLES
  glove,    \* the counter in the glove's store
  era,      \* history: how often that store was put back
  sent,     \* every answer the glove has made, with its era
  events    \* disturbances so far

gloveVars == <<glove, era, sent>>

protocolVars == <<vars, gloveVars, events>>

ProtocolInit == Init /\ glove = 0 /\ era = 0 /\ sent = {} /\ events = 0

-----------------------------------------------------------------------------
(* What is computed on both sides.                                         *)

Hmac(key, data) == <<key, data>>

(* Mutant: the nonce is not part of the transcript.                        *)
TranscriptWithoutNonce(challenge, counter) ==
  [device |-> challenge.device, counter |-> counter,
   credentialId |-> Glove, keyId |-> GloveKey]

(* Policy version and session context are drawn with the nonce, one for    *)
(* one, and add nothing to it here.                                        *)
Transcript(challenge, counter) ==
  [device |-> challenge.device, nonce |-> challenge.nonce,
   counter |-> counter, credentialId |-> Glove, keyId |-> GloveKey]

Pending == [device |-> "this", nonce |-> eng.pending]

VerifyCredential(a) ==
  a.mac = Hmac(GloveKey, Transcript(Pending, a.counter))

Answer(challenge, counter) ==
  [challenge |-> challenge, counter |-> counter, era |-> era,
   mac |-> Hmac(GloveKey, Transcript(challenge, counter))]

-----------------------------------------------------------------------------
(* The glove: MockCredentialTransport::respond.                            *)

(* Mutant: the glove answers although it could not save its counter.       *)
RespondUnsaved(challenge) ==
  /\ glove < CounterMax
  /\ glove' \in {glove, glove + 1}
  /\ sent' = sent \cup {Answer(challenge, glove + 1)}
  /\ UNCHANGED era

(* Mutant: the counter is counted up in the copy and never saved.          *)
RespondFromCopy(challenge) ==
  /\ glove < CounterMax
  /\ sent' = sent \cup {Answer(challenge, glove + 1)}
  /\ UNCHANGED <<glove, era>>

(* The next counter is durable before anything is answered with it.        *)
Respond(challenge) ==
  /\ glove < CounterMax
  /\ glove' = glove + 1
  /\ sent' = sent \cup {Answer(challenge, glove + 1)}
  /\ UNCHANGED era

(* No answer: the store does not load, the counter is at its end, or, with *)
(* the counter already used up, the save or the MAC fails.                 *)
RespondFails ==
  /\ glove' \in {glove} \cup {n \in {glove + 1} : n <= CounterMax}
  /\ UNCHANGED <<era, sent>>

-----------------------------------------------------------------------------
(* The protocol going well.                                                *)

Now == eng.lastNow

Deliver(a) ==
  /\ ValidateResponse([credentialId |-> Glove, keyId |-> GloveKey,
                       counter |-> a.counter,
                       nonce |-> IF VerifyCredential(a) THEN eng.pending ELSE 0],
                      Now)
  /\ UNCHANGED gloveVars

MayAsk == /\ eng.healthy /\ eng.sessionState # "ACTIVE" /\ ~eng.hasPending
          /\ issued < MaxChallenges
          /\ Now + ChallengeTimeout <= TimeMax

Ask ==
  /\ MayAsk
  /\ BeginChallenge(Now) /\ eng'.hasPending
  /\ UNCHANGED gloveVars

AnswersPending(a) == eng.hasPending /\ a.challenge = Pending

MayArrive == \E a \in sent : AnswersPending(a)

Reply ==
  /\ eng.hasPending /\ ~MayArrive
  /\ Respond(Pending)
  /\ UNCHANGED vars

Arrive ==
  /\ \E a \in sent : AnswersPending(a) /\ Deliver(a)
  /\ eng'.healthy

Mend ==
  /\ ~eng.healthy
  /\ Recover(Now) /\ eng'.healthy
  /\ UNCHANGED gloveVars

-----------------------------------------------------------------------------
(* What disturbs it.                                                       *)

LapseTime == /\ Now < TimeMax
             /\ Service(Now + 1, FALSE) /\ UNCHANGED gloveVars

LosePower == PowerCycle /\ UNCHANGED gloveVars

(* The operator, or an impatient caller, does not wait.                    *)
AskAgain == /\ eng.hasPending \/ eng.sessionState = "ACTIVE"
            /\ BeginChallenge(Now) /\ UNCHANGED gloveVars

RecoverAnyway == /\ eng.healthy
                 /\ Recover(Now) /\ UNCHANGED gloveVars

(* authenticate(): the transport does not answer the challenge.            *)
NoAnswer == /\ eng.hasPending
            /\ RespondFails /\ ReportFault(Now)

(* No randomness, a store that fails, a flash that does not read.          *)
EngineFails ==
  /\ eng.healthy
  /\ \/ BeginChallenge(Now) /\ UNCHANGED gloveVars
     \/ \E a \in sent : AnswersPending(a) /\ Deliver(a)
  /\ ~eng'.healthy

Stray == \E a \in sent : ~AnswersPending(a) /\ Deliver(a)

(* Another PTT's challenge; the number of the event serves as its nonce.   *)
ForeignUse == /\ Respond([device |-> "other", nonce |-> events + 1])
              /\ UNCHANGED vars

PutBack == /\ glove' \in 0..(glove - 1)
           /\ era' = era + 1
           /\ UNCHANGED <<vars, sent>>

Disturbance ==
  /\ events < MaxEvents /\ events' = events + 1
  /\ \/ LapseTime \/ LosePower \/ AskAgain \/ RecoverAnyway \/ NoAnswer
     \/ EngineFails \/ Stray \/ ForeignUse \/ PutBack

Rest == Service(Now, FALSE) /\ UNCHANGED gloveVars

Undisturbed == Ask \/ Reply \/ Arrive \/ Mend \/ Rest

ProtocolNext == (Undisturbed /\ UNCHANGED events) \/ Disturbance

(* Left alone, the PTT asks again, the glove answers what it was asked,    *)
(* the answer arrives, and a faulted engine is recovered in the end.  Each *)
(* is weak fairness of the step; where ENABLED would evaluate the engine   *)
(* anew, its value is written out.                                         *)
Fairness ==
  /\ WF_protocolVars(Reply /\ UNCHANGED events)
  /\ []<>~MayAsk \/ []<><<Ask /\ UNCHANGED events>>_protocolVars
  /\ []<>~MayArrive \/ []<><<Arrive /\ UNCHANGED events>>_protocolVars
  /\ []<>eng.healthy \/ []<><<Mend /\ UNCHANGED events>>_protocolVars

ProtocolSpec == ProtocolInit /\ [][ProtocolNext]_protocolVars /\ Fairness

-----------------------------------------------------------------------------
(* Properties.                                                             *)

(* Agreement of the two sides: a session opens only on an answer the glove *)
(* made to this PTT's pending challenge and no other, with that answer's   *)
(* counter; foreign, late and repeated answers open none.                  *)
OpensOnItsAnswer ==
  SessionOpens =>
    \E a \in sent : /\ a.challenge = Pending
                    /\ a.counter = nvs'.credentials[Glove].counter

Agreement == [][OpensOnItsAnswer]_protocolVars

(* Short of its store being put back, a glove never signs two answers with *)
(* one counter, not to two PTTs, after a failed save, or at the last       *)
(* counter.                                                                *)
GloveNeverRepeats ==
  \A a, b \in sent : a.era = b.era /\ a.counter = b.counter => a = b

(* The PTT stores no counter but of an answer to a challenge of its own,   *)
(* and a glove that was not put back has that counter behind it: the two   *)
(* stores never drift so that an honest glove is refused.                  *)
FloorBelowGlove ==
  LET floor == nvs.credentials[Glove].counter
  IN  floor # 0 =>
        /\ \E a \in sent : a.challenge.device = "this" /\ a.counter = floor
        /\ era = 0 => floor <= glove

(* However far behind the PTT a glove is put, and whatever went wrong, a   *)
(* PTT that keeps asking gives it a session again: every refusal brings    *)
(* the glove one counter closer.  Only a glove at its last counter is lost.*)
GloveServed == []<>(eng.sessionState = "ACTIVE" \/ glove = CounterMax)

=============================================================================
