----------------------- MODULE HermesEngineRefinement -----------------------
(***************************************************************************)
(* The engine implements the gate (HermesEngineGate), for all constants.   *)
(*                                                                         *)
(* Only validateResponse() can open a lease and only beginChallenge() asks *)
(* a question: whatever else a method does, the engine it leaves behind    *)
(* has at most the session and the challenge of the engine before (Keeps), *)
(* and the record of accepted updates grows by what was accepted.          *)
(***************************************************************************)
EXTENDS HermesEngineProofs, HermesEngineGate

(* Engine r has no session and no challenge but those of engine e.         *)
Keeps(e, r) ==
  /\ r.sessionState = "ACTIVE" /\ r.healthy =>
       /\ e.sessionState = "ACTIVE" /\ e.healthy /\ r.session = e.session
       /\ e.lastNow <= r.lastNow
  /\ r.hasPending => /\ e.hasPending /\ r.pending = e.pending
                     /\ r.challengeDeadline = e.challengeDeadline

(* tick() keeps or drops.                                                  *)
LEMMA TickKeeps ==
  ASSUME NEW e \in EngineState, NEW now \in Time, NEW p \in BOOLEAN
  PROVE  Keeps(e, Tick(e, now, p))
<1> DEFINE r == Tick(e, now, p)
<1>1. r = Tick(e, now, p)
  OBVIOUS
<1> HIDE DEF r
<1> QED BY <1>1, TickFrame DEF Keeps

(* An engine with neither keeps both trivially.                            *)
LEMMA IdleKeeps == ASSUME NEW e, NEW r, Idle(r) PROVE Keeps(e, r)
BY DEF Idle, Keeps

(* Keeping composes.                                                       *)
LEMMA KeepsOn ==
  ASSUME NEW d \in EngineState, NEW e \in EngineState, NEW r \in EngineState,
         Keeps(d, e), Keeps(e, r)
  PROVE  Keeps(d, r)
<1>1. d.lastNow \in Nat /\ e.lastNow \in Nat /\ r.lastNow \in Nat
  BY TimeIsNat DEF EngineState
<1> QED BY <1>1 DEF Keeps

(* Dropping the challenge, or writing to memory, keeps the rest.           *)
LEMMA ReplacedKeeps ==
  ASSUME NEW e \in EngineState, NEW r \in EngineState,
         r.sessionState = e.sessionState, r.session = e.session,
         r.healthy = e.healthy, r.lastNow = e.lastNow,
         r.hasPending => /\ e.hasPending /\ r.pending = e.pending
                         /\ r.challengeDeadline = e.challengeDeadline
  PROVE  Keeps(e, r)
<1>1. e.lastNow \in Nat
  BY TimeIsNat DEF EngineState
<1> QED BY <1>1 DEF Keeps

-----------------------------------------------------------------------------
(* A step between states of the invariant, seen from the gate.             *)

Between == /\ TypeOK /\ SafeInv /\ FloorsHeld
           /\ TypeOK' /\ SafeInv' /\ FloorsHeld'

(* What stands behind a lease after the step.                              *)
LEMMA LeaseFacts ==
  ASSUME Between, eng'.sessionState = "ACTIVE"
  PROVE  /\ Backed(eng)' /\ Lease' = eng'.session /\ Lease' # NoSession
         /\ eng'.session.credentialId \in Credentials
<1>1. Backed(eng)'
  BY DEF Between, SafeInv, Safe
<1>2. eng'.attached \in Credentials \cup {NoId} /\ eng'.attached # NoId
  BY <1>1 DEF Between, TypeOK, EngineState, Backed, SessionBound, Present
<1>3. eng'.session.credentialId = eng'.attached
  BY <1>1 DEF Backed, SessionBound
<1> QED BY <1>1, <1>2, <1>3 DEF Lease, NoSession

(* The gate is open only under a lease.                                    *)
LEMMA AtStep == ASSUME Between PROVE Gate!At(eng'.lastNow)
<1>1. eng'.lastDecision = "ALLOW_TX" => eng'.sessionState = "ACTIVE"
  BY GrantFollows DEF Between, TypeOK, SafeInv
<1>2. eng'.lastNow \in Nat
  BY TimeIsNat DEF Between, TypeOK, EngineState
<1> QED BY <1>1, <1>2, LeaseFacts DEF Gate!At

(* A session kept is a lease that stands on.                               *)
LEMMA EndsOrStands ==
  ASSUME Between, Keeps(eng, eng')
  PROVE  /\ Gate!Ended \/ Gate!StandsOn(eng'.lastNow)
         /\ Gate!DroppedOrKept
<1>1. CASE eng'.sessionState # "ACTIVE"
  BY <1>1 DEF Gate!Ended, Lease, Gate!DroppedOrKept, Keeps, Question,
              Gate!NoQuestion
<1>2. CASE eng'.sessionState = "ACTIVE"
  <2>1. eng'.healthy /\ eng'.lastNow < eng'.session.expiresAt
    BY <1>2, LeaseFacts DEF Backed
  <2>2. Gate!StandsOn(eng'.lastNow)
    BY <1>2, <2>1, LeaseFacts DEF Keeps, Gate!StandsOn, Lease
  <2>3. Gate!DroppedOrKept
    BY DEF Gate!DroppedOrKept, Keeps, Question, Gate!NoQuestion
  <2> QED BY <2>2, <2>3
<1> QED BY <1>1, <1>2

(* A step that only keeps or drops, and accepts nothing, is time passing.  *)
LEMMA PassStep ==
  ASSUME Between, Keeps(eng, eng'), issued' = issued, ledger' = ledger
  PROVE  Gate!Next
<1>1. Gate!Pass(eng'.lastNow)
  BY AtStep, EndsOrStands DEF Gate!Pass
<1> QED BY <1>1 DEF Gate!Next

(* No session and no challenge: the lease is ended, the question dropped.  *)
LEMMA IdleStep ==
  ASSUME Idle(eng') PROVE Gate!Ended /\ Gate!Dropped /\ Keeps(eng, eng')
BY IdleKeeps DEF Idle, Gate!Ended, Gate!Dropped, Gate!NoQuestion, Lease, Question

(* A refused or failed call leaves neither.                                *)
LEMMA WithdrawnPass ==
  ASSUME Between, NEW e \in EngineState, Withdrawn(e, eng'),
         issued' = issued, ledger' = ledger
  PROVE  Gate!Next
BY IdleStep, PassStep DEF Withdrawn

(* A failed save is a fault.                                               *)
LEMMA SaveFailsPass ==
  ASSUME Between, NEW e \in EngineState, NEW now \in Time, NEW new,
         SaveFails(e, new, now)
  PROVE  Gate!Next
BY FaultWithdraws, WithdrawnPass DEF SaveFails

-----------------------------------------------------------------------------
(* One lemma per method: its step is a step of the gate.                   *)

(* begin() and recover() end the lease.                                    *)
LEMMA RecoverPass ==
  ASSUME Between, NEW now \in Time, Recover(now) PROVE Gate!Next
<1> DEFINE e == [eng EXCEPT !.state = nvs, !.healthy = TRUE,
                            !.controlFault = FALSE, !.lastNow = now]
<1>1. eng \in EngineState /\ e \in EngineState
  BY DEF Between, TypeOK, EngineState
<1> HIDE DEF e
<1>2. CASE eng' = Retick(RequireReauthentication(e), now)
  <2>1. Withdrawn(e, eng')
    BY <1>1, <1>2, InvalidateTick
       DEF RequireReauthentication, Decision, Denial, SessionState
  <2> QED BY <1>1, <2>1, WithdrawnPass DEF Recover, EngineOnly
<1>3. CASE eng' = Fault(eng, now)
  BY <1>1, <1>3, FaultWithdraws, WithdrawnPass DEF Recover, EngineOnly
<1> QED BY <1>2, <1>3 DEF Recover, e

(* tick() lets time pass.                                                  *)
LEMMA ServicePass ==
  ASSUME Between, NEW now \in Time, NEW p \in BOOLEAN, Service(now, p)
  PROVE  Gate!Next
BY TickKeeps, PassStep DEF Service, EngineOnly, Between, TypeOK

(* detach() ends the lease and drops the question.                         *)
LEMMA DetachPass ==
  ASSUME Between, NEW now \in Time, Detach(now) PROVE Gate!Next
<1> DEFINE i == Invalidate(eng, "DENY_NO_CREDENTIAL", "NONE")
           e == [i EXCEPT !.attached = NoId]
<1>1. i \in EngineState /\ i.sessionState = "NONE" /\ ~i.hasPending
  BY InvalidateFields DEF Between, TypeOK, Decision, Denial, SessionState
<1> HIDE DEF i
<1>2. e \in EngineState /\ Idle(e)
  BY <1>1 DEF EngineState, Idle
<1> HIDE DEF e
<1>3. Withdrawn(e, eng')
  BY <1>2, IdleTick DEF Detach, e, i
<1> QED BY <1>2, <1>3, WithdrawnPass DEF Detach, EngineOnly

(* A tick at the time of the tick before keeps a fresh challenge.          *)
LEMMA FreshChallenge ==
  ASSUME NEW e \in EngineState, NEW now \in Time, e.lastNow = now,
         e.sessionState # "ACTIVE", NEW r, r = Retick(e, now)
  PROVE  /\ r.hasPending = e.hasPending /\ r.pending = e.pending
         /\ r.challengeDeadline = e.challengeDeadline
         /\ r.sessionState = e.sessionState
<1>1. ~(now < now)
  BY TimeIsNat
<1>2. CheckClock(e, now) = [e EXCEPT !.lastNow = now]
  BY <1>1 DEF CheckClock
<1>3. CheckExpiry(CheckClock(e, now), now) = [e EXCEPT !.lastNow = now]
  BY <1>2 DEF CheckExpiry, EngineState
<1> DEFINE c == [e EXCEPT !.lastNow = now]
<1>4. /\ c.hasPending = e.hasPending /\ c.pending = e.pending
      /\ c.challengeDeadline = e.challengeDeadline
      /\ c.sessionState = e.sessionState /\ c \in EngineState
  BY DEF EngineState
<1>5. r = Decide(c, now, e.pressed)
  BY <1>3 DEF Retick, Tick
<1> HIDE DEF c
<1> QED BY <1>4, <1>5 DEF Decide, EngineState

(* beginChallenge() asks, or lets time pass.                               *)
LEMMA BeginChallengeAsks ==
  ASSUME Between, NEW now \in Time, BeginChallenge(now) PROVE Gate!Next
<1> DEFINE t        == Retick(eng, now)
           r        == RequireReauthentication(t)
           deadline == now + t.state.policy.challengeTimeout
           e        == [r EXCEPT !.pending = issued + 1, !.hasPending = TRUE,
                                 !.challengeDeadline = deadline]
<1>1. /\ eng \in EngineState /\ eng.pressed \in BOOLEAN
      /\ t \in EngineState /\ t.lastNow = now /\ Keeps(eng, t)
  BY RetickFacts, TickKeeps DEF Between, TypeOK, EngineState, Retick
<1> HIDE DEF t
<1>2. /\ r \in EngineState /\ r.sessionState = "NONE" /\ ~r.hasPending
      /\ r.lastNow = now
  BY <1>1, InvalidateFields
     DEF RequireReauthentication, Decision, Denial, SessionState
<1>3. CASE eng' = t /\ EngineOnly
  BY <1>1, <1>3, PassStep DEF EngineOnly
<1>4. CASE eng' = Fault(r, now) /\ EngineOnly
  BY <1>2, <1>4, FaultWithdraws, WithdrawnPass DEF EngineOnly
<1>5. CASE IssueChallenge(t, now)
  <2>1. /\ eng' = Retick(e, now) /\ issued' = issued + 1 /\ ledger' = ledger
        /\ now <= TimeMax - t.state.policy.challengeTimeout
    BY <1>5 DEF IssueChallenge
  <2>2. /\ t.state.policy.challengeTimeout \in Nat /\ now \in Nat
        /\ TimeMax \in Nat /\ issued + 1 \in Nat
    BY <1>1, ConstantTypes, TimeIsNat
       DEF Between, TypeOK, EngineState, PersistentState, Policy
  <2>3. deadline \in Time /\ deadline \in Nat
    BY <2>1, <2>2 DEF Time
  <2> HIDE DEF deadline, r
  <2>4. /\ e \in EngineState /\ e.lastNow = now /\ e.sessionState = "NONE"
        /\ e.hasPending = TRUE /\ e.pending = issued + 1
        /\ e.challengeDeadline = deadline
    BY <1>2, <2>2, <2>3 DEF EngineState
  <2> HIDE DEF e
  <2>5. /\ eng'.hasPending = TRUE /\ eng'.pending = issued + 1
        /\ eng'.challengeDeadline = deadline /\ eng'.sessionState = "NONE"
    BY <2>1, <2>4, FreshChallenge
  <2>6. eng'.lastNow = now
    <3>1. e.pressed \in BOOLEAN
      BY <2>4 DEF EngineState
    <3> QED BY <2>1, <2>4, <3>1, TickFrame DEF Retick
  <2>7. Gate!Ask(eng'.lastNow, Question'.due)
    BY <2>1, <2>3, <2>5, <2>6, AtStep DEF Gate!Ask, Gate!Ended, Lease, Question
  <2> QED BY <2>7 DEF Gate!Next
<1> QED BY <1>3, <1>4, <1>5 DEF BeginChallenge, t, r

(* A session opened at the time of the last tick is not over by it.        *)
LEMMA FreshSession ==
  ASSUME NEW o \in EngineState, NEW now \in Time, o.lastNow = now,
         o.sessionState = "ACTIVE", now < o.session.expiresAt,
         NEW r, r = Retick(o, now)
  PROVE  r.sessionState = "ACTIVE" /\ r.session = o.session
<1>1. ~(now < now) /\ ~(now >= o.session.expiresAt)
  BY TimeIsNat DEF EngineState, Session
<1>2. CheckClock(o, now) = [o EXCEPT !.lastNow = now]
  BY <1>1 DEF CheckClock
<1> DEFINE c == [o EXCEPT !.lastNow = now]
<1>3. CheckExpiry(c, now) = c
  BY <1>1 DEF CheckExpiry, EngineState
<1>4. /\ c.session = o.session /\ c.sessionState = "ACTIVE"
      /\ c \in EngineState
  BY DEF EngineState
<1>5. r = Decide(c, now, o.pressed)
  BY <1>2, <1>3 DEF Retick, Tick
<1> HIDE DEF c
<1> QED BY <1>4, <1>5 DEF Decide, EngineState

(* A response that verifies is granted a lease, or faults the engine.      *)
LEMMA AcceptResponseGrants ==
  ASSUME Between, NEW now \in Time, NEW e \in EngineState, NEW r,
         r.counter \in Nat, r.credentialId = e.attached, e.attached # NoId,
         e.state = eng.state, e.state.deviceId = "this",
         e.lastNow = now, ~e.hasPending, Verdict(e, r) = "valid",
         eng.hasPending, eng.lastNow <= now, now < eng.challengeDeadline,
         AcceptResponse(e, r.counter, now)
  PROVE  Gate!Next
<1> DEFINE c     == e.attached
           new   == [e.state EXCEPT !.credentials[c].counter = r.counter]
           saved == [e EXCEPT !.state = new]
           o     == OpenSession(saved, now)
<1>1. /\ e.state \in PersistentState /\ c \in Credentials
      /\ e.state.credentials[c] \in Metadata
  BY DEF EngineState, PersistentState
<1>2. new \in PersistentState /\ new.policy = e.state.policy
  <2>1. new = WithCounter(e.state, c, r.counter)
    BY DEF WithCounter
  <2> HIDE DEF c, new
  <2>2. OnlyCounter(e.state, new, c, r.counter)
    BY <1>1, <2>1, CounterOnly
  <2> QED BY <2>2 DEF OnlyCounter
<1> HIDE DEF new
<1>3. /\ saved \in EngineState /\ saved.attached = c /\ saved.state = new
      /\ saved.lastNow = now /\ ~saved.hasPending
  BY <1>2 DEF EngineState
<1> HIDE DEF saved
<1>4. CASE eng' = Fault(saved, now) /\ ledger' = ledger /\ issued' = issued
  BY <1>3, <1>4, FaultWithdraws, WithdrawnPass
<1>5. CASE SaveFails(e, new, now)
  BY <1>5, SaveFailsPass
<1>6. CASE /\ Saves(new) /\ now <= TimeMax - new.policy.sessionTimeout
           /\ eng' = Retick(o, now)
           /\ ledger' = [ledger EXCEPT !.served[c] = r.counter]
  <2>1. o \in EngineState
    BY <1>3, <1>6, OpenSessionType
  <2>2. /\ o.session.credentialId = c /\ o.session.createdAt = now
        /\ o.session.expiresAt = now + new.policy.sessionTimeout
        /\ o.session.policyVersion = new.policy.version
        /\ o.sessionState = "ACTIVE" /\ ~o.hasPending /\ o.lastNow = now
    BY <1>3 DEF OpenSession, EngineState
  <2> HIDE DEF o
  <2>3. now < o.session.expiresAt
    <3>1. new.policy.sessionTimeout \in Nat \ {0}
      BY <1>2, <1>6, ConstantTypes
         DEF Saves, Decodable, ValidPolicy, PersistentState, Policy, Time
    <3> QED BY <2>2, <3>1, TimeIsNat
  <2>4. eng'.sessionState = "ACTIVE" /\ eng'.session = o.session
    BY <1>6, <2>1, <2>2, <2>3, FreshSession
  <2>5. ~eng'.hasPending /\ eng'.lastNow = now
    <3>1. o.pressed \in BOOLEAN
      BY <2>1 DEF EngineState
    <3> QED BY <1>6, <2>1, <2>2, <3>1, TickFrame DEF Retick
  <2>6. c \notin ledger.revoked /\ ledger.served[c] < r.counter
    <3>1. KeepsFloors(e.state)
      BY DEF Between, FloorsHeld, Holds
    <3>2. c \notin e.state.revoked
      BY ValidVerdict DEF Revoked
    <3>3. e.state.credentials[c].counter < r.counter
      BY <1>1, ValidVerdict DEF Metadata
    <3>4. ledger.served[c] <= e.state.credentials[c].counter
      BY <1>1, <3>1 DEF KeepsFloors
    <3> QED BY <1>1, <3>1, <3>2, <3>3, <3>4, LedgerNumbers
            DEF KeepsFloors, Metadata, Between
  <2>7. ledger.policy <= o.session.policyVersion
    BY <1>2, <2>2 DEF Between, FloorsHeld, Holds, KeepsFloors
  <2>8. Question.serial = issued /\ now < Question.due
    BY DEF Question, Between, SafeInv
  <2>9. /\ Lease' = o.session /\ Lease' # NoSession /\ o.session \in Gate!Lease
    BY <1>1, <2>1, <2>2, <2>4, LeaseFacts, TimeIsNat
       DEF EngineState, Session, Gate!Lease
  <2>10. Gate!Dropped
    BY <2>5 DEF Gate!Dropped, Question, Gate!NoQuestion
  <2>11. ledger'.served[c] = r.counter
    BY <1>1, <1>6 DEF Between, TypeOK, Ledger
  <2>12. issued' = issued
    BY <1>6 DEF Saves
  <2>13. Gate!Grant(eng'.lastNow, Lease', ledger'.served[Lease'.credentialId])
    <3>1. Gate!At(now)
      BY <2>5, AtStep
    <3>2. /\ Gate!At(now) /\ Question.serial = issued /\ eng.lastNow <= now
          /\ now < Question.due /\ c \in Credentials \ ledger.revoked
          /\ ledger.served[c] < r.counter /\ o.session.createdAt = now
          /\ now < o.session.expiresAt
          /\ ledger.policy <= o.session.policyVersion
          /\ Lease' = o.session /\ o.session \in Gate!Lease
          /\ o.session # NoSession /\ Gate!Dropped /\ r.counter \in Nat
          /\ ledger' = [ledger EXCEPT !.served[c] = r.counter]
          /\ issued' = issued
      BY <1>1, <1>6, <2>2, <2>3, <2>6, <2>7, <2>8, <2>9, <2>10, <2>12, <3>1
    <3> HIDE DEF c
    <3> QED BY <2>2, <2>5, <2>9, <2>11, <3>2 DEF Gate!Grant
  <2> QED BY <2>13 DEF Gate!Next
<1> QED BY <1>4, <1>5, <1>6
        DEF AcceptResponse, Saves, SaveFails, new, saved, o

(* An engine is healthy after a tick only if the clock did not go back.    *)
LEMMA TickClock ==
  ASSUME NEW e \in EngineState, NEW now \in Time, NEW p \in BOOLEAN,
         NEW r, r = Tick(e, now, p), r.healthy
  PROVE  e.lastNow <= now
<1> DEFINE a == CheckClock(e, now)
           b == CheckExpiry(a, now)
<1>1. e.lastNow \in Nat /\ now \in Nat
  BY TimeIsNat DEF EngineState
<1>2. a \in EngineState /\ (a.healthy => e.lastNow <= now)
  <2>1. CASE now < e.lastNow /\ e.healthy
    <3> DEFINE i == Invalidate(e, "DENY_SYSTEM_FAILURE", "NONE")
    <3>1. i \in EngineState
      BY InvalidateType DEF Decision, Denial, SessionState
    <3> HIDE DEF i
    <3> QED BY <2>1, <3>1 DEF CheckClock, EngineState, i
  <2>2. CASE ~(now < e.lastNow)
    BY <1>1, <2>2 DEF CheckClock, EngineState
  <2>3. CASE ~e.healthy
    BY <1>1, <2>3 DEF CheckClock, EngineState
  <2> QED BY <2>1, <2>2, <2>3
<1> HIDE DEF a
<1>3. b.healthy = a.healthy /\ b \in EngineState
  BY <1>2, InvalidateFields DEF CheckExpiry, Decision, Denial, SessionState
<1>4. r = Decide(b, now, p)
  BY DEF Tick, a
<1> HIDE DEF b
<1>5. r.healthy = b.healthy
  BY <1>3, <1>4 DEF Decide, EngineState
<1> QED BY <1>2, <1>3, <1>5

(* validateResponse() grants a lease, or lets time pass.                   *)
LEMMA ValidateResponseGrants ==
  ASSUME Between, NEW now \in Time, NEW r, r.counter \in Nat,
         r.credentialId \in Credentials \cup {NoId}, ValidateResponse(r, now)
  PROVE  Gate!Next
<1> DEFINE t        == Retick(eng, now)
           consumed == [t EXCEPT !.hasPending = FALSE]
           named    == [consumed EXCEPT !.attached = r.credentialId]
<1>1. /\ eng \in EngineState /\ t \in EngineState /\ OurState(t)
      /\ t.lastNow = now /\ Keeps(eng, t) /\ t.state = eng.state
      /\ t.challengeDeadline = eng.challengeDeadline
      /\ t.hasPending => eng.hasPending
  <2>1. eng \in EngineState /\ eng.pressed \in BOOLEAN
    BY DEF Between, TypeOK, EngineState
  <2> QED BY <2>1, RetickFacts, TickKeeps, TickFrame DEF Between, Retick
<1>2. t.healthy => eng.lastNow <= now
  BY <1>1, TickClock DEF EngineState, Retick
<1> HIDE DEF t
<1>3. /\ consumed \in EngineState /\ consumed.state = t.state
      /\ consumed.lastNow = now /\ ~consumed.hasPending
      /\ Keeps(eng, consumed)
  <2>1. consumed \in EngineState /\ ~consumed.hasPending
    BY <1>1 DEF EngineState
  <2>2. Keeps(t, consumed)
    BY <1>1, <2>1, ReplacedKeeps DEF EngineState
  <2> QED BY <1>1, <2>1, <2>2, KeepsOn DEF EngineState
<1> HIDE DEF consumed
<1>4. /\ named \in EngineState /\ named.state = t.state /\ named.lastNow = now
      /\ named.attached = r.credentialId /\ ~named.hasPending
  BY <1>3 DEF EngineState
<1> HIDE DEF named
<1>5. CASE eng' = consumed /\ EngineOnly
  BY <1>3, <1>5, PassStep DEF EngineOnly
<1>6. CASE eng' = Fault(named, now) /\ EngineOnly
  BY <1>4, <1>6, FaultWithdraws, WithdrawnPass DEF EngineOnly
<1>7. CASE /\ Admission(t, r, now) \in Denial /\ EngineOnly
           /\ eng' = Deny(consumed, Admission(t, r, now), now)
  BY <1>3, <1>7, DenyWithdraws, WithdrawnPass DEF EngineOnly, Decision
<1>8. CASE /\ Verdict(named, r) \in Denial /\ EngineOnly
           /\ eng' = Deny(named, Verdict(named, r), now)
  BY <1>4, <1>8, DenyWithdraws, WithdrawnPass DEF EngineOnly, Decision
<1>9. CASE /\ Admission(t, r, now) = "admitted"
           /\ Verdict(named, r) = "valid"
           /\ AcceptResponse(named, r.counter, now)
  <2>1. /\ t.healthy /\ r.credentialId # NoId
        /\ t.hasPending /\ ~(now >= t.challengeDeadline)
    BY <1>1, <1>9 DEF Admission, EngineState
  <2>2. now \in Nat /\ t.challengeDeadline \in Nat
    BY <1>1, TimeIsNat DEF EngineState
  <2>3. named.state.deviceId = "this" /\ now < eng.challengeDeadline
    BY <1>1, <1>4, <2>1, <2>2 DEF OurState
  <2> QED BY <1>1, <1>2, <1>4, <1>9, <2>1, <2>3, AcceptResponseGrants
<1> QED BY <1>5, <1>6, <1>7, <1>8, <1>9
        DEF ValidateResponse, t, consumed, named

(* What is accepted was never vouched for before.                          *)
LEMMA NewerThanRecord ==
  ASSUME Between, NEW new \in PersistentState, Decodable(new),
         new.deviceId = eng.state.deviceId
  PROVE  /\ KeepsFloors(eng.state) /\ eng.state \in PersistentState
         /\ eng.state.policy.version \in Nat /\ eng.state.crl.version \in Nat
         /\ ledger \in Ledger /\ ledger.policy \in Nat /\ ledger.crl \in Nat
         /\ \A c \in Credentials :
              /\ ledger.metadata[c] \in Nat
              /\ eng.state.credentials[c].metadataVersion \in Nat
<1>1. eng.state \in PersistentState /\ eng.state.deviceId # "none"
  BY DEF Between, TypeOK, EngineState, Decodable
<1> QED BY <1>1, SnapshotNumbers, LedgerNumbers
        DEF Between, FloorsHeld, Holds

(* updatePolicy() accepts a newer policy, or lets time pass.               *)
LEMMA UpdatePolicyAccepts ==
  ASSUME Between, NEW now \in Time, NEW p \in Policies, UpdatePolicy(p, now)
  PROVE  Gate!Next
<1> DEFINE new   == [eng.state EXCEPT !.policy = p]
           saved == [eng EXCEPT !.state = new]
<1>1. eng \in EngineState /\ eng.state \in PersistentState /\ p \in Policy
  BY ConstantTypes DEF Between, TypeOK, EngineState
<1>2. new \in PersistentState /\ new.deviceId = eng.state.deviceId
  BY <1>1 DEF PersistentState
<1>3. CASE EngineOnly /\ (eng' = Fault(eng, now) \/ eng' = Rollback(eng, now))
  BY <1>1, <1>3, FaultWithdraws, RollbackWithdraws, WithdrawnPass DEF EngineOnly
<1>4. CASE SaveFails(eng, new, now)
  BY <1>1, <1>4, SaveFailsPass
<1>5. CASE /\ Saves(new) /\ p.version > eng.state.policy.version
           /\ eng' = Retick(RequireReauthentication(saved), now)
           /\ ledger' = [ledger EXCEPT !.policy = p.version]
  <2>1. saved \in EngineState
    BY <1>1, <1>2, StateReplaced
  <2>2. Idle(eng')
    BY <1>5, <2>1, InvalidateTick
       DEF RequireReauthentication, Withdrawn, Decision, Denial, SessionState
  <2>3. /\ ledger.policy <= eng.state.policy.version
        /\ eng.state.policy.version \in Nat
        /\ ledger \in Ledger /\ ledger.policy \in Nat
    BY <1>2, <1>5, NewerThanRecord DEF Saves, KeepsFloors
  <2>5. p.version > ledger.policy /\ p.version \in Nat
    BY <1>1, <1>5, <2>3 DEF Policy
  <2>6. ledger'.policy = p.version
    BY <1>5, <2>3 DEF Ledger
  <2>4. Gate!AcceptPolicy(eng'.lastNow, ledger'.policy)
    BY <1>5, <2>2, <2>5, <2>6, AtStep, IdleStep DEF Gate!AcceptPolicy, Saves
  <2> QED BY <2>4 DEF Gate!Next
<1> QED BY <1>3, <1>4, <1>5 DEF UpdatePolicy, SavePolicy, Saves

(* updateCredential() accepts newer metadata, or lets time pass.           *)
LEMMA UpdateCredentialAccepts ==
  ASSUME Between, NEW now \in Time, NEW c \in Credentials, NEW m \in Metadata,
         UpdateCredential(c, m, now)
  PROVE  Gate!Next
<1> DEFINE old   == eng.state.credentials[c]
           new   == [eng.state EXCEPT !.credentials[c] = Merged(old, m)]
           saved == [eng EXCEPT !.state = new]
<1>1. eng \in EngineState /\ eng.state \in PersistentState /\ old \in Metadata
  BY DEF Between, TypeOK, EngineState, PersistentState
<1>2. new \in PersistentState /\ new.deviceId = eng.state.deviceId
  BY <1>1, MergedType DEF PersistentState
<1> HIDE DEF new
<1>3. CASE EngineOnly /\ (eng' = Fault(eng, now) \/ eng' = Rollback(eng, now))
  BY <1>1, <1>3, FaultWithdraws, RollbackWithdraws, WithdrawnPass DEF EngineOnly
<1>4. CASE SaveFails(eng, new, now)
  BY <1>1, <1>4, SaveFailsPass
<1>5. CASE /\ Saves(new) /\ ValidMetadata(m)
           /\ ~(Known(eng.state, c) /\ m.metadataVersion <= old.metadataVersion)
           /\ eng' = Retick(IF eng.attached = c
                            THEN RequireReauthentication(saved) ELSE saved, now)
           /\ ledger' = [ledger EXCEPT !.metadata[c] = m.metadataVersion]
  <2>1. /\ saved \in EngineState /\ saved.attached = eng.attached
        /\ Keeps(eng, saved)
    <3>1. saved \in EngineState
      BY <1>1, <1>2, StateReplaced
    <3> QED BY <1>1, <3>1, ReplacedKeeps DEF EngineState
  <2> HIDE DEF saved
  <2>2. /\ ledger.metadata[c] <= old.metadataVersion
        /\ old.metadataVersion \in Nat
        /\ ledger \in Ledger /\ ledger.metadata[c] \in Nat
    BY <1>2, <1>5, NewerThanRecord DEF Saves, KeepsFloors
  <2>3. m.metadataVersion > ledger.metadata[c] /\ m.metadataVersion \in Nat
    BY <1>5, <2>2 DEF Known, ValidMetadata, Metadata
  <2>4. ledger'.metadata[c] = m.metadataVersion
    BY <1>5, <2>2 DEF Ledger
  <2>5. CASE eng.attached = c
    <3>1. Idle(eng')
      BY <1>5, <2>1, <2>5, InvalidateTick
         DEF RequireReauthentication, Withdrawn, Decision, Denial, SessionState
    <3>2. /\ Gate!At(eng'.lastNow) /\ Gate!Ended /\ Gate!DroppedOrKept
      BY <3>1, AtStep, IdleStep, EndsOrStands
    <3>3. Gate!AcceptMetadata(eng'.lastNow, c, ledger'.metadata[c])
      BY <1>5, <2>3, <2>4, <3>2 DEF Gate!AcceptMetadata, Saves
    <3> QED BY <3>3 DEF Gate!Next
  <2>6. CASE eng.attached # c
    <3>1. saved.pressed \in BOOLEAN
      BY <2>1 DEF EngineState
    <3>2. eng' = Tick(saved, now, saved.pressed)
      BY <1>5, <2>6 DEF Retick
    <3>3. eng'.attached = eng.attached /\ Keeps(eng, eng')
      BY <1>1, <2>1, <3>1, <3>2, TickFrame, TickKeeps, KeepsOn, TickType
    <3>4. eng'.sessionState = "ACTIVE" => eng'.session.credentialId # c
      BY <2>6, <3>3, LeaseFacts DEF Backed, SessionBound
    <3>5. /\ Gate!At(eng'.lastNow) /\ Gate!DroppedOrKept
          /\ Gate!Ended \/ (Gate!StandsOn(eng'.lastNow) /\ Lease.credentialId # c)
      BY <3>3, <3>4, AtStep, EndsOrStands DEF Gate!StandsOn, Gate!Ended, Lease
    <3>6. Gate!AcceptMetadata(eng'.lastNow, c, ledger'.metadata[c])
      BY <1>5, <2>3, <2>4, <3>5 DEF Gate!AcceptMetadata, Saves
    <3> QED BY <3>6 DEF Gate!Next
  <2> QED BY <2>5, <2>6
<1> QED BY <1>3, <1>4, <1>5 DEF UpdateCredential, SaveMetadata, new, saved

(* applyRevocationList() accepts a newer list, or lets time pass.          *)
LEMMA ApplyRevocationListAccepts ==
  ASSUME Between, NEW now \in Time, NEW l \in RevocationLists,
         ApplyRevocationList(l, now)
  PROVE  Gate!Next
<1> DEFINE new == [eng.state EXCEPT !.crl = l, !.revoked = @ \cup l.entries]
           e   == [eng EXCEPT !.state = new, !.hasPending = FALSE]
<1>1. /\ eng \in EngineState /\ eng.state \in PersistentState
      /\ l \in RevocationList
  BY ConstantTypes DEF Between, TypeOK, EngineState
<1>2. /\ new \in PersistentState /\ new.deviceId = eng.state.deviceId
      /\ l.entries \subseteq new.revoked
  BY <1>1 DEF PersistentState, RevocationList
<1> HIDE DEF new
<1>3. CASE EngineOnly /\ (eng' = Fault(eng, now) \/ eng' = Rollback(eng, now))
  BY <1>1, <1>3, FaultWithdraws, RollbackWithdraws, WithdrawnPass DEF EngineOnly
<1>4. CASE SaveFails(eng, new, now)
  BY <1>1, <1>4, SaveFailsPass
<1>5. CASE /\ Saves(new) /\ l.version > eng.state.crl.version
           /\ eng' = EnforceRevocation(e, now)
           /\ ledger' = [ledger EXCEPT !.crl = l.version,
                                       !.revoked = @ \cup l.entries]
  <2>1. e \in EngineState /\ ~e.hasPending /\ Keeps(eng, e)
    <3>1. e \in EngineState /\ ~e.hasPending
      BY <1>1, <1>2 DEF EngineState
    <3> QED BY <1>1, <3>1, ReplacedKeeps DEF EngineState
  <2> HIDE DEF e
  <2>2. ~eng'.hasPending /\ Keeps(eng, eng')
    <3> DEFINE d == Deny(e, "DENY_CREDENTIAL_REVOKED", now)
    <3>1. /\ e.pressed \in BOOLEAN
          /\ d \in EngineState /\ d.pressed \in BOOLEAN /\ Idle(d)
      BY <2>1, DenyWithdraws DEF Withdrawn, EngineState, Decision, Denial
    <3> HIDE DEF d
    <3>2. CASE eng' = Tick(e, now, e.pressed)
      BY <1>1, <2>1, <3>1, <3>2, TickFrame, TickKeeps, KeepsOn, TickType
    <3>3. CASE eng' = Tick(d, now, d.pressed)
      <4>1. Idle(eng')
        BY <3>1, <3>3, IdleTick DEF Withdrawn, Retick
      <4> QED BY <4>1, IdleKeeps DEF Idle
    <3> QED BY <1>5, <3>2, <3>3 DEF EnforceRevocation, Retick, d
  <2>3. /\ ledger.crl <= eng.state.crl.version /\ eng.state.crl.version \in Nat
        /\ ledger \in Ledger /\ ledger.crl \in Nat
    BY <1>2, <1>5, NewerThanRecord DEF Saves, KeepsFloors
  <2>4. l.version > ledger.crl /\ l.version \in Nat
    BY <1>1, <1>5, <2>3 DEF RevocationList
  <2>5. /\ ledger'.crl = l.version
        /\ ledger'.revoked = ledger.revoked \cup l.entries
        /\ ledger'.revoked \subseteq Credentials
        /\ ledger' = [ledger EXCEPT !.crl = ledger'.crl,
                                    !.revoked = @ \cup ledger'.revoked]
    BY <1>1, <1>5, <2>3 DEF Ledger, RevocationList
  <2>6. eng'.sessionState = "ACTIVE" =>
          eng'.session.credentialId \notin ledger'.revoked
    <3>1. ASSUME eng'.sessionState = "ACTIVE"
          PROVE  /\ eng'.session.credentialId \notin eng'.state.revoked
                 /\ eng'.state.deviceId = "this"
      BY <3>1, LeaseFacts DEF Backed, SessionBound, Revoked
    <3> QED BY <3>1 DEF Between, FloorsHeld, Holds, KeepsFloors
  <2>7. /\ Gate!At(eng'.lastNow) /\ Gate!Dropped
        /\ \/ Gate!Ended
           \/ /\ Gate!StandsOn(eng'.lastNow)
              /\ Lease.credentialId \notin ledger'.revoked
    <3>1. Gate!Dropped
      BY <2>2 DEF Gate!Dropped, Question, Gate!NoQuestion
    <3> QED BY <2>2, <2>6, <3>1, AtStep, EndsOrStands
            DEF Gate!StandsOn, Gate!Ended, Lease
  <2>8. Gate!AcceptList(eng'.lastNow, ledger'.crl, ledger'.revoked)
    BY <1>5, <2>4, <2>5, <2>7 DEF Gate!AcceptList, Saves
  <2> QED BY <2>8 DEF Gate!Next
<1> QED BY <1>3, <1>4, <1>5
        DEF ApplyRevocationList, SaveRevocationList, new, e

(* setDeviceStatus() ends the lease.                                       *)
LEMMA SetDeviceStatusPass ==
  ASSUME Between, NEW now \in Time, NEW status, SetDeviceStatus(status, now)
  PROVE  Gate!Next
<1> DEFINE new   == [eng.state EXCEPT !.deviceStatus = status]
           saved == [eng EXCEPT !.state = new]
<1>1. eng \in EngineState /\ eng.state \in PersistentState
  BY DEF Between, TypeOK, EngineState
<1>2. CASE EngineOnly /\ eng' = Fault(eng, now)
  BY <1>1, <1>2, FaultWithdraws, WithdrawnPass DEF EngineOnly
<1>3. CASE SaveFails(eng, new, now)
  BY <1>1, <1>3, SaveFailsPass
<1>4. CASE /\ status \in Status /\ Saves(new) /\ ledger' = ledger
           /\ \/ eng' = Retick(RequireReauthentication(saved), now)
              \/ eng' = Retick(Invalidate(saved, "DENY_DEVICE_REVOKED",
                                          "REVOKED"), now)
  <2>1. saved \in EngineState
    <3>1. new \in PersistentState
      BY <1>1, <1>4 DEF PersistentState
    <3> QED BY <1>1, <3>1, StateReplaced
  <2> HIDE DEF saved
  <2>2. Withdrawn(saved, eng')
    BY <1>4, <2>1, InvalidateTick
       DEF RequireReauthentication, Decision, Denial, SessionState
  <2> QED BY <1>4, <2>1, <2>2, WithdrawnPass DEF Saves
<1> QED BY <1>2, <1>3, <1>4 DEF SetDeviceStatus, new, saved

-----------------------------------------------------------------------------
(* Every step is a step of the gate, one method at a time.                 *)
LEMMA StepsRefine == ASSUME Between, Next PROVE Gate!Next
<1>1. CASE PowerCycle
  <2>1. Keeps(eng, eng')
    BY <1>1, IdleKeeps DEF PowerCycle, PoweredOn, Idle
  <2> QED BY <1>1, <2>1, PassStep DEF PowerCycle, EngineOnly
<1>2. ASSUME NEW now \in Time, Calls(now) PROVE Gate!Next
  <2>1. CASE Recover(now)
    BY <2>1, RecoverPass
  <2>2. CASE \E pressed \in BOOLEAN : Service(now, pressed)
    BY <2>2, ServicePass
  <2>3. CASE ReportFault(now)
    BY <2>3, FaultWithdraws, WithdrawnPass
       DEF ReportFault, EngineOnly, Between, TypeOK
  <2>4. CASE Detach(now)
    BY <2>4, DetachPass
  <2>5. CASE BeginChallenge(now)
    BY <2>5, BeginChallengeAsks
  <2>6. CASE \E a \in Answers, n \in 0..issued :
               ValidateResponse(Challenged(a, n), now)
    BY <2>6, ChallengedType, ValidateResponseGrants DEF Between
  <2>7. CASE \E p \in Policies : UpdatePolicy(p, now)
    BY <2>7, UpdatePolicyAccepts
  <2>8. CASE \E u \in MetadataUpdates : UpdateCredential(u[1], u[2], now)
    BY <2>8, ConstantTypes, UpdateCredentialAccepts
  <2>9. CASE \E l \in RevocationLists : ApplyRevocationList(l, now)
    BY <2>9, ApplyRevocationListAccepts
  <2>10. CASE \E s1 \in Status \cup {OutOfRange} : SetDeviceStatus(s1, now)
    BY <2>10, SetDeviceStatusPass
  <2> QED BY <1>2, <2>1, <2>2, <2>3, <2>4, <2>5, <2>6, <2>7, <2>8, <2>9, <2>10
          DEF Calls
<1> QED BY <1>1, <1>2 DEF Next

(* The engine as constructed is the gate before its first question.        *)
LEMMA InitRefines == Init => Gate!Init
BY DEF Init, PoweredOn, EmptyLedger, Gate!Init, Gate!NoQuestion, Lease, Question

(* The engine implements the gate: whatever the order of its calls, the    *)
(* failures of its store and its power cycles, nobody who watches leases,  *)
(* questions, decisions and accepted updates can tell it from the gate.    *)
THEOREM EngineImplementsGate == Spec => GateSpec
<1>1. /\ TypeOK /\ SafeInv /\ FloorsHeld
      /\ (TypeOK /\ SafeInv /\ FloorsHeld)' /\ [Next]_vars
      => [Gate!Next]_(Gate!gateVars)
  <2> SUFFICES ASSUME Between, [Next]_vars
               PROVE  Gate!Next \/ UNCHANGED Gate!gateVars
    BY DEF Between
  <2>1. CASE UNCHANGED vars
    BY <2>1 DEF vars, Gate!gateVars, Lease, Question
  <2>2. CASE Next
    BY <2>2, StepsRefine
  <2> QED BY <2>1, <2>2
<1> QED BY <1>1, InitRefines, SafeAlways, FloorsAlways, PTL
        DEF Spec, GateSpec, Gate!Spec

GateFacts == INSTANCE AuthGateProofs
               WITH Holders  <- Credentials,
                    Owners   <- Operators \cup {NoId},
                    NoLease  <- NoSession,
                    lease    <- Lease,
                    question <- Question,
                    asked    <- issued,
                    clock    <- eng.lastNow,
                    open     <- eng.lastDecision = "ALLOW_TX",
                    record   <- ledger

(* What implements the gate holds its leases in force.                     *)
LEMMA GateKeepsLeases == GateSpec => []LeaseInForce
<1>1. GateFacts!Spec =>
        [](GateFacts!InForce
             /\ (eng.lastDecision = "ALLOW_TX" => Lease # NoSession))
  BY GateFacts!LeasesAreInForce
<1>2. Gate!Init <=> GateFacts!Init
  BY DEF Gate!Init, GateFacts!Init, Gate!NoQuestion, GateFacts!NoQuestion
<1>3. [Gate!Next]_(Gate!gateVars) <=> [GateFacts!Next]_(GateFacts!gateVars)
  BY DEF Gate!Next, GateFacts!Next, Gate!Pass, GateFacts!Pass, Gate!Ask,
         GateFacts!Ask, Gate!Grant, GateFacts!Grant,
         Gate!AcceptPolicy, GateFacts!AcceptPolicy,
         Gate!AcceptMetadata, GateFacts!AcceptMetadata,
         Gate!AcceptList, GateFacts!AcceptList, Gate!At,
         GateFacts!At, Gate!Ended, GateFacts!Ended, Gate!StandsOn,
         GateFacts!StandsOn, Gate!Dropped, GateFacts!Dropped,
         Gate!DroppedOrKept, GateFacts!DroppedOrKept,
         Gate!NoQuestion, GateFacts!NoQuestion, Gate!Lease,
         GateFacts!Lease, Gate!gateVars, GateFacts!gateVars
<1>4. Gate!InForce <=> GateFacts!InForce
  BY DEF Gate!InForce, GateFacts!InForce, Gate!NoQuestion, GateFacts!NoQuestion
<1> QED BY <1>1, <1>2, <1>3, <1>4, PTL
        DEF GateSpec, LeaseInForce, Gate!Spec, GateFacts!Spec

(* A session is never older than the policy last accepted, nor held by a   *)
(* credential an accepted list names; nobody transmits without one.        *)
THEOREM LeasesStayInForce == Spec => []LeaseInForce
BY EngineImplementsGate, GateKeepsLeases, PTL

=============================================================================
