--------------------------- MODULE AuthGateProofs ---------------------------
(***************************************************************************)
(* What the gate's promises come to.                                       *)
(***************************************************************************)
EXTENDS AuthGate, TLAPS

GateInv == /\ GateTypeOK
           /\ InForce
           /\ open => lease # NoLease

(* A step that lets the lease stand, and accepts nothing against it, keeps *)
(* it in force.                                                            *)
LEMMA StandsInForce ==
  ASSUME GateInv, NEW now, At(now), StandsOn(now), DroppedOrKept,
         record' \in Record, record'.policy = record.policy,
         record'.served = record.served,
         lease.credentialId \notin record'.revoked
  PROVE  InForce'
<1>1. lease.createdAt \in Nat /\ clock \in Nat /\ now \in Nat
  BY DEF GateInv, GateTypeOK, StandsOn, Lease, At
<1> QED BY <1>1 DEF GateInv, InForce, StandsOn, At, DroppedOrKept

(* The types, kept by every step.                                          *)
LEMMA GateTypes == ASSUME GateTypeOK, Next PROVE GateTypeOK'
<1>1. NoQuestion \in [serial : Nat, due : Nat]
  BY DEF NoQuestion
<1>2. CASE Pass(clock')
  BY <1>1, <1>2 DEF Pass, At, Ended, StandsOn, DroppedOrKept, GateTypeOK
<1>3. CASE Ask(clock', question'.due)
  BY <1>3 DEF Ask, At, Ended, GateTypeOK
<1>4. CASE Grant(clock', lease', record'.served[lease'.credentialId])
  BY <1>1, <1>4 DEF Grant, At, Dropped, GateTypeOK, Record
<1>5. CASE AcceptPolicy(clock', record'.policy)
  BY <1>1, <1>5 DEF AcceptPolicy, At, Ended, Dropped, GateTypeOK, Record
<1>6. CASE \E c \in Holders : AcceptMetadata(clock', c, record'.metadata[c])
  BY <1>1, <1>6 DEF AcceptMetadata, At, Ended, StandsOn, DroppedOrKept,
                    GateTypeOK, Record
<1>7. CASE AcceptList(clock', record'.crl, record'.revoked)
  BY <1>1, <1>7 DEF AcceptList, At, Ended, StandsOn, Dropped, GateTypeOK, Record
<1> QED BY <1>2, <1>3, <1>4, <1>5, <1>6, <1>7 DEF Next

(* Every step keeps the lease in force or ends it.                         *)
LEMMA GateSteps == ASSUME GateInv, Next PROVE GateInv'
<1>1. GateTypeOK /\ GateTypeOK'
  BY GateTypes DEF GateInv
<1>2. CASE Pass(clock')
  <2>1. InForce'
    BY <1>1, <1>2, StandsInForce DEF Pass, Ended, InForce, GateTypeOK, GateInv,
                                     StandsOn
  <2> QED BY <1>1, <1>2, <2>1 DEF Pass, At, GateInv
<1>3. CASE Ask(clock', question'.due)
  BY <1>1, <1>3 DEF Ask, At, Ended, InForce, GateInv
<1>4. CASE Grant(clock', lease', record'.served[lease'.credentialId])
  <2>1. /\ lease' \in Lease /\ lease'.credentialId \in Holders \ record.revoked
        /\ record'.revoked = record.revoked /\ record'.policy = record.policy
        /\ record.served[lease'.credentialId] \in Nat
    BY <1>1, <1>4 DEF Grant, GateTypeOK, Record
  <2>2. record'.served[lease'.credentialId] > 0
    BY <1>4, <2>1 DEF Grant
  <2>3. InForce'
    BY <1>1, <1>4, <2>1, <2>2 DEF Grant, At, Dropped, InForce, NoQuestion,
                                  GateTypeOK
  <2> QED BY <1>1, <1>4, <2>3 DEF Grant, At, GateInv
<1>5. CASE AcceptPolicy(clock', record'.policy)
  BY <1>1, <1>5 DEF AcceptPolicy, At, Ended, InForce, GateInv
<1>6. CASE \E c \in Holders : AcceptMetadata(clock', c, record'.metadata[c])
  <2>1. PICK c \in Holders : AcceptMetadata(clock', c, record'.metadata[c])
    BY <1>6
  <2>2. /\ record'.policy = record.policy /\ record'.served = record.served
        /\ record'.revoked = record.revoked
    BY <1>1, <2>1 DEF AcceptMetadata, GateTypeOK, Record
  <2>3. StandsOn(clock') => lease.credentialId \notin record'.revoked
    BY <2>2 DEF StandsOn, GateInv, InForce
  <2>4. InForce'
    BY <1>1, <2>1, <2>2, <2>3, StandsInForce
       DEF AcceptMetadata, Ended, InForce, GateTypeOK
  <2> QED BY <1>1, <2>1, <2>4 DEF AcceptMetadata, At, GateInv
<1>7. CASE AcceptList(clock', record'.crl, record'.revoked)
  <2>1. /\ record'.policy = record.policy /\ record'.served = record.served
    BY <1>1, <1>7 DEF AcceptList, GateTypeOK, Record
  <2>2. InForce'
    BY <1>1, <1>7, <2>1, StandsInForce
       DEF AcceptList, Ended, InForce, GateTypeOK, Dropped, DroppedOrKept
  <2> QED BY <1>1, <1>7, <2>2 DEF AcceptList, At, GateInv
<1> QED BY <1>2, <1>3, <1>4, <1>5, <1>6, <1>7 DEF Next

(* Whatever implements the gate holds only leases in force, and opens only *)
(* under one.                                                              *)
THEOREM LeasesAreInForce == Spec => [](InForce /\ (open => lease # NoLease))
<1>1. Init => GateInv
  BY DEF Init, GateInv, GateTypeOK, InForce, Record, NoQuestion
<1>2. GateInv /\ [Next]_gateVars => GateInv'
  <2>1. GateInv /\ UNCHANGED gateVars => GateInv'
    BY DEF GateInv, GateTypeOK, InForce, gateVars
  <2> QED BY <2>1, GateSteps
<1>3. GateInv => InForce /\ (open => lease # NoLease)
  BY DEF GateInv
<1> QED BY <1>1, <1>2, <1>3, PTL DEF Spec

=============================================================================
