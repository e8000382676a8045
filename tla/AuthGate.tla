------------------------------ MODULE AuthGate ------------------------------
(***************************************************************************)
(* What one PTT promises about transmission, told without its store, its   *)
(* health, its metadata or its messages.                                   *)
(*                                                                         *)
(* The gate is open only under a lease.  A lease is granted in answer to   *)
(* the one question outstanding, in time, to a credential that is not      *)
(* barred, on a counter above every counter that credential was granted a  *)
(* lease on before.  It ends with its time, with a clock that goes back,   *)
(* with the next question, and with whatever is accepted against it; it    *)
(* may be withdrawn at any moment, and nothing ever brings it back.        *)
(***************************************************************************)
EXTENDS Naturals

CONSTANTS Holders,   \* who a lease may be granted to
          Owners,    \* in whose name
          NoLease

Lease == [credentialId : Holders, operatorId : Owners,
          createdAt : Nat, expiresAt : Nat, policyVersion : Nat]

Record == [policy : Nat, crl : Nat, metadata : [Holders -> Nat],
           revoked : SUBSET Holders, served : [Holders -> Nat]]

VARIABLES
  lease,     \* the lease that stands, or NoLease
  question,  \* [serial, due] of the question outstanding; serial 0 is none
  asked,     \* questions asked so far
  clock,     \* the time of the last step
  open,      \* may the gate's owner transmit
  record     \* what was accepted and granted so far, whatever happens to power

gateVars == <<lease, question, asked, clock, open, record>>

NoQuestion == [serial |-> 0, due |-> 0]

Init == /\ lease = NoLease
        /\ question = NoQuestion
        /\ asked = 0
        /\ clock = 0
        /\ open = FALSE
        /\ record = [policy |-> 0, crl |-> 0, metadata |-> [c \in Holders |-> 0],
                     revoked |-> {}, served |-> [c \in Holders |-> 0]]

(* A step at time now, after which the gate is open only under a lease.    *)
At(now) == now \in Nat /\ clock' = now /\ (open' => lease' # NoLease)

Ended == lease' = NoLease

(* The lease stands on: its time is not over, and time did not go back.    *)
StandsOn(now) ==
  lease # NoLease /\ lease' = lease /\ clock <= now /\ now < lease.expiresAt

Dropped == question' = NoQuestion

DroppedOrKept == question' \in {question, NoQuestion}

(* Time passes, the button moves, a fault, a refusal, a power cycle.       *)
Pass(now) ==
  /\ At(now)
  /\ Ended \/ StandsOn(now)
  /\ DroppedOrKept
  /\ UNCHANGED <<asked, record>>

(* A question ends the lease, and replaces the question before it.         *)
Ask(now, due) ==
  /\ At(now)
  /\ Ended
  /\ asked' = asked + 1
  /\ question' = [serial |-> asked + 1, due |-> due] /\ due \in Nat
  /\ UNCHANGED record

(* The answer to the last question asked, in time (nothing is in time for  *)
(* NoQuestion), on a fresh counter.                                        *)
Grant(now, given, counter) ==
  LET c == given.credentialId
  IN  /\ At(now)
      /\ question.serial = asked /\ now < question.due /\ clock <= now
      /\ c \in Holders \ record.revoked
      /\ counter \in Nat /\ record.served[c] < counter
      /\ given.createdAt = now /\ now < given.expiresAt
      /\ record.policy <= given.policyVersion
      /\ lease' = given /\ given \in Lease /\ given # NoLease
      /\ Dropped
      /\ record' = [record EXCEPT !.served[c] = counter]
      /\ UNCHANGED asked

(* A newer policy ends every lease.                                        *)
AcceptPolicy(now, version) ==
  /\ At(now)
  /\ version \in Nat /\ record.policy < version
  /\ Ended /\ Dropped
  /\ record' = [record EXCEPT !.policy = version]
  /\ UNCHANGED asked

(* Newer metadata ends the lease of the credential it is about.            *)
AcceptMetadata(now, c, version) ==
  /\ At(now)
  /\ version \in Nat /\ record.metadata[c] < version
  /\ Ended \/ (StandsOn(now) /\ lease.credentialId # c)
  /\ DroppedOrKept
  /\ record' = [record EXCEPT !.metadata[c] = version]
  /\ UNCHANGED asked

(* A newer list bars its credentials for ever, and drops the question.     *)
AcceptList(now, version, barred) ==
  /\ At(now)
  /\ version \in Nat /\ record.crl < version
  /\ barred \subseteq Holders
  /\ Ended \/ (StandsOn(now) /\ lease.credentialId \notin barred)
  /\ Dropped
  /\ record' = [record EXCEPT !.crl = version, !.revoked = @ \cup barred]
  /\ UNCHANGED asked

(* A step's arguments are read off what it does.                           *)
Next ==
  \/ Pass(clock')
  \/ Ask(clock', question'.due)
  \/ Grant(clock', lease', record'.served[lease'.credentialId])
  \/ AcceptPolicy(clock', record'.policy)
  \/ \E c \in Holders : AcceptMetadata(clock', c, record'.metadata[c])
  \/ AcceptList(clock', record'.crl, record'.revoked)

Spec == Init /\ [][Next]_gateVars

-----------------------------------------------------------------------------
GateTypeOK == /\ lease \in Lease \cup {NoLease}
              /\ question \in [serial : Nat, due : Nat]
              /\ asked \in Nat /\ clock \in Nat
              /\ record \in Record

(* A lease that stands is in force: in its time, alone, on no policy older *)
(* than the last one accepted, held by a credential no accepted list bars, *)
(* on the last counter that credential was granted anything on.            *)
InForce ==
  lease # NoLease =>
    /\ question = NoQuestion /\ lease.credentialId \notin record.revoked
    /\ lease.createdAt <= clock /\ clock < lease.expiresAt
    /\ record.policy <= lease.policyVersion
    /\ record.served[lease.credentialId] > 0

=============================================================================
