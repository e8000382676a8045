-------------------------- MODULE HermesEngineGate --------------------------
(***************************************************************************)
(* The engine implements the gate: the refinement mapping.  A lease is an  *)
(* ACTIVE session, the question the pending challenge, and the gate is     *)
(* open while the last decision is ALLOW_TX.                               *)
(***************************************************************************)
EXTENDS HermesEngine

Lease == IF eng.sessionState = "ACTIVE" THEN eng.session ELSE NoSession

Question == IF eng.hasPending
            THEN [serial |-> eng.pending, due |-> eng.challengeDeadline]
            ELSE [serial |-> 0, due |-> 0]

Gate == INSTANCE AuthGate
          WITH Holders  <- Credentials,
               Owners   <- Operators \cup {NoId},
               NoLease  <- NoSession,
               lease    <- Lease,
               question <- Question,
               asked    <- issued,
               clock    <- eng.lastNow,
               open     <- eng.lastDecision = "ALLOW_TX",
               record   <- ledger

(* Every method of the engine, whatever it does to its store, its health   *)
(* and its memory, is one step of the gate or none: a session opens on a   *)
(* fresh answer to the last challenge, outlives no update accepted against *)
(* it, and never comes back; transmission is granted under it alone.       *)
GateSpec == Gate!Spec

(* What that comes to: a session outlives neither a newer policy whose     *)
(* update was reported as done, nor a list that names its credential, and  *)
(* transmission is granted under such a session only.                      *)
LeaseInForce ==
  Gate!InForce /\ (eng.lastDecision = "ALLOW_TX" => Lease # NoSession)

=============================================================================
