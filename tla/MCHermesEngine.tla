--------------------------- MODULE MCHermesEngine ---------------------------
(***************************************************************************)
(* Values for the constants of HermesEngine.  g1 and g2 are two gloves,    *)
(* k1 and k2 their keys, k3 a rotated key the KeyStore has not been given, *)
(* op an operator.                                                         *)
(***************************************************************************)
EXTENDS HermesEngineGate

CONSTANTS g1, g2, k1, k2, k3, op, none

GloveMeta(key, status, counter, bound, version) ==
  [operatorId |-> op, keyId |-> key, status |-> status, counter |-> counter,
   bound |-> bound, metadataVersion |-> version]

PolicyOf(version, mode, binding, emergency, challenge, session) ==
  [version |-> version, sessionTimeout |-> session,
   challengeTimeout |-> challenge, bindingMode |-> binding,
   mode |-> mode, emergencyEnabled |-> emergency]

Answer(c, k, n) == [credentialId |-> c, keyId |-> k, counter |-> n]

List(version, entries, genuine) ==
  [version |-> version, entries |-> entries, genuine |-> genuine]

(* A provisioned device: g1 registered, everything in service.             *)
Fresh ==
  [BlankState EXCEPT
     !.deviceId = "this",
     !.credentials[g1] = GloveMeta(k1, "Active", 0, TRUE, 1)]

None == {}
KeysOfBoth == {<<g1, k1>>, <<g2, k2>>}

-----------------------------------------------------------------------------
(* Protocol: one glove, several challenges, counters in any order, faults, *)
(* power cycles, and a clock that may go back or reach its end.            *)
ProtocolProvisioned == {Fresh}
ProtocolAnswers == {Answer(g1, k1, n) : n \in 0..2}
ProtocolKeys == {<<g1, k1>>}

-----------------------------------------------------------------------------
(* Policy updates under a running session: a newer policy of every mode,   *)
(* the same version again, and a malformed one; a glove to register with   *)
(* no place left, and metadata without a version.                          *)
PolicyUpdates ==
  {PolicyOf(1, "NORMAL", "AllowList", FALSE, 1, 1),
   PolicyOf(2, "DEGRADED", "AllowList", TRUE, 1, 1),
   PolicyOf(3, "REVOKED", "AllowList", FALSE, 1, 1),
   PolicyOf(4, "NORMAL", "Disabled", FALSE, 1, 1),
   PolicyOf(5, "NORMAL", "AllowList", FALSE, 1, 0)}

LateGlove ==
  {<<g2, GloveMeta(k2, "Active", 0, TRUE, 1)>>,
   <<g1, GloveMeta(k1, "Active", 0, TRUE, 0)>>}

PolicyAnswers == {Answer(g1, k1, 1)}

-----------------------------------------------------------------------------
(* Credential metadata: g1 revoked, put back and given a key the KeyStore  *)
(* does not hold; g2 registered under g1's key, while g1 has it and after. *)
MetadataSteps ==
  {<<g1, GloveMeta(k1, "Revoked", 0, TRUE, 2)>>,
   <<g1, GloveMeta(k3, "Active", 0, TRUE, 3)>>,
   <<g2, GloveMeta(k1, "Active", 0, TRUE, 1)>>}

MetadataAnswers == {Answer(g1, k1, 1), Answer(g1, k3, 1)}

-----------------------------------------------------------------------------
(* Revocation lists: forged, old, shorter than the one before, and longer  *)
(* than the store has room for.                                            *)
ListsIssued ==
  {List(1, {g1}, TRUE), List(2, {}, TRUE), List(3, {g1, g2}, TRUE),
   List(3, {}, FALSE)}

RevocationAnswers == {Answer(g1, k1, 1)}

=============================================================================
