-------------------------- MODULE MCHermesProtocol --------------------------
(***************************************************************************)
(* Values for the constants of HermesProtocol: one registered glove, the   *)
(* fixture's state on both sides.                                          *)
(***************************************************************************)
EXTENDS HermesProtocol

CONSTANTS g1, k1, op, none

Registered ==
  {[BlankState EXCEPT
      !.deviceId = "this",
      !.credentials[g1] =
         [operatorId |-> op, keyId |-> k1, status |-> "Active",
          counter |-> 0, bound |-> TRUE, metadataVersion |-> 1]]}

None == {}
KeyOfGlove == {<<g1, k1>>}

=============================================================================
