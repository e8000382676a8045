-------------------------- MODULE MCSecureRuntime --------------------------
(***************************************************************************)
(* Values for the constants of SecureRuntime: the fixture's one glove, and *)
(* a store that holds its registration or nothing.                         *)
(***************************************************************************)
EXTENDS SecureRuntime, MCHermesEngine

RuntimeProvisioned == {Fresh, BlankState}

=============================================================================
