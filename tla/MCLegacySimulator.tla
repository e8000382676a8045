------------------------- MODULE MCLegacySimulator -------------------------
(***************************************************************************)
(* Values for the constants of LegacySimulator: a glove in good standing,  *)
(* one that the configuration does not authorize, and an unregistered tag. *)
(***************************************************************************)
EXTENDS LegacySimulator

CONSTANTS glove, spare, tag, none, never

Standing(authorized, revoked) ==
  [authorized |-> authorized, revoked |-> revoked]

(* The spare glove is authorized in one configuration and not in the other.*)
Tables ==
  {[c \in {glove, spare} |-> Standing(c = glove \/ both, FALSE)] :
     both \in BOOLEAN}

=============================================================================
