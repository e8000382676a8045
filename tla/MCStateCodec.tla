---------------------------- MODULE MCStateCodec ----------------------------
(***************************************************************************)
(* Values for the constants of StateCodec: a byte has 64 values and a      *)
(* length is one byte, so a text or list wraps at 64; identifiers have at  *)
(* most 3 characters, lists at most 2 elements.                            *)
(***************************************************************************)
EXTENDS StateCodec

CONSTANTS none, refused   \* NoMessage, Refused

(* Characters: 11 and 12 identify, 13 only explains, 0 does neither.       *)
a == 11
b == 12
IdChars == {11, 12}
Printable == {11, 12, 13}

Repeated(c, n) == [i \in 1..n |-> c]

Sample == {Repeated(a, n) : n \in {0, 1, 3, 4, 65}} \cup {<<a, b>>, <<a, 0>>, <<13>>}

Default == [version |-> 1, sessionTimeout |-> 5, challengeTimeout |-> 2,
            bindingMode |-> 1, mode |-> 0, emergencyEnabled |-> 0]

Registration == [credentialId |-> <<a>>, operatorId |-> <<a>>, keyId |-> <<a>>,
                 status |-> 0, counter |-> 0, metadataVersion |-> 1,
                 allowedDeviceIds |-> <<<<a>>>>]

Second == [Registration EXCEPT !.credentialId = <<b>>, !.keyId = <<b>>]

NoList == [version |-> 0, issuedAt |-> 0, entries |-> <<>>, signature |-> <<>>]

Entry(id) == [credentialId |-> id, revokedAt |-> 1, reason |-> <<13>>]

Plain == [deviceId |-> <<a>>, policy |-> Default, deviceStatus |-> 0,
          credentials |-> <<Registration>>, crl |-> NoList, revoked |-> <<>>]

-----------------------------------------------------------------------------
(* One part of a state changed at a time, to every kind of value it takes. *)

PolicyChanges ==
  {[Plain EXCEPT !.policy = p, !.deviceStatus = s] :
     p \in [version : {0, 1, 63}, sessionTimeout : {0, 5},
            challengeTimeout : {0, 2}, bindingMode : 0..2, mode : 0..3,
            emergencyEnabled : 0..1],
     s \in {0, 2, 3}}

CredentialTexts ==
  UNION {{[Registration EXCEPT !.credentialId = t],
          [Registration EXCEPT !.operatorId = t],
          [Registration EXCEPT !.keyId = t],
          [Registration EXCEPT !.allowedDeviceIds = <<t>>]} : t \in Sample}

CredentialNumbers ==
  {[Registration EXCEPT !.status = s, !.counter = n, !.metadataVersion = v] :
     s \in 0..3, n \in {0, 63}, v \in {0, 1, 63}}

DeviceLists ==
  {[Registration EXCEPT !.allowedDeviceIds = d] :
     d \in {<<>>, <<<<a>>, <<b>>>>, <<<<a>>, <<a>>>>, <<<<a>>, <<b>>, <<a, b>>>>}}

Roomy == [Registration EXCEPT !.credentialId = Repeated(a, 3),
                              !.operatorId = Repeated(a, 3),
                              !.allowedDeviceIds = <<<<a, a, b>>, <<a, b, b>>>>]

Third == [Registration EXCEPT !.credentialId = <<a, b>>, !.keyId = <<a, b>>]

CredentialLists ==
  {<<>>, <<Registration, Second>>, <<Registration, Registration>>,
   <<Registration, [Second EXCEPT !.keyId = <<a>>]>>,
   <<Registration, Second, Third>>, <<Roomy, Second>>,
   <<Roomy, [Roomy EXCEPT !.credentialId = <<b>>, !.keyId = <<b>>]>>}

CredentialChanges ==
  {[Plain EXCEPT !.credentials = <<c>>] :
     c \in CredentialTexts \cup CredentialNumbers \cup DeviceLists}
  \cup {[Plain EXCEPT !.credentials = cs] : cs \in CredentialLists}

EntryLists ==
  {<<>>, <<Entry(<<b>>)>>, <<Entry(<<a, b>>), Entry(<<b>>)>>,
   <<Entry(<<b>>), Entry(<<b>>)>>,
   <<Entry(<<b>>), Entry(<<a>>), Entry(<<a, b>>)>>,
   <<[Entry(<<b>>) EXCEPT !.reason = Repeated(13, 5)]>>,
   <<[Entry(<<b>>) EXCEPT !.reason = <<0>>]>>,
   <<[Entry(<<b>>) EXCEPT !.revokedAt = 2]>>}

RevokedLists ==
  {<<>>, <<<<b>>>>, <<<<a, b>>, <<b>>>>, <<<<b>>, <<b>>>>,
   <<<<b>>, <<a>>, <<a, b>>>>, <<Repeated(a, 65)>>, Repeated(<<b>>, 65)}

RevocationChanges ==
  {[Plain EXCEPT !.crl = [version |-> v, issuedAt |-> i, entries |-> es,
                          signature |-> sig], !.revoked = r] :
     v \in {0, 1}, i \in {0, 1}, es \in EntryLists,
     sig \in {<<>>, <<0, 1>>, <<0, 1, 2>>, Repeated(0, 66)}, r \in RevokedLists}

Candidates ==
  {[Plain EXCEPT !.deviceId = t] : t \in Sample}
  \cup PolicyChanges \cup CredentialChanges \cup RevocationChanges

-----------------------------------------------------------------------------
(* Messages whose parts can be moved into one another.                     *)

Signable ==
  [kind : {"answer"},
   challenge : [deviceId : {<<>>, <<a>>, <<a, b>>}, nonce : {<<a>>, <<1>>},
                policyVersion : {0, 1}, sessionContext : {<<b>>, <<1>>}],
   response : [credentialId : {<<a>>, <<b>>, <<a, b>>},
               keyId : {<<a>>, <<b>>, <<b, a>>}, counter : {0, 1, a}]]
  \cup
  [kind : {"list"},
   list : [version : {0, 1, 2}, issuedAt : {1, 2}, entries : EntryLists]]

=============================================================================
