----------------------------- MODULE StateCodec -----------------------------
(***************************************************************************)
(* codec.cpp and NvsStateStore at the level of bytes: how a state becomes  *)
(* the blob in flash, which blobs are read back, and the byte strings that *)
(* MACs and signatures are made over.                                      *)
(*                                                                         *)
(* A byte is a number below Base and a text a sequence of bytes.  Sizes    *)
(* and limits are constants, so that TLC reaches every limit and the point *)
(* at which a 16-bit length wraps.  A domain tag is one byte.              *)
(*                                                                         *)
(* A behaviour is about one state, saved, perhaps damaged in flash and     *)
(* loaded, or about one message to be signed.                              *)
(***************************************************************************)
EXTENDS Naturals, SequencesExt

CONSTANTS
  Base,              \* 256
  LengthSize,        \* bytes of a length or a count: 2
  NumberSize,        \* bytes of a version, counter or time: 8
  MaxBytes,          \* 65535
  MaxText, MaxReason,                        \* 64, 128
  MaxCredentials, MaxDevices, MaxRevoked,    \* 32, 16, 256
  SignatureSize,                             \* 64
  NonceSize, ContextSize,                    \* 32, 16
  IdBytes,           \* characters of an identifier
  ReasonBytes,       \* characters of a revocation reason
  StateTag, AuthTag, CrlTag,                 \* domains
  States,            \* states handed to save
  Messages,          \* challenges with their responses, revocation lists
  NoMessage, Refused

Byte == 0..(Base - 1)

(* What is left of n when its last byte is cut off k times.                *)
Shifts(n, size) ==
  LET h[k \in 0..size] == IF k = 0 THEN n ELSE h[k - 1] \div Base IN h

(* The numbers a field of so many bytes holds.                             *)
Word(size) == {n \in Nat : Shifts(n, size)[size] = 0}

(* What the C++ types hold: any bytes, any length, any enumerator.         *)
String == Seq(Byte)

PolicyType ==
  [version : Word(NumberSize), sessionTimeout : Word(NumberSize),
   challengeTimeout : Word(NumberSize),
   bindingMode : Byte, mode : Byte, emergencyEnabled : Byte]

CredentialType ==
  [credentialId : String, operatorId : String, keyId : String, status : Byte,
   counter : Word(NumberSize), metadataVersion : Word(NumberSize),
   allowedDeviceIds : Seq(String)]

EntryType ==
  [credentialId : String, revokedAt : Word(NumberSize), reason : String]

CrlType ==
  [version : Word(NumberSize), issuedAt : Word(NumberSize),
   entries : Seq(EntryType), signature : String]

StateType ==
  [deviceId : String, policy : PolicyType, deviceStatus : Byte,
   credentials : Seq(CredentialType), crl : CrlType, revoked : Seq(String)]

MessageType ==
  [kind : {"answer"},
   challenge : [deviceId : String, nonce : String,
                policyVersion : Word(NumberSize), sessionContext : String],
   response : [credentialId : String, keyId : String,
               counter : Word(NumberSize)]]
  \cup
  [kind : {"list"},
   list : [version : Word(NumberSize), issuedAt : Word(NumberSize),
           entries : Seq(EntryType)]]

ASSUME CodecConstants ==
  /\ Base \in Nat \ {0, 1} /\ LengthSize \in Nat \ {0} /\ NumberSize \in Nat
  /\ MaxBytes \in Word(LengthSize)
  /\ MaxText \in 1..MaxBytes /\ MaxReason \in 1..MaxBytes
  /\ MaxCredentials \in 1..MaxBytes /\ MaxDevices \in 1..MaxBytes
  /\ MaxRevoked \in 1..MaxBytes /\ SignatureSize \in 1..MaxBytes
  /\ NonceSize \in Nat /\ ContextSize \in Nat
  /\ IdBytes \subseteq Byte /\ ReasonBytes \subseteq Byte
  /\ {StateTag, AuthTag, CrlTag} \subseteq Byte /\ AuthTag # CrlTag
  /\ States \subseteq StateType /\ Refused \notin StateType
  /\ Messages \subseteq MessageType /\ NoMessage \notin MessageType

Elements(s) == {s[i] : i \in DOMAIN s}

-----------------------------------------------------------------------------
(* struct Writer, and what is written.                                     *)

(* The high byte first; what does not fit is lost.                         *)
Number(n, size) == [i \in 1..size |-> Shifts(n, size)[size - i] % Base]

(* Mutant: nothing tells where a text ends.                                *)
BareText(s) == s

(* text() and blob(): the length wraps, the bytes do not.                  *)
Text(s) == Number(Len(s), LengthSize) \o s

(* A list of what is already written: its length, then its elements.       *)
List(written) == Number(Len(written), LengthSize) \o FlattenSeq(written)

Texts(texts) == List([i \in DOMAIN texts |-> Text(texts[i])])

(* Mutant: the two timeouts are written in each other's place.             *)
PolicyWriteSwapped(p) ==
  Number(p.version, NumberSize) \o Number(p.challengeTimeout, NumberSize)
    \o Number(p.sessionTimeout, NumberSize)
    \o <<p.bindingMode, p.mode, p.emergencyEnabled>>

PolicyWrite(p) ==
  Number(p.version, NumberSize) \o Number(p.sessionTimeout, NumberSize)
    \o Number(p.challengeTimeout, NumberSize)
    \o <<p.bindingMode, p.mode, p.emergencyEnabled>>

CredentialWrite(c) ==
  Text(c.credentialId) \o Text(c.operatorId) \o Text(c.keyId)
    \o <<c.status>> \o Number(c.counter, NumberSize)
    \o Number(c.metadataVersion, NumberSize)
    \o Texts(c.allowedDeviceIds)

EntryWrite(e) ==
  Text(e.credentialId) \o Number(e.revokedAt, NumberSize) \o Text(e.reason)

ListWrite(l) ==
  Number(l.version, NumberSize) \o Number(l.issuedAt, NumberSize)
    \o List([i \in DOMAIN l.entries |-> EntryWrite(l.entries[i])])

EncodeState(s) ==
  Text(<<StateTag>>) \o Text(s.deviceId) \o PolicyWrite(s.policy)
    \o <<s.deviceStatus>>
    \o List([i \in DOMAIN s.credentials |-> CredentialWrite(s.credentials[i])])
    \o ListWrite(s.crl) \o Text(s.crl.signature) \o Texts(s.revoked)

-----------------------------------------------------------------------------
(* What is valid.                                                          *)

ValidIdentifier(s) ==
  Len(s) \in 1..MaxText /\ Elements(s) \subseteq IdBytes

ReasonValid(s) ==
  Len(s) \in 1..MaxReason /\ Elements(s) \subseteq ReasonBytes

ValidPolicy(p) ==
  /\ p.version # 0 /\ p.sessionTimeout # 0 /\ p.challengeTimeout # 0
  /\ p.bindingMode \in 0..1 /\ p.mode \in 0..2

ValidCredential(c) ==
  /\ ValidIdentifier(c.credentialId) /\ ValidIdentifier(c.operatorId)
  /\ ValidIdentifier(c.keyId) /\ c.metadataVersion # 0 /\ c.status \in 0..2
  /\ Len(c.allowedDeviceIds) <= MaxDevices /\ IsInjective(c.allowedDeviceIds)
  /\ \A d \in Elements(c.allowedDeviceIds) : ValidIdentifier(d)

ValidEntries(l) ==
  /\ Len(l.entries) <= MaxRevoked
  /\ IsInjective([i \in DOMAIN l.entries |-> l.entries[i].credentialId])
  /\ \A e \in Elements(l.entries) :
       /\ ValidIdentifier(e.credentialId) /\ ReasonValid(e.reason)
       /\ e.revokedAt <= l.issuedAt

RevocationPayload(l) ==
  IF l.version # 0 /\ ValidEntries(l) THEN <<CrlTag>> \o ListWrite(l) ELSE <<>>

(* Nonce and session context have a fixed size and go without a length;    *)
(* the protocol version is the same in every transcript, as the tag is.    *)
Transcript(c, r) ==
  IF /\ ValidIdentifier(c.deviceId) /\ c.policyVersion # 0
     /\ Len(c.nonce) = NonceSize /\ Len(c.sessionContext) = ContextSize
     /\ ValidIdentifier(r.credentialId) /\ ValidIdentifier(r.keyId)
     /\ r.counter # 0
  THEN <<AuthTag>> \o Text(c.deviceId) \o c.nonce
         \o Number(r.counter, NumberSize)
         \o Number(c.policyVersion, NumberSize) \o c.sessionContext
         \o Text(r.credentialId) \o Text(r.keyId)
  ELSE <<>>

-----------------------------------------------------------------------------
(* struct Reader: position, whether all went well, and what the last       *)
(* operation read.                                                         *)

Fail(r, out) == [r EXCEPT !.ok = FALSE, !.out = out]

(* The number that size bytes after position p stand for.                  *)
NumberAt(b, p, size) ==
  LET h[k \in 0..size] == IF k = 0 THEN 0 ELSE h[k - 1] * Base + b[p + k]
  IN  h[size]

ReadNumber(b, r, size) ==
  IF ~r.ok \/ size > Len(b) - r.p THEN Fail(r, 0)
  ELSE [p |-> r.p + size, ok |-> TRUE,
        out |-> NumberAt(b, r.p, size)]

(* Mutant: a text of the full size is taken for one too long.              *)
ReadTextShort(b, r, max) ==
  LET size == ReadNumber(b, r, LengthSize)
  IN  IF ~size.ok \/ size.out >= max \/ size.out > Len(b) - size.p
      THEN Fail(size, <<>>)
      ELSE [p |-> size.p + size.out, ok |-> TRUE,
            out |-> SubSeq(b, size.p + 1, size.p + size.out)]

ReadText(b, r, max) ==
  LET size == ReadNumber(b, r, LengthSize)
  IN  IF ~size.ok \/ size.out > max \/ size.out > Len(b) - size.p
      THEN Fail(size, <<>>)
      ELSE [p |-> size.p + size.out, ok |-> TRUE,
            out |-> SubSeq(b, size.p + 1, size.p + size.out)]

(* count()                                                                 *)
ReadCount(b, r, max) ==
  LET n == ReadNumber(b, r, LengthSize)
  IN  IF n.out > max THEN Fail(n, 0) ELSE n

(* A list: its length, then its elements one after the other.              *)
ReadList(b, r, max, Read(_, _)) ==
  LET n == ReadCount(b, r, max)
      h[k \in 0..n.out] ==
        IF k = 0 THEN [n EXCEPT !.out = <<>>]
        ELSE [Read(b, h[k - 1]) EXCEPT !.out = Append(h[k - 1].out, @)]
  IN  h[n.out]

ReadId(b, r) == ReadText(b, r, MaxText)

ReadCredential(b, r) ==
  LET id      == ReadId(b, r)
      op      == ReadId(b, id)
      key     == ReadId(b, op)
      status  == ReadNumber(b, key, 1)
      counter == ReadNumber(b, status, NumberSize)
      version == ReadNumber(b, counter, NumberSize)
      devices == ReadList(b, version, MaxDevices, ReadId)
  IN  [devices EXCEPT !.out =
         [credentialId |-> id.out, operatorId |-> op.out, keyId |-> key.out,
          status |-> status.out, counter |-> counter.out,
          metadataVersion |-> version.out, allowedDeviceIds |-> @]]

ReadEntry(b, r) ==
  LET id     == ReadId(b, r)
      at     == ReadNumber(b, id, NumberSize)
      reason == ReadText(b, at, MaxReason)
  IN  [reason EXCEPT !.out =
         [credentialId |-> id.out, revokedAt |-> at.out, reason |-> @]]

ReadPolicy(b, r) ==
  LET version   == ReadNumber(b, r, NumberSize)
      session   == ReadNumber(b, version, NumberSize)
      challenge == ReadNumber(b, session, NumberSize)
      binding   == ReadNumber(b, challenge, 1)
      mode      == ReadNumber(b, binding, 1)
      emergency == ReadNumber(b, mode, 1)
  IN  [emergency EXCEPT !.out =
         [version |-> version.out, sessionTimeout |-> session.out,
          challengeTimeout |-> challenge.out, bindingMode |-> binding.out,
          mode |-> mode.out, emergencyEnabled |-> @]]

ReadCrl(b, r) ==
  LET version   == ReadNumber(b, r, NumberSize)
      issued    == ReadNumber(b, version, NumberSize)
      entries   == ReadList(b, issued, MaxRevoked, ReadEntry)
      signature == ReadText(b, entries, SignatureSize)
  IN  [signature EXCEPT !.out =
         [version |-> version.out, issuedAt |-> issued.out,
          entries |-> entries.out, signature |-> @]]

(* Every check decodeState makes on what it has read.                      *)
Acceptable(s) ==
  /\ ValidIdentifier(s.deviceId) /\ ValidPolicy(s.policy)
  /\ s.policy.emergencyEnabled \in 0..1 /\ s.deviceStatus \in 0..2
  /\ \A c \in Elements(s.credentials) : ValidCredential(c)
  /\ IsInjective([i \in DOMAIN s.credentials |-> s.credentials[i].credentialId])
  /\ IsInjective([i \in DOMAIN s.credentials |-> s.credentials[i].keyId])
  /\ \A id \in Elements(s.revoked) : ValidIdentifier(id)
  /\ IsInjective(s.revoked)
  /\ IF s.crl.version # 0
     THEN /\ RevocationPayload(s.crl) # <<>>
          /\ Len(s.crl.signature) = SignatureSize
          /\ \A e \in Elements(s.crl.entries) :
               e.credentialId \in Elements(s.revoked)
     ELSE /\ s.crl.entries = <<>> /\ s.crl.signature = <<>>
          /\ s.crl.issuedAt = 0

(* The reads of decodeState, in order.                                     *)
ReadState(b) ==
  LET tag         == ReadId(b, [p |-> 0, ok |-> TRUE, out |-> <<>>])
      device      == ReadId(b, tag)
      policy      == ReadPolicy(b, device)
      status      == ReadNumber(b, policy, 1)
      credentials == ReadList(b, status, MaxCredentials, ReadCredential)
      crl         == ReadCrl(b, credentials)
      revoked     == ReadList(b, crl, MaxRevoked, ReadId)
  IN  [revoked EXCEPT
         !.ok = @ /\ tag.out = <<StateTag>>,
         !.out = [deviceId |-> device.out, policy |-> policy.out,
                  deviceStatus |-> status.out, credentials |-> credentials.out,
                  crl |-> crl.out, revoked |-> @]]

(* Mutant: bytes behind the state are ignored.                             *)
DecodedLeniently(b, r) ==
  IF Len(b) <= MaxBytes /\ r.ok /\ Acceptable(r.out) THEN r.out ELSE Refused

(* What decodeState makes of a blob it has read to the end.                *)
Decoded(b, r) ==
  IF Len(b) <= MaxBytes /\ r.ok /\ r.p = Len(b) /\ Acceptable(r.out)
  THEN r.out ELSE Refused

DecodeState(b) == Decoded(b, ReadState(b))

-----------------------------------------------------------------------------
(* NvsStateStore on a flash that holds one blob.                           *)

VARIABLES
  state,     \* the state handed to save
  message,   \* the message to be signed
  flash,     \* the blob, empty when there is none
  loaded,    \* what load made of it, since the blob last changed
  step       \* "start", then what became of the save, then of the blob

codecVars == <<state, message, flash, loaded, step>>

CodecInit ==
  /\ \/ state \in States /\ message = NoMessage
     \/ state = Refused /\ message \in Messages
  /\ flash = <<>> /\ loaded = Refused /\ step = "start"

(* What does not decode again never reaches the flash; what does may still *)
(* fail to, or reach it and be reported as an error (see HermesEngine).    *)
Save ==
  /\ step = "start" /\ state # Refused
  /\ LET bytes == EncodeState(state)
     IN  IF DecodeState(bytes) = Refused
         THEN step' = "refused" /\ UNCHANGED flash
         ELSE \/ step' = "failed" /\ UNCHANGED flash
              \/ step' = "written" /\ flash' = bytes
  /\ UNCHANGED <<state, message, loaded>>

(* The blob is cut short, goes on, or has one byte changed.                *)
Damage ==
  /\ step = "written"
  /\ \/ \E n \in 1..(Len(flash) - 1) : flash' = SubSeq(flash, 1, n)
     \/ \E b \in IdBytes \cup {0, 1} : flash' = Append(flash, b)
     \/ \E i \in DOMAIN flash, d \in {1, Base - 1} :
          flash' = [flash EXCEPT ![i] = (@ + d) % Base]
  /\ step' = "damaged" /\ loaded' = Refused
  /\ UNCHANGED <<state, message>>

Load ==
  /\ loaded' = IF Len(flash) \in 1..MaxBytes THEN DecodeState(flash) ELSE Refused
  /\ UNCHANGED <<state, message, flash, step>>

CodecNext == Save \/ Damage \/ Load

CodecSpec == CodecInit /\ [][CodecNext]_codecVars

-----------------------------------------------------------------------------
(* Properties.                                                             *)

(* save() reads its own bytes back but does not compare: still no state it *)
(* accepts is stored as another one, however long its texts and lists are, *)
(* lengths that wrap their two bytes included.                             *)
SavedIsLoaded ==
  step = "written" =>
    DecodeState(flash) = state /\ loaded \in {Refused, state}

(* A state is the state of one blob only: nothing that differs from what   *)
(* save() writes is read as if it had been written, bytes cut off, left    *)
(* over or changed within a valid state included.                          *)
LoadIsCanonical == loaded # Refused => EncodeState(loaded) = flash

(* save() refuses exactly the states that break a rule or a limit of the   *)
(* documented model, or that are too long together although every part is  *)
(* within its limit: none is lost for its encoding alone.                  *)
Storable(s) ==
  /\ Acceptable(s)
  /\ Len(s.credentials) <= MaxCredentials /\ Len(s.revoked) <= MaxRevoked
  /\ Len(EncodeState(s)) <= MaxBytes

RefusesUnstorable ==
  /\ step = "refused" => ~Storable(state)
  /\ step \in {"failed", "written"} => Storable(state)

(* No two messages are signed alike: a MAC over one challenge and response *)
(* is a MAC over no other, nor a signed list another list.                 *)
Signed(m) == IF m.kind = "answer" THEN Transcript(m.challenge, m.response)
                                  ELSE RevocationPayload(m.list)

SignedBytesDistinct ==
  message # NoMessage /\ Signed(message) # <<>> =>
    \A m \in Messages : Signed(m) = Signed(message) => m = message

=============================================================================
