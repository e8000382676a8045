# HERMES: a verification project for the push-to-talk gate

HERMES lets a push-to-talk (PTT) radio transmit only while an authenticated
operator credential, carried in a glove, is present. Three programs in the
repository implement that gate, and this directory holds TLA+ models of all three,
TLC configurations that check them on small instances, and TLAPS proofs about
the security engine and its abstract specification, the challenge-response
protocol, both firmware loops and the simulator, for every value of their constants.

Paths below are relative to the repository. `CPP` is
`firmware/lib/hermes_security/src/hermes_security.cpp`, the file that carries most
of the logic.

## 1. Inventory

| Component | State it keeps | Operations | Module |
|---|---|---|---|
| Security engine (`CPP`, `hermes_security.h`) | persistent state in memory, session, pending challenge and deadline, health, rollback latch, denial, last decision, last clock value | `begin`/`recover`, `tick`, `beginChallenge`, `validateResponse`, `detach`, `fault`, `updatePolicy`, `updateCredential`, `applyRevocationList`, `setDeviceStatus`, `evaluate` | `HermesPolicy`, `HermesEngine`; what it promises: `AuthGate` |
| NVS store (`nvs_state_store.h`) | one snapshot in flash | `load`, `save` | `HermesEngine` (`Loadable`, `Saves`, `SaveFails`) |
| State codec (`codec.cpp`) | none | `encodeState`, `decodeState`, `transcript`, `revocationPayload`, validators | `StateCodec`; `Decodable`, `ValidPolicy`, `ValidMetadata` in `HermesEngine` |
| Key stores, mock glove (`CPP`) | keys; the glove's own counter in a store of its own | `add`, `verifyCredential`, `respond` | `HermesProtocol` |
| Crypto backend (`crypto_backend.cpp`) | none | HMAC, Ed25519, random | external and symbolic in `HermesProtocol`, `HermesEngine` |
| PTT controller (`ptt_controller.cpp`) | debounced button, readiness, permanent fault, TX gate, LEDs | `begin`, `setSystemReady`, `latchPermanentFault`, `update`, `updateSecurity` | `PttController` |
| Secure runtime (`secure_runtime.cpp`) | engine, controller, transport | `setup`, `loop` of two builds | `SecureRuntime` |
| PN532 transport (`credential_transport.cpp`) | operational flag | `begin`, `readUid`, `respond` | nondeterministic reads in `UidRuntime` and `SecureRuntime` |
| UID proof of concept (`main.cpp`, `nfc_auth.cpp`) | authorization, time of the last good read | `setup`, `loop`, `NfcAuth::update` | `UidRuntime` |
| Python simulator (`src/hermes_simulator`) | device, credentials, attached and session credential, authentication state, button, grace deadline | eleven commands, `status` | `LegacySimulator` |
| Scenario files, CLI, event formatting | none | `execute`; input and output | `execute` in `LegacySimulator` |

**How they interact.** In the v0.2 firmware one loop (`secure_runtime.cpp`)
services the PTT controller, which passes its debounced button to `Engine::tick`
and sets the gate from the decision; between two services the loop hands the engine
at most one command and may ask a transport to answer a challenge. The engine
calls the key store, the state store and an event sink. The UID build has no
engine: `NfcAuth` keeps a boolean that the controller combines with the button.
The Python simulator is a separate, earlier program with its own state machine.
All three run in a single thread; what makes them hard is not data races but
time that passes inside an iteration, calls in orders nobody wrote down, failing
saves, restarts, answers that come late or twice, and clocks that wrap or go
back.

**What makes each correct.**

- *Engine.* A session exists only on top of a healthy device, an active, bound,
  unrevoked credential and the policy it was opened under, and is taken away by
  whatever removes one of these. It is opened only by an answer to the pending
  challenge, in time, with a counter above every counter that ever opened one.
  The flash keeps what was reported as accepted. The decision and the events are
  always those of the present state.
- *Glove and protocol.* A glove answers once with each counter, whatever its
  store does; a session opens only on an answer to the challenge that was
  pending; the two counters never drift so that an honest glove is shut out for good.
- *State codec.* What is saved is what is loaded; what was damaged is not taken for
  something else; nothing legal is refused; no two messages are signed alike.
- *PTT controller.* A press or release is believed after the debounce interval;
  gate, LEDs and memory agree; a permanent fault is permanent.
- *Secure runtime.* The gate outlives a session by less than one iteration; no
  challenge stays open; after a failed boot, and in the default build, the gate
  never goes up.
- *UID runtime.* The gate stays HIGH only for a bounded time after the tag was
  last read or the button was released; a held button is served; a lost tag
  brings the gate down for good.
- *Python simulator.* A session belongs to an acceptable credential and ends one
  grace period after its removal; faults and revocations nest; the event log and
  the reported decision are current.

`PROJECT.json` lists the hazards behind these at the lines where they bite, with
the properties that cover them.

## 2. Modules

### HermesPolicy

The enumerations of `hermes_security.h`, `struct SecurityContext` and
`evaluate()` (CPP:13-30), guard by guard in the order of the source. Every
out-of-range byte is the one value `OutOfRange`.

### HermesEngine

One device: `eng` is the `Engine` object, `nvs` the snapshot in its store,
`issued` counts the challenges drawn from the random generator, and `ledger` is
a history of what the engine has vouched for over all power cycles (accepted
versions and revocations, the highest counter that opened a session).

Each public method is an action; each private helper is an operator from an engine
record to an engine record, named as in the source (`Invalidate`, `Deny`,
`Fault`, `Rollback`, `Tick`). `Retick` is `tick(now, pressed_)`, which nearly
every method calls. `Tick` is composed of `CheckClock`, `CheckExpiry` and
`Decide` in the order of CPP:149-159.

| Action | Code |
|---|---|
| `PowerCycle` | the object is destroyed and constructed again (CPP:52) |
| `Recover` | `begin`, `recover` (CPP:54-64), with a load that may fail |
| `Service` | `tick` from the loop, also `sessionMatches` |
| `ReportFault`, `Detach` | `fault`, `detach` |
| `BeginChallenge` | CPP:96-105; the random generator may fail |
| `ValidateResponse` | CPP:106-133: `Admission` is lines 107-112, `Verdict` lines 113-122, `AcceptResponse` the rest |
| `UpdatePolicy`, `UpdateCredential`, `ApplyRevocationList`, `SetDeviceStatus` | CPP:167-206 |

What is abstracted, and how:

- `now` is an argument of every call and not a variable: callers may hand over
  any value, so the clock may stand still, jump, or go back. `TimeMax` is
  2^64-1, and the two overflow guards are real comparisons with it.
- Identifiers are opaque; `NoId` is the empty string. `credentials` is a total
  function, and metadata version 0, which is never valid, means "not in the
  vector". `bound` says that this device is in the allow list.
- A challenge is the serial number of its nonce. A MAC is right iff it is over
  the pending nonce and the key store has a key for the pair (CPP:36-40): an
  unregistered pair is `Verification::ERROR`, which faults the engine. A
  response may carry any nonce issued so far (an old answer) or 0 (a MAC over
  nothing).
- A revocation list is a version, a set of credentials and whether its signature
  verifies; a malformed one has version 0.
- A save succeeds, fails without writing, or fails after writing
  (`nvs_set_blob` done, `nvs_commit` failed). Losing power between
  the save and what follows it is `SaveFails` with the new snapshot written, followed by
  `PowerCycle`.
- Session ids, the reason text and all events but `TX_ALLOWED`/`TX_DENIED`
  are left out: nothing below depends on them.

### AuthGate and HermesEngineGate

`AuthGate` says what a PTT promises about transmission without store, health,
metadata or messages. There is a `lease`, at most one `question`, a `record` of what
was accepted and granted, and a gate that is `open` only under a lease. A lease
is granted to the answer of the last question, in time, to a holder that is not
barred, on a counter above all that holder was ever granted one on; it ends with
its time, with a clock that goes back, with the next question and with what is
accepted against it.

`HermesEngineGate` is the refinement mapping: a lease is an ACTIVE session, the
question the pending challenge with its deadline, the gate is open while the
last decision is `ALLOW_TX`, the record is the ledger. `GateSpec` is checked as
a property of the engine and proved (section 4). Faults, failed saves, power
cycles and refused calls are all `Pass` steps of the gate: they may end a
lease and never make one.

### HermesProtocol

The engine, a glove and everything the glove ever answered. `glove` is the counter
in the store of `MockCredentialTransport`; `Respond` (CPP:41-51) makes the next
counter durable before it answers, `RespondFails` has every way out before or after
that. `sent` is the channel: an answer stays in it and may arrive at once, late,
repeatedly or never (`Arrive`, `Stray`). The glove also answers other PTTs
(`ForeignUse`), and its store may be put back to an older image (`PutBack`, which
test/native/security_test.cpp:60-61 does); `era` counts how often. A MAC is the pair
of key and data, so `VerifyCredential` says that the bytes the PTT computes are
those the glove computed.

The steps of the protocol (`Ask`, `Reply`, `Arrive`, `Mend`, `Rest`) are unbounded;
everything that disturbs them (time running out, power, faults, failing stores,
strays, foreign use, restores) happens at most `MaxEvents` times, at any
points.

### StateCodec

`codec.cpp` and `NvsStateStore` byte by byte. A state is saved (`Save` decodes its
own bytes first, as the code does), the blob is cut short, extended or changed in
one byte (`Damage`) and read (`Load`). `EncodeState`, `ReadState` and
`Acceptable` follow the order and the limits of the source; `Number` truncates as
`Writer::number` does, so a length past its two bytes wraps. The transcript of a
response and the payload of a list are written by the same operators. A `Reader`
is a record of position, `ok` and what was read last; each `Read...` operator is one
stretch of `decodeState` and leads from one record to the next, and `ReadList` is
its loops, as a recursive function, so that the module can be proved about.
`StateType` and the types before it are what the C++ types can hold: any bytes, any
length, any enumerator.

### PttController, UidRuntime

`PttController` is the class as operators on a record, on a clock of `Width`
values; `Elapsed` is the wrapping subtraction. `UidRuntime` composes it with
`NfcAuth` in the loop of `main.cpp`, one action per call of `loop()`: `Poll`
(which reads the clock *before* it waits, as the code does), `ServicePtt`,
`Delay`. Button and tag move between any two steps; a tag in the field may or
may not be read. `age` holds true durations, for the properties only.

### SecureRuntime

`secure_runtime.cpp`: the engine's actions, driven by the loop with a clock that
only goes forward, and the controller serviced from the engine's decision. The
variable `build` picks the mock build (serial commands, a software glove with a
counter of its own) or the default build (NFC reader, no answer ever). The
default build ships without a trust anchor and with an empty store; it is
modelled with both possibly present, which only adds behaviours. `Recover` and the
saves may fail as they do with NVS, which over-approximates the mock's
in-memory store.

### LegacySimulator

`state_machine.py` and `policy.py`, driven as `Simulator.execute` drives them:
a command, then `status()`, which refreshes the machine. `PassTime` moves the
injected clock between commands, as tests/test_authentication.py:74-78 do.
`lostAt` is a history variable. A command with a malformed argument raises before
it changes anything and is not modelled.

### Mutants

Operators whose comment begins with "Mutant:" belong to no specification. Each
is a definition with a plausible bug in it (a dropped guard, a missing reset, an
off-by-one), placed before the definition it stands in for. For every property of
every passing run, `PROJECT.json` names one with which TLC finds the property
violated: the property depends on the code being as it is.

## 3. What TLC checks

| Run | Properties | Question |
|---|---|---|
| `EngineProtocol` | `TypeOK`, `ChallengeExclusive`, `DecisionCurrent`, `TraceFaithful`, `MemoryIsDurable`, `NoReplay`, `FaultsLatch` | one glove, two challenges, answers in any order, late or twice, faults, failed saves, power cycles, a clock that goes back or ends |
| `EnginePolicy` | `GrantAuthorized`, `LeaseInForce` | policies of every mode, old and malformed ones, under a session; metadata refused for its version or for want of space |
| `EngineMetadata` | `SessionBacked`, `FloorsSurvive` | metadata revoked, restored, re-keyed, registered under a key in use, with saves that fail |
| `EngineRevocation` | `GateSpec` | genuine, forged, old, shorter and too long lists; the engine as an implementation of the gate |
| `GloveProtocol` | `GloveNeverRepeats`, `FloorBelowGlove`, `Agreement`, `GloveServed` | PTT and glove, with answers late, repeated, lost or meant for another PTT, and stores that fail or are put back |
| `StateCodec` | `SavedIsLoaded`, `LoadIsCanonical`, `RefusesUnstorable`, `SignedBytesDistinct` | states at and past every limit, damaged blobs, messages whose parts can be moved into one another |
| `SecureRuntime` | `RuntimeTypeOK`, `GateWindow`, `OverrunBounded`, `ChallengeSettled`, `GateHeldLow` | both builds of the v0.2 loop |
| `UidRuntime` | `TypeOK`, `ExposureBounded`, `ReleaseBounded`, `OutputsAgree`, `BounceFiltered` | the UID loop over several clock wraps |
| `UidLiveness` | `HeldButtonServed`, `GateComesDown` | the same, under a fair loop |
| `LegacySimulator` | `TypeOK`, `SessionAuthentic`, `AuthMirrorsDevice`, `GateEventFaithful`, `DenialTold`, `NeverInconsistent`, `ReportCurrent`, `StartedByOperator` | every order of the simulator's commands |
| `EngineUnrevoke` | `RevocationCumulative` (violated) | see section 5 |
| `EngineEmergency` | `LatchOverridesEmergency` (violated) | see section 5 |

Deadlock is checked in every run: each of these programs can always be called
or serviced again.

**Bounds, and why they are enough.**

- *Engine.* Two challenges per behaviour (one in the runs about updates): enough
  for an answer to the older of two, an answer after a restart and a repeated
  answer. `TimeMax` 3 with session timeout 2 and challenge timeout 1 (1, 1 and 1
  in the update runs) leaves a moment before, at and after each deadline and the two
  overflows. At most one or two credentials and one listed revocation, where the code has
  32 and 256, so that both limits are hit. Counters 0 to 2 cover malformed,
  stored and fresh. The sets of policies, metadata and lists hold one of each kind
  the code distinguishes. Everything below that is bounded here is unbounded in
  the proofs of section 4.
- *GloveProtocol.* Counters up to 4, three disturbances, a clock up to 4. Three
  disturbances are enough for a restore after two answers and a fault during the
  catching up, or for a stray from each of two earlier challenges. `CounterMax` is
  hit. `MaxChallenges` 12 only keeps the state space finite on paper: `issued`
  never reaches it, since each challenge is followed by an answer or a
  disturbance.
- *StateCodec.* A byte has 64 values and a length or number is one byte, so that
  a text or list of 65 elements wraps its length to 1; texts up to 3 of the 64,
  lists up to 2 of the 32, 16 and 256, signatures of 2, blobs up to 63. The
  states are one valid state with one part changed at a time to every kind of
  value: empty, at its limit, one past it, wrapped, repeated, out of range.
- *UidRuntime.* `Width` 10 for 2^32, debounce 2, grace 3, poll and delay 1: all
  durations stay below the wrap with room for two iterations, which
  `UidConstants` states and the values of `config.h` satisfy (1500 + 2*55 and
  30 + 2*55 against 2^32). Ages are counted up to 7, one beyond every bound
  asserted. The three bounds are tight: each fails when lowered by one. The
  liveness run is smaller (`Width` 6, debounce and grace 1) as the liveness
  check needs.
- *SecureRuntime.* One boot, a clock up to `Horizon` 7, commands that take 0 or
  1, answers that take 0 to 2, with sessions of 3 and challenges of 2: an
  answer can be late, a session can end during an answer, and a second
  challenge can be issued. The controller's 32-bit word is 2 bits wide and
  wraps within a behaviour. `OverrunBounded` is tight.
- *LegacySimulator.* Two registered credentials and a stranger; the second
  credential authorized in one configuration and not in the other, both revoked
  on the way; grace periods of 0 and 2 and a clock up to 4, so that a grace
  period can begin, be left and end with time to spare.

**Fairness.** `UidRuntime` assumes weak fairness of the loop's own steps
(`WF_vars(Loop)`), because the Arduino core calls `loop()` for ever and every
call in it returns (the poll by its timeout). Nothing is assumed of the operator, the
tag or the reader; `HeldButtonServed` has the hypothesis that the tag is read
again and again, since otherwise it need not hold.

`HermesProtocol` assumes weak fairness of each step of the protocol going well:
the operator asks again (`Ask`), the glove answers (`Reply`), the answer arrives
(`Arrive`), a faulted engine is recovered (`Mend`). The loop and the operator of
a working pair do no less, and disturbances are finitely many. Three of the four are
written out as `[]<>~enabled \/ []<>step`, because TLC would evaluate all of the
engine inside `ENABLED`; `MayAsk` and `MayArrive` spell out the enabling
conditions. `MayAsk` includes that the deadline fits the clock, which the
code demands as well (CPP:100).

**What the less obvious properties say.**

- `NoReplay` relates a step to the whole history: the counter of a session that
  opens lies above that of every session the credential has had, over
  power cycles and failed saves, and is in the flash in that very step.
- `FloorsSurvive`: the administrative methods do not look at `healthy_`, so a
  faulted engine may save a state built from memory that is older than
  the flash. It still never lowers a version, counter or revocation whose
  update was *reported as accepted*; an update that failed after it reached the
  flash may be undone. The run exercises it on metadata and counters; for lists
  `GateSpec` notices a floor that was lost, when an older list or a barred glove is
  accepted.
- `DecisionCurrent`: administrative methods change what a decision depends on
  outside the loop; each of them ends in a `tick()`.
- `GloveServed`: a glove whose store was put back answers below the PTT's stored
  counter and is refused, but each refusal has used up one of its counters. It is served
  in the end, unless its counter is at the last value, where `respond` gives up for ever.
- `FloorBelowGlove` and `Agreement` speak of both sides at once: what the PTT
  has stored, and what opens a session, is an answer the glove made to a challenge
  of *this* PTT. The mutants that leave the nonce out of the transcript, or
  answer before the counter is durable, break them through the other PTT or a
  power cycle.
- `SavedIsLoaded`: `save` decodes its own bytes but does not compare the result
  with the state. That a text whose length wrapped is nevertheless never stored as
  another one is a property of the limits of the format and of its end check.
- `GateWindow` and `OverrunBounded`: the gate is a copy of the decision, and
  is out of date only between a command and the service that follows.
- `ExposureBounded`: the tag may be gone for the grace period *and* two polls
  and a delay before the gate falls, because the poll's timestamp is read before the
  poll blocks.

## 4. What is proved

`HermesEngineProofs`, on top of it `HermesEngineRefinement`, and on top of both
`HermesProtocolProofs` and `SecureRuntimeProofs`; by themselves `AuthGateProofs`,
`UidRuntimeProofs`, `LegacySimulatorProofs` and `StateCodecProofs`. They prove for every set of credentials, keys, policies, lists and answers, every clock
range, every duration and every bound that satisfy the assumptions:

| Theorem | Statement |
|---|---|
| `TypeCorrect` | `Spec => []TypeOK` |
| `SessionsAreBacked` | `Spec => []SessionBacked` |
| `ChallengesAreExclusive` | `Spec => []ChallengeExclusive` |
| `DecisionsAreCurrent` | `Spec => []DecisionCurrent` |
| `GrantsAreAuthorized` | `Spec => []GrantAuthorized` |
| `TracesAreFaithful` | `Spec => []TraceFaithful` |
| `MemoryIsAlwaysDurable` | `Spec => []MemoryIsDurable` |
| `FloorsAlwaysSurvive` | `Spec => []FloorsSurvive` |
| `NothingIsReplayed` | `Spec => NoReplay` |
| `FaultsAreLatched` | `Spec => FaultsLatch` |
| `LeasesAreInForce` | of the gate alone (`AuthGateProofs`): its `Init` and steps keep `InForce` |
| `EngineImplementsGate` | `Spec => GateSpec` |
| `LeasesStayInForce` | `Spec => []LeaseInForce` |
| `GloveAnswersOnce` | `ProtocolSpec => []GloveNeverRepeats` |
| `FloorsStayBelowGlove` | `ProtocolSpec => []FloorBelowGlove` |
| `SidesAgree` | `ProtocolSpec => Agreement` |
| `ProtocolImplementsGate` | `ProtocolSpec => GateSpec` |
| `RuntimeInvariant` | `RuntimeSpec => []RuntimeInv`, the inductive invariant of the v0.2 loop |
| `RuntimeTyped` | `RuntimeSpec => []RuntimeTypeOK` |
| `GateFollowsEngine` | `RuntimeSpec => []GateWindow` |
| `OverrunIsBounded` | `RuntimeSpec => []OverrunBounded` |
| `ChallengesSettle` | `RuntimeSpec => []ChallengeSettled` |
| `GateStaysLow` | `RuntimeSpec => []GateHeldLow` |
| `EngineSafeInLoop` | `RuntimeSpec => []` of the engine's seven safety properties |
| `EngineStepsInLoop` | `RuntimeSpec => NoReplay /\ FaultsLatch` |
| `LoopImplementsGate` | `RuntimeSpec => GateSpec` |
| `PinStandsOnLease` | `RuntimeSpec => [](LeaseInForce /\ ...)`: outside the window of `GateWindow`, a HIGH pin stands on a lease in force |
| `UidInvariant` | `Spec => []UidInv`, the inductive invariant of the UID loop |
| `UidTyped` | `Spec => []TypeOK` |
| `OutputsAlwaysAgree` | `Spec => []OutputsAgree` |
| `ExposureIsBounded` | `Spec => []ExposureBounded` |
| `ReleaseIsBounded` | `Spec => []ReleaseBounded` |
| `BouncesAreFiltered` | `Spec => BounceFiltered` |
| `SimulatorInvariant` | `Spec => []SimulatorInv`, the inductive invariant of the simulator |
| `SimulatorTyped` | `Spec => []TypeOK` |
| `SimulatorSessionAuthentic` | `Spec => []SessionAuthentic` |
| `SimulatorAuthMirrorsDevice` | `Spec => []AuthMirrorsDevice` |
| `SimulatorGateEventFaithful` | `Spec => []GateEventFaithful` |
| `SimulatorDenialTold` | `Spec => []DenialTold` |
| `SimulatorNeverInconsistent` | `Spec => []NeverInconsistent` |
| `SimulatorStartedByOperator` | `Spec => StartedByOperator` |
| `SimulatorReportCurrent` | `Spec => ReportCurrent` |
| `CodecTypeCorrect` | `CodecSpec => []CodecInv`, the inductive invariant of the store |
| `SavedStatesAreLoaded` | `CodecSpec => []SavedIsLoaded` |
| `LoadedStatesAreCanonical` | `CodecSpec => []LoadIsCanonical` |
| `OnlyUnstorableIsRefused` | `CodecSpec => []RefusesUnstorable` |
| `SignedMessagesDiffer` | `CodecSpec => []SignedBytesDistinct` |

`ConstantTypes` says that the constants have the types their names suggest, that
`NoId` is nobody's id and that the default timeouts are positive; nothing in it
bounds anything. The protocol adds `ProtocolConstants` (the glove is a credential,
its key a key) and `GloveIsNew`: the PTT registered the glove with counter 0,
before it was used. `RuntimeConstants` names the mock glove and says that times
are numbers and that there is a longest one for a command and for an answer: nothing
in the loop waits without end (a byte that has arrived is read, the reader polls up
to its timeout, the mock glove computes, the NFC transport gives up at once).
`PttConstants` and `UidConstants` say that the durations of `config.h` fit
the 32-bit clock with room for two iterations. `LegacyConstants` only types the
simulator's configuration. `CodecConstants` says that a byte has at least two values,
that `MaxBytes` (65535) and with it every limit fits the field lengths are written
to, that the two domains of signed bytes differ, and types the states and messages.
It leaves open how long a field is and where the limits lie.

**The argument.** Typing is preserved method by method, from lemmas on the
helpers (`TickType`, `DenyType`, ...). The inductive invariant of the safety
theorems is `TypeOK /\ SafeInv`, where `SafeInv` states at once what sessions and
challenges rest on (`Safe`), that the decision is current and the trace faithful,
and that a healthy engine's memory is the flash. It adds to the properties what
they need to be inductive: a healthy engine holds the state of *this* device
(`OurState`, which only `Recover` establishes and a session later rests on), and
the conditions are stated of an engine record, so that they can be carried
through the helpers one by one. The step lemmas follow the code's structure: what
a `tick()` leaves unchanged (`TickFrame`), that it re-establishes decision and
trace whatever the method did before (`TickDecides`, `TickSafe`), that a
withdrawal followed by a `tick()` is safe from *any* engine (`WithdrawStep`), and
then one lemma per action. Most methods end in such a withdrawal; the ones that
need more are `AcceptResponse`, where the opened session has to be shown backed
from `Admission` and `Verdict` (`OpenedIsBacked`), and updates of a credential
that is not the attached one. `GrantAuthorized` follows from `SafeInv` by
unfolding `evaluate()`.

**The floors.** `FloorsSurvive` speaks of the flash alone and is not inductive:
what is saved next is built from memory, and after a save that failed halfway
memory and flash differ. `FloorsHeld` therefore says that the flash *and* the
memory keep the floors of the ledger. The exception is memory that was never
loaded, which has no device id; a snapshot made from it does not decode, so it is
never stored (`DecodableKeeps`). Every snapshot the engine builds `Raises` the
one it was built from, and a method ends in one of four ways: nothing durable
touched, a failed save, a save, or a save the caller is told of, which also
raises the ledger (`UntouchedKeeps`, `SaveFailsKeeps`, `SavedKeeps`,
`VouchedKeeps`).

**The steps.** An engine `Carries` over to another if the second has no session and
no freedom from faults that the first had not. All of the
engine's methods only carry over, except three: a power cycle, `recover()` and a
response that is accepted. The first two hold no session afterwards; the third
opens one on a counter above the stored one, which `FloorsHeld` places above
every counter that ever opened a session. `GoodStep` states what both action
properties ask, and `NothingIsReplayed` and `FaultsAreLatched` read it off.

**The refinement.** `Between` puts the invariants on both sides of a step.
`Keeps` says what may remain of a session and a challenge; a method that only
keeps is a `Pass` of the gate (`PassStep`, `WithdrawnPass`), which leaves five
methods to match with the gate's other steps: `beginChallenge` asks
(`BeginChallengeAsks`), an accepted response grants (`AcceptResponseGrants`, where
the opening `tick()` must be shown not to have moved the clock back and the last
one not to end the session at once), and the three updates with a
floor accept. `FloorsHeld` supplies that counters and versions rise.
`LeasesStayInForce` then comes from the gate: `AuthGateProofs` proves
`InForce` there from `GateInv`, its types and the open gate added, and the mapping
carries it to whatever implements the gate (`GateKeepsLeases`): the engine called in
any order, the engine in the loop, and the PTT of the protocol
(`ProtocolImplementsGate`).

**The protocol.** `ProtocolInv` joins the engine's invariant, kept here by the same
lemmas, with `GloveInv`: every answer at large was made by this glove over what it
says, and in the present era no answer has a counter the glove has not behind it.
That makes `GloveNeverRepeats` inductive. Every step is one of four kinds
(`FourKinds`). The engine's own methods are `Quiet`. An arriving answer is
`Judged`: it opens a session or stores its counter only if its MAC is over the
pending challenge, and as MACs are over one transcript only
(`TranscriptNamesChallenge`), the answer was made to that challenge. The counter
stored for the glove is therefore always one it answered with
(`FloorAnswered`), and `FloorBelowGlove` follows.

**The v0.2 loop.** The loop calls six methods of the engine (`LoopCall`), and each
keeps the engine's invariant and is a step of the gate whoever calls it
(`LoopCallKeeps`, from the lemmas of the engine's modules): so the engine's theorems
hold in the loop (`EngineSafeInLoop`, `EngineStepsInLoop`, `LoopImplementsGate`)
without being proved again. What is left
is the pin. `GateWindow` says nothing of the gate between a command and the
next service, and is kept there by `Latched` (the controller remembers the level
of the pin, a failed boot has latched the fault, the default build has neither
session nor gate, as no answer ever arrives) and by `ChallengeSettled` (only `respond`
finds a challenge, and it consumes it or faults the engine). `OverrunBounded` is one number
for the whole iteration and not inductive: `Overrun` gives the bound at each point
of it, from `clock < lease` right after a service to the sum of the longest command and the
longest answer.

**The UID loop.** All its timing is done modulo 2^32, and a difference of two clock
values is the true age of an event only until the clock has gone round. `UidInv`
says where it is: while a tag is authorized, `Elapsed` *equals* the true age of the last
good read, which stays below the grace period, a poll and a delay because each
`Poll` looks at it (`Stamped`); a press the samples contradict is younger than
the debounce interval at each service, as the controller would have followed
the samples otherwise (`Contradicted`); the run of equal samples is at least as old as the
controller believes, or older than the interval, which is all that is needed when the clock
has gone round in between (`Steady`). `TimePasses` is the one lemma about
wrapping arithmetic: time that passes is added to an elapsed time as long as the sum
fits the clock, and never adds more. `Exposed` and `LetGo` then carry
the two bounds through the three calls of an iteration, with what the loop may still
spend before its next call (`Lag`).

**The simulator.** `Sound` (the session is backed, its deadline is one grace period after
the credential left, the authentication state mirrors the device), `Told` (the
events tell the decision) and `Decided` (the decision follows from session and
button) are stated of a machine record, so that each private helper of
`StateMachine` has a lemma of its own. `Decided` is false in the middle of a command, when
a session has changed and the decision has not; the refresh that
`Simulator.execute` ends with restores it (`ExecuteKeeps`), from any
machine that is `Sound` and `Told`. `Sound` also says that the reason kept for a denial
is never the button or an inconsistency (`Reason`): this is what makes
`NeverInconsistent` inductive.

**The codec.** The four theorems are about byte strings of any length, lists of any
length and any field sizes, and rest on two facts about the reader and the writer
of a state, which `Reads` states for every pair of a `Read...` operator and what
`encodeState` writes for it: what is read stands in the blob at the reader's position
and is within the limits; and what stands there is what is read, if its lengths have
not wrapped. The second holds of any blob up to `MaxBytes`, limits or not, because a
length that wrapped needs more bytes than the blob has: this is why `save` cannot take
one state for another although it does not compare. `Reads` is proved for a number
(`NumberReads`: digits and their value, by division with remainder), a byte, a text
(`TextReads`) and a list of whatever has it (`ListReads`), is kept by reading one thing
after another (`BothReads`) and by collecting what was read in a record (`ImageReads`),
and so comes to `ReadEntry`, `ReadPolicy`, `ReadCredential`, `ReadCrl` and, behind the
tag, the whole state (`StateReads`). `DecodeIsCanonical` and `StorableIsStored` are
what remains to be said of the end check and of `Acceptable`, and the theorems follow
from `CodecInv`. For `SignedMessagesDiffer` the parts of a transcript are compared from
the front: as long as all parts so far agree, the next one starts at the same place in
both, and its reader can read only one value there.

The lemmas that concern numbers, texts and lists of every length are proved by
induction. The provers cannot instantiate an induction theorem that takes an operator;
`Induction` therefore is a lemma about a *set* of numbers, from the well-foundedness
of `<` on `Nat` and `WFMin`, and that a function may be defined step by step on `0..n`
is the lemma `Iteration`. The functions of `StateCodec` (`Shifts`, `NumberAt`, the loop in
`ReadList`) and `FlattenSeq` are shown to be such iterations (`ShiftsFacts`,
`NumberAtFacts`, `ListLoop`, `FlattenFacts`).

**Only model-checked:** liveness (`GloveServed`, `HeldButtonServed`,
`GateComesDown`), which is out of the prover's reach.
The two properties of section 5 do not hold.

## 5. Where the code and its documents disagree

- **Revocation through metadata is not cumulative.** docs/KEY_MANAGEMENT.md:54:
  "Revocation is cumulative: metadata updates cannot silently un-revoke a
  credential." `updateCredential` (CPP:178) carries over the counter only: newer
  metadata with status Active replaces status Revoked. Revocation by a signed
  list is cumulative. Run `EngineUnrevoke`.
- **The rollback latch does not always override the emergency indication.**
  docs/V0_2_ARCHITECTURE.md:80: "Rollback attempts invalidate authorization and
  latch an administrative fault until explicit local recovery", and faults
  override the emergency representation (line 74). `evaluate` looks at
  `denial_` (CPP:19) and not at `controlFault_`; a later `detach`, policy or
  status update overwrites `denial_`, and a DEGRADED policy then yields
  ALLOW_EMERGENCY_ONLY. Normal transmission stays impossible, as
  `SessionBacked` shows. Run `EngineEmergency`.

## 6. What is not modelled

- The cryptographic algorithms (`crypto_backend.cpp`): external libraries behind
  a few functions, whose outcomes are modelled.
- `denialLogged_`, the observed-UID fields of `NfcAuth` and other state that only
  decides which lines are logged; session ids and all events but
  `TX_ALLOWED` and `TX_DENIED`.
- Scenario files, configuration JSON, event formatting and argument parsing of
  the Python simulator: input and output.
- The PN532 driver and the flash driver below the outcomes listed.
- `SoftwareKeyStore::add`, called once before the loop starts; its outcome is the
  constant `KeyPairs`.
- The native test harness. Its fixture is the initial state of the engine's and
  the protocol's runs.
- A power cycle of the whole v0.2 firmware: it is modelled for the engine and the
  protocol, while `SecureRuntime` is about one boot.

## 7. Plan

Done: inventory, engine, gate, refinement, protocol, codec, both runtimes and the
simulator, with the proofs of section 4: every safety property and every action
property that the runs check is a theorem.

What may follow: the two divergences of section 5, should the code or the documents be
changed, and a power cycle of the whole v0.2 firmware.
