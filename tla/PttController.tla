--------------------------- MODULE PttController ---------------------------
(***************************************************************************)
(* class PttController: the debounced button, the TX gate and the LEDs, as *)
(* operators from a controller record to a controller record, named as in  *)
(* the source.  Both runtimes drive it from their loop.                    *)
(*                                                                         *)
(* Its clock is millis(), a uint32 that wraps: Width values.  gate,        *)
(* ledAllow and ledDeny are the levels last written to the pins, TRUE for  *)
(* HIGH; gate is a field apart from txEnabled, which only remembers it.    *)
(* denialLogged_ decides nothing but which log lines are printed and is    *)
(* left out.                                                               *)
(***************************************************************************)
EXTENDS Integers

CONSTANTS
  Width,     \* 2^32 in the code
  Debounce   \* PTT_DEBOUNCE_MS

Millis == 0..Width - 1

ASSUME PttConstants == /\ Width \in Nat \ {0}
                       /\ Debounce \in Nat /\ Debounce < Width

Ptt == [systemReady : BOOLEAN, permanentFault : BOOLEAN,
        raw : BOOLEAN, stable : BOOLEAN, changedAt : Millis,
        txEnabled : BOOLEAN, gate : BOOLEAN,
        ledAllow : BOOLEAN, ledDeny : BOOLEAN]

(* begin(): the outputs are LOW before anything else happens; a button     *)
(* held during boot is not yet a press.                                    *)
Begin(pressed, now) ==
  [systemReady |-> FALSE, permanentFault |-> FALSE,
   raw |-> pressed, stable |-> FALSE, changedAt |-> now,
   txEnabled |-> FALSE, gate |-> FALSE, ledAllow |-> FALSE, ledDeny |-> FALSE]

SetSystemReady(p) == [p EXCEPT !.systemReady = @ \/ ~p.permanentFault]

LatchPermanentFault(p) ==
  [p EXCEPT !.permanentFault = TRUE, !.systemReady = FALSE,
            !.txEnabled = FALSE, !.gate = FALSE,
            !.ledAllow = FALSE, !.ledDeny = TRUE]

(* Mutant: subtraction as if millis() never wrapped.                       *)
ElapsedUnwrapped(now, since) == now - since

(* static_cast<uint32_t>(now - since)                                      *)
Elapsed(now, since) == (now - since) % Width

Sampled(p, pressed, now) ==
  IF pressed = p.raw THEN p ELSE [p EXCEPT !.raw = pressed, !.changedAt = now]

(* Mutant: a bounce does not restart the debounce interval.                *)
UpdateButtonBouncing(p, pressed, now) ==
  LET s == [p EXCEPT !.raw = pressed]
  IN  IF s.raw = s.stable THEN [s EXCEPT !.changedAt = now]
      ELSE IF Elapsed(now, s.changedAt) >= Debounce
      THEN [s EXCEPT !.stable = s.raw, !.changedAt = now] ELSE s

(* Mutant: every sample that disagrees restarts the interval.              *)
UpdateButtonRestarting(p, pressed, now) ==
  LET s == [p EXCEPT !.raw = pressed,
                     !.changedAt = IF pressed = p.stable THEN @ ELSE now]
  IN  IF s.raw # s.stable /\ Elapsed(now, s.changedAt) >= Debounce
      THEN [s EXCEPT !.stable = s.raw] ELSE s

UpdateButton(p, pressed, now) ==
  LET s == Sampled(p, pressed, now)
  IN  IF s.raw # s.stable /\ Elapsed(now, s.changedAt) >= Debounce
      THEN [s EXCEPT !.stable = s.raw] ELSE s

(* A gate already off is driven LOW again, a gate already on is left.      *)
SetTxEnabled(p, enabled) ==
  IF enabled /\ p.txEnabled THEN p
  ELSE [p EXCEPT !.txEnabled = enabled, !.gate = enabled, !.ledAllow = enabled]

(* Mutant: the latch keeps the system from getting ready, and that is      *)
(* taken to be enough for the LED.                                         *)
ApplyAuthorizationUnlit(p, authenticated) ==
  LET enable == p.systemReady /\ authenticated /\ p.stable
  IN  [SetTxEnabled(p, enable) EXCEPT !.ledDeny = p.stable /\ ~enable]

ApplyAuthorization(p, authenticated) ==
  LET enable == /\ p.systemReady /\ ~p.permanentFault
                /\ authenticated /\ p.stable
  IN  [SetTxEnabled(p, enable) EXCEPT
         !.ledDeny = ~enable /\ (p.stable \/ p.permanentFault)]

Update(p, authenticated, pressed, now) ==
  ApplyAuthorization(UpdateButton(p, pressed, now), authenticated)

=============================================================================
