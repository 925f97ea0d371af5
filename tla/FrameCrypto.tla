---------------------------- MODULE FrameCrypto ----------------------------
(***************************************************************************)
(* The frame encryption of group calls (core/crypto.rs), as operators.     *)
(*                                                                         *)
(* A secret is the random value it started from and the number of times it *)
(* was ratcheted: ratcheting goes forward only.  The AES and HMAC keys are *)
(* derived from the secret, so a frame authenticates under a state exactly *)
(* if it was encrypted under the same secret.                              *)
(***************************************************************************)
EXTENDS Naturals, Sequences

CONSTANTS
  CounterModulus,       \* values of a RatchetCounter: 256 for the u8 of the code
  MaxReceiverStates,    \* MAX_RECEIVER_STATES_TO_RETAIN
  MaxOooFrames,         \* MAX_OOO_FRAMES
  MaxOooRatchets        \* MAX_OOO_RATCHETS

Ratcheted(secret, n) == [secret EXCEPT !.steps = @ + n]

(* Deviation: without wrapping. *)
DistanceUpwards(from, to) == IF to >= from THEN to - from ELSE 0

(* How often a ratchet counter is advanced, wrapping, to reach another. *)
Distance(from, to) == (to + CounterModulus - from) % CounterModulus

SenderState(counter, secret) == [counter |-> counter, secret |-> secret]

mut_advance_ratchet(sender) ==
  SenderState((sender.counter + 1) % CounterModulus, Ratcheted(sender.secret, 1))

reset_send_ratchet(secret) == SenderState(0, secret)

(* encrypt() also takes the next frame counter. *)
encrypt(sender, frameCounter) ==
  [counter |-> sender.counter, secret |-> sender.secret, frame |-> frameCounter]

ReceiverState(counter, secret) ==
  [counter |-> counter, secret |-> secret, frame |-> 0,
   oldCounter |-> counter, oldSecret |-> secret]

(* u64 subtraction wraps, so that a frame older than the last one is more  *)
(* than MaxOooFrames ahead of it.                                          *)
FarAhead(frame, last) == frame < last \/ frame - last > MaxOooFrames

try_advance_ratchet(r, frame) ==
  LET forward == frame.frame > r.frame
      counter == IF forward THEN r.counter ELSE r.oldCounter
      secret  == IF forward THEN r.secret ELSE r.oldSecret
      far     == FarAhead(frame.frame, r.frame)
  IN [counter    |-> frame.counter,
      secret     |-> Ratcheted(secret, Distance(counter, frame.counter)),
      frame      |-> frame.frame,
      oldCounter |-> IF far THEN r.counter ELSE r.oldCounter,
      oldSecret  |-> IF far THEN r.secret ELSE r.oldSecret]

limit_ooo(r) ==
  LET distance == Distance(r.oldCounter, r.counter)
      excess   == IF distance > MaxOooRatchets THEN distance - MaxOooRatchets ELSE 0
  IN [r EXCEPT !.oldCounter = (@ + excess) % CounterModulus,
               !.oldSecret = Ratcheted(@, excess)]

check_mac(r, frame) == r.secret = frame.secret

MatchesDirectly(states, frame) ==
  \E i \in DOMAIN states : states[i].counter = frame.counter /\ check_mac(states[i], frame)

MatchesAdvanced(states, frame) ==
  {i \in DOMAIN states : check_mac(try_advance_ratchet(states[i], frame), frame)}

Decrypts(states, frame) ==
  MatchesDirectly(states, frame) \/ MatchesAdvanced(states, frame) # {}

(* decrypt(): the receiver states afterwards.  The first state that can be *)
(* advanced to the frame stays there; a frame that fails changes nothing.  *)
decrypt(states, frame) ==
  LET advanced == MatchesAdvanced(states, frame)
      first    == CHOOSE i \in advanced : \A j \in advanced : i <= j
  IN IF MatchesDirectly(states, frame) \/ advanced = {} THEN states
     ELSE [states EXCEPT ![first] = limit_ooo(try_advance_ratchet(@, frame))]

(* Every key of a sequence in turn, oldest first: the newest key is tried  *)
(* first, and only so many are retained.                                   *)
add_receive_secrets(states, keys) ==
  LET newest == [i \in 1..Len(keys) |-> LET k == keys[Len(keys) + 1 - i]
                                        IN ReceiverState(k.counter, k.secret)]
      all    == newest \o states
  IN SubSeq(all, 1, IF Len(all) > MaxReceiverStates THEN MaxReceiverStates ELSE Len(all))
=============================================================================
