----------------------------- MODULE FrameOrder -----------------------------
(***************************************************************************)
(* Frames of one sender that reach a receiver out of order (core/crypto.rs,*)
(* Context::encrypt and Context::decrypt), while the sender advances its   *)
(* ratchet.  The receiver has a key the sender once used, with the counter *)
(* it then had.                                                            *)
(***************************************************************************)
EXTENDS FrameCrypto

CONSTANTS MaxFrames, MaxRatchets   \* bounds on the frames sent and the ratchets

VARIABLES
  sender,      \* sender_state
  next,        \* next_frame_counter
  network,     \* frames on their way
  states,      \* remote_states_by_id of the receiver, for this sender
  newest,      \* history: the newest frame that arrived
  refused      \* history: a frame newer than that failed

vars == <<sender, next, network, states, newest, refused>>

Key == [root |-> 1, steps |-> 0]

Init ==
  /\ \E counter \in 0..CounterModulus - 1 :
       /\ sender = SenderState(counter, Key)
       /\ states = <<ReceiverState(counter, Key)>>
  /\ next = 1 /\ network = {}
  /\ newest = 0
  /\ refused = FALSE

advance_send_ratchet ==
  /\ sender.secret.steps < MaxRatchets
  /\ sender' = mut_advance_ratchet(sender)
  /\ UNCHANGED <<next, network, states, newest, refused>>

Encrypt ==
  /\ next <= MaxFrames
  /\ network' = network \cup {encrypt(sender, next)}
  /\ next' = next + 1
  /\ UNCHANGED <<sender, states, newest, refused>>

Decrypt(f) ==
  /\ network' = network \ {f}
  /\ states' = decrypt(states, f)
  /\ refused' = (refused \/ (f.frame > newest /\ ~Decrypts(states, f)))
  /\ newest' = IF f.frame > newest THEN f.frame ELSE newest
  /\ UNCHANGED <<sender, next>>

Next == advance_send_ratchet \/ Encrypt \/ \E f \in network : Decrypt(f)

Spec == Init /\ [][Next]_vars

(* However late others come, and whether they still decrypt or not, a frame *)
(* newer than all before it decrypts: a late frame that the receiver went   *)
(* back for never costs it the way forward (try_advance_ratchet, limit_ooo).*)
NewFramesDecrypt == ~refused
=============================================================================
