--------------------------- MODULE ReliableStream ---------------------------
(***************************************************************************)
(* What an MRP stream promises its two users (mrp/src/stream.rs, "reliable"*)
(* in the crate documentation): the receiver obtains exactly the submitted *)
(* messages, whole, once each and in order, and eventually all of them.    *)
(* `submitted' and `delivered' are sequences of messages; one call of the  *)
(* receiver may return several messages at once.                           *)
(***************************************************************************)
EXTENDS Naturals, Sequences

CONSTANT Message

VARIABLES submitted, delivered

vars == <<submitted, delivered>>

Init == submitted = <<>> /\ delivered = <<>>

Submit == /\ \E m \in Message : submitted' = Append(submitted, m)
          /\ UNCHANGED delivered

Deliver == /\ \E n \in Len(delivered) + 1 .. Len(submitted) :
                delivered' = SubSeq(submitted, 1, n)
           /\ UNCHANGED submitted

Next == Submit \/ Deliver

Spec == Init /\ [][Next]_vars /\ WF_vars(Deliver)
=============================================================================
