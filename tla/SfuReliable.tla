---------------------------- MODULE SfuReliable ----------------------------
(***************************************************************************)
(* The group call client's use of its reliable stream                      *)
(* (core/group_call.rs): handle_sfu_to_device feeds every packet to        *)
(* receive_and_merge and loops over the messages it returns.  A message    *)
(* that was fragmented travels in the `content' field.                     *)
(***************************************************************************)
EXTENDS Mrp, SequencesExt

VARIABLE handled      \* the messages given to handle_sfu_to_device_inner

HasContent(message) == Len(message) > 1

(* The loop of handle_sfu_to_device: it returns after the first message    *)
(* that has content.                                                       *)
HandleReady(ready) ==
  LET withContent == {i \in DOMAIN ready : HasContent(ready[i])}
  IN  IF withContent = {} THEN ready
      ELSE SubSeq(ready, 1, Min(withContent))

SfuInit == Init /\ handled = <<>>

HandleSfuToDevice ==
  /\ \E p \in data : ReceiveData(p)
  /\ handled' = handled \o HandleReady(SubSeq(delivered', Len(delivered) + 1,
                                              Len(delivered')))

SfuNext == \/ HandleSfuToDevice
           \/ /\ \/ TrySend \/ (\E n \in Sizes : TrySendFragmented(n)) \/ TryResend
                 \/ TrySendAck \/ (\E ack \in acks : ReceiveAck(ack)) \/ LoseData \/ LoseAck
              /\ UNCHANGED handled

SfuSpec == SfuInit /\ [][SfuNext]_<<vars, handled>>

(* Every message the reliable stream releases, and so acknowledges to the  *)
(* SFU, is processed ("returns packets ready for processing",              *)
(* mrp/src/stream.rs).                                                     *)
ReadyMeansHandled == handled = delivered
=============================================================================
