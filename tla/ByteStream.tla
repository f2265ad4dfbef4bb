---------------------------- MODULE ByteStream ----------------------------
(***************************************************************************)
(* What a pipe promises: a bounded FIFO of bytes.  Bytes enter in chunks   *)
(* that fit, and leave from the front in the order in which they entered.  *)
(***************************************************************************)
EXTENDS Naturals, Sequences

CONSTANTS Byte, Size

VARIABLES sent, rcvd    \* every byte that has entered, and that has left

svars == <<sent, rcvd>>

Init == sent = <<>> /\ rcvd = <<>>

(* k bytes enter: what was sent before is a prefix of what is sent now *)
Send ==
    /\ sent' \in Seq(Byte)
    /\ Len(sent) < Len(sent')
    /\ Len(sent') - Len(rcvd) <= Size
    /\ SubSeq(sent', 1, Len(sent)) = sent
    /\ UNCHANGED rcvd

(* The oldest bytes leave *)
Receive ==
    /\ \E m \in 1..(Len(sent) - Len(rcvd)) :
        rcvd' = SubSeq(sent, 1, Len(rcvd) + m)
    /\ UNCHANGED sent

Next == Send \/ Receive

Spec == Init /\ [][Next]_svars
=============================================================================
