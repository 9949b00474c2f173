----------------------------- MODULE FrameChannel -----------------------------
(***************************************************************************)
(* What a connection promises to the two programs that exchange frames     *)
(* over it: the frames of one direction are received in the order they     *)
(* were sent, none changed, repeated or left out - until one of the two    *)
(* loses the division of the byte stream into frames.  From then on        *)
(* whatever bytes come next may be taken for a frame.                      *)
(***************************************************************************)
EXTENDS Naturals, Sequences

CONSTANT Message

VARIABLES sent, received, broken

channel == <<sent, received, broken>>

\* t is s and one message more.
IsLonger(s, t) ==
    /\ Len(t) = Len(s) + 1
    /\ \A i \in 1..Len(s) : t[i] = s[i]
    /\ t[Len(t)] \in Message

ChannelInit == sent = <<>> /\ received = <<>> /\ broken = FALSE

Send == IsLonger(sent, sent') /\ broken' \in {broken, TRUE} /\ UNCHANGED received

ReceiveNext ==
    /\ Len(received) < Len(sent)
    /\ received' = Append(received, sent[Len(received) + 1])
    /\ UNCHANGED <<sent, broken>>

ReceiveAnything ==
    broken /\ IsLonger(received, received') /\ UNCHANGED <<sent, broken>>

Break == broken' = TRUE /\ UNCHANGED <<sent, received>>

ChannelNext == Send \/ ReceiveNext \/ ReceiveAnything \/ Break

ChannelSpec == ChannelInit /\ [][ChannelNext]_channel
=============================================================================
