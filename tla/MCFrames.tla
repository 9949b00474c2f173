------------------------------- MODULE MCFrames -------------------------------
(***************************************************************************)
(* Frames with four values to a byte: a length below 16, types 1 (with a   *)
(* payload) and 2 (without), 0 and 3 unknown.  Some payloads read like     *)
(* headers when a reader starts in them.                                   *)
(***************************************************************************)
EXTENDS Frames

Zeros(n) == [i \in 1..n |-> 0]

\* The shortest, one that fits the library's buffer when it is written and
\* when it is read, one that is too large to be read, the longest a header
\* can tell, and one longer than that.
MCJsonSent == {<<1>>, <<2, 0>>, <<2, 0, 0, 0, 1, 0, 0>>, <<1, 0, 0>> \o Zeros(12), <<1>> \o Zeros(15)}

\* Not everything that is sent is JSON, nor is everything that is JSON sent.
MCPayload == MCJsonSent \cup {<<3>>}
MCJson == MCJsonSent \cup {<<0>>}
=============================================================================
