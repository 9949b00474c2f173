-------------------------------- MODULE Frames --------------------------------
(***************************************************************************)
(* Frames on a byte stream, in one direction of a connection: the broker's *)
(* encode_frame and read_frame (protocol/frames.py), and the library's     *)
(* sendFrame and readFrame.  A frame is a header of four bytes - type,     *)
(* flags and a length of two bytes - and a payload of JSON.                *)
(*                                                                         *)
(* stream holds every byte written.  The network delivers it in pieces of  *)
(* any size: the first `arrived` bytes have come, and the reader is past   *)
(* the first `pos`.  A reader waits for the header and then for the        *)
(* payload; as nothing else sees what it has read of a frame, pos moves    *)
(* when it is done with the frame.                                         *)
(***************************************************************************)
EXTENDS Integers, Sequences

CONSTANTS
    Base,        \* the number of values of a byte: 256
    Type,        \* the codes of MessageType
    NoPayload,   \* NO_PAYLOAD_TYPES
    Json,        \* the byte strings that json.loads accepts
    BufferSize,  \* _bufferSize of the library
    Payload,     \* bound: the payloads that are sent, JSON or not
    MaxSent      \* bound on the frames

Byte == 0..(Base - 1)
HeaderSize == 4
MaxPayload == Base * Base - 1

ASSUME FrameAssumption ==
    /\ Base \in Nat /\ Base > 1
    /\ Type \subseteq Byte /\ NoPayload \subseteq Type
    /\ Json \subseteq Seq(Byte) \ {<<>>} /\ Payload \subseteq Seq(Byte) \ {<<>>}
    /\ BufferSize \in HeaderSize..MaxPayload
    /\ MaxSent \in Nat

VARIABLES
    direction,  \* "to broker" or "to device"
    stream, arrived, pos,
    ended,      \* the broker's reader: "no", "closed", or "rejected" by a ProtocolError
    sent, received,  \* histories
    bounds,     \* history: frame k is written from byte bounds[k] + 1 to byte bounds[k + 1]
    intact      \* history: every frame was written whole, and no read was given up

writer == <<stream, sent, bounds>>
vars == <<direction, writer, arrived, pos, ended, received, intact>>

Message == [type : Byte, payload : Seq(Byte)]

TypeOK ==
    /\ direction \in {"to broker", "to device"}
    /\ stream \in Seq(Byte) /\ arrived \in 0..Len(stream) /\ pos \in 0..arrived
    /\ ended \in {"no", "closed", "rejected"} /\ intact \in BOOLEAN
    /\ sent \in Seq(Message) /\ received \in Seq(Message)
    /\ bounds \in Seq(Nat) /\ Len(bounds) = Len(sent) + 1

Init ==
    /\ direction \in {"to broker", "to device"}
    /\ stream = <<>> /\ arrived = 0 /\ pos = 0 /\ ended = "no"
    /\ sent = <<>> /\ received = <<>> /\ bounds = <<0>> /\ intact = TRUE

-----------------------------------------------------------------------------
(* The two encoders.                                                       *)

\* A plausible slip: the length is written with its low byte first.
HeaderLowFirst(type, n) == <<type, 0, n % Base, n \div Base>>

\* The length in network order, as struct.pack("!H") and the two shifts write it.
Header(type, n) == <<type, 0, n \div Base, n % Base>>

\* A plausible slip: the length is read with its low byte first.
PayloadLengthLowFirst(data) == data[4] * Base + data[3]

\* decode_header, and the header of readFrame: the length of the header at the start of data.
PayloadLength(data) == data[3] * Base + data[4]

EncodeFrame(type, payload) == Header(type, Len(payload)) \o payload

\* A frame is handed to the transport, or as much of it as the socket takes.
Write(m, bytes, whole) ==
    /\ sent' = Append(sent, m)
    /\ stream' = stream \o bytes
    /\ bounds' = Append(bounds, Len(stream'))
    /\ intact' = (intact /\ whole)
    /\ UNCHANGED <<direction, arrived, pos, ended, received>>

MaySend(type, payload) ==
    /\ Len(sent) < MaxSent
    /\ type \in Type /\ (type \in NoPayload <=> payload = <<>>)

\* What read_frame takes for a payload: an empty one is {}, whatever the type.
Readable == {<<>>} \cup Json

\* encode_frame and writer.write: json.dumps makes the payload, and one that
\* is too long raises.
BrokerSends(type, payload) ==
    /\ direction = "to device" /\ MaySend(type, payload)
    /\ payload \in Readable /\ Len(payload) <= MaxPayload
    /\ Write([type |-> type, payload |-> payload], EncodeFrame(type, payload), TRUE)

\* strlen() as a uint16_t.
Truncated(payload) == Len(payload) % (MaxPayload + 1)

\* sendFrame and sendFrameNoPayload: the length wraps around before it is
\* compared, and write() may take less than the frame.  The payload is any
\* text: publish() puts the caller's strings together as they are, and
\* connect() and subscribe() cut their JSON to a buffer of 256 bytes.
DeviceSends(type, payload) ==
    /\ direction = "to broker" /\ MaySend(type, payload)
    /\ LET n     == Truncated(payload)
           bytes == Header(type, n) \o SubSeq(payload, 1, n)
       IN  /\ n + HeaderSize <= BufferSize
           /\ \E k \in 0..Len(bytes) :
                 Write([type |-> type, payload |-> payload], SubSeq(bytes, 1, k),
                       k = Len(bytes) /\ n = Len(payload))

-----------------------------------------------------------------------------
Arrive ==
    /\ \E n \in (arrived + 1)..Len(stream) : arrived' = n
    /\ UNCHANGED <<direction, writer, pos, ended, received, intact>>

-----------------------------------------------------------------------------
(* The readers.  Ahead is the rest of the stream that has come.            *)

Ahead == SubSeq(stream, pos + 1, arrived)

HeaderHere == Len(Ahead) >= HeaderSize

\* A plausible slip: the reader waits for one byte too many.
FrameHereLate == HeaderHere /\ Len(Ahead) > HeaderSize + PayloadLength(Ahead)

FrameHere == HeaderHere /\ Len(Ahead) >= HeaderSize + PayloadLength(Ahead)

\* The frame at the start of data.
FrameOf(data) ==
    [type |-> data[1], payload |-> SubSeq(data, HeaderSize + 1, HeaderSize + PayloadLength(data))]

Deliver ==
    /\ received' = Append(received, FrameOf(Ahead))
    /\ pos' = pos + HeaderSize + PayloadLength(Ahead)
    /\ UNCHANGED <<direction, writer, arrived, ended, intact>>

\* decode_header, and the check of the types without a payload.
HeaderValid(data) ==
    data[1] \in Type /\ (data[1] \in NoPayload => PayloadLength(data) = 0)

PayloadValid(data) == FrameOf(data).payload \in Readable

BrokerReads ==
    /\ direction = "to broker" /\ ended = "no"
    /\ FrameHere /\ HeaderValid(Ahead) /\ PayloadValid(Ahead)
    /\ Deliver

End(how) ==
    /\ direction = "to broker" /\ ended = "no"
    /\ ended' = how
    /\ UNCHANGED <<direction, writer, arrived, pos, received, intact>>

\* A ProtocolError ends the connection.
BrokerRejects ==
    /\ \/ HeaderHere /\ ~HeaderValid(Ahead)
       \/ FrameHere /\ ~PayloadValid(Ahead)
    /\ End("rejected")

\* A read timeout, or the end of the stream, also within a frame.
BrokerCloses == End("closed")

\* readFrame accepts any type and leaves the payload to its callers.
DeviceReads ==
    /\ direction = "to device"
    /\ FrameHere /\ PayloadLength(Ahead) < BufferSize
    /\ Deliver

\* readFrame returns false, and the connection stays.
GiveUp(n) ==
    /\ direction = "to device"
    /\ pos' = n /\ intact' = FALSE
    /\ UNCHANGED <<direction, writer, arrived, ended, received>>

\* A plausible slip: the payload is skipped too, whether or not it has come.
DeviceSkipsFrame ==
    /\ HeaderHere /\ PayloadLength(Ahead) >= BufferSize
    /\ GiveUp(pos + HeaderSize + PayloadLength(Ahead))

\* "too large": the header is used up, and the payload is not.
DeviceSkipsHeader ==
    HeaderHere /\ PayloadLength(Ahead) >= BufferSize /\ GiveUp(pos + HeaderSize)

\* The next byte does not come within _socketTimeout.
DeviceTimesOut ==
    /\ pos < arrived /\ ~FrameHere
    /\ HeaderHere => PayloadLength(Ahead) < BufferSize
    /\ GiveUp(arrived)

-----------------------------------------------------------------------------
Read == BrokerReads \/ BrokerRejects \/ DeviceReads \/ DeviceSkipsHeader

Next ==
    \/ \E t \in Type, p \in {<<>>} \cup Payload : BrokerSends(t, p) \/ DeviceSends(t, p)
    \/ Arrive \/ Read \/ BrokerCloses \/ DeviceTimesOut

Spec == Init /\ [][Next]_vars

FairSpec == Spec /\ WF_vars(Arrive) /\ WF_vars(Read)

-----------------------------------------------------------------------------
(* However the stream is cut into pieces, each direction is a channel of   *)
(* whole frames, until the library writes less than a frame or gives up a  *)
(* read.                                                                   *)
Channel == INSTANCE FrameChannel WITH broken <- ~intact

ImplementsChannel == Channel!ChannelSpec

(* read_frame raises a ProtocolError only where the device is to blame:    *)
(* the stream is broken, or the next frame that the device sent has a      *)
(* payload that is not JSON.  It is the next one: neither a wrong boundary *)
(* nor a later frame makes the broker end a connection.                    *)
OnlyBadRejected ==
    ended = "rejected" /\ intact =>
        Len(received) < Len(sent) /\ sent[Len(received) + 1].payload \notin Readable

(* Every frame that is sent is received, unless the stream is broken or    *)
(* the connection ends: no reader waits for bytes that nobody owes it.     *)
FramesArrive ==
    \A k \in 1..MaxSent : Len(sent) >= k ~> Len(received) >= k \/ ended # "no" \/ ~intact

=============================================================================
