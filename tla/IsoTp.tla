--------------------------------- MODULE IsoTp ---------------------------------
(***************************************************************************)
(* ISO-TP transfers from one node to another (isotp.c).  The frame types are *)
(* 0 to 3 in the low half of data[0] (isotp.h), but the receiver looks for   *)
(* them in the high half: whatever comes is a single frame or is refused,    *)
(* and lines 103 to 167 are never reached.                                   *)
(***************************************************************************)
EXTENDS Integers, Sequences

CONSTANTS
    MessageLengths,   \* lengths that are sent
    BufferLengths,    \* lengths of buffers isotp_receive is given
    MaxMessages, MaxFrames  \* bounds: messages sent, frames received late

VARIABLES
    sending,          \* tx_ctx of the message under way, or NotSending
    frames,           \* frames the receiver's controller holds
    lengths,          \* history: lengths of the messages sent
    delivery          \* what isotp_receive returned last, a sequence of bytes; <<>> an error

isotpVars == <<sending, frames, lengths, delivery>>

ASSUME IsoTpAssumption ==
    /\ MessageLengths \subseteq Nat /\ BufferLengths \subseteq Nat
    /\ MaxMessages \in Nat /\ MaxFrames \in Nat

ISOTP_SINGLE_FRAME == 0
ISOTP_FIRST_FRAME == 1
ISOTP_CONSECUTIVE == 2

NotSending == [seq_id |-> 0, remaining |-> 0]
CurrentLength == lengths[Len(lengths)]

\* The bytes first .. last of the present message, and bytes of no message.
Bytes(first, last) == [k \in 1 .. last - first + 1 |-> <<Len(lengths'), first + k - 1>>]
Other(n) == [k \in 1 .. n |-> <<0, 0>>]

\* Bitwise or of a frame type and a number below 16.
Or(type, x) == IF (x \div type) % 2 = 1 THEN x ELSE x + type

IsoTpInit ==
    /\ sending = NotSending
    /\ frames = <<>>
    /\ lengths = <<>>
    /\ delivery = <<>>

-----------------------------------------------------------------------------
\* can_send delivers the frame or fails, which only a single frame reports.
CanSend(data0, data) ==
    /\ Len(frames) < MaxFrames
    /\ \/ frames' = Append(frames, [own |-> TRUE, data0 |-> data0, data |-> data])
       \/ UNCHANGED frames

\* isotp_send of at most 7 bytes.
SendSingle(len) ==
    /\ len <= 7
    /\ lengths' = Append(lengths, len)
    /\ CanSend(ISOTP_SINGLE_FRAME + len, Bytes(1, len) \o Other(7 - len))
    /\ UNCHANGED sending

\* isotp_send of more: the first frame holds the length and 6 bytes.
SendFirst(len) ==
    /\ len > 7
    /\ lengths' = Append(lengths, len)
    /\ CanSend(Or(ISOTP_FIRST_FRAME, (len \div 256) % 16), Other(1) \o Bytes(1, 6))
    /\ sending' = [seq_id |-> 0, remaining |-> len - 6]

isotp_send(len) ==
    /\ sending = NotSending
    /\ Len(lengths) < MaxMessages
    /\ SendSingle(len) \/ SendFirst(len)
    /\ UNCHANGED delivery

\* One round of the loop in lines 68-71; no flow control is waited for.
isotp_send_consecutive ==
    /\ sending.remaining > 0
    /\ UNCHANGED <<lengths, delivery>>
    /\ LET n == IF sending.remaining < 7 THEN sending.remaining ELSE 7
           sent == CurrentLength - sending.remaining
       IN  /\ CanSend(Or(ISOTP_CONSECUTIVE, sending.seq_id),
                      Bytes(sent + 1, sent + n) \o Other(7 - n))
           /\ sending' = IF sending.remaining = n THEN NotSending
                         ELSE [seq_id |-> (sending.seq_id + 1) % 16,
                               remaining |-> sending.remaining - n]

-----------------------------------------------------------------------------
HighHalf(data0) == data0 - (data0 % 16)
LowHalf(data0) == data0 % 16

\* The frame is accepted: as a single one, of 1 to 7 bytes that fit.
Accepted(data0, len) ==
    /\ HighHalf(data0) = ISOTP_SINGLE_FRAME
    /\ LowHalf(data0) \in 1 .. 7
    /\ LowHalf(data0) <= len

\* Mutant: what does not fit is left out, and the rest returned.
isotp_receive_truncated(len) ==
    /\ frames # <<>>
    /\ frames' = Tail(frames)
    /\ LET frame == Head(frames)
           fitting == IF LowHalf(frame.data0) <= len THEN LowHalf(frame.data0) ELSE len
       IN  delivery' = IF frame.own /\ Accepted(frame.data0, 7)
                       THEN SubSeq(frame.data, 1, fitting) ELSE <<>>
    /\ UNCHANGED <<sending, lengths>>

\* A call takes one frame; without one it returns -ETIMEDOUT and nothing is
\* changed.  A frame that is not accepted is gone (-EMSGSIZE, -ENOSPC, -EINVAL).
isotp_receive(len) ==
    /\ frames # <<>>
    /\ frames' = Tail(frames)
    /\ LET frame == Head(frames) IN
       delivery' = IF frame.own /\ Accepted(frame.data0, len)
                   THEN SubSeq(frame.data, 1, LowHalf(frame.data0)) ELSE <<>>
    /\ UNCHANGED <<sending, lengths>>

\* A frame of a node that is not meant: line 86 refuses it, after taking it,
\* unless its id has all the bits of rx_id and others.
OtherNodeSends ==
    /\ Len(frames) < MaxFrames
    /\ \E own \in BOOLEAN :
          frames' = Append(frames, [own |-> own, data0 |-> 3, data |-> Other(7)])
    /\ UNCHANGED <<sending, lengths, delivery>>

IsoTpNext ==
    \/ \E len \in MessageLengths : isotp_send(len)
    \/ isotp_send_consecutive
    \/ \E len \in BufferLengths : isotp_receive(len)
    \/ OtherNodeSends

-----------------------------------------------------------------------------
IsoTpTypeOK ==
    /\ sending \in [seq_id : 0 .. 15, remaining : Nat]
    /\ lengths \in Seq(MessageLengths) /\ Len(lengths) <= MaxMessages
    /\ Len(frames) <= MaxFrames
    /\ \A i \in DOMAIN frames : frames[i].data0 \in 0 .. 255 /\ Len(frames[i].data) = 7

Whole(m) == [k \in 1 .. lengths[m] |-> <<m, k>>]

\* Whatever is sent before and after it and whatever other nodes send: a call
\* that returns a byte of a message of at most 7 bytes returns that message, and
\* no call returns bytes of two messages.  A call has no other way to tell them
\* apart than the one frame it takes (lines 90-100).
ShortMessagesWhole ==
    \A i, j \in DOMAIN delivery : LET m == delivery[i][1] IN
        /\ m \in DOMAIN lengths /\ lengths[m] <= 7 => delivery = Whole(m)
        /\ delivery[j][1] \in {m, 0} \/ m = 0
=============================================================================
