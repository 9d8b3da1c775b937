--------------------------------- MODULE J1939 ---------------------------------
(***************************************************************************)
(* The transport protocol of src/common/can_protocol/j1939.c: nodes on one  *)
(* CAN bus send messages of more than 8 bytes as an RTS frame and a train   *)
(* of DT frames, and reassemble what they receive in one session.           *)
(*                                                                          *)
(* j1939_send_pgn puts no destination in the identifier, and nothing in a   *)
(* DT frame says whose message it belongs to: a frame is for all who listen.*)
(* can_send may report an error: the sender gives up, a receiver ignores    *)
(* that its reply was not sent.                                             *)
(*                                                                          *)
(* Who listens is not settled by j1939_init.  The one filter it installs    *)
(* (lines 37-44) has no callback and matches the node's own source address  *)
(* in the sender's byte of the identifier: nothing another node sends comes *)
(* through it.  j1939_process_message gets frames only where the program of *)
(* a node adds a filter and a callback of its own; those nodes are Listening*)
(* and no program under src/ is one yet.                                    *)
(***************************************************************************)
EXTENDS Integers, Sequences, FiniteSets

UINT8_MAX == 255
UINT16_MAX == 65535

CONSTANTS
    Nodes,
    Listening,     \* the nodes that hand all frames of others to j1939_process_message
    Messages,      \* Messages[n]: what callers send at n, records [pgn, size]
    Handled,       \* the PGNs with a registered handler
    BufferSize,    \* sizeof(tp_buffer)
    TimeoutTicks,  \* TP_TIMEOUT_MS in units of the 50 ms between two DT frames
    MaxTransfers,  \* bound: MaxTransfers[n] calls of j1939_send_tp_data at n
    MaxQueue,      \* bound: frames a node leaves unprocessed before more are sent
    MaxFailures    \* bound: can_send errors

ASSUME MessagesAssumption == Messages \in [Nodes -> SUBSET [pgn : Nat, size : 1..UINT16_MAX]]
ASSUME ListeningAssumption == Listening \subseteq Nodes
ASSUME LimitsAssumption ==
    /\ BufferSize \in Nat /\ TimeoutTicks \in Nat
    /\ MaxTransfers \in [Nodes -> Nat] /\ MaxQueue \in Nat /\ MaxFailures \in Nat

VARIABLES
    inbox,      \* inbox[n]: frames on the way to j1939_process_message of n
    session,    \* session[n]: tp_in_progress (open) and tp_session of n
    tp_buffer,  \* tp_buffer[n]: the last packet stored at each place
    sender,     \* sender[n]: where the call of j1939_send_tp_data is
    sent,       \* history: the messages n was asked to send
    returned,   \* history: the calls of n that returned 0
    delivered,  \* history: what the PGN handlers of n were called with
    failures,   \* can_send errors so far
    delayed     \* history: a frame or a sender once waited 50 ms

vars == <<inbox, session, tp_buffer, sender, sent, returned, delivered,
          failures, delayed>>

-----------------------------------------------------------------------------
Smaller(a, b) == IF a < b THEN a ELSE b

\* (len + 6) / 7, kept in a uint8_t.
num_packets(size) == ((size + 6) \div 7) % (UINT8_MAX + 1)

\* A packet names the call it comes from and its place in that message.
Packet == [src : Nodes, call : Nat, seq : 0..UINT8_MAX]
NoPacket == [seq |-> 0]

Closed == [open |-> FALSE, pgn |-> 0, size |-> 0, packets |-> 0, next |-> 0, age |-> 0]
Idle == [at |-> "idle", i |-> 0]

RTS(m) == [type |-> "RTS", pgn |-> m.pgn, size |-> m.size, packets |-> num_packets(m.size)]
DT(p) == [type |-> "DT", packet |-> p]
Single(m, p) == [type |-> "PGN", pgn |-> m.pgn, size |-> m.size, packet |-> p]
CTS == [type |-> "CTS"]
EndOfMsgAck == [type |-> "EOM"]
Abort(code) == [type |-> "ABORT", code |-> code]

Init ==
    /\ inbox = [n \in Nodes |-> <<>>]
    /\ session = [n \in Nodes |-> Closed]
    /\ tp_buffer = [n \in Nodes |-> <<>>]
    /\ sender = [n \in Nodes |-> Idle]
    /\ sent = [n \in Nodes |-> <<>>]
    /\ returned = [n \in Nodes |-> {}]
    /\ delivered = [n \in Nodes |-> {}]
    /\ failures = 0
    /\ delayed = FALSE

-----------------------------------------------------------------------------
(* j1939_send_tp_data.  CTS, Abort and EndOfMsgAck frames do not reach it:  *)
(* it sends the whole train whatever the receiver answers.                  *)

others(n) == Nodes \ {n}

\* Who gets a frame of n: with the filter of j1939_init alone, nobody.
listeners(n) == Listening \ {n}

RoomOnBus(n) == \A m \in listeners(n) : Len(inbox[m]) < MaxQueue

Broadcast(n, frame) ==
    inbox' = [m \in Nodes |-> IF m \in listeners(n) THEN Append(inbox[m], frame) ELSE inbox[m]]

CanSendError ==
    /\ failures < MaxFailures
    /\ failures' = failures + 1
    /\ UNCHANGED inbox

receiverVars == <<session, tp_buffer, delivered, delayed>>

SendSingle(n, m) ==
    /\ sender[n] = Idle
    /\ m.size <= 8
    /\ Len(sent[n]) < MaxTransfers[n]
    /\ sent' = [sent EXCEPT ![n] = Append(@, m)]
    /\ \/ /\ RoomOnBus(n)
          /\ Broadcast(n, Single(m, [src |-> n, call |-> Len(sent[n]) + 1, seq |-> 1]))
          /\ returned' = [returned EXCEPT ![n] = @ \cup {Len(sent[n]) + 1}]
          /\ UNCHANGED failures
       \/ CanSendError /\ UNCHANGED returned
    /\ UNCHANGED <<sender, receiverVars>>

SendRts(n, m) ==
    /\ sender[n] = Idle
    /\ m.size > 8
    /\ Len(sent[n]) < MaxTransfers[n]
    /\ sent' = [sent EXCEPT ![n] = Append(@, m)]
    /\ \/ /\ RoomOnBus(n)
          /\ Broadcast(n, RTS(m))
          /\ IF num_packets(m.size) = 0
             THEN /\ returned' = [returned EXCEPT ![n] = @ \cup {Len(sent[n]) + 1}]
                  /\ UNCHANGED sender
             ELSE /\ sender' = [sender EXCEPT ![n] = [at |-> "data", i |-> 0]]
                  /\ UNCHANGED returned
          /\ UNCHANGED failures
       \/ CanSendError /\ UNCHANGED <<sender, returned>>
    /\ UNCHANGED receiverVars

SendData(n) ==
    /\ sender[n].at = "data"
    /\ \/ /\ RoomOnBus(n)
          /\ Broadcast(n, DT([src |-> n, call |-> Len(sent[n]), seq |-> sender[n].i + 1]))
          /\ sender' = [sender EXCEPT ![n].at = "sleep"]
          /\ UNCHANGED failures
       \/ CanSendError /\ sender' = [sender EXCEPT ![n] = Idle]
    /\ UNCHANGED <<sent, returned, receiverVars>>

\* 50 ms pass: sleeping senders go on to their next packet or return 0, and
\* open sessions grow older (their age is told apart up to the timeout).
LastPacket(n) == sender[n].i + 1 >= num_packets(sent[n][Len(sent[n])].size)

Woken(n) ==
    CASE sender[n].at # "sleep" -> sender[n]
      [] sender[n].at = "sleep" /\ LastPacket(n) -> Idle
      [] sender[n].at = "sleep" /\ ~LastPacket(n) -> [at |-> "data", i |-> sender[n].i + 1]

Tick ==
    /\ \E n \in Nodes : \/ sender[n].at = "sleep"
                       \/ (session[n].open /\ session[n].age <= TimeoutTicks)
    /\ sender' = [n \in Nodes |-> Woken(n)]
    /\ returned' = [n \in Nodes |-> IF sender[n].at = "sleep" /\ LastPacket(n)
                                    THEN returned[n] \cup {Len(sent[n])} ELSE returned[n]]
    /\ session' = [n \in Nodes |-> IF session[n].open
                       THEN [session[n] EXCEPT !.age = Smaller(@ + 1, TimeoutTicks + 1)]
                       ELSE session[n]]
    /\ delayed' = (delayed \/ \E n \in Nodes : inbox[n] # <<>> \/ sender[n].at = "data")
    /\ UNCHANGED <<inbox, tp_buffer, sent, delivered, failures>>

-----------------------------------------------------------------------------
(* j1939_process_message.                                                   *)

Receives(n, type) == inbox[n] # <<>> /\ Head(inbox[n]).type = type

Consumed(n) == [inbox EXCEPT ![n] = Tail(@)]

\* The reply goes out, or can_send fails and nobody notices.
Reply(n, frame) ==
    \/ /\ inbox' = [m \in Nodes |-> IF m = n THEN Tail(inbox[m])
                                    ELSE IF m \in listeners(n) THEN Append(inbox[m], frame)
                                    ELSE inbox[m]]
       /\ UNCHANGED failures
    \/ /\ failures < MaxFailures
       /\ failures' = failures + 1
       /\ inbox' = Consumed(n)

NoReply(n) == inbox' = Consumed(n) /\ UNCHANGED failures

CloseSession(n) == session' = [session EXCEPT ![n] = Closed]

AbortSession(n, code) == Reply(n, Abort(code)) /\ CloseSession(n)

\* The first handler registered for the PGN is called.
Deliver(n, pgn, size, data) ==
    delivered' = IF pgn \in Handled
                 THEN [delivered EXCEPT ![n] =
                         @ \cup {[pgn |-> pgn, size |-> size, data |-> data]}]
                 ELSE delivered

senderVars == <<sender, sent, returned, delayed>>

\* Mutant: the size is not compared with that of the buffer.
AnySizeRts(frame) ==
    /\ frame.size # 0
    /\ frame.packets # 0
    /\ frame.size = (frame.packets - 1) * 7
                     + (IF frame.size % 7 = 0 THEN 7 ELSE frame.size % 7)

ValidRts(frame) ==
    /\ frame.size \in 1..BufferSize
    /\ frame.packets # 0
    /\ frame.size = (frame.packets - 1) * 7
                     + (IF frame.size % 7 = 0 THEN 7 ELSE frame.size % 7)

RejectBusy(n) ==
    /\ Receives(n, "RTS")
    /\ session[n].open
    /\ Reply(n, Abort(1))
    /\ UNCHANGED <<session, tp_buffer, delivered, senderVars>>

RejectSize(n) ==
    /\ Receives(n, "RTS")
    /\ ~session[n].open
    /\ ~ValidRts(Head(inbox[n]))
    /\ Reply(n, Abort(2))
    /\ UNCHANGED <<session, tp_buffer, delivered, senderVars>>

OpenSession(n) ==
    LET frame == Head(inbox[n]) IN
    /\ Receives(n, "RTS")
    /\ ~session[n].open
    /\ ValidRts(frame)
    /\ session' = [session EXCEPT ![n] =
          [open |-> TRUE, pgn |-> frame.pgn, size |-> frame.size,
           packets |-> frame.packets, next |-> 1, age |-> 0]]
    /\ Reply(n, CTS)
    /\ UNCHANGED <<tp_buffer, delivered, senderVars>>

IgnoreData(n) ==
    /\ Receives(n, "DT")
    /\ ~session[n].open
    /\ NoReply(n)
    /\ UNCHANGED <<session, tp_buffer, delivered, senderVars>>

\* Mutant: the limit itself is too late.
ExpiredEarly(n) == session[n].age >= TimeoutTicks

Expired(n) == session[n].age > TimeoutTicks

\* The age is looked at only here: an abandoned session stays open until then.
TimedOut(n) ==
    /\ Receives(n, "DT")
    /\ session[n].open
    /\ Expired(n)
    /\ AbortSession(n, 3)
    /\ UNCHANGED <<tp_buffer, delivered, senderVars>>

SequenceError(n) ==
    /\ Receives(n, "DT")
    /\ session[n].open
    /\ ~Expired(n)
    /\ Head(inbox[n]).packet.seq # session[n].next
    /\ AbortSession(n, 4)
    /\ UNCHANGED <<tp_buffer, delivered, senderVars>>

\* The uint16_t offset of packet seq, and the uint8_t number of bytes it adds.
OffsetOf(seq) == ((seq - 1) * 7) % (UINT16_MAX + 1)
BytesOf(seq, size) == Smaller(7, size - OffsetOf(seq)) % (UINT8_MAX + 1)

\* Mutant: what the buffer holds is not overwritten.
StoredIfNew(buffer, p) == IF p.seq <= Len(buffer) THEN buffer ELSE Append(buffer, p)

\* Mutant: each packet goes one place too far.
StoredShifted(buffer, p) ==
    [k \in 1..(p.seq + 1) |->
        IF k = p.seq + 1 THEN p
        ELSE IF k <= Len(buffer) THEN buffer[k] ELSE NoPacket]

\* tp_buffer with the packet at its place; the buffer is never cleared.
Stored(buffer, p) ==
    [k \in 1..(IF p.seq > Len(buffer) THEN p.seq ELSE Len(buffer)) |->
        IF k = p.seq THEN p
        ELSE IF k <= Len(buffer) THEN buffer[k] ELSE NoPacket]

AcceptData(n) ==
    LET s == session[n]
        p == Head(inbox[n]).packet
        next == (s.next + 1) % (UINT8_MAX + 1)
        end == OffsetOf(p.seq) + BytesOf(p.seq, s.size)
    IN
    /\ Receives(n, "DT")
    /\ s.open
    /\ ~Expired(n)
    /\ p.seq = s.next
    /\ IF end > s.size
       THEN AbortSession(n, 5) /\ UNCHANGED <<tp_buffer, delivered>>
       ELSE /\ tp_buffer' = [tp_buffer EXCEPT ![n] = Stored(@, p)]
            /\ IF next <= s.packets
               THEN /\ session' = [session EXCEPT ![n].next = next]
                    /\ NoReply(n)
                    /\ UNCHANGED delivered
               ELSE IF s.size # end
               THEN AbortSession(n, 6) /\ UNCHANGED delivered
               ELSE /\ Reply(n, EndOfMsgAck)
                    /\ Deliver(n, s.pgn, s.size, SubSeq(tp_buffer'[n], 1, s.packets))
                    /\ CloseSession(n)
    /\ UNCHANGED senderVars

\* EndOfMsgAck and Abort belong to what this node sent, but close the session
\* in which it receives.
ReceiveEnd(n) ==
    /\ Receives(n, "EOM") \/ Receives(n, "ABORT")
    /\ CloseSession(n)
    /\ NoReply(n)
    /\ UNCHANGED <<tp_buffer, delivered, senderVars>>

ReceiveCts(n) ==
    /\ Receives(n, "CTS")
    /\ NoReply(n)
    /\ UNCHANGED <<session, tp_buffer, delivered, senderVars>>

ReceiveSingle(n) ==
    LET frame == Head(inbox[n]) IN
    /\ Receives(n, "PGN")
    /\ Deliver(n, frame.pgn, frame.size, <<frame.packet>>)
    /\ NoReply(n)
    /\ UNCHANGED <<session, tp_buffer, senderVars>>

j1939_process_message(n) ==
    \/ RejectBusy(n)
    \/ RejectSize(n)
    \/ OpenSession(n)
    \/ IgnoreData(n)
    \/ TimedOut(n)
    \/ SequenceError(n)
    \/ AcceptData(n)
    \/ ReceiveEnd(n)
    \/ ReceiveCts(n)
    \/ ReceiveSingle(n)

j1939_send_tp_data(n) ==
    \/ \E m \in Messages[n] : SendSingle(n, m) \/ SendRts(n, m)
    \/ SendData(n)

\* Nothing is left to send, to process or to wait for.
Quiet ==
    /\ \A n \in Nodes : sender[n] = Idle /\ inbox[n] = <<>> /\ Len(sent[n]) = MaxTransfers[n]
    /\ UNCHANGED vars

Next ==
    \/ \E n \in Nodes : j1939_send_tp_data(n) \/ j1939_process_message(n)
    \/ Tick
    \/ Quiet

Spec == Init /\ [][Next]_vars

-----------------------------------------------------------------------------
(* Types.                                                                   *)

Frames ==
    [type : {"RTS"}, pgn : Nat, size : Nat, packets : 0..UINT8_MAX]
        \cup [type : {"DT"}, packet : Packet]
        \cup [type : {"PGN"}, pgn : Nat, size : Nat, packet : Packet]
        \cup [type : {"CTS", "EOM"}]
        \cup [type : {"ABORT"}, code : 1..6]

Sessions == [open : BOOLEAN, pgn : Nat, size : Nat, packets : 0..UINT8_MAX,
             next : 0..UINT8_MAX, age : 0..(TimeoutTicks + 1)]

Calls == [pgn : Nat, size : Nat, data : Seq(Packet \cup {NoPacket})]

\* The packets, the last one maybe a shorter one, that tp_buffer has room for.
BufferPackets == (BufferSize + 6) \div 7

\* Every frame, session and call of a handler has the fields of its C type, and
\* no memcpy of a packet (line 131) leaves tp_buffer, whatever an RTS announced.
TypeOK ==
    /\ inbox \in [Nodes -> Seq(Frames)]
    /\ session \in [Nodes -> Sessions]
    /\ tp_buffer \in [Nodes -> Seq(Packet \cup {NoPacket})]
    /\ \A n \in Nodes : Len(tp_buffer[n]) <= BufferPackets
    /\ sender \in [Nodes -> [at : {"idle", "data", "sleep"}, i : 0..UINT8_MAX - 1]]
    /\ \A n \in Nodes : /\ sent[n] \in Seq(Messages[n])
                        /\ returned[n] \subseteq DOMAIN sent[n]
                        /\ delivered[n] \subseteq Calls
    /\ failures \in Nat
    /\ delayed \in BOOLEAN

-----------------------------------------------------------------------------
(* What a receiver hands to a PGN handler.                                  *)

\* The packets of message m, sent by call k of node src.
PacketsOf(src, k, m) ==
    [i \in 1..(IF m.size <= 8 THEN 1 ELSE num_packets(m.size)) |->
        [src |-> src, call |-> k, seq |-> i]]

IsMessageOf(src, d) ==
    \E k \in DOMAIN sent[src] :
        d = [pgn |-> sent[src][k].pgn, size |-> sent[src][k].size,
             data |-> PacketsOf(src, k, sent[src][k])]

\* What j1939.c:155 says of the call, "Process complete message": the bytes a
\* handler gets are one message, whole, as some node sent it under that PGN.
\* The code does not do this once a sender gave up half way.
HandlersGetOneMessage ==
    \A n \in Nodes : \A d \in delivered[n] : \E src \in others(n) : IsMessageOf(src, d)

\* Between two nodes it is so as long as no can_send fails, however frames are
\* delayed, sessions time out and replies cut each other's sessions short.
WholeUnlessSendFailed == failures = 0 => HandlersGetOneMessage

\* Even then every packet a handler gets is at the place its number says, so no
\* place it reads was never written.  That the packets are those of one message
\* is not said here: it is HandlersGetOneMessage that fails then.
PacketsInPlace ==
    \A n \in Nodes : \A d \in delivered[n] : \A i \in DOMAIN d.data : d.data[i].seq = i

\* An open session is a message that fits its buffer and packet count, and so
\* the checks of offset and total size behind the sequence check never fail:
\* the sequence number and the RTS have settled both.
SessionFits(n) ==
    /\ session[n].size \in 1..BufferSize
    /\ 7 * (session[n].packets - 1) < session[n].size
    /\ session[n].size <= 7 * session[n].packets
    /\ session[n].next <= session[n].packets
    /\ Len(tp_buffer[n]) >= session[n].next - 1

SizeChecksNeverFail ==
    \A n \in Nodes :
        /\ session[n].open => SessionFits(n)
        /\ \A k \in DOMAIN inbox[n] :
              inbox[n][k].type = "ABORT" => inbox[n][k].code \notin {5, 6}

\* Whatever becomes of a transfer, no handler gets a packet out of place, and no
\* session outgrows its message, its packet count or its buffer.
SessionsSound == PacketsInPlace /\ SizeChecksNeverFail

\* Nothing failed, nothing waited, and nobody but src sent: what src was told
\* of call k, by a return value of 0, can be relied on.
UndisturbedCall(src, k) ==
    /\ k \in returned[src]
    /\ failures = 0 /\ ~delayed
    /\ \A n \in others(src) : sent[n] = <<>> /\ inbox[n] = <<>>
    /\ sent[src][k].pgn \in Handled

ArrivedAtListeners(src, k) ==
    LET m == sent[src][k] IN
    \A n \in listeners(src) :
        [pgn |-> m.pgn, size |-> m.size, data |-> PacketsOf(src, k, m)] \in delivered[n]

\* The whole train of one packet every 50 ms fits the timeout of one session.
FitsTimeout(m) == num_packets(m.size) <= TimeoutTicks + 1

\* An undisturbed call that returned 0 did its work: the handler was called at
\* every node that listens.
PromptMessagesArrive ==
    \A src \in Nodes : \A k \in DOMAIN sent[src] :
        /\ UndisturbedCall(src, k)
        /\ sent[src][k].size <= BufferSize /\ FitsTimeout(sent[src][k])
        => ArrivedAtListeners(src, k)

\* What j1939.c:22 says of the buffer, "Max J1939-TP size": messages up to that
\* size can be transferred.  The code times out after 16 packets.
MessagesUpToBufferSizeArrive ==
    \A src \in Nodes : \A k \in DOMAIN sent[src] :
        UndisturbedCall(src, k) /\ sent[src][k].size <= BufferSize
            => ArrivedAtListeners(src, k)
=============================================================================
