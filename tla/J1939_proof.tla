------------------------------ MODULE J1939_proof ------------------------------
(***************************************************************************)
(* What tlapm proves of J1939: the type invariant, that no packet is ever   *)
(* out of place whatever fails, for two nodes that handlers get whole       *)
(* messages as long as no can_send fails, and for any number of nodes which *)
(* messages of an undisturbed sender arrive, and which never do.            *)
(*                                                                          *)
(* The first two follow from what single frames and sessions look like      *)
(* (FramesOK, SessionsOK).  The third needs the order of the train: which   *)
(* packets are still to come for a session that is open, or for an RTS that *)
(* has not been looked at (TrainSound, SessionOf).  The last two need time: *)
(* how far a receiver is behind the sender, and how old its session is by   *)
(* then (KeepsStep).                                                        *)
(***************************************************************************)
EXTENDS J1939, TLAPS

-----------------------------------------------------------------------------
(* The inductive invariant, whatever fails.                                 *)

\* Frames as the senders build them: packets are counted from 1, a frame of its
\* own is packet 1, and no session was aborted for its offset or total size.
SoundFrame(f) ==
    /\ f.type = "DT" => f.packet.seq >= 1
    /\ f.type = "PGN" => f.packet.seq = 1
    /\ f.type = "ABORT" => f.code \notin {5, 6}

SoundFrames == {f \in Frames : SoundFrame(f)}

\* Nothing is on the way to a node that does not listen.
FramesOK ==
    /\ inbox \in [Nodes -> Seq(SoundFrames)]
    /\ \A n \in Nodes : n \notin Listening => inbox[n] = <<>>

\* What was sent, returned and delivered, for every node.
Message == [pgn : Nat, size : 1 .. UINT16_MAX]

HistoriesOK ==
    /\ sent \in [Nodes -> Seq(Message)]
    /\ returned \in [Nodes -> SUBSET Nat]
    /\ delivered \in [Nodes -> SUBSET Calls]

\* A call under way has been counted, and is about packets of its message.
SenderOK(n) ==
    sender[n].at # "idle" =>
        /\ sent[n] # <<>>
        /\ sent[n][Len(sent[n])].size > 8
        /\ sender[n].i < num_packets(sent[n][Len(sent[n])].size)

\* A node with an open session listens; what it has stored is in its place.
SessionOK(n) ==
    session[n].open =>
        /\ n \in Listening
        /\ SessionFits(n)
        /\ \A k \in 1 .. session[n].next - 1 : tp_buffer[n][k].seq = k

IInv ==
    /\ TypeOK /\ FramesOK /\ HistoriesOK
    /\ \A n \in Nodes : SenderOK(n) /\ SessionOK(n)
    /\ PacketsInPlace

-----------------------------------------------------------------------------
(* The train from one node, as long as no can_send has failed: q is the     *)
(* inbox of the other node, st and S what this node is sending and was      *)
(* asked to send.                                                           *)

\* Packet s of call c has not been sent yet.
Pending(st, S, c, s) ==
    /\ c = Len(S)
    /\ \/ st.at = "data" /\ st.i < s
       \/ st.at = "sleep" /\ st.i + 1 < s

IsData(f, c, s) == f.type = "DT" /\ f.packet.call = c /\ f.packet.seq = s

Coming(q, st, S, c, s) ==
    Pending(st, S, c, s) \/ \E k \in DOMAIN q : IsData(q[k], c, s)

\* Packets on the way are packets of messages of more than one frame.
DataSound(q, st, S, m) ==
    \A k \in DOMAIN q : q[k].type = "DT" =>
        /\ q[k].packet.src = m
        /\ q[k].packet.call \in DOMAIN S
        /\ ~Pending(st, S, q[k].packet.call, q[k].packet.seq)

\* They arrive in the order of their calls and of their numbers.
InOrder(q) ==
    \A j, k \in DOMAIN q : j < k /\ q[j].type = "DT" /\ q[k].type = "DT" =>
        \/ q[j].packet.call < q[k].packet.call
        \/ /\ q[j].packet.call = q[k].packet.call
           /\ q[j].packet.seq < q[k].packet.seq

\* The RTS at place k is the one of call c: it is behind the packets of earlier
\* calls and ahead of its own, all of which are there or still to be sent.
AnnouncedBy(q, k, st, S, c) ==
    /\ S[c].pgn = q[k].pgn /\ S[c].size = q[k].size /\ S[c].size > 8
    /\ q[k].packets = num_packets(S[c].size)
    /\ \A j \in DOMAIN q : q[j].type = "DT" =>
          /\ j < k => q[j].packet.call < c
          /\ j > k => q[j].packet.call >= c
    /\ \A s \in 1 .. num_packets(S[c].size) : Coming(q, st, S, c, s)

RtsSound(q, st, S) ==
    \A k \in DOMAIN q : q[k].type = "RTS" => \E c \in DOMAIN S : AnnouncedBy(q, k, st, S, c)

SinglesSound(q, S, m) ==
    \A k \in DOMAIN q : q[k].type = "PGN" =>
        \E c \in DOMAIN S :
            /\ S[c].pgn = q[k].pgn /\ S[c].size = q[k].size /\ S[c].size <= 8
            /\ q[k].packet = [src |-> m, call |-> c, seq |-> 1]

TrainSound(q, st, S, m) ==
    DataSound(q, st, S, m) /\ InOrder(q) /\ RtsSound(q, st, S) /\ SinglesSound(q, S, m)

\* The open session s is about call c of node m: its packets up to s.next - 1
\* are in the buffer, all others are on the way or still to be sent, and what
\* comes first of the packets on the way is the next one of that call, if any.
SessionAbout(s, buffer, q, st, S, m, c) ==
    /\ S[c].pgn = s.pgn /\ S[c].size = s.size /\ S[c].size > 8
    /\ s.packets = num_packets(S[c].size)
    /\ \A k \in DOMAIN q : q[k].type = "DT" =>
          \/ q[k].packet.call > c
          \/ q[k].packet.call = c /\ q[k].packet.seq >= s.next
    /\ s.next # 0 => \A p \in s.next .. s.packets : Coming(q, st, S, c, p)
    /\ \A p \in 1 .. s.next - 1 :
          /\ buffer[p] = [src |-> m, call |-> c, seq |-> p]
          /\ ~Pending(st, S, c, p)

SessionOf(s, buffer, q, st, S, m) ==
    s.open => \E c \in DOMAIN S : SessionAbout(s, buffer, q, st, S, m, c)

\* What is on the way from m to n, and the session it meets there.
PairOK(n, m) ==
    /\ TrainSound(inbox[n], sender[m], sent[m], m)
    /\ SessionOf(session[n], tp_buffer[n], inbox[n], sender[m], sent[m], m)

\* What a node receives, another one has sent.
AloneIsSilent == \A n \in Nodes : others(n) = {} => inbox[n] = <<>>

ChainInv ==
    failures = 0 =>
        /\ \A n \in Nodes : \A m \in others(n) : PairOK(n, m)
        /\ AloneIsSilent
        /\ HandlersGetOneMessage

\* No node has more than one other node.
TwoNodesOnly == \A x, y, z \in Nodes : x = y \/ y = z \/ x = z

-----------------------------------------------------------------------------
(* Sequences, frames and packets.                                           *)

LEMMA TailFacts ==
  ASSUME NEW S, NEW q \in Seq(S), q # <<>>
  PROVE  /\ Head(q) = q[1] /\ Head(q) \in S /\ 1 \in DOMAIN q
         /\ Tail(q) \in Seq(S) /\ Len(Tail(q)) = Len(q) - 1
         /\ \A i \in DOMAIN Tail(q) : i + 1 \in DOMAIN q /\ Tail(q)[i] = q[i + 1]
         /\ \A i \in DOMAIN q : i # 1 => i - 1 \in DOMAIN Tail(q) /\ Tail(q)[i - 1] = q[i]
  OBVIOUS

LEMMA AppendFacts ==
  ASSUME NEW S, NEW q \in Seq(S), NEW e \in S
  PROVE  /\ Append(q, e) \in Seq(S) /\ Append(q, e) # <<>>
         /\ Len(q) \in Nat /\ Len(Append(q, e)) = Len(q) + 1
         /\ DOMAIN q = 1 .. Len(q) /\ DOMAIN Append(q, e) = 1 .. Len(q) + 1
         /\ \A i \in DOMAIN q : i \in DOMAIN Append(q, e) /\ Append(q, e)[i] = q[i]
         /\ Append(q, e)[Len(q) + 1] = e
  OBVIOUS

LEMMA Maxima ==
  UINT8_MAX \in Nat /\ UINT16_MAX \in Nat
  BY DEF UINT8_MAX, UINT16_MAX

LEMMA NumPacketsRange == \A size \in Nat : num_packets(size) \in 0 .. UINT8_MAX
  BY DEF num_packets, UINT8_MAX

\* The fields of the frames there are.
LEMMA FrameFields ==
  ASSUME NEW f \in SoundFrames
  PROVE  /\ f.type = "RTS" => f.pgn \in Nat /\ f.size \in Nat /\ f.packets \in 0 .. UINT8_MAX
         /\ f.type = "DT" => f.packet \in Packet /\ f.packet.seq >= 1
         /\ f.type = "PGN" => /\ f.pgn \in Nat /\ f.size \in Nat /\ f.packet \in Packet
                              /\ f.packet.seq = 1
  BY DEF SoundFrames, SoundFrame, Frames

LEMMA PacketFields ==
  ASSUME NEW p \in Packet
  PROVE  p.src \in Nodes /\ p.call \in Nat /\ p.seq \in 0 .. UINT8_MAX
  BY DEF Packet

LEMMA RepliesSound ==
  /\ CTS \in SoundFrames /\ EndOfMsgAck \in SoundFrames
  /\ \A code \in 1 .. 4 : Abort(code) \in SoundFrames
  BY DEF SoundFrames, SoundFrame, Frames, CTS, EndOfMsgAck, Abort

LEMMA MessageFields ==
  ASSUME NEW m \in Message
  PROVE  m.pgn \in Nat /\ m.size \in Nat /\ m.size >= 1
  BY Maxima DEF Message

LEMMA RtsFrame ==
  ASSUME NEW m \in Message
  PROVE  RTS(m) \in SoundFrames
<1>1. m.pgn \in Nat /\ m.size \in Nat
  BY MessageFields
<1>2. num_packets(m.size) \in 0 .. UINT8_MAX
  BY <1>1, NumPacketsRange
<1> DEFINE packets == num_packets(m.size)
<1>3. packets \in 0 .. UINT8_MAX /\ RTS(m) = [type |-> "RTS", pgn |-> m.pgn, size |-> m.size, packets |-> packets]
  BY <1>2 DEF RTS
<1> HIDE DEF packets
<1>4. RTS(m) \in [type : {"RTS"}, pgn : Nat, size : Nat, packets : 0 .. UINT8_MAX]
  BY <1>1, <1>3
<1>5. RTS(m).type = "RTS"
  BY <1>3
<1> QED BY <1>4, <1>5 DEF SoundFrames, SoundFrame, Frames

LEMMA DataFrame ==
  ASSUME NEW p \in Packet, p.seq >= 1
  PROVE  DT(p) \in SoundFrames
  BY DEF SoundFrames, SoundFrame, Frames, DT

LEMMA SingleFrame ==
  ASSUME NEW m \in Message, NEW p \in Packet, p.seq = 1
  PROVE  Single(m, p) \in SoundFrames
<1>1. m.pgn \in Nat /\ m.size \in Nat
  BY MessageFields
<1>2. /\ Single(m, p) \in [type : {"PGN"}, pgn : Nat, size : Nat, packet : Packet]
      /\ Single(m, p).type = "PGN" /\ Single(m, p).packet.seq = 1
  BY <1>1 DEF Single
<1> QED BY <1>2 DEF SoundFrames, SoundFrame, Frames

\* tp_buffer with one more packet: it is where its number says, and the others
\* are where they were.
LEMMA StoredFacts ==
  ASSUME NEW buffer \in Seq(Packet \cup {NoPacket}), NEW p \in Packet, p.seq >= 1
  PROVE  /\ Stored(buffer, p) \in Seq(Packet \cup {NoPacket})
         /\ Len(Stored(buffer, p)) \in Nat
         /\ Len(Stored(buffer, p)) >= p.seq /\ Len(Stored(buffer, p)) >= Len(buffer)
         /\ Len(Stored(buffer, p)) = p.seq \/ Len(Stored(buffer, p)) = Len(buffer)
         /\ Stored(buffer, p)[p.seq] = p
         /\ \A k \in 1 .. Len(buffer) : k # p.seq => Stored(buffer, p)[k] = buffer[k]
<1> DEFINE L == IF p.seq > Len(buffer) THEN p.seq ELSE Len(buffer)
<1>1. p.seq \in Nat /\ p.seq >= 1 /\ Len(buffer) \in Nat
  <2>1. p.seq \in 0 .. UINT8_MAX
    BY PacketFields, Zenon
  <2>2. Len(buffer) \in Nat
    OBVIOUS
  <2> QED BY <2>1, <2>2, Maxima
<1>2. L \in Nat /\ L >= p.seq /\ L >= Len(buffer) /\ (L = p.seq \/ L = Len(buffer))
  BY <1>1
<1>3. Stored(buffer, p) = [k \in 1 .. L |->
          IF k = p.seq THEN p ELSE IF k <= Len(buffer) THEN buffer[k] ELSE NoPacket]
  BY DEF Stored
<1> HIDE DEF L
<1>4. \A k \in 1 .. L : (IF k = p.seq THEN p ELSE IF k <= Len(buffer) THEN buffer[k]
                         ELSE NoPacket) \in Packet \cup {NoPacket}
  BY <1>1, <1>2
<1>5. Stored(buffer, p) \in Seq(Packet \cup {NoPacket}) /\ Len(Stored(buffer, p)) = L
  BY <1>2, <1>3, <1>4
<1>6. /\ p.seq \in 1 .. L
      /\ \A k \in 1 .. Len(buffer) : k \in 1 .. L /\ k <= Len(buffer)
  BY <1>1, <1>2
<1> QED BY <1>2, <1>3, <1>5, <1>6

-----------------------------------------------------------------------------
(* What happens on the bus.                                                 *)

LEMMA BroadcastOK ==
  ASSUME FramesOK, NEW n \in Nodes, NEW f \in SoundFrames, Broadcast(n, f)
  PROVE  FramesOK'
<1>1. \A m \in Nodes : Append(inbox[m], f) \in Seq(SoundFrames)
  BY AppendFacts DEF FramesOK
<1> QED BY <1>1 DEF FramesOK, Broadcast, listeners

LEMMA ConsumedOK ==
  ASSUME FramesOK, NEW n \in Nodes, inbox[n] # <<>>, inbox' = Consumed(n)
  PROVE  FramesOK'
<1>1. Tail(inbox[n]) \in Seq(SoundFrames)
  BY TailFacts DEF FramesOK
<1> QED BY <1>1 DEF FramesOK, Consumed

LEMMA ReplyOK ==
  ASSUME FramesOK, failures \in Nat, NEW n \in Nodes, inbox[n] # <<>>,
         NEW f \in SoundFrames, Reply(n, f)
  PROVE  FramesOK' /\ failures' \in Nat
<1>1. CASE inbox' = Consumed(n) /\ failures' = failures + 1
  BY <1>1, ConsumedOK
<1>2. CASE /\ inbox' = [m \in Nodes |-> IF m = n THEN Tail(inbox[m])
                                        ELSE IF m \in listeners(n) THEN Append(inbox[m], f)
                                        ELSE inbox[m]]
           /\ UNCHANGED failures
  <2>1. \A m \in Nodes : Append(inbox[m], f) \in Seq(SoundFrames)
    BY AppendFacts DEF FramesOK
  <2>2. Tail(inbox[n]) \in Seq(SoundFrames)
    BY TailFacts DEF FramesOK
  <2>3. inbox' \in [Nodes -> Seq(SoundFrames)]
    BY <1>2, <2>1, <2>2 DEF FramesOK
  <2>4. ASSUME NEW m \in Nodes, m \notin Listening PROVE inbox'[m] = <<>>
    BY <1>2, <2>4 DEF FramesOK, listeners
  <2> QED BY <1>2, <2>3, <2>4 DEF FramesOK
<1> QED BY <1>1, <1>2 DEF Reply

LEMMA NoReplyOK ==
  ASSUME FramesOK, failures \in Nat, NEW n \in Nodes, inbox[n] # <<>>, NoReply(n)
  PROVE  FramesOK' /\ failures' \in Nat
  BY ConsumedOK DEF NoReply

-----------------------------------------------------------------------------
(* The invariant is one of every step: the senders.                         *)

LEMMA MessageOf ==
  ASSUME NEW n \in Nodes, NEW m \in Messages[n] PROVE m \in Message
  BY MessagesAssumption DEF Message

LEMMA SentFacts ==
  ASSUME IInv, NEW n \in Nodes
  PROVE  /\ sent[n] \in Seq(Message) /\ sent[n] \in Seq(Messages[n])
         /\ Len(sent[n]) \in Nat /\ DOMAIN sent[n] = 1 .. Len(sent[n])
         /\ \A k \in DOMAIN sent[n] : sent[n][k].size \in Nat /\ sent[n][k].pgn \in Nat
         /\ returned[n] \subseteq DOMAIN sent[n]
<1>1. sent[n] \in Seq(Message) /\ sent[n] \in Seq(Messages[n])
      /\ returned[n] \subseteq DOMAIN sent[n]
  BY DEF IInv, HistoriesOK, TypeOK
<1>2. \A k \in DOMAIN sent[n] : sent[n][k] \in Message
  BY <1>1
<1> QED BY <1>1, <1>2, MessageFields

\* Nothing that a receiver keeps is touched.
LEMMA ReceiversKept ==
  ASSUME IInv, UNCHANGED <<session, tp_buffer, delivered>>
  PROVE  (\A n \in Nodes : SessionOK(n)') /\ PacketsInPlace'
<1>1. \A n \in Nodes : SessionOK(n)'
  BY DEF IInv, SessionOK, SessionFits
<1>2. PacketsInPlace'
  BY DEF IInv, PacketsInPlace
<1> QED BY <1>1, <1>2

\* Node n was asked to send m: where its call is then.
LEMMA CallCounted ==
  ASSUME IInv, NEW n \in Nodes, NEW m \in Messages[n],
         sent' = [sent EXCEPT ![n] = Append(@, m)]
  PROVE  /\ sent' \in [Nodes -> Seq(Message)]
         /\ \A x \in Nodes : x # n => sent'[x] = sent[x]
         /\ sent'[n] \in Seq(Messages[n]) /\ sent'[n] # <<>>
         /\ Len(sent'[n]) = Len(sent[n]) + 1 /\ sent'[n][Len(sent'[n])] = m
         /\ DOMAIN sent'[n] = 1 .. Len(sent[n]) + 1
         /\ \A k \in DOMAIN sent[n] : k \in DOMAIN sent'[n] /\ sent'[n][k] = sent[n][k]
<1>1. sent \in [Nodes -> Seq(Message)] /\ sent[n] \in Seq(Messages[n]) /\ m \in Message
  BY MessageOf, SentFacts DEF IInv, HistoriesOK
<1>2. sent'[n] = Append(sent[n], m) /\ \A x \in Nodes : x # n => sent'[x] = sent[x]
  BY <1>1
<1>3. Append(sent[n], m) \in Seq(Message)
  BY <1>1
<1>4. sent' \in [Nodes -> Seq(Message)]
  BY <1>1, <1>3
<1> HIDE DEF IInv
<1>5. /\ Append(sent[n], m) \in Seq(Messages[n]) /\ Append(sent[n], m) # <<>>
      /\ Len(sent[n]) \in Nat /\ Len(Append(sent[n], m)) = Len(sent[n]) + 1
      /\ DOMAIN Append(sent[n], m) = 1 .. Len(sent[n]) + 1
      /\ \A k \in DOMAIN sent[n] : k \in DOMAIN Append(sent[n], m)
                                   /\ Append(sent[n], m)[k] = sent[n][k]
      /\ Append(sent[n], m)[Len(sent[n]) + 1] = m
  BY <1>1, AppendFacts
<1> QED BY <1>2, <1>4, <1>5

\* What is left to show when a sender has done a step.
LEMMA SendersStep ==
  ASSUME IInv, FramesOK', UNCHANGED <<session, tp_buffer, delivered>>,
         sender' \in [Nodes -> [at : {"idle", "data", "sleep"}, i : 0 .. UINT8_MAX - 1]],
         sent' \in [Nodes -> Seq(Message)], returned' \in [Nodes -> SUBSET Nat],
         \A n \in Nodes : /\ sent'[n] \in Seq(Messages[n])
                          /\ returned'[n] \subseteq DOMAIN sent'[n]
                          /\ SenderOK(n)',
         failures' \in Nat, delayed' \in BOOLEAN
  PROVE  IInv'
<1>1. (\A n \in Nodes : SessionOK(n)') /\ PacketsInPlace'
  BY ReceiversKept
<1>2. HistoriesOK'
  BY DEF IInv, HistoriesOK
<1>3. \A n \in Nodes : Seq(SoundFrames) \subseteq Seq(Frames)
  BY DEF SoundFrames
<1>4. TypeOK'
  BY <1>3 DEF IInv, TypeOK, FramesOK
<1> QED BY <1>1, <1>2, <1>4 DEF IInv

LEMMA SendSingleStep ==
  ASSUME IInv, NEW n \in Nodes, NEW m \in Messages[n], SendSingle(n, m) PROVE IInv'
<1> DEFINE k == Len(sent[n]) + 1
           p == [src |-> n, call |-> k, seq |-> 1]
<1>1. /\ sender[n] = Idle /\ UNCHANGED <<sender, session, tp_buffer, delivered, delayed>>
      /\ sent' = [sent EXCEPT ![n] = Append(@, m)]
      /\ \/ /\ Broadcast(n, Single(m, p))
            /\ returned' = [returned EXCEPT ![n] = @ \cup {k}] /\ UNCHANGED failures
         \/ failures' = failures + 1 /\ UNCHANGED <<inbox, returned>>
  BY DEF SendSingle, CanSendError, receiverVars
<1>2. k \in Nat /\ m \in Message /\ p \in Packet /\ p.seq = 1
  <2>1. k \in Nat /\ 1 \in 0 .. UINT8_MAX
    BY SentFacts DEF UINT8_MAX
  <2>2. m \in Message
    BY MessageOf
  <2> QED BY <2>1, <2>2 DEF Packet
<1>3. Single(m, p) \in SoundFrames
  BY <1>2, SingleFrame
<1> HIDE DEF p
<1>4. FramesOK'
  <2>1. CASE UNCHANGED inbox
    BY <2>1 DEF IInv, FramesOK
  <2>2. CASE Broadcast(n, Single(m, p))
    BY <1>3, <2>2, BroadcastOK DEF IInv
  <2> QED BY <1>1, <2>1, <2>2
<1>5. /\ sent' \in [Nodes -> Seq(Message)] /\ sent'[n] \in Seq(Messages[n])
      /\ DOMAIN sent'[n] = 1 .. k /\ \A x \in Nodes : x # n => sent'[x] = sent[x]
      /\ DOMAIN sent[n] = 1 .. Len(sent[n]) /\ Len(sent[n]) \in Nat
  BY <1>1, CallCounted, SentFacts
<1>6. /\ returned' \in [Nodes -> SUBSET Nat] /\ returned'[n] \subseteq returned[n] \cup {k}
      /\ \A x \in Nodes : x # n => returned'[x] = returned[x]
  BY <1>1, <1>2 DEF IInv, HistoriesOK
<1>7. \A x \in Nodes : returned[x] \subseteq DOMAIN sent[x] /\ sent[x] \in Seq(Messages[x])
  BY SentFacts
<1>8. ASSUME NEW x \in Nodes
      PROVE  sent'[x] \in Seq(Messages[x]) /\ returned'[x] \subseteq DOMAIN sent'[x]
  <2>1. CASE x = n
    <3>1. returned[n] \cup {k} \subseteq 1 .. k
      BY <1>2, <1>5, <1>7
    <3> QED BY <1>5, <1>6, <2>1, <3>1
  <2>2. CASE x # n
    BY <1>5, <1>6, <1>7, <2>2
  <2> QED BY <2>1, <2>2
<1>9. ASSUME NEW x \in Nodes PROVE SenderOK(x)'
  <2>1. CASE x = n
    BY <1>1, <2>1 DEF SenderOK, Idle
  <2>2. CASE x # n
    BY <1>1, <1>5, <2>2 DEF IInv, SenderOK
  <2> QED BY <2>1, <2>2
<1>10. /\ sender' \in [Nodes -> [at : {"idle", "data", "sleep"}, i : 0 .. UINT8_MAX - 1]]
       /\ failures' \in Nat /\ delayed' \in BOOLEAN
  BY <1>1 DEF IInv, TypeOK
<1> QED BY <1>1, <1>4, <1>5, <1>6, <1>8, <1>9, <1>10, SendersStep

LEMMA SendRtsStep ==
  ASSUME IInv, NEW n \in Nodes, NEW m \in Messages[n], SendRts(n, m) PROVE IInv'
<1> DEFINE k == Len(sent[n]) + 1
<1>1. /\ sender[n] = Idle /\ m.size > 8
      /\ UNCHANGED <<session, tp_buffer, delivered, delayed>>
      /\ sent' = [sent EXCEPT ![n] = Append(@, m)]
      /\ \/ /\ Broadcast(n, RTS(m)) /\ UNCHANGED failures
            /\ num_packets(m.size) = 0
            /\ returned' = [returned EXCEPT ![n] = @ \cup {k}] /\ UNCHANGED sender
         \/ /\ Broadcast(n, RTS(m)) /\ UNCHANGED failures
            /\ num_packets(m.size) # 0
            /\ sender' = [sender EXCEPT ![n] = [at |-> "data", i |-> 0]] /\ UNCHANGED returned
         \/ failures' = failures + 1 /\ UNCHANGED <<inbox, sender, returned>>
  BY DEF SendRts, CanSendError, receiverVars
<1>2. k \in Nat /\ m \in Message /\ num_packets(m.size) \in 0 .. UINT8_MAX
  <2>1. k \in Nat
    BY SentFacts
  <2>2. m \in Message
    BY MessageOf
  <2> QED BY <2>1, <2>2, MessageFields, NumPacketsRange
<1>3. RTS(m) \in SoundFrames
  BY <1>2, RtsFrame
<1>4. FramesOK'
  <2>1. CASE UNCHANGED inbox
    BY <2>1 DEF IInv, FramesOK
  <2>2. CASE Broadcast(n, RTS(m))
    BY <1>3, <2>2, BroadcastOK DEF IInv
  <2> QED BY <1>1, <2>1, <2>2
<1>5. /\ sent' \in [Nodes -> Seq(Message)] /\ sent'[n] \in Seq(Messages[n])
      /\ sent'[n] # <<>> /\ sent'[n][Len(sent'[n])] = m
      /\ DOMAIN sent'[n] = 1 .. k /\ \A x \in Nodes : x # n => sent'[x] = sent[x]
      /\ DOMAIN sent[n] = 1 .. Len(sent[n]) /\ Len(sent[n]) \in Nat
  BY <1>1, CallCounted, SentFacts
<1>6. /\ returned' \in [Nodes -> SUBSET Nat] /\ returned'[n] \subseteq returned[n] \cup {k}
      /\ \A x \in Nodes : x # n => returned'[x] = returned[x]
  BY <1>1, <1>2 DEF IInv, HistoriesOK
<1>7. \A x \in Nodes : returned[x] \subseteq DOMAIN sent[x] /\ sent[x] \in Seq(Messages[x])
  BY SentFacts
<1>8. ASSUME NEW x \in Nodes
      PROVE  sent'[x] \in Seq(Messages[x]) /\ returned'[x] \subseteq DOMAIN sent'[x]
  <2>1. CASE x = n
    <3>1. returned[n] \cup {k} \subseteq 1 .. k
      BY <1>2, <1>5, <1>7
    <3> QED BY <1>5, <1>6, <2>1, <3>1
  <2>2. CASE x # n
    BY <1>5, <1>6, <1>7, <2>2
  <2> QED BY <2>1, <2>2
<1>9. /\ sender' \in [Nodes -> [at : {"idle", "data", "sleep"}, i : 0 .. UINT8_MAX - 1]]
      /\ \A x \in Nodes : x # n => sender'[x] = sender[x]
      /\ sender'[n].at # "idle" => sender'[n].i = 0 /\ num_packets(m.size) # 0
  <2>1. sender \in [Nodes -> [at : {"idle", "data", "sleep"}, i : 0 .. UINT8_MAX - 1]]
    BY DEF IInv, TypeOK
  <2>2. [at |-> "data", i |-> 0] \in [at : {"idle", "data", "sleep"}, i : 0 .. UINT8_MAX - 1]
    BY DEF UINT8_MAX
  <2> QED BY <1>1, <2>1, <2>2 DEF Idle
<1>10. ASSUME NEW x \in Nodes PROVE SenderOK(x)'
  <2>1. CASE x = n
    BY <1>1, <1>2, <1>5, <1>9, <2>1 DEF SenderOK
  <2>2. CASE x # n
    BY <1>5, <1>9, <2>2 DEF IInv, SenderOK
  <2> QED BY <2>1, <2>2
<1>11. failures' \in Nat /\ delayed' \in BOOLEAN
  BY <1>1 DEF IInv, TypeOK
<1> QED BY <1>1, <1>4, <1>5, <1>6, <1>8, <1>9, <1>10, <1>11, SendersStep

LEMMA SendDataStep ==
  ASSUME IInv, NEW n \in Nodes, SendData(n) PROVE IInv'
<1> DEFINE p == [src |-> n, call |-> Len(sent[n]), seq |-> sender[n].i + 1]
           At == [at : {"idle", "data", "sleep"}, i : 0 .. UINT8_MAX - 1]
<1>1. /\ sender[n].at = "data" /\ UNCHANGED <<sent, returned, session, tp_buffer, delivered, delayed>>
      /\ \/ /\ Broadcast(n, DT(p)) /\ UNCHANGED failures
            /\ sender' = [sender EXCEPT ![n].at = "sleep"]
         \/ failures' = failures + 1 /\ UNCHANGED inbox /\ sender' = [sender EXCEPT ![n] = Idle]
  BY DEF SendData, CanSendError, receiverVars
<1>2. sender \in [Nodes -> At] /\ Idle \in At
  BY DEF IInv, TypeOK, Idle, UINT8_MAX
<1>3. DT(p) \in SoundFrames
  <2>1. Len(sent[n]) \in Nat /\ sender[n].i + 1 \in 0 .. UINT8_MAX /\ sender[n].i + 1 >= 1
    BY <1>2, SentFacts, Maxima
  <2>2. p \in Packet /\ p.seq >= 1
    BY <2>1 DEF Packet
  <2> HIDE DEF p
  <2> QED BY <2>2, DataFrame
<1> HIDE DEF p
<1>4. FramesOK'
  <2>1. CASE UNCHANGED inbox
    BY <2>1 DEF IInv, FramesOK
  <2>2. CASE Broadcast(n, DT(p))
    BY <1>3, <2>2, BroadcastOK DEF IInv
  <2> QED BY <1>1, <2>1, <2>2
<1>5. /\ sender' \in [Nodes -> At] /\ \A x \in Nodes : x # n => sender'[x] = sender[x]
      /\ sender'[n].at = "idle" \/ sender'[n].i = sender[n].i
  BY <1>1, <1>2 DEF Idle
<1>6. ASSUME NEW x \in Nodes PROVE SenderOK(x)'
  BY <1>1, <1>5 DEF IInv, SenderOK
<1>7. /\ sent' \in [Nodes -> Seq(Message)] /\ returned' \in [Nodes -> SUBSET Nat]
      /\ failures' \in Nat /\ delayed' \in BOOLEAN
      /\ \A x \in Nodes : sent'[x] \in Seq(Messages[x]) /\ returned'[x] \subseteq DOMAIN sent'[x]
  BY <1>1, SentFacts DEF IInv, TypeOK, HistoriesOK
<1> QED BY <1>1, <1>4, <1>5, <1>6, <1>7, SendersStep

LEMMA TickStep ==
  ASSUME IInv, Tick PROVE IInv'
<1> DEFINE At == [at : {"idle", "data", "sleep"}, i : 0 .. UINT8_MAX - 1]
<1>1. /\ sender' = [n \in Nodes |-> Woken(n)]
      /\ returned' = [n \in Nodes |-> IF sender[n].at = "sleep" /\ LastPacket(n)
                                      THEN returned[n] \cup {Len(sent[n])} ELSE returned[n]]
      /\ session' = [n \in Nodes |-> IF session[n].open
                         THEN [session[n] EXCEPT !.age = Smaller(@ + 1, TimeoutTicks + 1)]
                         ELSE session[n]]
      /\ delayed' \in BOOLEAN /\ UNCHANGED <<inbox, tp_buffer, sent, delivered, failures>>
  BY DEF Tick, IInv, TypeOK
<1>2. sender \in [Nodes -> At] /\ Idle \in At /\ session \in [Nodes -> Sessions]
  BY DEF IInv, TypeOK, Idle, UINT8_MAX
<1>3. ASSUME NEW n \in Nodes PROVE Woken(n) \in At /\ SenderOK(n)'
  <2>1. Woken(n) = sender'[n] /\ sent'[n] = sent[n] /\ SenderOK(n) /\ sender[n] \in At
    BY <1>1, <1>2 DEF IInv
  <2>2. CASE sender[n].at # "sleep"
    BY <2>1, <2>2 DEF Woken, SenderOK
  <2>3. CASE sender[n].at = "sleep" /\ LastPacket(n)
    BY <1>2, <2>1, <2>3 DEF Woken, SenderOK, Idle
  <2>4. CASE sender[n].at = "sleep" /\ ~LastPacket(n)
    <3> DEFINE size == sent[n][Len(sent[n])].size
    <3>1. sent[n] # <<>> /\ size > 8
      BY <2>1, <2>4 DEF SenderOK
    <3>2. size \in Nat
      BY <3>1, SentFacts
    <3>3. num_packets(size) \in 0 .. UINT8_MAX /\ ~(sender[n].i + 1 >= num_packets(size))
      BY <2>4, <3>2, NumPacketsRange DEF LastPacket
    <3>4. sender[n].i + 1 \in 0 .. UINT8_MAX - 1 /\ sender[n].i + 1 < num_packets(size)
      BY <2>1, <3>3, Maxima
    <3>5. Woken(n) = [at |-> "data", i |-> sender[n].i + 1]
      BY <2>4 DEF Woken
    <3> QED BY <2>1, <3>1, <3>4, <3>5 DEF SenderOK
  <2> QED BY <2>2, <2>3, <2>4
<1>4. sender' \in [Nodes -> At] /\ \A n \in Nodes : SenderOK(n)'
  BY <1>1, <1>3
<1>5. ASSUME NEW n \in Nodes
      PROVE  /\ session'[n] \in Sessions /\ session'[n].open = session[n].open
             /\ session'[n].pgn = session[n].pgn /\ session'[n].size = session[n].size
             /\ session'[n].packets = session[n].packets /\ session'[n].next = session[n].next
  <2>1. session[n] \in Sessions /\ session[n].age \in 0 .. TimeoutTicks + 1
    BY <1>2 DEF Sessions
  <2>2. Smaller(session[n].age + 1, TimeoutTicks + 1) \in 0 .. TimeoutTicks + 1
    BY <2>1, LimitsAssumption DEF Smaller
  <2>3. \/ session'[n] = session[n]
        \/ session'[n] = [session[n] EXCEPT !.age = Smaller(@ + 1, TimeoutTicks + 1)]
    BY <1>1
  <2> QED BY <2>1, <2>2, <2>3 DEF Sessions
<1>6. session' \in [Nodes -> Sessions]
  BY <1>1, <1>5
<1>7. \A n \in Nodes : SessionOK(n)'
  BY <1>1, <1>5 DEF IInv, SessionOK, SessionFits
<1>8. ASSUME NEW n \in Nodes
      PROVE  returned'[n] \in SUBSET Nat /\ returned'[n] \subseteq DOMAIN sent'[n]
  <2>1. returned[n] \subseteq DOMAIN sent[n] /\ sent' = sent
    BY <1>1, SentFacts
  <2>2. sender[n].at = "sleep" => Len(sent[n]) \in DOMAIN sent[n]
    BY SentFacts DEF IInv, SenderOK
  <2>3. DOMAIN sent[n] \subseteq Nat
    BY SentFacts
  <2> QED BY <1>1, <2>1, <2>2, <2>3
<1>9. HistoriesOK' /\ FramesOK' /\ PacketsInPlace'
  <2>1. returned' \in [Nodes -> SUBSET Nat]
    BY <1>1, <1>8
  <2> QED BY <1>1, <2>1 DEF IInv, HistoriesOK, FramesOK, PacketsInPlace
<1>10. TypeOK'
  BY <1>1, <1>4, <1>6, <1>8 DEF IInv, TypeOK
<1> QED BY <1>4, <1>7, <1>9, <1>10 DEF IInv

-----------------------------------------------------------------------------
(* The receivers.                                                           *)

\* What is left to show when node n has processed a frame.
LEMMA ReceiversStep ==
  ASSUME IInv, NEW n \in Nodes, FramesOK', failures' \in Nat, UNCHANGED senderVars,
         session' \in [Nodes -> Sessions], tp_buffer' \in [Nodes -> Seq(Packet \cup {NoPacket})],
         Len(tp_buffer'[n]) <= BufferPackets,
         delivered' \in [Nodes -> SUBSET Calls],
         \A x \in Nodes : x # n => session'[x] = session[x] /\ tp_buffer'[x] = tp_buffer[x],
         SessionOK(n)', PacketsInPlace'
  PROVE  IInv'
<1>1. \A x \in Nodes : SenderOK(x)' /\ SessionOK(x)'
  <2>1. \A x \in Nodes : SenderOK(x)'
    BY DEF IInv, SenderOK, senderVars
  <2>2. \A x \in Nodes : x # n => SessionOK(x)'
    BY DEF IInv, SessionOK, SessionFits
  <2> QED BY <2>1, <2>2
<1>2. HistoriesOK'
  BY DEF IInv, HistoriesOK, senderVars
<1>3. Seq(SoundFrames) \subseteq Seq(Frames)
  BY DEF SoundFrames
<1>4. TypeOK'
  BY <1>3 DEF IInv, TypeOK, FramesOK, senderVars
<1> QED BY <1>1, <1>2, <1>4 DEF IInv

\* Most frames change nothing, or close the session.
LEMMA SessionKeptOrClosed ==
  ASSUME IInv, NEW n \in Nodes, FramesOK', failures' \in Nat, UNCHANGED senderVars,
         UNCHANGED <<tp_buffer, delivered>>, UNCHANGED session \/ CloseSession(n)
  PROVE  IInv'
<1>1. session \in [Nodes -> Sessions] /\ Closed \in Sessions /\ ~Closed.open
  BY LimitsAssumption DEF IInv, TypeOK, Closed, Sessions, UINT8_MAX
<1>2. /\ session' \in [Nodes -> Sessions]
      /\ \A x \in Nodes : x # n => session'[x] = session[x]
      /\ session'[n] = session[n] \/ session'[n] = Closed
  BY <1>1 DEF CloseSession
<1>3. SessionOK(n)'
  BY <1>1, <1>2 DEF IInv, SessionOK, SessionFits
<1>4. PacketsInPlace'
  BY DEF IInv, PacketsInPlace
<1> QED BY <1>2, <1>3, <1>4, ReceiversStep DEF IInv, TypeOK, HistoriesOK

LEMMA OpenSessionStep ==
  ASSUME IInv, NEW n \in Nodes, OpenSession(n) PROVE IInv'
<1> DEFINE f == Head(inbox[n])
           s == [open |-> TRUE, pgn |-> f.pgn, size |-> f.size,
                 packets |-> f.packets, next |-> 1, age |-> 0]
<1>1. /\ inbox[n] # <<>> /\ f.type = "RTS" /\ ValidRts(f) /\ Reply(n, CTS)
      /\ session' = [session EXCEPT ![n] = s]
      /\ UNCHANGED <<tp_buffer, delivered, senderVars>>
  BY DEF OpenSession, Receives
<1>2. f \in SoundFrames
  BY <1>1, TailFacts DEF IInv, FramesOK
<1> HIDE DEF f
<1>3. f.pgn \in Nat /\ f.size \in Nat /\ f.packets \in 0 .. UINT8_MAX
  BY <1>1, <1>2, FrameFields
<1>4. s \in Sessions
  BY <1>3, LimitsAssumption DEF Sessions, UINT8_MAX
<1>5. /\ s.open /\ s.size = f.size /\ s.packets = f.packets /\ s.next = 1
  OBVIOUS
<1> HIDE DEF s
<1>6. session' \in [Nodes -> Sessions] /\ session'[n] = s
      /\ \A x \in Nodes : x # n => session'[x] = session[x]
  BY <1>1, <1>4 DEF IInv, TypeOK
<1>7. SessionOK(n)'
  <2>1. /\ f.size \in 1 .. BufferSize /\ f.packets # 0
        /\ f.size = (f.packets - 1) * 7 + (IF f.size % 7 = 0 THEN 7 ELSE f.size % 7)
    BY <1>1 DEF ValidRts
  <2>2. f.size % 7 \in 0 .. 6
    BY <1>3
  <2>3. f.packets \in Nat
    BY <1>3, Maxima
  <2>4. 7 * (f.packets - 1) < f.size /\ f.size <= 7 * f.packets /\ 1 <= f.packets
    BY <1>3, <2>1, <2>2, <2>3
  <2>5. tp_buffer[n] \in Seq(Packet \cup {NoPacket}) /\ tp_buffer' = tp_buffer
    BY <1>1 DEF IInv, TypeOK
  <2>6. Len(tp_buffer[n]) >= 1 - 1
    BY <2>5
  <2>7. n \in Listening
    BY <1>1 DEF IInv, FramesOK
  <2> QED BY <1>5, <1>6, <2>1, <2>4, <2>5, <2>6, <2>7 DEF SessionOK, SessionFits
<1>8. FramesOK' /\ failures' \in Nat
  BY <1>1, ReplyOK, RepliesSound DEF IInv, TypeOK
<1>9. PacketsInPlace'
  BY <1>1 DEF IInv, PacketsInPlace
<1> QED BY <1>1, <1>6, <1>7, <1>8, <1>9, ReceiversStep DEF IInv, TypeOK, HistoriesOK

\* The frame at the head of an inbox.
LEMMA HeadFacts ==
  ASSUME IInv, NEW n \in Nodes, inbox[n] # <<>>
  PROVE  Head(inbox[n]) \in SoundFrames
  BY TailFacts DEF IInv, FramesOK

\* Of the uint16_t offset and the uint8_t size nothing is cut off, and so a
\* packet in sequence ends within the message.
LEMMA EndOfPacket ==
  ASSUME NEW seq \in 1 .. UINT8_MAX, NEW size \in Nat, NEW packets \in 0 .. UINT8_MAX,
         7 * (packets - 1) < size, size <= 7 * packets, seq <= packets
  PROVE  LET end == OffsetOf(seq) + BytesOf(seq, size)
         IN  /\ ~(end > size)
             /\ (seq + 1) % (UINT8_MAX + 1) > packets => end = size /\ seq = packets
             /\ (seq + 1) % (UINT8_MAX + 1) <= packets =>
                   (seq + 1) % (UINT8_MAX + 1) \in {0, seq + 1}
<1>1. seq \in 1 .. 255 /\ packets \in 0 .. 255
  BY DEF UINT8_MAX
<1>2. (seq - 1) * 7 \in 0 .. 1778
  BY <1>1
<1>3. OffsetOf(seq) = (seq - 1) * 7
  BY <1>2 DEF OffsetOf, UINT16_MAX
<1>4. OffsetOf(seq) \in Nat /\ OffsetOf(seq) < size
  BY <1>1, <1>2, <1>3
<1>5. Smaller(7, size - OffsetOf(seq)) \in 1 .. 7
  BY <1>4 DEF Smaller
<1>6. BytesOf(seq, size) = Smaller(7, size - OffsetOf(seq))
  BY <1>5 DEF BytesOf, UINT8_MAX
<1>7. ~(OffsetOf(seq) + BytesOf(seq, size) > size)
  BY <1>4, <1>6 DEF Smaller
<1>8. CASE seq = 255
  BY <1>1, <1>7, <1>8 DEF UINT8_MAX
<1>9. CASE seq # 255
  <2>1. (seq + 1) % (UINT8_MAX + 1) = seq + 1
    BY <1>1, <1>9 DEF UINT8_MAX
  <2>2. seq + 1 > packets => seq = packets /\ size - OffsetOf(seq) <= 7
    BY <1>1, <1>3
  <2>3. seq + 1 > packets => OffsetOf(seq) + BytesOf(seq, size) = size
    BY <1>4, <1>6, <2>2 DEF Smaller
  <2> QED BY <1>7, <2>1, <2>2, <2>3
<1> QED BY <1>8, <1>9

LEMMA SessionFields ==
  ASSUME IInv, NEW n \in Nodes
  PROVE  /\ session[n] \in Sessions
         /\ session[n].pgn \in Nat /\ session[n].size \in Nat
         /\ session[n].packets \in 0 .. UINT8_MAX /\ session[n].next \in 0 .. UINT8_MAX
         /\ tp_buffer[n] \in Seq(Packet \cup {NoPacket})
<1>1. session[n] \in Sessions /\ tp_buffer[n] \in Seq(Packet \cup {NoPacket})
  BY DEF IInv, TypeOK
<1> QED BY <1>1 DEF Sessions

\* A packet in sequence is stored; the checks of offset and size never fail.
\* Either more packets are expected, or the whole message is delivered.
Accepted(n, p) ==
    /\ tp_buffer' = [tp_buffer EXCEPT ![n] = Stored(@, p)]
    /\ UNCHANGED senderVars
    /\ \/ /\ session' = [session EXCEPT ![n].next = (session[n].next + 1) % (UINT8_MAX + 1)]
          /\ (session[n].next + 1) % (UINT8_MAX + 1) <= session[n].packets
          /\ (session[n].next + 1) % (UINT8_MAX + 1) \in {0, session[n].next + 1}
          /\ NoReply(n)
          /\ UNCHANGED delivered
       \/ /\ session[n].next = session[n].packets
          /\ Reply(n, EndOfMsgAck)
          /\ Deliver(n, session[n].pgn, session[n].size,
                     SubSeq(tp_buffer'[n], 1, session[n].packets))
          /\ CloseSession(n)

LEMMA AcceptedCases ==
  ASSUME IInv, NEW n \in Nodes, AcceptData(n)
  PROVE  /\ inbox[n] # <<>> /\ Head(inbox[n]).type = "DT" /\ session[n].open
         /\ Head(inbox[n]).packet \in Packet /\ Head(inbox[n]).packet.seq = session[n].next
         /\ session[n].next \in 1 .. UINT8_MAX /\ session[n].next <= session[n].packets
         /\ Accepted(n, Head(inbox[n]).packet)
<1> DEFINE s == session[n]
           p == Head(inbox[n]).packet
           next == (s.next + 1) % (UINT8_MAX + 1)
           end == OffsetOf(p.seq) + BytesOf(p.seq, s.size)
<1>1. /\ inbox[n] # <<>> /\ Head(inbox[n]).type = "DT" /\ s.open /\ p.seq = s.next
      /\ UNCHANGED senderVars
      /\ ~(end > s.size) =>
            /\ tp_buffer' = [tp_buffer EXCEPT ![n] = Stored(@, p)]
            /\ IF next <= s.packets
               THEN /\ session' = [session EXCEPT ![n].next = next]
                    /\ NoReply(n)
                    /\ UNCHANGED delivered
               ELSE s.size # end \/ (/\ Reply(n, EndOfMsgAck)
                    /\ Deliver(n, s.pgn, s.size, SubSeq(tp_buffer'[n], 1, s.packets))
                    /\ CloseSession(n))
  BY DEF AcceptData, Receives
<1>2. p \in Packet /\ p.seq >= 1 /\ p.seq \in 0 .. UINT8_MAX
  BY <1>1, HeadFacts, FrameFields, PacketFields
<1>3. /\ 7 * (s.packets - 1) < s.size /\ s.size <= 7 * s.packets /\ s.next <= s.packets
      /\ s.size \in Nat /\ s.packets \in 0 .. UINT8_MAX
  BY <1>1, SessionFields DEF IInv, SessionOK, SessionFits
<1>4. s.next \in 1 .. UINT8_MAX
  BY <1>1, <1>2, Maxima
<1>5. /\ ~(end > s.size)
      /\ next > s.packets => end = s.size /\ s.next = s.packets
      /\ next <= s.packets => next \in {0, s.next + 1}
  BY <1>1, <1>3, <1>4, EndOfPacket
<1>6. next \in Nat /\ s.packets \in Nat
  <2>1. s.next \in Nat
    BY <1>4, Maxima
  <2>2. (s.next + 1) % 256 \in Nat
    BY <2>1
  <2> QED BY <1>3, <2>2, Maxima DEF UINT8_MAX
<1>7. next <= s.packets \/ next > s.packets
  BY <1>6
<1> HIDE DEF s, p, next, end
<1>8. /\ tp_buffer' = [tp_buffer EXCEPT ![n] = Stored(@, p)]
      /\ \/ /\ session' = [session EXCEPT ![n].next = next]
            /\ next <= s.packets /\ next \in {0, s.next + 1}
            /\ NoReply(n)
            /\ UNCHANGED delivered
         \/ /\ s.next = s.packets
            /\ Reply(n, EndOfMsgAck)
            /\ Deliver(n, s.pgn, s.size, SubSeq(tp_buffer'[n], 1, s.packets))
            /\ CloseSession(n)
  <2>1. CASE next <= s.packets
    BY <1>1, <1>5, <2>1
  <2>2. CASE ~(next <= s.packets)
    BY <1>1, <1>5, <1>7, <2>2
  <2> QED BY <2>1, <2>2
<1> USE DEF s, p, next
<1> QED BY <1>1, <1>2, <1>3, <1>4, <1>8 DEF Accepted

\* What was stored before stays, and the packet is behind it.
LEMMA StoredInPlace ==
  ASSUME IInv, NEW n \in Nodes, NEW p \in Packet, session[n].open, p.seq = session[n].next,
         session[n].next \in 1 .. UINT8_MAX,
         tp_buffer' = [tp_buffer EXCEPT ![n] = Stored(@, p)]
  PROVE  /\ tp_buffer' \in [Nodes -> Seq(Packet \cup {NoPacket})]
         /\ \A x \in Nodes : x # n => tp_buffer'[x] = tp_buffer[x]
         /\ Len(tp_buffer'[n]) \in Nat /\ Len(tp_buffer'[n]) >= session[n].next
         /\ Len(tp_buffer'[n]) <= BufferPackets
         /\ tp_buffer'[n][session[n].next] = p
         /\ \A k \in 1 .. session[n].next - 1 : tp_buffer'[n][k] = tp_buffer[n][k]
         /\ \A k \in 1 .. session[n].next : tp_buffer'[n][k].seq = k
<1>1. /\ tp_buffer \in [Nodes -> Seq(Packet \cup {NoPacket})]
      /\ Len(tp_buffer[n]) >= session[n].next - 1
      /\ \A k \in 1 .. session[n].next - 1 : tp_buffer[n][k].seq = k
  BY DEF IInv, TypeOK, SessionOK, SessionFits
<1>2. /\ tp_buffer'[n] = Stored(tp_buffer[n], p)
      /\ \A x \in Nodes : x # n => tp_buffer'[x] = tp_buffer[x]
  BY <1>1
<1>3. session[n].next \in Nat /\ session[n].next >= 1
  BY Maxima
<1> DEFINE b == Stored(tp_buffer[n], p)
<1>4. /\ b \in Seq(Packet \cup {NoPacket}) /\ Len(b) \in Nat /\ Len(b) >= session[n].next
      /\ Len(b) = session[n].next \/ Len(b) = Len(tp_buffer[n])
      /\ b[session[n].next] = p
      /\ \A k \in 1 .. Len(tp_buffer[n]) : k # session[n].next => b[k] = tp_buffer[n][k]
  BY <1>1, <1>3, StoredFacts
<1> HIDE DEF b
<1>5. tp_buffer' \in [Nodes -> Seq(Packet \cup {NoPacket})]
  BY <1>1, <1>4 DEF b
<1>6. Len(tp_buffer[n]) \in Nat
  BY <1>1
<1>7. \A k \in 1 .. session[n].next - 1 : k \in 1 .. Len(tp_buffer[n]) /\ k # session[n].next
  BY <1>1, <1>3, <1>6
<1>8. \A k \in 1 .. session[n].next - 1 : b[k] = tp_buffer[n][k]
  BY <1>4, <1>7
<1>9. ASSUME NEW k \in 1 .. session[n].next PROVE b[k].seq = k
  <2>1. CASE k = session[n].next
    BY <1>4, <2>1
  <2>2. CASE k # session[n].next
    <3>1. k \in 1 .. session[n].next - 1
      BY <1>3, <2>2
    <3> QED BY <1>1, <1>8, <3>1
  <2> QED BY <2>1, <2>2
<1>10. tp_buffer'[n] = b
  BY <1>2 DEF b
<1>11. Len(tp_buffer[n]) <= BufferPackets
  BY DEF IInv, TypeOK
<1>12. session[n].next <= BufferPackets
  <2>1. /\ session[n].size \in 1 .. BufferSize /\ 7 * (session[n].packets - 1) < session[n].size
        /\ session[n].next <= session[n].packets
    BY DEF IInv, SessionOK, SessionFits
  <2>2. session[n].packets \in 0 .. 255 /\ BufferSize \in Nat
    BY SessionFields, LimitsAssumption DEF UINT8_MAX
  <2>3. session[n].packets <= (BufferSize + 6) \div 7
    BY <2>1, <2>2
  <2>4. (BufferSize + 6) \div 7 \in Nat
    BY <2>2
  <2> QED BY <1>3, <2>1, <2>2, <2>3, <2>4 DEF BufferPackets
<1> QED BY <1>2, <1>4, <1>5, <1>8, <1>9, <1>10, <1>11, <1>12

LEMMA SubSeqFacts ==
  ASSUME NEW S, NEW q \in Seq(S), NEW l \in Nat, l <= Len(q)
  PROVE  /\ SubSeq(q, 1, l) \in Seq(S) /\ SubSeq(q, 1, l) = [i \in 1 .. l |-> q[i]]
         /\ DOMAIN SubSeq(q, 1, l) = 1 .. l
         /\ \A i \in 1 .. l : SubSeq(q, 1, l)[i] = q[i]
<1>1. Len(q) \in Nat /\ \A i \in 1 .. l : i \in 1 .. Len(q)
  OBVIOUS
<1>2. SubSeq(q, 1, l) = [i \in 1 .. l |-> q[i]]
  OBVIOUS
<1>3. \A i \in 1 .. l : q[i] \in S
  BY <1>1
<1> QED BY <1>2, <1>3

LEMMA AcceptDataStep ==
  ASSUME IInv, NEW n \in Nodes, AcceptData(n) PROVE IInv'
<1> DEFINE s == session[n]
           p == Head(inbox[n]).packet
           next == (s.next + 1) % (UINT8_MAX + 1)
           data == SubSeq(tp_buffer'[n], 1, s.packets)
<1>1. /\ inbox[n] # <<>> /\ s.open /\ p \in Packet /\ p.seq = s.next
      /\ s.next \in 1 .. UINT8_MAX /\ s.next <= s.packets /\ Accepted(n, p)
  BY AcceptedCases
<1>2. tp_buffer' = [tp_buffer EXCEPT ![n] = Stored(@, p)] /\ UNCHANGED senderVars
  BY <1>1 DEF Accepted
<1>3. /\ tp_buffer' \in [Nodes -> Seq(Packet \cup {NoPacket})]
      /\ \A x \in Nodes : x # n => tp_buffer'[x] = tp_buffer[x]
      /\ Len(tp_buffer'[n]) \in Nat /\ Len(tp_buffer'[n]) >= s.next
      /\ Len(tp_buffer'[n]) <= BufferPackets
      /\ \A k \in 1 .. s.next : tp_buffer'[n][k].seq = k
  BY <1>1, <1>2, StoredInPlace
<1>4. session \in [Nodes -> Sessions] /\ delivered \in [Nodes -> SUBSET Calls]
      /\ s \in Sessions /\ s.packets \in 0 .. UINT8_MAX
  BY SessionFields DEF IInv, TypeOK, HistoriesOK
<1>5. CASE /\ session' = [session EXCEPT ![n].next = next] /\ next <= s.packets
           /\ next \in {0, s.next + 1} /\ NoReply(n) /\ UNCHANGED delivered
  <2>1. next \in 0 .. UINT8_MAX
    <3>1. next \in Nat /\ UINT8_MAX \in Nat /\ s.packets <= UINT8_MAX /\ s.packets \in Nat
      BY <1>1, <1>4, <1>5, Maxima
    <3> QED BY <1>5, <3>1
  <2> HIDE DEF next
  <2>2. /\ session' \in [Nodes -> Sessions]
        /\ session'[n] = [s EXCEPT !.next = next]
        /\ \A x \in Nodes : x # n => session'[x] = session[x]
    BY <1>4, <1>5, <2>1 DEF Sessions
  <2>3. /\ session'[n].open = s.open /\ session'[n].size = s.size
        /\ session'[n].packets = s.packets /\ session'[n].next = next
    BY <1>4, <2>2 DEF Sessions
  <2>4. /\ s.size \in 1 .. BufferSize /\ 7 * (s.packets - 1) < s.size
        /\ s.size <= 7 * s.packets /\ n \in Listening
    BY <1>1 DEF IInv, SessionOK, SessionFits
  <2>5. /\ next - 1 <= s.next /\ Len(tp_buffer'[n]) >= next - 1
        /\ \A k \in 1 .. next - 1 : k \in 1 .. s.next
    BY <1>1, <1>3, <1>5, Maxima
  <2>6. SessionOK(n)'
    BY <1>3, <1>5, <2>3, <2>4, <2>5 DEF SessionOK, SessionFits
  <2>7. PacketsInPlace' /\ delivered' \in [Nodes -> SUBSET Calls]
    BY <1>4, <1>5 DEF IInv, PacketsInPlace
  <2>8. FramesOK' /\ failures' \in Nat
    BY <1>1, <1>5, NoReplyOK DEF IInv, TypeOK
  <2> QED BY <1>2, <1>3, <2>2, <2>6, <2>7, <2>8, ReceiversStep
<1>6. CASE /\ s.next = s.packets /\ Reply(n, EndOfMsgAck) /\ CloseSession(n)
           /\ Deliver(n, s.pgn, s.size, data)
  <2>1. s.packets \in Nat /\ s.packets <= Len(tp_buffer'[n])
    BY <1>1, <1>3, <1>6, Maxima
  <2>2. /\ data \in Seq(Packet \cup {NoPacket}) /\ DOMAIN data = 1 .. s.packets
        /\ \A i \in 1 .. s.packets : data[i] = tp_buffer'[n][i]
    BY <1>3, <2>1, SubSeqFacts
  <2>3. \A i \in DOMAIN data : data[i].seq = i
    BY <1>3, <1>6, <2>2
  <2> HIDE DEF data
  <2> DEFINE call == [pgn |-> s.pgn, size |-> s.size, data |-> data]
  <2>4. call \in Calls /\ call.data = data
    BY <2>2, SessionFields DEF Calls
  <2>5. /\ delivered' = delivered \/ delivered' = [delivered EXCEPT ![n] = @ \cup {call}]
    BY <1>6 DEF Deliver
  <2> HIDE DEF call
  <2>6. /\ delivered' \in [Nodes -> SUBSET Calls]
        /\ \A x \in Nodes : \A d \in delivered'[x] : d \in delivered[x] \/ d = call
    BY <1>4, <2>4, <2>5
  <2>7. PacketsInPlace'
    BY <2>3, <2>4, <2>6 DEF IInv, PacketsInPlace
  <2>8. Closed \in Sessions /\ ~Closed.open
    BY LimitsAssumption DEF Closed, Sessions, UINT8_MAX
  <2>9. /\ session' \in [Nodes -> Sessions] /\ session'[n] = Closed
        /\ \A x \in Nodes : x # n => session'[x] = session[x]
    BY <1>4, <1>6, <2>8 DEF CloseSession
  <2>10. SessionOK(n)'
    BY <2>8, <2>9 DEF SessionOK
  <2>11. FramesOK' /\ failures' \in Nat
    BY <1>1, <1>6, ReplyOK, RepliesSound DEF IInv, TypeOK
  <2> QED BY <1>2, <1>3, <2>6, <2>7, <2>9, <2>10, <2>11, ReceiversStep
<1> QED BY <1>1, <1>5, <1>6 DEF Accepted

LEMMA ReceiveSingleStep ==
  ASSUME IInv, NEW n \in Nodes, ReceiveSingle(n) PROVE IInv'
<1> DEFINE f == Head(inbox[n])
           call == [pgn |-> f.pgn, size |-> f.size, data |-> <<f.packet>>]
<1>1. /\ inbox[n] # <<>> /\ f.type = "PGN" /\ NoReply(n)
      /\ UNCHANGED <<session, tp_buffer, senderVars>>
      /\ delivered' = delivered \/ delivered' = [delivered EXCEPT ![n] = @ \cup {call}]
  BY DEF ReceiveSingle, Receives, Deliver
<1>2. /\ f.pgn \in Nat /\ f.size \in Nat /\ f.packet \in Packet /\ f.packet.seq = 1
  BY <1>1, HeadFacts, FrameFields
<1>3. call \in Calls /\ call.data = <<f.packet>>
  BY <1>2 DEF Calls
<1>4. \A i \in DOMAIN call.data : call.data[i].seq = i
  BY <1>2, <1>3
<1> HIDE DEF call
<1>5. /\ delivered' \in [Nodes -> SUBSET Calls]
      /\ \A x \in Nodes : \A d \in delivered'[x] : d \in delivered[x] \/ d = call
  <2>1. delivered \in [Nodes -> SUBSET Calls]
    BY DEF IInv, HistoriesOK
  <2> QED BY <1>1, <1>3, <2>1
<1>6. PacketsInPlace'
  BY <1>4, <1>5 DEF IInv, PacketsInPlace
<1>7. SessionOK(n)'
  BY <1>1 DEF IInv, SessionOK, SessionFits
<1>8. FramesOK' /\ failures' \in Nat
  BY <1>1, NoReplyOK DEF IInv, TypeOK
<1> QED BY <1>1, <1>5, <1>6, <1>7, <1>8, ReceiversStep DEF IInv, TypeOK

LEMMA ReceiveStep ==
  ASSUME IInv, NEW n \in Nodes, j1939_process_message(n) PROVE IInv'
<1>0. FramesOK /\ failures \in Nat
  BY DEF IInv, TypeOK
<1>1. ASSUME NEW code \in 1 .. 4, inbox[n] # <<>>, Reply(n, Abort(code))
      PROVE  FramesOK' /\ failures' \in Nat
  BY <1>0, <1>1, ReplyOK, RepliesSound
<1>2. CASE RejectBusy(n)
  <2>1. inbox[n] # <<>> /\ Reply(n, Abort(1)) /\ UNCHANGED <<session, tp_buffer, delivered, senderVars>>
    BY <1>2 DEF RejectBusy, Receives
  <2> QED BY <1>1, <2>1, SessionKeptOrClosed
<1>3. CASE RejectSize(n)
  <2>1. inbox[n] # <<>> /\ Reply(n, Abort(2)) /\ UNCHANGED <<session, tp_buffer, delivered, senderVars>>
    BY <1>3 DEF RejectSize, Receives
  <2> QED BY <1>1, <2>1, SessionKeptOrClosed
<1>4. CASE OpenSession(n)
  BY <1>4, OpenSessionStep
<1>5. CASE IgnoreData(n)
  <2>1. inbox[n] # <<>> /\ NoReply(n) /\ UNCHANGED <<session, tp_buffer, delivered, senderVars>>
    BY <1>5 DEF IgnoreData, Receives
  <2> QED BY <1>0, <2>1, NoReplyOK, SessionKeptOrClosed
<1>6. CASE TimedOut(n)
  <2>1. /\ inbox[n] # <<>> /\ Reply(n, Abort(3)) /\ CloseSession(n)
        /\ UNCHANGED <<tp_buffer, delivered, senderVars>>
    BY <1>6 DEF TimedOut, AbortSession, Receives
  <2> QED BY <1>1, <2>1, SessionKeptOrClosed
<1>7. CASE SequenceError(n)
  <2>1. /\ inbox[n] # <<>> /\ Reply(n, Abort(4)) /\ CloseSession(n)
        /\ UNCHANGED <<tp_buffer, delivered, senderVars>>
    BY <1>7 DEF SequenceError, AbortSession, Receives
  <2> QED BY <1>1, <2>1, SessionKeptOrClosed
<1>8. CASE AcceptData(n)
  BY <1>8, AcceptDataStep
<1>9. CASE ReceiveEnd(n)
  <2>1. /\ inbox[n] # <<>> /\ NoReply(n) /\ CloseSession(n)
        /\ UNCHANGED <<tp_buffer, delivered, senderVars>>
    BY <1>9 DEF ReceiveEnd, Receives
  <2> QED BY <1>0, <2>1, NoReplyOK, SessionKeptOrClosed
<1>10. CASE ReceiveCts(n)
  <2>1. inbox[n] # <<>> /\ NoReply(n) /\ UNCHANGED <<session, tp_buffer, delivered, senderVars>>
    BY <1>10 DEF ReceiveCts, Receives
  <2> QED BY <1>0, <2>1, NoReplyOK, SessionKeptOrClosed
<1>11. CASE ReceiveSingle(n)
  BY <1>11, ReceiveSingleStep
<1> QED BY <1>2, <1>3, <1>4, <1>5, <1>6, <1>7, <1>8, <1>9, <1>10, <1>11
        DEF j1939_process_message

LEMMA StutterStep ==
  ASSUME IInv, UNCHANGED vars PROVE IInv'
<1>1. \A n \in Nodes : SenderOK(n)' /\ SessionOK(n)'
  BY DEF IInv, vars, SenderOK, SessionOK, SessionFits
<1>2. TypeOK' /\ FramesOK' /\ HistoriesOK' /\ PacketsInPlace'
  BY DEF IInv, vars, TypeOK, FramesOK, HistoriesOK, PacketsInPlace
<1> QED BY <1>1, <1>2 DEF IInv

LEMMA NextStep ==
  ASSUME IInv, [Next]_vars PROVE IInv'
<1>1. ASSUME NEW n \in Nodes, j1939_send_tp_data(n) PROVE IInv'
  BY <1>1, SendSingleStep, SendRtsStep, SendDataStep DEF j1939_send_tp_data
<1>2. ASSUME NEW n \in Nodes, j1939_process_message(n) PROVE IInv'
  BY <1>2, ReceiveStep
<1>3. CASE Tick
  BY <1>3, TickStep
<1>4. CASE Quiet \/ UNCHANGED vars
  BY <1>4, StutterStep DEF Quiet
<1> QED BY <1>1, <1>2, <1>3, <1>4 DEF Next

LEMMA InitIInv ==
  ASSUME Init PROVE IInv
<1>0. Len(<<>>) <= BufferPackets
  <2>1. (BufferSize + 6) \div 7 \in Nat
    BY LimitsAssumption
  <2> QED BY <2>1 DEF BufferPackets
<1>1. <<>> \in Seq(SoundFrames) /\ <<>> \in Seq(Frames) /\ <<>> \in Seq(Packet \cup {NoPacket})
      /\ <<>> \in Seq(Message) /\ \A n \in Nodes : <<>> \in Seq(Messages[n])
  OBVIOUS
<1>2. Closed \in Sessions /\ ~Closed.open /\ Idle.at = "idle"
      /\ Idle \in [at : {"idle", "data", "sleep"}, i : 0 .. UINT8_MAX - 1]
  BY LimitsAssumption DEF Closed, Sessions, Idle, UINT8_MAX
<1>3. TypeOK /\ FramesOK /\ HistoriesOK
  BY <1>0, <1>1, <1>2 DEF Init, TypeOK, FramesOK, HistoriesOK
<1>4. \A n \in Nodes : SenderOK(n) /\ SessionOK(n)
  BY <1>2 DEF Init, SenderOK, SessionOK
<1>5. PacketsInPlace
  BY DEF Init, PacketsInPlace
<1> QED BY <1>3, <1>4, <1>5 DEF IInv

LEMMA Inductive == Spec => []IInv
<1> QED BY InitIInv, NextStep, PTL DEF Spec

\* Every frame, session, buffer and call has the fields of its C type: no
\* counter of packets leaves its uint8_t, no packet is stored or handed to a
\* handler that is not one, and none is stored beyond the end of tp_buffer
\* (handle_tp_rts, handle_tp_dt, j1939_send_tp_data).
THEOREM TypeCorrect == Spec => []TypeOK
<1>1. IInv => TypeOK
  BY DEF IInv
<1> QED BY <1>1, Inductive, PTL

\* Whatever is lost, delayed, refused or given up, and however many nodes there
\* are: every packet a handler gets is at the place its number says, an open
\* session is a message that fits the buffer and its packet count, and the two
\* checks behind the sequence check in handle_tp_dt never abort a session.
THEOREM SessionsCorrect == Spec => []SessionsSound
<1>1. IInv => SessionsSound
  <2> SUFFICES ASSUME IInv PROVE SessionsSound
    OBVIOUS
  <2>1. ASSUME NEW n \in Nodes, NEW k \in DOMAIN inbox[n], inbox[n][k].type = "ABORT"
        PROVE  inbox[n][k].code \notin {5, 6}
    <3>1. inbox[n][k] \in SoundFrames
      BY DEF IInv, FramesOK
    <3> QED BY <2>1, <3>1 DEF SoundFrames, SoundFrame
  <2> QED BY <2>1 DEF IInv, SessionOK, SessionsSound, SizeChecksNeverFail
<1> QED BY <1>1, Inductive, PTL

-----------------------------------------------------------------------------
(* How the train from one node goes on: by a frame behind those on the way, *)
(* by the next call, or by 50 ms.  Here q, st and S become q2, st2 and S2.  *)

Senders == [at : {"idle", "data", "sleep"}, i : 0 .. UINT8_MAX - 1]

\* What was on the way or still to be sent is so afterwards.
Later(q, st, S, q2, st2, S2) ==
    /\ \A k \in DOMAIN q : k \in DOMAIN q2 /\ q2[k] = q[k]
    /\ \A k \in DOMAIN q2 \ DOMAIN q : \A j \in DOMAIN q : j < k
    /\ \A j, k \in DOMAIN q2 \ DOMAIN q : j = k
    /\ \A c \in DOMAIN S : c \in DOMAIN S2 /\ S2[c] = S[c]
    /\ \A c \in DOMAIN S : \A p \in Nat : Pending(st2, S2, c, p) => Pending(st, S, c, p)
    /\ \A c \in DOMAIN S : \A p \in 1 .. num_packets(S[c].size) :
          Coming(q, st, S, c, p) => Coming(q2, st2, S2, c, p)

\* A frame behind the others is the next packet of the call under way, the
\* announcement of a call or a message of its own.
NextFrame(f, k, q2, st, S, st2, S2, m) ==
    /\ f.type = "DT" =>
          /\ f.packet.src = m /\ f.packet.call = Len(S) /\ S # <<>>
          /\ st.at = "data" /\ f.packet.seq = st.i + 1
          /\ ~Pending(st2, S2, Len(S), st.i + 1)
    /\ f.type = "RTS" => \E c \in DOMAIN S2 : AnnouncedBy(q2, k, st2, S2, c)
    /\ f.type = "PGN" =>
          \E c \in DOMAIN S2 :
             /\ S2[c].pgn = f.pgn /\ S2[c].size = f.size /\ S2[c].size <= 8
             /\ f.packet = [src |-> m, call |-> c, seq |-> 1]

NewFrames(q, st, S, q2, st2, S2, m) ==
    \A k \in DOMAIN q2 \ DOMAIN q : NextFrame(q2[k], k, q2, st, S, st2, S2, m)

LEMMA CallRange ==
  ASSUME NEW S \in Seq(Message)
  PROVE  /\ Len(S) \in Nat /\ DOMAIN S = 1 .. Len(S)
         /\ \A c \in DOMAIN S : /\ c \in Nat /\ c <= Len(S) /\ S[c] \in Message
                                /\ S[c].size \in Nat /\ S[c].pgn \in Nat
                                /\ num_packets(S[c].size) \in 0 .. UINT8_MAX
<1>1. \A c \in DOMAIN S : S[c] \in Message
  OBVIOUS
<1>2. \A c \in DOMAIN S : S[c].size \in Nat /\ S[c].pgn \in Nat
  BY <1>1, MessageFields
<1>3. \A c \in DOMAIN S : num_packets(S[c].size) \in 0 .. UINT8_MAX
  BY <1>2, NumPacketsRange
<1> QED BY <1>1, <1>2, <1>3

LEMMA DataFields ==
  ASSUME NEW q \in Seq(SoundFrames), NEW k \in DOMAIN q, q[k].type = "DT"
  PROVE  /\ q[k].packet \in Packet /\ q[k].packet.call \in Nat
         /\ q[k].packet.seq \in Nat /\ q[k].packet.seq >= 1
<1>1. q[k] \in SoundFrames
  OBVIOUS
<1>2. q[k].packet \in Packet /\ q[k].packet.seq >= 1
  BY <1>1, FrameFields
<1>3. q[k].packet.call \in Nat /\ q[k].packet.seq \in 0 .. UINT8_MAX
  BY <1>2, PacketFields
<1> QED BY <1>2, <1>3, Maxima

LEMMA TrainGoesOn ==
  ASSUME NEW q \in Seq(SoundFrames), NEW q2 \in Seq(SoundFrames),
         NEW S \in Seq(Message), NEW S2 \in Seq(Message), NEW st \in Senders, NEW st2,
         NEW m, TrainSound(q, st, S, m),
         Later(q, st, S, q2, st2, S2), NewFrames(q, st, S, q2, st2, S2, m)
  PROVE  TrainSound(q2, st2, S2, m)
<1>1. ASSUME NEW k \in DOMAIN q2, q2[k].type = "DT"
      PROVE  /\ q2[k].packet.src = m /\ q2[k].packet.call \in DOMAIN S
             /\ ~Pending(st2, S2, q2[k].packet.call, q2[k].packet.seq)
             /\ k \in DOMAIN q \/ (q2[k].packet.call = Len(S) /\ q2[k].packet.seq = st.i + 1
                                   /\ st.at = "data")
  <2>1. CASE k \in DOMAIN q
    <3>1. q2[k] = q[k]
      BY <2>1 DEF Later
    <3>2. /\ q[k].packet.src = m /\ q[k].packet.call \in DOMAIN S
          /\ ~Pending(st, S, q[k].packet.call, q[k].packet.seq)
      BY <1>1, <2>1, <3>1 DEF TrainSound, DataSound
    <3>3. q[k].packet.seq \in Nat
      BY <1>1, <3>1, DataFields
    <3>4. ~Pending(st2, S2, q[k].packet.call, q[k].packet.seq)
      BY <3>2, <3>3 DEF Later
    <3> QED BY <2>1, <3>1, <3>2, <3>4
  <2>2. CASE k \notin DOMAIN q
    <3>1. /\ q2[k].packet.src = m /\ q2[k].packet.call = Len(S) /\ S # <<>>
          /\ st.at = "data" /\ q2[k].packet.seq = st.i + 1
          /\ ~Pending(st2, S2, Len(S), st.i + 1)
      BY <1>1, <2>2 DEF NewFrames, NextFrame
    <3>2. Len(S) \in DOMAIN S
      BY <3>1
    <3> QED BY <3>1, <3>2
  <2> QED BY <2>1, <2>2
<1>2. DataSound(q2, st2, S2, m)
  BY <1>1 DEF DataSound, Later
<1>3. InOrder(q2)
  <2> SUFFICES ASSUME NEW j \in DOMAIN q2, NEW k \in DOMAIN q2, j < k,
                      q2[j].type = "DT", q2[k].type = "DT"
               PROVE  \/ q2[j].packet.call < q2[k].packet.call
                      \/ /\ q2[j].packet.call = q2[k].packet.call
                         /\ q2[j].packet.seq < q2[k].packet.seq
    BY DEF InOrder
  <2>0. j \in Nat /\ k \in Nat
    OBVIOUS
  <2>1. j \in DOMAIN q
    <3>1. CASE k \in DOMAIN q
      <4>1. Len(q) \in Nat /\ DOMAIN q = 1 .. Len(q) /\ j >= 1
        OBVIOUS
      <4> QED BY <2>0, <3>1, <4>1
    <3>2. CASE k \notin DOMAIN q
      <4>1. j \notin DOMAIN q => j = k
        BY <3>2 DEF Later
      <4> QED BY <2>0, <4>1
    <3> QED BY <3>1, <3>2
  <2>2. q2[j] = q[j]
    BY <2>1 DEF Later
  <2>3. CASE k \in DOMAIN q
    <3>1. q2[k] = q[k]
      BY <2>3 DEF Later
    <3> QED BY <2>1, <2>2, <2>3, <3>1 DEF TrainSound, InOrder
  <2>4. CASE k \notin DOMAIN q
    <3>1. q2[k].packet.call = Len(S) /\ q2[k].packet.seq = st.i + 1 /\ st.at = "data"
      BY <1>1, <2>4
    <3>2. q[j].packet.call \in DOMAIN S /\ ~Pending(st, S, q[j].packet.call, q[j].packet.seq)
      BY <2>1, <2>2 DEF TrainSound, DataSound
    <3>3. q[j].packet.seq \in Nat /\ st.i \in Nat
      <4>1. q[j].packet.seq \in Nat
        BY <2>1, <2>2, DataFields
      <4>2. st.i \in 0 .. UINT8_MAX - 1
        BY DEF Senders
      <4> QED BY <4>1, <4>2, Maxima
    <3>4. q[j].packet.call \in Nat /\ q[j].packet.call <= Len(S) /\ Len(S) \in Nat
      BY <3>2, CallRange
    <3>5. q[j].packet.call = Len(S) => q[j].packet.seq < st.i + 1
      BY <3>1, <3>2, <3>3 DEF Pending
    <3> QED BY <2>2, <3>1, <3>4, <3>5
  <2> QED BY <2>3, <2>4
<1>4. RtsSound(q2, st2, S2)
  <2> SUFFICES ASSUME NEW k \in DOMAIN q2, q2[k].type = "RTS"
               PROVE  \E c \in DOMAIN S2 : AnnouncedBy(q2, k, st2, S2, c)
    BY DEF RtsSound
  <2>1. CASE k \notin DOMAIN q
    BY <2>1 DEF NewFrames, NextFrame
  <2>2. CASE k \in DOMAIN q
    <3>1. q2[k] = q[k]
      BY <2>2 DEF Later
    <3>2. PICK c \in DOMAIN S : AnnouncedBy(q, k, st, S, c)
      BY <2>2, <3>1 DEF TrainSound, RtsSound
    <3>3. c \in DOMAIN S2 /\ S2[c] = S[c]
      BY <3>2 DEF Later
    <3>4. ASSUME NEW j \in DOMAIN q2, q2[j].type = "DT"
          PROVE  /\ j < k => q2[j].packet.call < c
                 /\ j > k => q2[j].packet.call >= c
      <4>1. CASE j \in DOMAIN q
        <5>1. q2[j] = q[j]
          BY <4>1 DEF Later
        <5> QED BY <3>2, <3>4, <4>1, <5>1 DEF AnnouncedBy
      <4>2. CASE j \notin DOMAIN q
        <5>1. q2[j].packet.call = Len(S) /\ k < j
          BY <1>1, <2>2, <3>4, <4>2 DEF Later
        <5>2. c \in Nat /\ c <= Len(S) /\ Len(S) \in Nat
          BY <3>2, CallRange
        <5>3. j \in Nat /\ k \in Nat
          OBVIOUS
        <5> QED BY <5>1, <5>2, <5>3
      <4> QED BY <4>1, <4>2
    <3>5. \A s \in 1 .. num_packets(S[c].size) : Coming(q2, st2, S2, c, s)
      BY <3>2 DEF Later, AnnouncedBy
    <3>6. AnnouncedBy(q2, k, st2, S2, c)
      BY <3>1, <3>2, <3>3, <3>4, <3>5 DEF AnnouncedBy
    <3> QED BY <3>3, <3>6
  <2> QED BY <2>1, <2>2
<1>5. SinglesSound(q2, S2, m)
  <2> SUFFICES ASSUME NEW k \in DOMAIN q2, q2[k].type = "PGN"
               PROVE  \E c \in DOMAIN S2 :
                         /\ S2[c].pgn = q2[k].pgn /\ S2[c].size = q2[k].size /\ S2[c].size <= 8
                         /\ q2[k].packet = [src |-> m, call |-> c, seq |-> 1]
    BY DEF SinglesSound
  <2>1. CASE k \notin DOMAIN q
    BY <2>1 DEF NewFrames, NextFrame
  <2>2. CASE k \in DOMAIN q
    <3>1. q2[k] = q[k]
      BY <2>2 DEF Later
    <3>2. PICK c \in DOMAIN S : /\ S[c].pgn = q[k].pgn /\ S[c].size = q[k].size /\ S[c].size <= 8
                                /\ q[k].packet = [src |-> m, call |-> c, seq |-> 1]
      BY <2>2, <3>1 DEF TrainSound, SinglesSound
    <3>3. c \in DOMAIN S2 /\ S2[c] = S[c]
      BY <3>2 DEF Later
    <3> QED BY <3>1, <3>2, <3>3
  <2> QED BY <2>1, <2>2
<1> QED BY <1>2, <1>3, <1>4, <1>5 DEF TrainSound

LEMMA SessionGoesOn ==
  ASSUME NEW q \in Seq(SoundFrames), NEW q2 \in Seq(SoundFrames),
         NEW S \in Seq(Message), NEW S2 \in Seq(Message), NEW st \in Senders, NEW st2,
         NEW m, NEW s \in Sessions, NEW buffer, SessionOf(s, buffer, q, st, S, m),
         Later(q, st, S, q2, st2, S2), NewFrames(q, st, S, q2, st2, S2, m)
  PROVE  SessionOf(s, buffer, q2, st2, S2, m)
<1> SUFFICES ASSUME s.open
             PROVE  \E c \in DOMAIN S2 : SessionAbout(s, buffer, q2, st2, S2, m, c)
  BY DEF SessionOf
<1>1. PICK c \in DOMAIN S : SessionAbout(s, buffer, q, st, S, m, c)
  BY DEF SessionOf
<1>2. c \in DOMAIN S2 /\ S2[c] = S[c]
  BY <1>1 DEF Later
<1>3. s.next \in 0 .. UINT8_MAX /\ s.next \in Nat /\ s.packets \in Nat
  BY Maxima DEF Sessions
<1>4. \A p \in 1 .. s.next - 1 :
         buffer[p] = [src |-> m, call |-> c, seq |-> p] /\ ~Pending(st2, S2, c, p)
  <2>1. \A p \in 1 .. s.next - 1 : p \in Nat
    OBVIOUS
  <2> QED BY <1>1, <2>1 DEF SessionAbout, Later
<1>5. ASSUME s.next # 0 PROVE \A p \in s.next .. s.packets : Coming(q2, st2, S2, c, p)
  <2>1. \A p \in s.next .. s.packets : p \in 1 .. num_packets(S[c].size)
    BY <1>1, <1>3, <1>5 DEF SessionAbout
  <2> QED BY <1>1, <1>5, <2>1 DEF SessionAbout, Later
<1>6. ASSUME NEW k \in DOMAIN q2, q2[k].type = "DT"
      PROVE  \/ q2[k].packet.call > c
             \/ q2[k].packet.call = c /\ q2[k].packet.seq >= s.next
  <2>1. CASE k \in DOMAIN q
    <3>1. q2[k] = q[k]
      BY <2>1 DEF Later
    <3> QED BY <1>1, <1>6, <2>1, <3>1 DEF SessionAbout
  <2>2. CASE k \notin DOMAIN q
    <3>1. q2[k].packet.call = Len(S) /\ st.at = "data" /\ q2[k].packet.seq = st.i + 1
      BY <1>6, <2>2 DEF NewFrames, NextFrame
    <3>2. c \in Nat /\ c <= Len(S) /\ Len(S) \in Nat
      BY <1>1, CallRange
    <3>3. st.i \in Nat
      <4>1. st.i \in 0 .. UINT8_MAX - 1
        BY DEF Senders
      <4> QED BY <4>1, Maxima
    <3>4. CASE c = Len(S) /\ s.next > 1
      <4>1. s.next - 1 \in 1 .. s.next - 1
        BY <1>3, <3>4
      <4>2. ~Pending(st, S, c, s.next - 1)
        BY <1>1, <4>1 DEF SessionAbout
      <4>3. ~(st.i < s.next - 1)
        BY <3>1, <3>4, <4>2 DEF Pending
      <4> QED BY <1>3, <3>1, <3>3, <3>4, <4>3
    <3>5. CASE c = Len(S) /\ ~(s.next > 1)
      BY <1>3, <3>1, <3>3, <3>5
    <3>6. CASE c # Len(S)
      BY <3>1, <3>2, <3>6
    <3> QED BY <3>4, <3>5, <3>6
  <2> QED BY <2>1, <2>2
<1>7. SessionAbout(s, buffer, q2, st2, S2, m, c)
  BY <1>1, <1>2, <1>4, <1>5, <1>6 DEF SessionAbout
<1> QED BY <1>2, <1>7

\* A reply is nothing a train is made of.
LEMMA ReplyLater ==
  ASSUME NEW q \in Seq(SoundFrames), NEW e \in SoundFrames, e.type \in {"CTS", "EOM", "ABORT"},
         NEW S, NEW st, NEW m
  PROVE  /\ Later(q, st, S, Append(q, e), st, S)
         /\ NewFrames(q, st, S, Append(q, e), st, S, m)
<1> DEFINE q2 == Append(q, e)
<1>1. /\ \A k \in DOMAIN q : k \in DOMAIN q2 /\ q2[k] = q[k]
      /\ Len(q) \in Nat /\ DOMAIN q = 1 .. Len(q) /\ DOMAIN q2 = 1 .. Len(q) + 1
      /\ q2[Len(q) + 1] = e
  BY AppendFacts
<1> HIDE DEF q2
<1>2. \A k \in DOMAIN q2 \ DOMAIN q : k = Len(q) + 1
  BY <1>1
<1>3. \A c, p : Coming(q, st, S, c, p) => Coming(q2, st, S, c, p)
  BY <1>1 DEF Coming
<1>4. Later(q, st, S, q2, st, S)
  BY <1>1, <1>2, <1>3 DEF Later
<1>5. NewFrames(q, st, S, q2, st, S, m)
  BY <1>1, <1>2 DEF NewFrames, NextFrame
<1> QED BY <1>4, <1>5 DEF q2

\* The next packet of the call under way.
LEMMA DataLater ==
  ASSUME NEW q \in Seq(SoundFrames), NEW S \in Seq(Message), S # <<>>, NEW st \in Senders,
         st.at = "data", NEW st2, st2.at = "sleep", st2.i = st.i, NEW m,
         NEW p, p.src = m, p.call = Len(S), p.seq = st.i + 1, DT(p) \in SoundFrames
  PROVE  /\ Later(q, st, S, Append(q, DT(p)), st2, S)
         /\ NewFrames(q, st, S, Append(q, DT(p)), st2, S, m)
<1> DEFINE e == DT(p)
           q2 == Append(q, e)
<1>0. e.type = "DT" /\ e.packet = p /\ e \in SoundFrames
  BY DEF DT
<1> HIDE DEF e
<1>1. /\ \A k \in DOMAIN q : k \in DOMAIN q2 /\ q2[k] = q[k]
      /\ Len(q) \in Nat /\ DOMAIN q = 1 .. Len(q) /\ DOMAIN q2 = 1 .. Len(q) + 1
      /\ q2[Len(q) + 1] = e
  BY <1>0, AppendFacts
<1> HIDE DEF q2
<1>2. \A k \in DOMAIN q2 \ DOMAIN q : k = Len(q) + 1
  BY <1>1
<1>3. st.i \in Nat
  <2>1. st.i \in 0 .. UINT8_MAX - 1
    BY DEF Senders
  <2> QED BY <2>1, Maxima
<1>4. \A c : \A s \in Nat : Pending(st2, S, c, s) <=> Pending(st, S, c, s) /\ s # st.i + 1
  BY <1>3 DEF Pending
<1>5. ASSUME NEW c \in DOMAIN S, NEW s \in 1 .. num_packets(S[c].size), Coming(q, st, S, c, s)
      PROVE  Coming(q2, st2, S, c, s)
  <2>0. s \in Nat
    OBVIOUS
  <2>1. CASE \E k \in DOMAIN q : IsData(q[k], c, s)
    BY <1>1, <2>1 DEF Coming
  <2>2. CASE Pending(st, S, c, s) /\ s # st.i + 1
    BY <1>4, <2>0, <2>2 DEF Coming
  <2>3. CASE Pending(st, S, c, s) /\ s = st.i + 1
    <3>1. c = Len(S)
      BY <2>3 DEF Pending
    <3>2. IsData(e, c, s)
      BY <1>0, <2>3, <3>1 DEF IsData
    <3>3. Len(q) + 1 \in DOMAIN q2
      BY <1>1
    <3> QED BY <1>1, <3>2, <3>3 DEF Coming
  <2> QED BY <1>5, <2>1, <2>2, <2>3 DEF Coming
<1>6. Later(q, st, S, q2, st2, S)
  BY <1>1, <1>2, <1>4, <1>5 DEF Later
<1>7. NewFrames(q, st, S, q2, st2, S, m)
  <2>1. ~Pending(st2, S, Len(S), st.i + 1)
    BY <1>3, <1>4
  <2>2. NextFrame(e, Len(q) + 1, q2, st, S, st2, S, m)
    BY <1>0, <2>1 DEF NextFrame
  <2> QED BY <1>1, <1>2, <2>2 DEF NewFrames
<1> QED BY <1>6, <1>7 DEF q2, e

\* The next call: S grows, and nothing of the earlier calls was pending.
LEMMA CallLater ==
  ASSUME NEW q \in Seq(SoundFrames), NEW e \in SoundFrames, NEW S \in Seq(Message),
         NEW msg \in Message, NEW st, st.at = "idle", NEW st2
  PROVE  Later(q, st, S, Append(q, e), st2, Append(S, msg))
<1> DEFINE q2 == Append(q, e)
           S2 == Append(S, msg)
<1>1. /\ \A k \in DOMAIN q : k \in DOMAIN q2 /\ q2[k] = q[k]
      /\ Len(q) \in Nat /\ DOMAIN q = 1 .. Len(q) /\ DOMAIN q2 = 1 .. Len(q) + 1
      /\ q2[Len(q) + 1] = e
  BY AppendFacts
<1>2. /\ \A k \in DOMAIN S : k \in DOMAIN S2 /\ S2[k] = S[k]
      /\ Len(S) \in Nat /\ DOMAIN S = 1 .. Len(S) /\ Len(S2) = Len(S) + 1
  BY AppendFacts
<1> HIDE DEF q2, S2
<1>3. \A k \in DOMAIN q2 \ DOMAIN q : k = Len(q) + 1
  BY <1>1
<1>4. \A c \in DOMAIN S : \A p : ~Pending(st2, S2, c, p)
  BY <1>2 DEF Pending
<1>5. \A c, p : ~Pending(st, S, c, p)
  BY DEF Pending
<1>6. \A c, p : Coming(q, st, S, c, p) => Coming(q2, st2, S2, c, p)
  BY <1>1, <1>5 DEF Coming
<1>7. Later(q, st, S, q2, st2, S2)
  BY <1>1, <1>2, <1>3, <1>4, <1>6 DEF Later
<1> QED BY <1>7 DEF q2, S2

LEMMA RtsNew ==
  ASSUME NEW q \in Seq(SoundFrames), NEW S \in Seq(Message), NEW msg \in Message, msg.size > 8,
         NEW st, NEW m, DataSound(q, st, S, m), NEW st2,
         st2 = [at |-> "data", i |-> 0] \/ num_packets(msg.size) = 0
  PROVE  NewFrames(q, st, S, Append(q, RTS(msg)), st2, Append(S, msg), m)
<1> DEFINE e == RTS(msg)
           q2 == Append(q, e)
           S2 == Append(S, msg)
           c == Len(S) + 1
<1>0. /\ e \in SoundFrames /\ e.type = "RTS" /\ e.pgn = msg.pgn /\ e.size = msg.size
      /\ e.packets = num_packets(msg.size)
  BY RtsFrame DEF RTS
<1> HIDE DEF e
<1>1. /\ \A k \in DOMAIN q : k \in DOMAIN q2 /\ q2[k] = q[k]
      /\ Len(q) \in Nat /\ DOMAIN q = 1 .. Len(q) /\ DOMAIN q2 = 1 .. Len(q) + 1
      /\ q2[Len(q) + 1] = e
  BY <1>0, AppendFacts
<1>2. Len(S) \in Nat /\ DOMAIN S2 = 1 .. c /\ S2[c] = msg /\ c \in DOMAIN S2 /\ Len(S2) = c
  BY AppendFacts
<1> HIDE DEF q2, S2
<1>3. \A k \in DOMAIN q2 \ DOMAIN q : k = Len(q) + 1
  BY <1>1
<1>4. ASSUME NEW s \in 1 .. num_packets(msg.size) PROVE Coming(q2, st2, S2, c, s)
  <2>1. num_packets(msg.size) # 0 /\ s \in Nat /\ s > 0
    <3>1. num_packets(msg.size) \in 0 .. UINT8_MAX
      BY MessageFields, NumPacketsRange
    <3> QED BY <3>1, Maxima
  <2>2. st2.at = "data" /\ st2.i = 0
    BY <2>1
  <2> QED BY <1>2, <2>1, <2>2 DEF Coming, Pending
<1>5. ASSUME NEW j \in DOMAIN q2, q2[j].type = "DT"
      PROVE  j < Len(q) + 1 /\ q2[j].packet.call < c
  <2>1. j \in DOMAIN q
    BY <1>0, <1>1, <1>5
  <2>2. q[j].packet.call \in DOMAIN S
    BY <1>1, <1>5, <2>1 DEF DataSound
  <2>3. q[j].packet.call \in Nat /\ q[j].packet.call <= Len(S)
    BY <2>2, CallRange
  <2> QED BY <1>1, <1>2, <2>1, <2>3
<1>6. AnnouncedBy(q2, Len(q) + 1, st2, S2, c)
  <2>1. \A j \in DOMAIN q2 : j \in Nat
    BY <1>1
  <2>2. \A j \in DOMAIN q2 : q2[j].type = "DT" =>
          /\ j < Len(q) + 1 => q2[j].packet.call < c
          /\ j > Len(q) + 1 => q2[j].packet.call >= c
    BY <1>1, <1>5, <2>1
  <2> QED BY <1>0, <1>1, <1>2, <1>4, <2>2 DEF AnnouncedBy
<1>7. NextFrame(e, Len(q) + 1, q2, st, S, st2, S2, m)
  BY <1>0, <1>2, <1>6 DEF NextFrame
<1>8. NewFrames(q, st, S, q2, st2, S2, m)
  BY <1>1, <1>3, <1>7 DEF NewFrames
<1> QED BY <1>8 DEF q2, S2, e

LEMMA SingleNew ==
  ASSUME NEW q \in Seq(SoundFrames), NEW S \in Seq(Message), NEW msg \in Message, msg.size <= 8,
         NEW st, NEW m, NEW st2, NEW p, p = [src |-> m, call |-> Len(S) + 1, seq |-> 1],
         Single(msg, p) \in SoundFrames
  PROVE  NewFrames(q, st, S, Append(q, Single(msg, p)), st2, Append(S, msg), m)
<1> DEFINE e == Single(msg, p)
           q2 == Append(q, e)
           S2 == Append(S, msg)
           c == Len(S) + 1
<1>0. e.type = "PGN" /\ e.pgn = msg.pgn /\ e.size = msg.size /\ e.packet = p /\ e \in SoundFrames
  BY DEF Single
<1> HIDE DEF e
<1>1. /\ Len(q) \in Nat /\ DOMAIN q = 1 .. Len(q) /\ DOMAIN q2 = 1 .. Len(q) + 1
      /\ q2[Len(q) + 1] = e
  BY <1>0, AppendFacts
<1>2. S2[c] = msg /\ c \in DOMAIN S2
  BY AppendFacts
<1> HIDE DEF q2, S2
<1>3. \A k \in DOMAIN q2 \ DOMAIN q : k = Len(q) + 1
  BY <1>1
<1>4. NextFrame(e, Len(q) + 1, q2, st, S, st2, S2, m)
  BY <1>0, <1>2 DEF NextFrame
<1>5. NewFrames(q, st, S, q2, st2, S2, m)
  BY <1>1, <1>3, <1>4 DEF NewFrames
<1> QED BY <1>5 DEF q2, S2, e

\* 50 ms: the next packet is up, or there is none left.
LEMMA WokenLater ==
  ASSUME NEW q, NEW S \in Seq(Message), NEW st \in Senders, NEW st2, NEW m,
         \/ st2 = st
         \/ /\ st.at = "sleep" /\ st.i + 1 >= num_packets(S[Len(S)].size) /\ st2.at = "idle"
         \/ st.at = "sleep" /\ st2.at = "data" /\ st2.i = st.i + 1
  PROVE  Later(q, st, S, q, st2, S) /\ NewFrames(q, st, S, q, st2, S, m)
<1>1. st.i \in Nat
  <2>1. st.i \in 0 .. UINT8_MAX - 1
    BY DEF Senders
  <2> QED BY <2>1, Maxima
<1>2. \A c \in DOMAIN S : \A p : Pending(st2, S, c, p) => Pending(st, S, c, p)
  BY <1>1 DEF Pending
<1>3. ASSUME NEW c \in DOMAIN S, NEW p \in 1 .. num_packets(S[c].size), Pending(st, S, c, p)
      PROVE  Pending(st2, S, c, p)
  <2>1. c = Len(S) /\ p \in Nat /\ num_packets(S[c].size) \in Nat
    BY <1>3, CallRange, Maxima DEF Pending
  <2> QED BY <1>1, <1>3, <2>1 DEF Pending
<1>4. Later(q, st, S, q, st2, S)
  BY <1>2, <1>3 DEF Later, Coming
<1> QED BY <1>4 DEF NewFrames

-----------------------------------------------------------------------------
(* How the train gets shorter, and what the session makes of its head.      *)

LEMMA InOrderAt ==
  ASSUME NEW q, InOrder(q), NEW j \in DOMAIN q, NEW k \in DOMAIN q, j < k,
         q[j].type = "DT", q[k].type = "DT"
  PROVE  \/ q[j].packet.call < q[k].packet.call
         \/ q[j].packet.call = q[k].packet.call /\ q[j].packet.seq < q[k].packet.seq
  BY Zenon DEF InOrder

LEMMA TrainTail ==
  ASSUME NEW q \in Seq(SoundFrames), q # <<>>, NEW S, NEW st, NEW m, TrainSound(q, st, S, m)
  PROVE  TrainSound(Tail(q), st, S, m)
<1> DEFINE q2 == Tail(q)
<1>1. /\ 1 \in DOMAIN q /\ q2 \in Seq(SoundFrames)
      /\ \A i \in DOMAIN q2 : i + 1 \in DOMAIN q /\ q2[i] = q[i + 1]
      /\ \A i \in DOMAIN q : i # 1 => i - 1 \in DOMAIN q2 /\ q2[i - 1] = q[i]
  BY TailFacts
<1> HIDE DEF q2
<1>2. \A i \in DOMAIN q2 : i \in Nat /\ i >= 1
  BY <1>1
<1>3. DataSound(q2, st, S, m)
  BY <1>1 DEF TrainSound, DataSound
<1>4. InOrder(q2)
  <2> SUFFICES ASSUME NEW j \in DOMAIN q2, NEW k \in DOMAIN q2, j < k,
                      q2[j].type = "DT", q2[k].type = "DT"
               PROVE  \/ q2[j].packet.call < q2[k].packet.call
                      \/ /\ q2[j].packet.call = q2[k].packet.call
                         /\ q2[j].packet.seq < q2[k].packet.seq
    BY DEF InOrder
  <2>1. /\ j + 1 \in DOMAIN q /\ k + 1 \in DOMAIN q /\ j + 1 < k + 1
        /\ q2[j] = q[j + 1] /\ q2[k] = q[k + 1]
    BY <1>1, <1>2
  <2>2. InOrder(q)
    BY DEF TrainSound
  <2>3. \/ q[j + 1].packet.call < q[k + 1].packet.call
        \/ q[j + 1].packet.call = q[k + 1].packet.call /\ q[j + 1].packet.seq < q[k + 1].packet.seq
    BY <2>1, <2>2, InOrderAt
  <2> QED BY <2>1, <2>3
<1>5. RtsSound(q2, st, S)
  <2> SUFFICES ASSUME NEW k \in DOMAIN q2, q2[k].type = "RTS"
               PROVE  \E c \in DOMAIN S : AnnouncedBy(q2, k, st, S, c)
    BY DEF RtsSound
  <2>1. k + 1 \in DOMAIN q /\ q2[k] = q[k + 1] /\ 1 < k + 1
    BY <1>1, <1>2
  <2>2. PICK c \in DOMAIN S : AnnouncedBy(q, k + 1, st, S, c)
    BY <2>1 DEF TrainSound, RtsSound
  <2>3. ASSUME NEW j \in DOMAIN q2, q2[j].type = "DT"
        PROVE  (j < k => q2[j].packet.call < c) /\ (j > k => q2[j].packet.call >= c)
    <3>1. j + 1 \in DOMAIN q /\ q2[j] = q[j + 1] /\ (j < k => j + 1 < k + 1)
          /\ (j > k => j + 1 > k + 1)
      BY <1>1, <1>2
    <3> QED BY <2>2, <2>3, <3>1 DEF AnnouncedBy
  <2>4. ASSUME NEW s \in 1 .. num_packets(S[c].size) PROVE Coming(q2, st, S, c, s)
    <3>1. Coming(q, st, S, c, s)
      BY <2>2 DEF AnnouncedBy
    <3>2. CASE Pending(st, S, c, s)
      BY <3>2 DEF Coming
    <3>3. ASSUME NEW i \in DOMAIN q, IsData(q[i], c, s) PROVE Coming(q2, st, S, c, s)
      <4>1. i # 1
        <5>1. q[i].type = "DT" /\ q[i].packet.call = c
          BY <3>3 DEF IsData
        <5>2. q[i].packet.call \in Nat
          BY <5>1, DataFields
        <5>3. i = 1 => q[i].packet.call < c
          BY <2>1, <2>2, <5>1 DEF AnnouncedBy
        <5> QED BY <5>1, <5>2, <5>3
      <4> QED BY <1>1, <3>3, <4>1 DEF Coming
    <3> QED BY <3>1, <3>2, <3>3 DEF Coming
  <2>5. AnnouncedBy(q2, k, st, S, c)
    BY <2>1, <2>2, <2>3, <2>4 DEF AnnouncedBy
  <2> QED BY <2>5
<1>6. SinglesSound(q2, S, m)
  <2> SUFFICES ASSUME NEW k \in DOMAIN q2, q2[k].type = "PGN"
               PROVE  \E c \in DOMAIN S :
                         /\ S[c].pgn = q2[k].pgn /\ S[c].size = q2[k].size /\ S[c].size <= 8
                         /\ q2[k].packet = [src |-> m, call |-> c, seq |-> 1]
    BY Zenon DEF SinglesSound
  <2>1. k + 1 \in DOMAIN q /\ q2[k] = q[k + 1]
    BY <1>1
  <2>2. SinglesSound(q, S, m)
    BY DEF TrainSound
  <2>3. PICK c \in DOMAIN S :
           /\ S[c].pgn = q[k + 1].pgn /\ S[c].size = q[k + 1].size /\ S[c].size <= 8
           /\ q[k + 1].packet = [src |-> m, call |-> c, seq |-> 1]
    BY <2>1, <2>2, Zenon DEF SinglesSound
  <2> QED BY <2>1, <2>3, Zenon
<1> QED BY <1>3, <1>4, <1>5, <1>6 DEF TrainSound, q2

\* A frame that is no packet leaves the session with what is to come.
LEMMA SessionTail ==
  ASSUME NEW q \in Seq(SoundFrames), q # <<>>, q[1].type # "DT", NEW S, NEW st, NEW m,
         NEW s, NEW buffer, SessionOf(s, buffer, q, st, S, m)
  PROVE  SessionOf(s, buffer, Tail(q), st, S, m)
<1> SUFFICES ASSUME s.open
             PROVE  \E c \in DOMAIN S : SessionAbout(s, buffer, Tail(q), st, S, m, c)
  BY DEF SessionOf
<1>1. PICK c \in DOMAIN S : SessionAbout(s, buffer, q, st, S, m, c)
  BY DEF SessionOf
<1> DEFINE q2 == Tail(q)
<1>2. /\ \A i \in DOMAIN q2 : i + 1 \in DOMAIN q /\ q2[i] = q[i + 1]
      /\ \A i \in DOMAIN q : i # 1 => i - 1 \in DOMAIN q2 /\ q2[i - 1] = q[i]
  BY TailFacts
<1> HIDE DEF q2
<1>3. \A p : Coming(q, st, S, c, p) => Coming(q2, st, S, c, p)
  <2>1. \A p : ~IsData(q[1], c, p)
    BY DEF IsData
  <2> QED BY <1>2, <2>1 DEF Coming
<1>4. SessionAbout(s, buffer, q2, st, S, m, c)
  BY <1>1, <1>2, <1>3 DEF SessionAbout
<1> QED BY <1>4 DEF q2

\* The session an RTS opens has its whole message still to come.
LEMMA SessionOpened ==
  ASSUME NEW q \in Seq(SoundFrames), q # <<>>, q[1].type = "RTS", NEW S \in Seq(Message),
         NEW st, NEW m, TrainSound(q, st, S, m), NEW buffer, NEW s,
         s.pgn = q[1].pgn, s.size = q[1].size, s.packets = q[1].packets, s.next = 1
  PROVE  SessionOf(s, buffer, Tail(q), st, S, m)
<1>1. 1 \in DOMAIN q
  BY TailFacts
<1>2. PICK c \in DOMAIN S : AnnouncedBy(q, 1, st, S, c)
  BY <1>1 DEF TrainSound, RtsSound
<1>3. ASSUME NEW k \in DOMAIN q, q[k].type = "DT"
      PROVE  q[k].packet.call > c \/ (q[k].packet.call = c /\ q[k].packet.seq >= 1)
  <2>1. k # 1 /\ k \in Nat /\ k >= 1
    BY <1>3
  <2>2. q[k].packet.call >= c
    BY <1>2, <1>3, <2>1 DEF AnnouncedBy
  <2>3. q[k].packet.call \in Nat /\ q[k].packet.seq >= 1 /\ c \in Nat
    BY <1>3, DataFields, CallRange
  <2> QED BY <2>2, <2>3
<1>4. \A p \in 1 .. 1 - 1 : FALSE
  OBVIOUS
<1>5. SessionAbout(s, buffer, q, st, S, m, c)
  BY <1>2, <1>3, <1>4 DEF SessionAbout, AnnouncedBy
<1>6. SessionOf(s, buffer, q, st, S, m)
  BY <1>5 DEF SessionOf
<1> QED BY <1>6, SessionTail

\* A packet with the number an open session waits for is one of its call.
LEMMA NextOfCall ==
  ASSUME NEW q \in Seq(SoundFrames), q # <<>>, q[1].type = "DT", NEW S \in Seq(Message),
         NEW st, NEW m, TrainSound(q, st, S, m), NEW s \in Sessions, NEW buffer,
         NEW c \in DOMAIN S, SessionAbout(s, buffer, q, st, S, m, c),
         q[1].packet.seq = s.next, s.next <= s.packets
  PROVE  q[1].packet = [src |-> m, call |-> c, seq |-> s.next]
<1>1. 1 \in DOMAIN q
  BY TailFacts
<1>2. /\ q[1].packet \in Packet /\ q[1].packet.call \in Nat
      /\ q[1].packet.seq >= 1 /\ q[1].packet.seq \in Nat
  BY <1>1, DataFields
<1>3. q[1].packet.src = m /\ q[1].packet.call \in DOMAIN S
  BY <1>1 DEF TrainSound, DataSound
<1>4. c \in Nat /\ q[1].packet.call >= c /\ q[1].packet.call <= Len(S) /\ Len(S) \in Nat
  BY <1>1, <1>2, <1>3, CallRange DEF SessionAbout
<1>5. Coming(q, st, S, c, s.next)
  <2>1. s.next # 0 /\ s.next \in Nat /\ s.packets \in Nat
    BY <1>2, Maxima DEF Sessions
  <2>2. s.next \in s.next .. s.packets
    BY <2>1
  <2> QED BY <2>1, <2>2 DEF SessionAbout
<1>6. q[1].packet.call = c
  <2>1. CASE Pending(st, S, c, s.next)
    <3>1. c = Len(S)
      BY <2>1 DEF Pending
    <3> QED BY <1>2, <1>4, <3>1
  <2>2. ASSUME NEW i \in DOMAIN q, IsData(q[i], c, s.next) PROVE q[1].packet.call = c
    <3>1. CASE i = 1
      BY <2>2, <3>1 DEF IsData
    <3>2. CASE i # 1
      <4>1. 1 < i
        BY <3>2
      <4>2. q[i].type = "DT" /\ q[i].packet.call = c /\ q[i].packet.seq = s.next
        BY <2>2 DEF IsData
      <4>3. q[1].packet.call < c \/ (q[1].packet.call = c /\ q[1].packet.seq < s.next)
        BY <1>1, <4>1, <4>2 DEF TrainSound, InOrder
      <4> QED BY <1>2, <1>4, <4>3
    <3> QED BY <3>1, <3>2
  <2> QED BY <1>5, <2>1, <2>2 DEF Coming
<1>7. q[1].packet = [src |-> q[1].packet.src, call |-> q[1].packet.call, seq |-> q[1].packet.seq]
  BY <1>2 DEF Packet
<1> QED BY <1>3, <1>6, <1>7

\* The session with that packet stored waits for the one after it.
Advanced(q, s, buffer, s2, buffer2) ==
    /\ q # <<>> /\ q[1].type = "DT" /\ q[1].packet.seq = s.next
    /\ s.open /\ s.next <= s.packets
    /\ s2.pgn = s.pgn /\ s2.size = s.size /\ s2.packets = s.packets
    /\ s2.next \in {0, s.next + 1}
    /\ buffer2[s.next] = q[1].packet /\ \A k \in 1 .. s.next - 1 : buffer2[k] = buffer[k]

LEMMA SessionAdvanced ==
  ASSUME NEW q \in Seq(SoundFrames), NEW S \in Seq(Message),
         NEW st, NEW m, TrainSound(q, st, S, m), NEW s \in Sessions, NEW buffer,
         SessionOf(s, buffer, q, st, S, m),
         NEW s2, NEW buffer2, Advanced(q, s, buffer, s2, buffer2)
  PROVE  SessionOf(s2, buffer2, Tail(q), st, S, m)
<1>0. /\ q # <<>> /\ q[1].type = "DT" /\ q[1].packet.seq = s.next
      /\ s.open /\ s.next <= s.packets
      /\ s2.pgn = s.pgn /\ s2.size = s.size /\ s2.packets = s.packets
      /\ s2.next \in {0, s.next + 1}
      /\ buffer2[s.next] = q[1].packet /\ \A k \in 1 .. s.next - 1 : buffer2[k] = buffer[k]
  BY DEF Advanced
<1>1. PICK c \in DOMAIN S : SessionAbout(s, buffer, q, st, S, m, c)
  BY <1>0 DEF SessionOf
<1>2. q[1].packet = [src |-> m, call |-> c, seq |-> s.next]
  BY <1>0, <1>1, NextOfCall
<1> DEFINE q2 == Tail(q)
<1>3. /\ 1 \in DOMAIN q /\ q2 \in Seq(SoundFrames)
      /\ \A i \in DOMAIN q2 : i + 1 \in DOMAIN q /\ q2[i] = q[i + 1]
      /\ \A i \in DOMAIN q : i # 1 => i - 1 \in DOMAIN q2 /\ q2[i - 1] = q[i]
  BY <1>0, TailFacts
<1> HIDE DEF q2
<1>4. s.next \in Nat /\ s.packets \in Nat
  BY Maxima DEF Sessions
<1>5. ~Pending(st, S, c, s.next)
  BY <1>0, <1>2, <1>3 DEF TrainSound, DataSound
<1>6. ASSUME NEW k \in DOMAIN q2, q2[k].type = "DT"
      PROVE  q2[k].packet.call > c \/ (q2[k].packet.call = c /\ q2[k].packet.seq >= s2.next)
  <2>1. k + 1 \in DOMAIN q /\ q2[k] = q[k + 1] /\ 1 < k + 1
    BY <1>3
  <2>0. /\ InOrder(q) /\ q[k + 1].type = "DT"
        /\ q[1].packet.call = c /\ q[1].packet.seq = s.next
    BY <1>2, <1>6, <2>1 DEF TrainSound
  <2>2. \/ c < q[k + 1].packet.call
        \/ c = q[k + 1].packet.call /\ s.next < q[k + 1].packet.seq
    <3>1. \/ q[1].packet.call < q[k + 1].packet.call
          \/ q[1].packet.call = q[k + 1].packet.call /\ q[1].packet.seq < q[k + 1].packet.seq
      <4>1. /\ InOrder(q) /\ 1 \in DOMAIN q /\ k + 1 \in DOMAIN q /\ 1 < k + 1
            /\ q[1].type = "DT" /\ q[k + 1].type = "DT"
        BY <1>0, <1>3, <2>0, <2>1
      <4> QED BY <4>1, InOrderAt, Zenon
    <3> QED BY <2>0, <3>1
  <2>3. q[k + 1].packet.call \in Nat /\ q[k + 1].packet.seq \in Nat /\ c \in Nat
    BY <1>6, <2>1, DataFields, CallRange
  <2> QED BY <1>0, <1>4, <2>1, <2>2, <2>3
<1>7. ASSUME s2.next # 0, NEW p \in s2.next .. s2.packets PROVE Coming(q2, st, S, c, p)
  <2>1. p \in s.next .. s.packets /\ s.next # p
    BY <1>0, <1>4, <1>7
  <2>2. s.next # 0
    <3>1. q[1].packet.seq >= 1
      BY <1>0, <1>3, DataFields
    <3> QED BY <1>0, <1>4, <3>1
  <2>3. Coming(q, st, S, c, p)
    BY <1>1, <2>1, <2>2 DEF SessionAbout
  <2>4. ~IsData(q[1], c, p)
    BY <1>2, <2>1 DEF IsData
  <2> QED BY <1>3, <2>3, <2>4 DEF Coming
<1>8. ASSUME NEW p \in 1 .. s2.next - 1
      PROVE  buffer2[p] = [src |-> m, call |-> c, seq |-> p] /\ ~Pending(st, S, c, p)
  <2>1. s2.next = s.next + 1
    BY <1>0, <1>8
  <2>2. p = s.next \/ p \in 1 .. s.next - 1
    BY <1>4, <2>1
  <2> QED BY <1>0, <1>1, <1>2, <1>5, <2>2 DEF SessionAbout
<1>9. SessionAbout(s2, buffer2, q2, st, S, m, c)
  BY <1>0, <1>1, <1>6, <1>7, <1>8 DEF SessionAbout
<1> QED BY <1>9 DEF SessionOf, q2

\* When the last packet is stored the buffer holds the whole message.
LastStored(q, s, buffer, data) ==
    /\ q # <<>> /\ q[1].type = "DT" /\ q[1].packet.seq = s.next
    /\ s.open /\ s.next = s.packets
    /\ data = [k \in 1 .. s.packets |-> data[k]] /\ data[s.next] = q[1].packet
    /\ \A k \in 1 .. s.next - 1 : data[k] = buffer[k]

LEMMA WholeMessage ==
  ASSUME NEW q \in Seq(SoundFrames), NEW S \in Seq(Message), NEW st, NEW m,
         TrainSound(q, st, S, m), NEW s \in Sessions, NEW buffer,
         SessionOf(s, buffer, q, st, S, m), NEW data, LastStored(q, s, buffer, data)
  PROVE  \E c \in DOMAIN S : /\ s.pgn = S[c].pgn /\ s.size = S[c].size
                             /\ data = PacketsOf(m, c, S[c])
<1>0. /\ q # <<>> /\ q[1].type = "DT" /\ q[1].packet.seq = s.next
      /\ s.open /\ s.next = s.packets
      /\ data = [k \in 1 .. s.packets |-> data[k]] /\ data[s.next] = q[1].packet
      /\ \A k \in 1 .. s.next - 1 : data[k] = buffer[k]
  BY DEF LastStored
<1>1. PICK c \in DOMAIN S : SessionAbout(s, buffer, q, st, S, m, c)
  BY <1>0 DEF SessionOf
<1>2. s.next \in Nat /\ s.packets \in Nat /\ s.next <= s.packets
  BY <1>0, Maxima DEF Sessions
<1>3. q[1].packet = [src |-> m, call |-> c, seq |-> s.next]
  BY <1>0, <1>1, <1>2, NextOfCall
<1>4. \A k \in 1 .. s.packets : data[k] = [src |-> m, call |-> c, seq |-> k]
  <2>1. \A k \in 1 .. s.packets : k = s.next \/ k \in 1 .. s.next - 1
    BY <1>0, <1>2
  <2> QED BY <1>0, <1>1, <1>3, <2>1 DEF SessionAbout
<1>5. /\ s.pgn = S[c].pgn /\ s.size = S[c].size /\ s.packets = num_packets(S[c].size)
      /\ ~(S[c].size <= 8)
  <2>1. S[c].size \in Nat
    BY CallRange
  <2> QED BY <1>1, <2>1 DEF SessionAbout
<1>6. PacketsOf(m, c, S[c]) = [k \in 1 .. s.packets |-> [src |-> m, call |-> c, seq |-> k]]
  BY <1>5 DEF PacketsOf
<1>7. data = PacketsOf(m, c, S[c])
  BY <1>0, <1>4, <1>6
<1> QED BY <1>5, <1>7

-----------------------------------------------------------------------------
(* Between two nodes: every step of a sender, of time and of a receiver.    *)

LEMMA PairTypes ==
  ASSUME IInv, NEW n \in Nodes
  PROVE  /\ inbox[n] \in Seq(SoundFrames) /\ sent[n] \in Seq(Message) /\ sender[n] \in Senders
         /\ session[n] \in Sessions
  BY DEF IInv, TypeOK, FramesOK, HistoriesOK, Senders

\* The age of a session says nothing of what it has stored.
LEMMA AgeIgnored ==
  ASSUME NEW s, NEW s2, s2.open = s.open, s2.pgn = s.pgn, s2.size = s.size,
         s2.packets = s.packets, s2.next = s.next,
         NEW buffer, NEW q, NEW st, NEW S, NEW m, SessionOf(s, buffer, q, st, S, m)
  PROVE  SessionOf(s2, buffer, q, st, S, m)
<1>1. ASSUME NEW c, SessionAbout(s, buffer, q, st, S, m, c)
      PROVE  SessionAbout(s2, buffer, q, st, S, m, c)
  BY <1>1 DEF SessionAbout
<1> QED BY <1>1 DEF SessionOf

LEMMA PairGoesOn ==
  ASSUME IInv, IInv', NEW n \in Nodes, NEW m \in others(n), PairOK(n, m),
         session'[n].open = session[n].open, session'[n].pgn = session[n].pgn,
         session'[n].size = session[n].size, session'[n].packets = session[n].packets,
         session'[n].next = session[n].next, tp_buffer'[n] = tp_buffer[n],
         Later(inbox[n], sender[m], sent[m], inbox'[n], sender'[m], sent'[m]),
         NewFrames(inbox[n], sender[m], sent[m], inbox'[n], sender'[m], sent'[m], m)
  PROVE  PairOK(n, m)'
<1> DEFINE q == inbox[n]
           st == sender[m]
           S == sent[m]
           q2 == inbox'[n]
           st2 == sender'[m]
           S2 == sent'[m]
<1>1. /\ q \in Seq(SoundFrames) /\ q2 \in Seq(SoundFrames)
      /\ S \in Seq(Message) /\ S2 \in Seq(Message) /\ st \in Senders /\ session[n] \in Sessions
  <2>1. m \in Nodes
    BY DEF others
  <2>2. q2 \in Seq(SoundFrames) /\ S2 \in Seq(Message)
    BY <2>1 DEF IInv, FramesOK, HistoriesOK
  <2> QED BY <2>1, <2>2, PairTypes
<1>2. TrainSound(q, st, S, m) /\ SessionOf(session[n], tp_buffer[n], q, st, S, m)
  BY DEF PairOK
<1>3. Later(q, st, S, q2, st2, S2) /\ NewFrames(q, st, S, q2, st2, S2, m)
  OBVIOUS
<1>4. TrainSound(q2, st2, S2, m)
  <2> HIDE DEF q, st, S, q2, st2, S2
  <2> QED BY <1>1, <1>2, <1>3, TrainGoesOn
<1>5. SessionOf(session[n], tp_buffer[n], q2, st2, S2, m)
  <2> HIDE DEF q, st, S, q2, st2, S2
  <2> QED BY <1>1, <1>2, <1>3, SessionGoesOn
<1>6. SessionOf(session'[n], tp_buffer'[n], q2, st2, S2, m)
  <2> HIDE DEF q, st, S, q2, st2, S2
  <2> QED BY <1>5, AgeIgnored
<1>7. PairOK(n, m)' <=> TrainSound(q2, st2, S2, m)
                        /\ SessionOf(session'[n], tp_buffer'[n], q2, st2, S2, m)
  BY DEF PairOK
<1> QED BY <1>4, <1>6, <1>7

\* What is sent stays sent: a message that was whole is so afterwards.
LEMMA HandlersStep ==
  ASSUME HandlersGetOneMessage,
         \A src \in Nodes : \A k \in DOMAIN sent[src] :
            k \in DOMAIN sent'[src] /\ sent'[src][k] = sent[src][k],
         \A n \in Nodes : \A d \in delivered'[n] :
            d \in delivered[n] \/ \E src \in others(n) : IsMessageOf(src, d)
  PROVE  HandlersGetOneMessage'
<1>1. ASSUME NEW src \in Nodes, NEW d, IsMessageOf(src, d) PROVE IsMessageOf(src, d)'
  BY <1>1 DEF IsMessageOf, PacketsOf
<1>2. ASSUME NEW n \in Nodes, NEW d \in delivered'[n]
      PROVE  \E src \in others(n) : IsMessageOf(src, d)'
  <2>1. PICK src \in others(n) : IsMessageOf(src, d)
    BY <1>2 DEF HandlersGetOneMessage
  <2>2. src \in Nodes
    BY DEF others
  <2> QED BY <1>1, <2>1, <2>2
<1> QED BY <1>2 DEF HandlersGetOneMessage, others

\* A step of sender x, as the other nodes see it: at most one frame more.
SenderOnly(x) ==
    /\ UNCHANGED <<session, tp_buffer, delivered>>
    /\ inbox'[x] = inbox[x]
    /\ \A n \in Nodes : n # x => sender'[n] = sender[n] /\ sent'[n] = sent[n]

\* A node that does not listen has nothing on the way and no session.
LEMMA DeafPair ==
  ASSUME IInv', NEW n \in Nodes, n \notin Listening, NEW m PROVE PairOK(n, m)'
<1>1. inbox'[n] = <<>> /\ ~session'[n].open
  BY DEF IInv, FramesOK, SessionOK
<1>2. DOMAIN inbox'[n] = {}
  BY <1>1
<1>3. TrainSound(inbox[n], sender[m], sent[m], m)'
  BY <1>2 DEF TrainSound, DataSound, InOrder, RtsSound, SinglesSound
<1>4. SessionOf(session[n], tp_buffer[n], inbox[n], sender[m], sent[m], m)'
  BY <1>1 DEF SessionOf
<1> QED BY <1>3, <1>4 DEF PairOK

LEMMA SenderChain ==
  ASSUME TwoNodesOnly, IInv, IInv', ChainInv, failures = 0, NEW x \in Nodes, SenderOnly(x),
         \A k \in DOMAIN sent[x] : k \in DOMAIN sent'[x] /\ sent'[x][k] = sent[x][k],
         \A n \in listeners(x) :
            DataSound(inbox[n], sender[x], sent[x], x) =>
            /\ Later(inbox[n], sender[x], sent[x], inbox'[n], sender'[x], sent'[x])
            /\ NewFrames(inbox[n], sender[x], sent[x], inbox'[n], sender'[x], sent'[x], x)
  PROVE  ChainInv'
<1>1. ASSUME NEW n \in Nodes, NEW m \in others(n) PROVE PairOK(n, m)'
  <2>0. m \in Nodes /\ m # n /\ PairOK(n, m)
    BY DEF others, ChainInv
  <2>1. session'[n] = session[n] /\ tp_buffer'[n] = tp_buffer[n]
    BY DEF SenderOnly
  <2>4. CASE n \notin Listening
    BY <2>4, DeafPair
  <2>2. CASE m = x /\ n \in Listening
    <3>1. n \in listeners(x)
      BY <2>0, <2>2 DEF listeners
    <3>2. DataSound(inbox[n], sender[x], sent[x], x)
      BY <2>0, <2>2 DEF PairOK, TrainSound
    <3>3. /\ Later(inbox[n], sender[m], sent[m], inbox'[n], sender'[m], sent'[m])
          /\ NewFrames(inbox[n], sender[m], sent[m], inbox'[n], sender'[m], sent'[m], m)
      BY <2>2, <3>1, <3>2
    <3> QED BY <2>0, <2>1, <3>3, PairGoesOn
  <2>3. CASE m # x
    <3>1. n = x
      BY <2>0, <2>3 DEF TwoNodesOnly
    <3>2. inbox'[n] = inbox[n] /\ sender'[m] = sender[m] /\ sent'[m] = sent[m]
      BY <2>0, <2>3, <3>1 DEF SenderOnly
    <3>3. sent[m] \in Seq(Message) /\ sender[m] \in Senders
      BY <2>0, PairTypes
    <3>4. /\ Later(inbox[n], sender[m], sent[m], inbox[n], sender[m], sent[m])
          /\ NewFrames(inbox[n], sender[m], sent[m], inbox[n], sender[m], sent[m], m)
      BY <3>3, WokenLater
    <3> QED BY <2>0, <2>1, <3>2, <3>4, PairGoesOn
  <2> QED BY <2>2, <2>3, <2>4
<1>2. \A src \in Nodes : \A k \in DOMAIN sent[src] :
         k \in DOMAIN sent'[src] /\ sent'[src][k] = sent[src][k]
  BY DEF SenderOnly
<1>3. \A n \in Nodes : \A d \in delivered'[n] : d \in delivered[n]
  BY DEF SenderOnly
<1>4. HandlersGetOneMessage'
  BY <1>2, <1>3, HandlersStep DEF ChainInv
<1>5. ASSUME NEW n \in Nodes, others(n) = {} PROVE inbox'[n] = <<>>
  <2>1. n = x
    BY <1>5 DEF others
  <2> QED BY <1>5, <2>1 DEF ChainInv, AloneIsSilent, SenderOnly
<1> QED BY <1>1, <1>4, <1>5 DEF ChainInv, others, AloneIsSilent

\* What every other node that listens finds in its inbox.
LEMMA BroadcastFacts ==
  ASSUME IInv, NEW x \in Nodes, NEW f, Broadcast(x, f)
  PROVE  /\ inbox'[x] = inbox[x]
         /\ \A n \in listeners(x) : n \in Nodes /\ n # x /\ inbox'[n] = Append(inbox[n], f)
         /\ \A n \in Nodes : n \notin listeners(x) => inbox'[n] = inbox[n]
  BY ListeningAssumption DEF Broadcast, listeners

LEMMA SendSingleChain ==
  ASSUME TwoNodesOnly, IInv, IInv', ChainInv, failures' = 0,
         NEW x \in Nodes, NEW msg \in Messages[x], SendSingle(x, msg)
  PROVE  ChainInv'
<1> DEFINE p == [src |-> x, call |-> Len(sent[x]) + 1, seq |-> 1]
<1>0. failures \in Nat
  BY DEF IInv, TypeOK
<1>1. /\ sender[x] = Idle /\ msg.size <= 8 /\ failures = 0
      /\ UNCHANGED <<sender, session, tp_buffer, delivered, delayed>>
      /\ sent' = [sent EXCEPT ![x] = Append(@, msg)] /\ Broadcast(x, Single(msg, p))
  BY <1>0 DEF SendSingle, CanSendError, receiverVars
<1>2. msg \in Message
  BY MessageOf
<1>3. /\ sent'[x] = Append(sent[x], msg) /\ \A n \in Nodes : n # x => sent'[n] = sent[n]
      /\ \A k \in DOMAIN sent[x] : k \in DOMAIN sent'[x] /\ sent'[x][k] = sent[x][k]
  <2>1. sent \in [Nodes -> Seq(Message)]
    BY DEF IInv, HistoriesOK
  <2>2. sent'[x] = Append(sent[x], msg)
    BY <1>1, <2>1
  <2> QED BY <1>1, <2>2, CallCounted
<1>4. p \in Packet /\ p.seq = 1 /\ p = [src |-> x, call |-> Len(sent[x]) + 1, seq |-> 1]
  BY SentFacts DEF Packet, UINT8_MAX
<1> HIDE DEF p
<1>5. Single(msg, p) \in SoundFrames
  BY <1>2, <1>4, SingleFrame
<1>6. SenderOnly(x)
  BY <1>1, <1>3, BroadcastFacts DEF SenderOnly
<1>7. ASSUME NEW n \in listeners(x)
      PROVE  /\ Later(inbox[n], sender[x], sent[x], inbox'[n], sender'[x], sent'[x])
             /\ NewFrames(inbox[n], sender[x], sent[x], inbox'[n], sender'[x], sent'[x], x)
  <2>1. inbox'[n] = Append(inbox[n], Single(msg, p)) /\ sender'[x] = sender[x]
    BY <1>1, BroadcastFacts
  <2>2. inbox[n] \in Seq(SoundFrames) /\ sent[x] \in Seq(Message) /\ sender[x].at = "idle"
    BY <1>1, PairTypes, ListeningAssumption DEF listeners, Idle
  <2>3. Later(inbox[n], sender[x], sent[x], Append(inbox[n], Single(msg, p)), sender[x],
              Append(sent[x], msg))
    BY <1>2, <1>5, <2>2, CallLater
  <2>4. NewFrames(inbox[n], sender[x], sent[x], Append(inbox[n], Single(msg, p)), sender[x],
                  Append(sent[x], msg), x)
    BY <1>1, <1>2, <1>4, <1>5, <2>2, SingleNew
  <2> QED BY <1>3, <2>1, <2>3, <2>4
<1> QED BY <1>1, <1>3, <1>6, <1>7, SenderChain

LEMMA SendRtsChain ==
  ASSUME TwoNodesOnly, IInv, IInv', ChainInv, failures' = 0,
         NEW x \in Nodes, NEW msg \in Messages[x], SendRts(x, msg)
  PROVE  ChainInv'
<1>0. failures \in Nat /\ sender \in [Nodes -> Senders]
  BY DEF IInv, TypeOK, Senders
<1>1. /\ sender[x] = Idle /\ msg.size > 8 /\ failures = 0
      /\ UNCHANGED <<session, tp_buffer, delivered, delayed>>
      /\ sent' = [sent EXCEPT ![x] = Append(@, msg)] /\ Broadcast(x, RTS(msg))
      /\ \/ num_packets(msg.size) = 0 /\ UNCHANGED sender
         \/ sender' = [sender EXCEPT ![x] = [at |-> "data", i |-> 0]]
  BY <1>0 DEF SendRts, CanSendError, receiverVars
<1>2. msg \in Message
  BY MessageOf
<1>3. /\ sent'[x] = Append(sent[x], msg) /\ \A n \in Nodes : n # x => sent'[n] = sent[n]
      /\ \A k \in DOMAIN sent[x] : k \in DOMAIN sent'[x] /\ sent'[x][k] = sent[x][k]
  <2>1. sent \in [Nodes -> Seq(Message)]
    BY DEF IInv, HistoriesOK
  <2>2. sent'[x] = Append(sent[x], msg)
    BY <1>1, <2>1
  <2> QED BY <1>1, <2>2, CallCounted
<1>4. /\ \A n \in Nodes : n # x => sender'[n] = sender[n]
      /\ sender'[x] = [at |-> "data", i |-> 0] \/ num_packets(msg.size) = 0
  BY <1>0, <1>1
<1>5. RTS(msg) \in SoundFrames
  BY <1>2, RtsFrame
<1>6. SenderOnly(x)
  BY <1>1, <1>3, <1>4, BroadcastFacts DEF SenderOnly
<1>7. ASSUME NEW n \in listeners(x), DataSound(inbox[n], sender[x], sent[x], x)
      PROVE  /\ Later(inbox[n], sender[x], sent[x], inbox'[n], sender'[x], sent'[x])
             /\ NewFrames(inbox[n], sender[x], sent[x], inbox'[n], sender'[x], sent'[x], x)
  <2>1. inbox'[n] = Append(inbox[n], RTS(msg))
    BY <1>1, BroadcastFacts
  <2>2. inbox[n] \in Seq(SoundFrames) /\ sent[x] \in Seq(Message) /\ sender[x].at = "idle"
    BY <1>1, PairTypes, ListeningAssumption DEF listeners, Idle
  <2>3. Later(inbox[n], sender[x], sent[x], Append(inbox[n], RTS(msg)), sender'[x],
              Append(sent[x], msg))
    BY <1>2, <1>5, <2>2, CallLater
  <2>4. NewFrames(inbox[n], sender[x], sent[x], Append(inbox[n], RTS(msg)), sender'[x],
                  Append(sent[x], msg), x)
    BY <1>1, <1>2, <1>4, <1>7, <2>2, RtsNew
  <2> QED BY <1>3, <2>1, <2>3, <2>4
<1> QED BY <1>1, <1>3, <1>6, <1>7, SenderChain

LEMMA SendDataChain ==
  ASSUME TwoNodesOnly, IInv, IInv', ChainInv, failures' = 0, NEW x \in Nodes, SendData(x)
  PROVE  ChainInv'
<1> DEFINE p == [src |-> x, call |-> Len(sent[x]), seq |-> sender[x].i + 1]
<1>0. failures \in Nat /\ sender \in [Nodes -> Senders]
  BY DEF IInv, TypeOK, Senders
<1>1. /\ sender[x].at = "data" /\ failures = 0
      /\ UNCHANGED <<sent, session, tp_buffer, delivered, delayed>>
      /\ Broadcast(x, DT(p)) /\ sender' = [sender EXCEPT ![x].at = "sleep"]
  BY <1>0 DEF SendData, CanSendError, receiverVars
<1>2. /\ \A n \in Nodes : n # x => sender'[n] = sender[n]
      /\ sender'[x].at = "sleep" /\ sender'[x].i = sender[x].i
  BY <1>0, <1>1 DEF Senders
<1>3. sender[x] \in Senders /\ sent[x] \in Seq(Message) /\ sent[x] # <<>>
  BY <1>1, PairTypes DEF IInv, SenderOK
<1>4. p \in Packet /\ p.seq >= 1 /\ p.src = x /\ p.call = Len(sent[x]) /\ p.seq = sender[x].i + 1
  <2>1. sender[x].i \in 0 .. UINT8_MAX - 1 /\ Len(sent[x]) \in Nat
    BY <1>3, SentFacts DEF Senders
  <2>2. sender[x].i + 1 \in 0 .. UINT8_MAX /\ sender[x].i + 1 >= 1
    BY <2>1, Maxima
  <2> QED BY <2>1, <2>2 DEF Packet
<1> HIDE DEF p
<1>5. DT(p) \in SoundFrames
  BY <1>4, DataFrame
<1>6. SenderOnly(x)
  BY <1>1, <1>2, BroadcastFacts DEF SenderOnly
<1>7. ASSUME NEW n \in listeners(x)
      PROVE  /\ Later(inbox[n], sender[x], sent[x], inbox'[n], sender'[x], sent'[x])
             /\ NewFrames(inbox[n], sender[x], sent[x], inbox'[n], sender'[x], sent'[x], x)
  <2>1. inbox'[n] = Append(inbox[n], DT(p)) /\ sent'[x] = sent[x]
    BY <1>1, BroadcastFacts
  <2>2. inbox[n] \in Seq(SoundFrames)
    BY PairTypes, ListeningAssumption DEF listeners
  <2>3. /\ Later(inbox[n], sender[x], sent[x], Append(inbox[n], DT(p)), sender'[x], sent[x])
        /\ NewFrames(inbox[n], sender[x], sent[x], Append(inbox[n], DT(p)), sender'[x], sent[x], x)
    <3>1. /\ inbox[n] \in Seq(SoundFrames) /\ sent[x] \in Seq(Message) /\ sent[x] # <<>>
          /\ sender[x] \in Senders /\ sender[x].at = "data"
          /\ sender'[x].at = "sleep" /\ sender'[x].i = sender[x].i
          /\ p.src = x /\ p.call = Len(sent[x]) /\ p.seq = sender[x].i + 1
          /\ DT(p) \in SoundFrames
      BY <1>1, <1>2, <1>3, <1>4, <1>5, <2>2
    <3> QED BY <3>1, DataLater, Zenon
  <2> QED BY <2>1, <2>3
<1>8. \A k \in DOMAIN sent[x] : k \in DOMAIN sent'[x] /\ sent'[x][k] = sent[x][k]
  BY <1>1
<1> QED BY <1>1, <1>6, <1>7, <1>8, SenderChain

LEMMA TickChain ==
  ASSUME IInv, IInv', ChainInv, failures' = 0, Tick PROVE ChainInv'
<1>1. /\ sender' = [n \in Nodes |-> Woken(n)]
      /\ session' = [n \in Nodes |-> IF session[n].open
                         THEN [session[n] EXCEPT !.age = Smaller(@ + 1, TimeoutTicks + 1)]
                         ELSE session[n]]
      /\ UNCHANGED <<inbox, tp_buffer, sent, delivered, failures>>
  BY DEF Tick
<1>2. ASSUME NEW n \in Nodes, NEW m \in others(n) PROVE PairOK(n, m)'
  <2>0. m \in Nodes /\ PairOK(n, m) /\ tp_buffer'[n] = tp_buffer[n]
    BY <1>1 DEF others, ChainInv
  <2>1. /\ session'[n].open = session[n].open /\ session'[n].pgn = session[n].pgn
        /\ session'[n].size = session[n].size /\ session'[n].packets = session[n].packets
        /\ session'[n].next = session[n].next
    <3>1. session[n] \in Sessions
      BY PairTypes
    <3> QED BY <1>1, <3>1 DEF Sessions
  <2>2. sent[m] \in Seq(Message) /\ sender[m] \in Senders
    BY <2>0, PairTypes
  <2>3. \/ sender'[m] = sender[m]
        \/ /\ sender[m].at = "sleep" /\ sender'[m].at = "idle"
           /\ sender[m].i + 1 >= num_packets(sent[m][Len(sent[m])].size)
        \/ sender[m].at = "sleep" /\ sender'[m].at = "data" /\ sender'[m].i = sender[m].i + 1
    <3>1. sender'[m] = Woken(m)
      BY <1>1, <2>0
    <3> QED BY <3>1 DEF Woken, LastPacket, Idle
  <2>4. /\ Later(inbox[n], sender[m], sent[m], inbox[n], sender'[m], sent[m])
        /\ NewFrames(inbox[n], sender[m], sent[m], inbox[n], sender'[m], sent[m], m)
    BY <2>2, <2>3, WokenLater
  <2>5. inbox'[n] = inbox[n] /\ sent'[m] = sent[m]
    BY <1>1
  <2> QED BY <2>0, <2>1, <2>4, <2>5, PairGoesOn
<1>3. HandlersGetOneMessage'
  <2>1. /\ \A src \in Nodes : \A k \in DOMAIN sent[src] :
              k \in DOMAIN sent'[src] /\ sent'[src][k] = sent[src][k]
        /\ \A n \in Nodes : \A d \in delivered'[n] : d \in delivered[n]
    BY <1>1
  <2> QED BY <1>1, <2>1, HandlersStep DEF ChainInv
<1> QED BY <1>1, <1>2, <1>3 DEF ChainInv, others, AloneIsSilent

\* A step of receiver x, as the other nodes see it: at most one reply more.
Replies == {e \in SoundFrames : e.type \in {"CTS", "EOM", "ABORT"}}

Processed(x) ==
    /\ inbox[x] # <<>> /\ inbox'[x] = Tail(inbox[x])
    /\ UNCHANGED <<sender, sent>>
    /\ \A n \in Nodes : n # x =>
          /\ session'[n] = session[n] /\ tp_buffer'[n] = tp_buffer[n]
          /\ inbox'[n] = inbox[n] \/ \E e \in Replies : inbox'[n] = Append(inbox[n], e)

LEMMA RepliesThereAre ==
  CTS \in Replies /\ EndOfMsgAck \in Replies /\ \A code \in 1 .. 4 : Abort(code) \in Replies
<1>1. CTS.type = "CTS" /\ EndOfMsgAck.type = "EOM" /\ \A code : Abort(code).type = "ABORT"
  BY DEF CTS, EndOfMsgAck, Abort
<1> QED BY <1>1, RepliesSound DEF Replies

LEMMA ReplySeen ==
  ASSUME IInv, failures = 0, failures' = 0, NEW x \in Nodes, inbox[x] # <<>>,
         NoReply(x) \/ \E e \in Replies : Reply(x, e)
  PROVE  /\ inbox'[x] = Tail(inbox[x])
         /\ \A n \in Nodes : n # x =>
               inbox'[n] = inbox[n] \/ \E e \in Replies : inbox'[n] = Append(inbox[n], e)
<1>1. inbox \in [Nodes -> Seq(SoundFrames)]
  BY DEF IInv, FramesOK
<1>2. CASE NoReply(x)
  BY <1>1, <1>2 DEF NoReply, Consumed
<1>3. ASSUME NEW e \in Replies, Reply(x, e)
      PROVE  inbox' = [n \in Nodes |-> IF n = x THEN Tail(inbox[n])
                                       ELSE IF n \in listeners(x) THEN Append(inbox[n], e)
                                       ELSE inbox[n]]
  BY <1>3 DEF Reply
<1> QED BY <1>2, <1>3

LEMMA ReceiverChain ==
  ASSUME IInv, IInv', ChainInv, failures = 0, NEW x \in Nodes, Processed(x),
         \A m \in others(x) :
            TrainSound(inbox[x], sender[m], sent[m], m)
            /\ SessionOf(session[x], tp_buffer[x], inbox[x], sender[m], sent[m], m) =>
            SessionOf(session'[x], tp_buffer'[x], Tail(inbox[x]), sender[m], sent[m], m),
         \A n \in Nodes : \A d \in delivered'[n] :
            d \in delivered[n] \/ \E src \in others(n) : IsMessageOf(src, d)
  PROVE  ChainInv'
<1>0. /\ inbox[x] # <<>> /\ inbox'[x] = Tail(inbox[x]) /\ UNCHANGED <<sender, sent>>
      /\ \A n \in Nodes : n # x =>
            /\ session'[n] = session[n] /\ tp_buffer'[n] = tp_buffer[n]
            /\ inbox'[n] = inbox[n] \/ \E e \in Replies : inbox'[n] = Append(inbox[n], e)
  BY DEF Processed
<1>1. ASSUME NEW n \in Nodes, NEW m \in others(n) PROVE PairOK(n, m)'
  <2>0. m \in Nodes /\ PairOK(n, m) /\ sender'[m] = sender[m] /\ sent'[m] = sent[m]
    BY <1>0 DEF others, ChainInv
  <2>1. /\ inbox[n] \in Seq(SoundFrames) /\ sent[m] \in Seq(Message) /\ sender[m] \in Senders
    BY <2>0, PairTypes
  <2>2. CASE n = x
    <3>1. /\ TrainSound(inbox[x], sender[m], sent[m], m)
          /\ SessionOf(session[x], tp_buffer[x], inbox[x], sender[m], sent[m], m)
      BY <2>0, <2>2 DEF PairOK
    <3>2. TrainSound(Tail(inbox[x]), sender[m], sent[m], m)
      BY <1>0, <2>1, <2>2, <3>1, TrainTail
    <3>3. SessionOf(session'[x], tp_buffer'[x], Tail(inbox[x]), sender[m], sent[m], m)
      BY <2>2, <3>1
    <3> QED BY <1>0, <2>0, <2>2, <3>2, <3>3 DEF PairOK
  <2>3. CASE n # x
    <3>1. /\ session'[n] = session[n] /\ tp_buffer'[n] = tp_buffer[n]
          /\ inbox'[n] = inbox[n] \/ \E e \in Replies : inbox'[n] = Append(inbox[n], e)
      BY <1>0, <2>3
    <3>2. CASE inbox'[n] = inbox[n]
      <4>1. /\ Later(inbox[n], sender[m], sent[m], inbox[n], sender[m], sent[m])
            /\ NewFrames(inbox[n], sender[m], sent[m], inbox[n], sender[m], sent[m], m)
        BY <2>1, WokenLater
      <4> QED BY <2>0, <3>1, <3>2, <4>1, PairGoesOn
    <3>3. ASSUME NEW e \in Replies, inbox'[n] = Append(inbox[n], e) PROVE PairOK(n, m)'
      <4>1. e \in SoundFrames /\ e.type \in {"CTS", "EOM", "ABORT"}
        BY DEF Replies
      <4>2. /\ Later(inbox[n], sender[m], sent[m], Append(inbox[n], e), sender[m], sent[m])
            /\ NewFrames(inbox[n], sender[m], sent[m], Append(inbox[n], e), sender[m], sent[m], m)
        BY <2>1, <4>1, ReplyLater
      <4> QED BY <2>0, <3>1, <3>3, <4>2, PairGoesOn
    <3> QED BY <3>1, <3>2, <3>3
  <2> QED BY <2>2, <2>3
<1>2. \A src \in Nodes : \A k \in DOMAIN sent[src] :
         k \in DOMAIN sent'[src] /\ sent'[src][k] = sent[src][k]
  BY <1>0
<1>3. HandlersGetOneMessage'
  BY <1>2, HandlersStep DEF ChainInv
<1>4. ASSUME NEW n \in Nodes, others(n) = {} PROVE inbox'[n] = <<>>
  <2>1. n = x
    BY <1>4 DEF others
  <2>2. inbox[n] = <<>>
    BY <1>4 DEF ChainInv, AloneIsSilent
  <2> QED BY <1>0, <2>1, <2>2
<1> QED BY <1>1, <1>3, <1>4 DEF ChainInv, others, AloneIsSilent

\* Frames that are no packet in sequence: the session is closed, or kept, and no
\* handler is called.
LEMMA KeptOrClosedChain ==
  ASSUME IInv, IInv', ChainInv, failures' = 0, failures = 0, NEW x \in Nodes, inbox[x] # <<>>,
         NoReply(x) \/ \E e \in Replies : Reply(x, e),
         UNCHANGED <<tp_buffer, delivered, senderVars>>,
         \/ CloseSession(x)
         \/ UNCHANGED session /\ (Head(inbox[x]).type # "DT" \/ ~session[x].open)
  PROVE  ChainInv'
<1>1. /\ inbox'[x] = Tail(inbox[x])
      /\ \A n \in Nodes : n # x =>
            inbox'[n] = inbox[n] \/ \E e \in Replies : inbox'[n] = Append(inbox[n], e)
  BY ReplySeen
<1>2. session \in [Nodes -> Sessions]
  BY DEF IInv, TypeOK
<1>3. /\ \A n \in Nodes : n # x => session'[n] = session[n]
      /\ \/ ~session'[x].open
         \/ session'[x] = session[x] /\ Head(inbox[x]).type # "DT"
  BY <1>2 DEF CloseSession, Closed
<1>4. Processed(x)
  BY <1>1, <1>3 DEF Processed, senderVars
<1>5. ASSUME NEW m \in others(x),
             SessionOf(session[x], tp_buffer[x], inbox[x], sender[m], sent[m], m)
      PROVE  SessionOf(session'[x], tp_buffer'[x], Tail(inbox[x]), sender[m], sent[m], m)
  <2>1. CASE ~session'[x].open
    BY <2>1 DEF SessionOf
  <2>2. CASE session'[x] = session[x] /\ Head(inbox[x]).type # "DT"
    <3>1. inbox[x] \in Seq(SoundFrames) /\ inbox[x][1].type # "DT"
      BY <2>2, PairTypes, TailFacts
    <3>2. SessionOf(session[x], tp_buffer[x], Tail(inbox[x]), sender[m], sent[m], m)
      BY <1>5, <3>1, SessionTail
    <3> QED BY <2>2, <3>2
  <2> QED BY <1>3, <2>1, <2>2
<1>6. \A n \in Nodes : \A d \in delivered'[n] : d \in delivered[n]
  OBVIOUS
<1> QED BY <1>4, <1>5, <1>6, ReceiverChain

LEMMA OpenSessionChain ==
  ASSUME IInv, IInv', ChainInv, failures' = 0, failures = 0, NEW x \in Nodes, OpenSession(x)
  PROVE  ChainInv'
<1> DEFINE f == Head(inbox[x])
           s == [open |-> TRUE, pgn |-> f.pgn, size |-> f.size,
                 packets |-> f.packets, next |-> 1, age |-> 0]
<1>1. /\ inbox[x] # <<>> /\ f.type = "RTS" /\ Reply(x, CTS)
      /\ session' = [session EXCEPT ![x] = s]
      /\ UNCHANGED <<tp_buffer, delivered, sender, sent>>
  BY DEF OpenSession, Receives, senderVars
<1>2. session \in [Nodes -> Sessions] /\ inbox[x] \in Seq(SoundFrames)
  BY PairTypes DEF IInv, TypeOK
<1>3. f = inbox[x][1]
  BY <1>1, <1>2, TailFacts
<1>4. s.pgn = f.pgn /\ s.size = f.size /\ s.packets = f.packets /\ s.next = 1
  OBVIOUS
<1> HIDE DEF f, s
<1>5. session'[x] = s /\ \A n \in Nodes : n # x => session'[n] = session[n]
  BY <1>1, <1>2
<1>6. /\ inbox'[x] = Tail(inbox[x])
      /\ \A n \in Nodes : n # x =>
            inbox'[n] = inbox[n] \/ \E e \in Replies : inbox'[n] = Append(inbox[n], e)
  BY <1>1, ReplySeen, RepliesThereAre
<1>7. Processed(x)
  BY <1>1, <1>5, <1>6 DEF Processed
<1>8. ASSUME NEW m \in others(x), TrainSound(inbox[x], sender[m], sent[m], m)
      PROVE  SessionOf(session'[x], tp_buffer'[x], Tail(inbox[x]), sender[m], sent[m], m)
  <2>1. sent[m] \in Seq(Message)
    BY PairTypes DEF others
  <2>2. SessionOf(s, tp_buffer[x], Tail(inbox[x]), sender[m], sent[m], m)
    BY <1>1, <1>2, <1>3, <1>4, <1>8, <2>1, SessionOpened
  <2> QED BY <1>1, <1>5, <2>2
<1>9. \A n \in Nodes : \A d \in delivered'[n] : d \in delivered[n]
  BY <1>1
<1> QED BY <1>7, <1>8, <1>9, ReceiverChain

\* A handler is called, with what one of the other nodes sent.
LEMMA DeliveredWhole ==
  ASSUME IInv, NEW x \in Nodes, NEW pgn, NEW size, NEW data, Deliver(x, pgn, size, data),
         NEW m \in others(x), IsMessageOf(m, [pgn |-> pgn, size |-> size, data |-> data])
  PROVE  \A n \in Nodes : \A d \in delivered'[n] :
            d \in delivered[n] \/ \E src \in others(n) : IsMessageOf(src, d)
<1> DEFINE call == [pgn |-> pgn, size |-> size, data |-> data]
<1>1. delivered' = delivered \/ delivered' = [delivered EXCEPT ![x] = @ \cup {call}]
  BY DEF Deliver
<1>2. IsMessageOf(m, call)
  OBVIOUS
<1> HIDE DEF call
<1>3. \A n \in Nodes : \A d \in delivered'[n] : d \in delivered[n] \/ (n = x /\ d = call)
  <2>1. delivered \in [Nodes -> SUBSET Calls]
    BY DEF IInv, HistoriesOK
  <2> QED BY <1>1, <2>1
<1> QED BY <1>2, <1>3

LEMMA ReceiveSingleChain ==
  ASSUME IInv, IInv', ChainInv, failures' = 0, failures = 0, NEW x \in Nodes, ReceiveSingle(x)
  PROVE  ChainInv'
<1> DEFINE f == Head(inbox[x])
<1>1. /\ inbox[x] # <<>> /\ f.type = "PGN" /\ NoReply(x)
      /\ Deliver(x, f.pgn, f.size, <<f.packet>>)
      /\ UNCHANGED <<session, tp_buffer, sender, sent>>
  BY DEF ReceiveSingle, Receives, senderVars
<1>2. inbox[x] \in Seq(SoundFrames) /\ f = inbox[x][1] /\ 1 \in DOMAIN inbox[x]
  <2>1. inbox[x] \in Seq(SoundFrames)
    BY PairTypes
  <2> QED BY <1>1, <2>1, TailFacts
<1> HIDE DEF f
<1>3. Processed(x)
  BY <1>1, ReplySeen DEF Processed
<1>4. ASSUME NEW m \in others(x),
             SessionOf(session[x], tp_buffer[x], inbox[x], sender[m], sent[m], m)
      PROVE  SessionOf(session'[x], tp_buffer'[x], Tail(inbox[x]), sender[m], sent[m], m)
  <2>1. SessionOf(session[x], tp_buffer[x], Tail(inbox[x]), sender[m], sent[m], m)
    BY <1>1, <1>2, <1>4, SessionTail
  <2> QED BY <1>1, <2>1
<1>5. PICK m \in others(x) : TRUE
  BY <1>1 DEF ChainInv, AloneIsSilent
<1>6. SinglesSound(inbox[x], sent[m], m)
  BY <1>5 DEF ChainInv, PairOK, TrainSound
<1>7. PICK c \in DOMAIN sent[m] :
         /\ sent[m][c].pgn = f.pgn /\ sent[m][c].size = f.size /\ sent[m][c].size <= 8
         /\ f.packet = [src |-> m, call |-> c, seq |-> 1]
  BY <1>1, <1>2, <1>6 DEF SinglesSound
<1>8. PacketsOf(m, c, sent[m][c]) = <<f.packet>>
  <2>1. PacketsOf(m, c, sent[m][c]) = [i \in 1 .. 1 |-> [src |-> m, call |-> c, seq |-> i]]
    BY <1>7 DEF PacketsOf
  <2>2. \A i \in 1 .. 1 : [src |-> m, call |-> c, seq |-> i] = f.packet
    BY <1>7
  <2>3. [i \in 1 .. 1 |-> [src |-> m, call |-> c, seq |-> i]] = [i \in 1 .. 1 |-> f.packet]
    BY <2>2, Zenon
  <2>4. <<f.packet>> = [i \in 1 .. 1 |-> f.packet]
    OBVIOUS
  <2> QED BY <2>1, <2>3, <2>4
<1>9. IsMessageOf(m, [pgn |-> f.pgn, size |-> f.size, data |-> <<f.packet>>])
  BY <1>7, <1>8 DEF IsMessageOf
<1>10. \A n \in Nodes : \A d \in delivered'[n] :
          d \in delivered[n] \/ \E src \in others(n) : IsMessageOf(src, d)
  BY <1>1, <1>5, <1>9, DeliveredWhole
<1> QED BY <1>3, <1>4, <1>10, ReceiverChain

LEMMA AcceptDataChain ==
  ASSUME IInv, IInv', ChainInv, failures' = 0, failures = 0, NEW x \in Nodes, AcceptData(x)
  PROVE  ChainInv'
<1> DEFINE s == session[x]
           p == Head(inbox[x]).packet
           b == tp_buffer'[x]
           next == (s.next + 1) % (UINT8_MAX + 1)
           data == SubSeq(b, 1, s.packets)
<1>1. /\ inbox[x] # <<>> /\ Head(inbox[x]).type = "DT" /\ s.open
      /\ p \in Packet /\ p.seq = s.next
      /\ s.next \in 1 .. UINT8_MAX /\ s.next <= s.packets /\ Accepted(x, p)
  BY AcceptedCases
<1>2. tp_buffer' = [tp_buffer EXCEPT ![x] = Stored(@, p)] /\ UNCHANGED <<sender, sent>>
  BY <1>1 DEF Accepted, senderVars
<1>3. /\ b \in Seq(Packet \cup {NoPacket})
      /\ \A n \in Nodes : n # x => tp_buffer'[n] = tp_buffer[n]
      /\ Len(b) \in Nat /\ Len(b) >= s.next /\ b[s.next] = p
      /\ \A k \in 1 .. s.next - 1 : b[k] = tp_buffer[x][k]
  BY <1>1, <1>2, StoredInPlace
<1>4. /\ session \in [Nodes -> Sessions] /\ s \in Sessions /\ s.packets \in 0 .. UINT8_MAX
      /\ inbox[x] \in Seq(SoundFrames)
  BY PairTypes, SessionFields DEF IInv, TypeOK
<1>5. Head(inbox[x]) = inbox[x][1] /\ inbox[x][1].type = "DT" /\ inbox[x][1].packet = p
  BY <1>1, <1>4, TailFacts
<1>6. CASE /\ session' = [session EXCEPT ![x].next = next] /\ next \in {0, s.next + 1}
           /\ NoReply(x) /\ UNCHANGED delivered
  <2> HIDE DEF next, p, b
  <2>1. /\ session'[x] = [s EXCEPT !.next = next]
        /\ \A n \in Nodes : n # x => session'[n] = session[n]
    BY <1>4, <1>6
  <2>2. /\ session'[x].pgn = s.pgn /\ session'[x].size = s.size
        /\ session'[x].packets = s.packets /\ session'[x].next = next
    BY <1>4, <2>1 DEF Sessions
  <2>3. Processed(x)
    BY <1>1, <1>2, <1>3, <1>6, <2>1, ReplySeen DEF Processed
  <2>4. ASSUME NEW m \in others(x), TrainSound(inbox[x], sender[m], sent[m], m),
               SessionOf(s, tp_buffer[x], inbox[x], sender[m], sent[m], m)
        PROVE  SessionOf(session'[x], tp_buffer'[x], Tail(inbox[x]), sender[m], sent[m], m)
    <3>1. sent[m] \in Seq(Message)
      BY PairTypes DEF others
    <3> DEFINE s2 == session'[x]
    <3>2. Advanced(inbox[x], s, tp_buffer[x], s2, b)
      <4>1. /\ b[s.next] = inbox[x][1].packet /\ inbox[x][1].packet.seq = s.next
            /\ s2.next \in {0, s.next + 1}
        BY <1>1, <1>3, <1>5, <1>6, <2>2
      <4> QED BY <1>1, <1>3, <1>5, <2>2, <4>1 DEF Advanced
    <3> HIDE DEF s2, s
    <3>3. SessionOf(s2, b, Tail(inbox[x]), sender[m], sent[m], m)
      BY <1>4, <2>4, <3>1, <3>2, SessionAdvanced
    <3> QED BY <3>3 DEF s2, b
  <2>5. \A n \in Nodes : \A d \in delivered'[n] : d \in delivered[n]
    BY <1>6
  <2> QED BY <2>3, <2>4, <2>5, ReceiverChain
<1>7. CASE /\ s.next = s.packets /\ Reply(x, EndOfMsgAck) /\ CloseSession(x)
           /\ Deliver(x, s.pgn, s.size, data)
  <2>1. s.packets \in Nat /\ s.packets <= Len(b)
    BY <1>1, <1>3, <1>7, Maxima
  <2>2. data = [k \in 1 .. s.packets |-> b[k]] /\ \A k \in 1 .. s.packets : data[k] = b[k]
    BY <1>3, <2>1, SubSeqFacts
  <2>3. \A k \in 1 .. s.next - 1 : k \in 1 .. s.packets
    BY <1>7, <2>1
  <2>4. s.next \in 1 .. s.packets
    BY <1>1, <1>7, <2>1, Maxima
  <2> HIDE DEF data, b, p
  <2>5. LastStored(inbox[x], s, tp_buffer[x], data)
    <3>1. /\ data = [k \in 1 .. s.packets |-> data[k]] /\ data[s.next] = inbox[x][1].packet
          /\ \A k \in 1 .. s.next - 1 : data[k] = tp_buffer[x][k]
      BY <1>3, <1>5, <2>2, <2>3, <2>4
    <3> QED BY <1>1, <1>5, <1>7, <3>1 DEF LastStored
  <2>6. PICK m \in others(x) : TRUE
    BY <1>1 DEF ChainInv, AloneIsSilent
  <2>7. /\ m \in Nodes /\ TrainSound(inbox[x], sender[m], sent[m], m)
        /\ SessionOf(s, tp_buffer[x], inbox[x], sender[m], sent[m], m)
    BY <2>6 DEF ChainInv, PairOK, others
  <2>8. sent[m] \in Seq(Message)
    BY <2>7, PairTypes
  <2>9. \E c \in DOMAIN sent[m] : /\ s.pgn = sent[m][c].pgn /\ s.size = sent[m][c].size
                                  /\ data = PacketsOf(m, c, sent[m][c])
    BY <1>4, <2>5, <2>7, <2>8, WholeMessage
  <2>10. IsMessageOf(m, [pgn |-> s.pgn, size |-> s.size, data |-> data])
    BY <2>9 DEF IsMessageOf
  <2>11. \A n \in Nodes : \A d \in delivered'[n] :
            d \in delivered[n] \/ \E src \in others(n) : IsMessageOf(src, d)
    BY <1>7, <2>6, <2>10, DeliveredWhole
  <2>12. /\ ~session'[x].open
         /\ \A n \in Nodes : n # x => session'[n] = session[n]
    BY <1>4, <1>7 DEF CloseSession, Closed
  <2>13. Processed(x)
    <3>1. /\ inbox'[x] = Tail(inbox[x])
          /\ \A n \in Nodes : n # x =>
                inbox'[n] = inbox[n] \/ \E e \in Replies : inbox'[n] = Append(inbox[n], e)
      BY <1>1, <1>7, ReplySeen, RepliesThereAre
    <3> QED BY <1>1, <1>2, <1>3, <2>12, <3>1 DEF Processed
  <2>14. \A m1 \in others(x) :
            SessionOf(session'[x], tp_buffer'[x], Tail(inbox[x]), sender[m1], sent[m1], m1)
    BY <2>12 DEF SessionOf
  <2> QED BY <2>11, <2>13, <2>14, ReceiverChain
<1> QED BY <1>1, <1>6, <1>7 DEF Accepted

LEMMA ReceiveChain ==
  ASSUME IInv, IInv', ChainInv, failures' = 0, NEW x \in Nodes, j1939_process_message(x)
  PROVE  ChainInv'
<1>0. failures = 0
  <2>1. failures \in Nat
    BY DEF IInv, TypeOK
  <2>2. failures' = failures \/ failures' = failures + 1
    BY DEF j1939_process_message, RejectBusy, RejectSize, OpenSession, IgnoreData, TimedOut,
           SequenceError, AcceptData, ReceiveEnd, ReceiveCts, ReceiveSingle, AbortSession,
           Reply, NoReply
  <2> QED BY <2>1, <2>2
<1>1. ASSUME NEW code \in 1 .. 4, Reply(x, Abort(code)) PROVE \E e \in Replies : Reply(x, e)
  BY <1>1, RepliesThereAre
<1>2. CASE RejectBusy(x)
  <2>1. /\ inbox[x] # <<>> /\ Reply(x, Abort(1)) /\ Head(inbox[x]).type = "RTS"
        /\ UNCHANGED <<session, tp_buffer, delivered, senderVars>>
    BY <1>2 DEF RejectBusy, Receives
  <2> QED BY <1>0, <1>1, <2>1, KeptOrClosedChain
<1>3. CASE RejectSize(x)
  <2>1. /\ inbox[x] # <<>> /\ Reply(x, Abort(2)) /\ Head(inbox[x]).type = "RTS"
        /\ UNCHANGED <<session, tp_buffer, delivered, senderVars>>
    BY <1>3 DEF RejectSize, Receives
  <2> QED BY <1>0, <1>1, <2>1, KeptOrClosedChain
<1>4. CASE OpenSession(x)
  BY <1>0, <1>4, OpenSessionChain
<1>5. CASE IgnoreData(x)
  <2>1. /\ inbox[x] # <<>> /\ NoReply(x) /\ ~session[x].open
        /\ UNCHANGED <<session, tp_buffer, delivered, senderVars>>
    BY <1>5 DEF IgnoreData, Receives
  <2> QED BY <1>0, <2>1, KeptOrClosedChain
<1>6. CASE TimedOut(x)
  <2>1. /\ inbox[x] # <<>> /\ Reply(x, Abort(3)) /\ CloseSession(x)
        /\ UNCHANGED <<tp_buffer, delivered, senderVars>>
    BY <1>6 DEF TimedOut, AbortSession, Receives
  <2> QED BY <1>0, <1>1, <2>1, KeptOrClosedChain
<1>7. CASE SequenceError(x)
  <2>1. /\ inbox[x] # <<>> /\ Reply(x, Abort(4)) /\ CloseSession(x)
        /\ UNCHANGED <<tp_buffer, delivered, senderVars>>
    BY <1>7 DEF SequenceError, AbortSession, Receives
  <2> QED BY <1>0, <1>1, <2>1, KeptOrClosedChain
<1>8. CASE AcceptData(x)
  BY <1>0, <1>8, AcceptDataChain
<1>9. CASE ReceiveEnd(x)
  <2>1. /\ inbox[x] # <<>> /\ NoReply(x) /\ CloseSession(x)
        /\ UNCHANGED <<tp_buffer, delivered, senderVars>>
    BY <1>9 DEF ReceiveEnd, Receives
  <2> QED BY <1>0, <2>1, KeptOrClosedChain
<1>10. CASE ReceiveCts(x)
  <2>1. /\ inbox[x] # <<>> /\ NoReply(x) /\ Head(inbox[x]).type = "CTS"
        /\ UNCHANGED <<session, tp_buffer, delivered, senderVars>>
    BY <1>10 DEF ReceiveCts, Receives
  <2> QED BY <1>0, <2>1, KeptOrClosedChain
<1>11. CASE ReceiveSingle(x)
  BY <1>0, <1>11, ReceiveSingleChain
<1> QED BY <1>2, <1>3, <1>4, <1>5, <1>6, <1>7, <1>8, <1>9, <1>10, <1>11
        DEF j1939_process_message

LEMMA ChainStep ==
  ASSUME TwoNodesOnly, IInv, IInv', ChainInv, [Next]_vars PROVE ChainInv'
<1> SUFFICES ASSUME failures' = 0 PROVE ChainInv'
  BY DEF ChainInv
<1>1. ASSUME NEW n \in Nodes, j1939_send_tp_data(n) PROVE ChainInv'
  BY <1>1, SendSingleChain, SendRtsChain, SendDataChain DEF j1939_send_tp_data
<1>2. ASSUME NEW n \in Nodes, j1939_process_message(n) PROVE ChainInv'
  BY <1>2, ReceiveChain
<1>3. CASE Tick
  BY <1>3, TickChain
<1>4. CASE Quiet \/ UNCHANGED vars
  <2>1. UNCHANGED <<inbox, session, tp_buffer, sender, sent, delivered, failures>>
    BY <1>4 DEF Quiet, vars
  <2>2. \A n \in Nodes : \A m \in others(n) : PairOK(n, m)'
    BY <2>1 DEF ChainInv, PairOK
  <2>3. AloneIsSilent' /\ HandlersGetOneMessage'
    BY <2>1 DEF ChainInv, AloneIsSilent, HandlersGetOneMessage, IsMessageOf, others
  <2> QED BY <2>2, <2>3 DEF ChainInv, others
<1> QED BY <1>1, <1>2, <1>3, <1>4 DEF Next

LEMMA InitChain ==
  ASSUME Init PROVE ChainInv
<1>1. ASSUME NEW n \in Nodes, NEW m \in others(n) PROVE PairOK(n, m)
  <2>1. inbox[n] = <<>> /\ ~session[n].open
    BY DEF Init, Closed
  <2>2. DOMAIN inbox[n] = {}
    BY <2>1
  <2>3. TrainSound(inbox[n], sender[m], sent[m], m)
    BY <2>2 DEF TrainSound, DataSound, InOrder, RtsSound, SinglesSound
  <2> QED BY <2>1, <2>3 DEF PairOK, SessionOf
<1>2. AloneIsSilent /\ HandlersGetOneMessage
  BY DEF Init, AloneIsSilent, HandlersGetOneMessage
<1> QED BY <1>1, <1>2 DEF ChainInv

\* Between two nodes (no node has more than one other), and as long as no
\* can_send has failed, every call of a PGN handler gets one message, whole, as
\* it was sent: whatever the order in which frames are processed, however late,
\* and although a timeout, a sequence error, a reply of the other direction or a
\* busy receiver may cut any session short (j1939.c:155, "Process complete
\* message").  Three nodes refute it on a run, and so does one failure.
THEOREM WholeBetweenTwo ==
  ASSUME TwoNodesOnly
  PROVE  Spec => []WholeUnlessSendFailed
<1>1. Init => ChainInv
  BY InitChain
<1>2. IInv /\ IInv' /\ ChainInv /\ [Next]_vars => ChainInv'
  BY ChainStep
<1>3. ChainInv => WholeUnlessSendFailed
  BY DEF ChainInv, WholeUnlessSendFailed
<1> QED BY <1>1, <1>2, <1>3, Inductive, PTL DEF Spec

-----------------------------------------------------------------------------
(* Messages that arrive in time, between any number of nodes: as long as     *)
(* nothing fails or waits and only src sends, every other node that listens  *)
(* keeps step with it.  Here q, s, buffer and D are the inbox, the session, the buffer  *)
(* and the deliveries of that node; st and S are what src is doing and what  *)
(* it was asked to send.                                                     *)

Undisturbed(src) == failures = 0 /\ ~delayed /\ \A n \in others(src) : sent[n] = <<>>

Answer(f) == f.type \in {"CTS", "EOM", "ABORT"}
Closing(f) == f.type \in {"EOM", "ABORT"}

Latest(S) == S[Len(S)]
SingleOf(S, c, src) == Single(S[c], [src |-> src, call |-> c, seq |-> 1])

\* A packet on the way is the one src has just sent; only answers are behind it.
OnePacket(q, st, S, src) ==
    \A k \in DOMAIN q : q[k].type = "DT" =>
        /\ st.at = "sleep"
        /\ q[k].packet = [src |-> src, call |-> Len(S), seq |-> st.i + 1]
        /\ \A j \in DOMAIN q : j > k => Answer(q[j])

\* An RTS on the way announces no packets, or the call under way: then its
\* first packet is on the way too, or the next thing src sends.
OneRts(q, st, S) ==
    \A k \in DOMAIN q : q[k].type = "RTS" =>
        /\ \E c \in DOMAIN S : q[k] = RTS(S[c])
        /\ q[k].packets # 0 =>
              /\ st.at # "idle" /\ st.i = 0 /\ q[k] = RTS(Latest(S))
              /\ st.at = "sleep" => \E j \in DOMAIN q : q[j].type = "DT"
              /\ \A j \in DOMAIN q : j > k => Answer(q[j]) \/ q[j].type = "DT"

OwnSingles(q, S, src) ==
    \A k \in DOMAIN q : q[k].type = "PGN" =>
        \E c \in DOMAIN S : S[c].size <= 8 /\ q[k] = SingleOf(S, c, src)

\* An answer of a third node closes a session that was never opened, or one
\* that has ended, or ends with the packet ahead of the answer.
Harmless(s, q, k, st, S) ==
    /\ st.at # "idle"
    /\ \/ ~ValidRts(RTS(Latest(S)))
       \/ /\ st.at = "sleep"
          /\ st.i > TimeoutTicks \/ st.i + 1 = num_packets(Latest(S).size)
          /\ s.open => \E j \in DOMAIN q : j < k /\ q[j].type = "DT"

ClosingsHarmless(s, q, st, S) ==
    \A k \in DOMAIN q : Closing(q[k]) => Harmless(s, q, k, st, S)

\* The open session is about the call under way, as old as the packets it has
\* waited for, and expects the packet on the way or the one src sends next.
NextInStep(s, q, st) ==
    \/ /\ st.at = "data" \/ \E k \in DOMAIN q : q[k].type = "DT"
       /\ s.next = st.i + 1
    \/ /\ st.at = "sleep" /\ \A k \in DOMAIN q : q[k].type # "DT"
       /\ s.next = st.i + 2 /\ st.i <= TimeoutTicks

InStep(s, buffer, q, st, S, src) ==
    s.open =>
        /\ st.at # "idle"
        /\ ValidRts(RTS(Latest(S)))
        /\ s.pgn = Latest(S).pgn /\ s.size = Latest(S).size
        /\ s.packets = num_packets(Latest(S).size)
        /\ \A k \in DOMAIN q : q[k].type # "RTS"
        /\ s.age = Smaller(st.i, TimeoutTicks + 1)
        /\ NextInStep(s, q, st)
        /\ \A p \in 1 .. s.next - 1 : buffer[p] = [src |-> src, call |-> Len(S), seq |-> p]

CallOf(src, c, m) == [pgn |-> m.pgn, size |-> m.size, data |-> PacketsOf(src, c, m)]

InTime(m) == m.size <= BufferSize /\ FitsTimeout(m) /\ m.pgn \in Handled

\* Message c was delivered, or is on the way, or is being received.
Awaited(s, D, q, st, S, src, c) ==
    \/ CallOf(src, c, S[c]) \in D
    \/ S[c].size <= 8 /\ \E k \in DOMAIN q : q[k] = SingleOf(S, c, src)
    \/ /\ c = Len(S) /\ st.at # "idle" /\ S[c].size > 8
       /\ s.open \/ \E k \in DOMAIN q : q[k].type = "RTS" /\ q[k].packets # 0

AllAwaited(s, D, q, st, S, src) ==
    \A c \in DOMAIN S : InTime(S[c]) => Awaited(s, D, q, st, S, src, c)

\* What was delivered is a message of src that was in time.
OnlyInTime(D, S, src) ==
    \A d \in D : \E c \in DOMAIN S :
        d = CallOf(src, c, S[c]) /\ (S[c].size <= 8 \/ FitsTimeout(S[c]))

KeepsStep(s, buffer, D, q, st, S, src) ==
    /\ OnePacket(q, st, S, src) /\ OneRts(q, st, S) /\ OwnSingles(q, S, src)
    /\ ClosingsHarmless(s, q, st, S)
    /\ InStep(s, buffer, q, st, S, src)
    /\ AllAwaited(s, D, q, st, S, src)
    /\ OnlyInTime(D, S, src)

Follows(x, src) ==
    KeepsStep(session[x], tp_buffer[x], delivered[x], inbox[x], sender[src], sent[src], src)

AllFollow(src) ==
    /\ \A k \in DOMAIN inbox[src] : Answer(inbox[src][k])
    /\ \A x \in listeners(src) : Follows(x, src)

PromptInv == \A src \in Nodes : Undisturbed(src) => AllFollow(src)

\* A call that returned 0 is over.
ReturnedIdle == \A n \in Nodes : Len(sent[n]) \in returned[n] => sender[n].at = "idle"

\* The sizes for which j1939_send_tp_data counts no packets (1786 to 1792 bytes).
EmptyTrains == \E n \in Nodes : \E m \in Messages[n] : num_packets(m.size) = 0

-----------------------------------------------------------------------------
(* Messages.                                                                *)

\* A valid RTS counts its packets right, and at least two.
LEMMA ValidCounts ==
  ASSUME NEW m \in Message, m.size > 8, ValidRts(RTS(m))
  PROVE  /\ num_packets(m.size) \in Nat /\ num_packets(m.size) >= 2
         /\ m.size \in 1 .. BufferSize
<1> DEFINE N == num_packets(m.size)
<1>1. m.size \in Nat /\ N \in 0 .. UINT8_MAX
  BY MessageFields, NumPacketsRange
<1>2. RTS(m).size = m.size /\ RTS(m).packets = N
  BY DEF RTS
<1> HIDE DEF N
<1>3. /\ m.size \in 1 .. BufferSize
      /\ m.size = (N - 1) * 7 + (IF m.size % 7 = 0 THEN 7 ELSE m.size % 7)
  BY <1>2 DEF ValidRts
<1>4. m.size % 7 \in 0 .. 6
  BY <1>1
<1>5. N \in Nat
  BY <1>1, Maxima
<1>6. N >= 2
  BY <1>1, <1>3, <1>4, <1>5
<1> QED BY <1>3, <1>5, <1>6 DEF N

\* What fits the buffer is announced with a valid RTS.
LEMMA FittingIsValid ==
  ASSUME BufferSize <= 7 * UINT8_MAX, NEW m \in Message, m.size <= BufferSize, m.size > 8
  PROVE  ValidRts(RTS(m)) /\ num_packets(m.size) # 0
<1> DEFINE N == num_packets(m.size)
<1>1. m.size \in Nat /\ m.size >= 9 /\ m.size <= 1785 /\ m.size \in 1 .. BufferSize
  BY MessageFields, LimitsAssumption DEF UINT8_MAX
<1>2. (m.size + 6) \div 7 \in 1 .. 255
  BY <1>1
<1>3. N = (m.size + 6) \div 7
  BY <1>2 DEF num_packets, UINT8_MAX
<1>4. N \in Nat /\ N # 0
  BY <1>2, <1>3
<1>5. m.size = (N - 1) * 7 + (IF m.size % 7 = 0 THEN 7 ELSE m.size % 7)
  BY <1>1, <1>3
<1>6. RTS(m).size = m.size /\ RTS(m).packets = N
  BY DEF RTS
<1> HIDE DEF N
<1>7. ValidRts(RTS(m))
  BY <1>1, <1>4, <1>5, <1>6 DEF ValidRts
<1> QED BY <1>4, <1>7 DEF N

LEMMA RtsFields ==
  ASSUME NEW m
  PROVE  /\ RTS(m).type = "RTS" /\ RTS(m).pgn = m.pgn /\ RTS(m).size = m.size
         /\ RTS(m).packets = num_packets(m.size)
  BY DEF RTS

LEMMA SingleFields ==
  ASSUME NEW m, NEW p
  PROVE  /\ Single(m, p).type = "PGN" /\ Single(m, p).pgn = m.pgn
         /\ Single(m, p).size = m.size /\ Single(m, p).packet = p
  BY DEF Single

LEMMA DataFieldsOf ==
  ASSUME NEW p PROVE DT(p).type = "DT" /\ DT(p).packet = p
  BY DEF DT

\* What a handler is called with for a frame of its own.
LEMMA SingleCall ==
  ASSUME NEW S \in Seq(Message), NEW c \in DOMAIN S, S[c].size <= 8, NEW src, NEW f,
         f = SingleOf(S, c, src)
  PROVE  CallOf(src, c, S[c]) = [pgn |-> f.pgn, size |-> f.size, data |-> <<f.packet>>]
<1> DEFINE p == [src |-> src, call |-> c, seq |-> 1]
<1>1. f.pgn = S[c].pgn /\ f.size = S[c].size /\ f.packet = p
  BY SingleFields DEF SingleOf
<1>2. PacketsOf(src, c, S[c]) = [i \in 1 .. 1 |-> [src |-> src, call |-> c, seq |-> i]]
  BY DEF PacketsOf
<1>3. \A i \in 1 .. 1 : [src |-> src, call |-> c, seq |-> i] = p
  OBVIOUS
<1>4. [i \in 1 .. 1 |-> [src |-> src, call |-> c, seq |-> i]] = [i \in 1 .. 1 |-> p]
  BY <1>3, Zenon
<1> HIDE DEF p
<1>5. <<p>> = [i \in 1 .. 1 |-> p]
  OBVIOUS
<1>6. PacketsOf(src, c, S[c]) = <<f.packet>>
  BY <1>1, <1>2, <1>4, <1>5 DEF p
<1> QED BY <1>1, <1>6 DEF CallOf

-----------------------------------------------------------------------------
(* One frame more for a node that keeps step.                               *)

\* What it takes for a frame behind the others.
Behind(f, q, s, st, S, src) ==
    /\ f.type = "DT" =>
          /\ st.at = "sleep" /\ f.packet = [src |-> src, call |-> Len(S), seq |-> st.i + 1]
    /\ f.type = "RTS" =>
          /\ \E c \in DOMAIN S : f = RTS(S[c])
          /\ f.packets # 0 => st.at = "data" /\ st.i = 0 /\ f = RTS(Latest(S))
    /\ f.type = "PGN" => \E c \in DOMAIN S : S[c].size <= 8 /\ f = SingleOf(S, c, src)
    /\ Closing(f) => Harmless(s, q, Len(q) + 1, st, S)

\* The frames on the way as src has gone on from st and S to st2 and S2.
LEMMA FramesBehind ==
  ASSUME NEW q \in Seq(SoundFrames), NEW f \in SoundFrames, NEW q2, q2 = Append(q, f),
         NEW s, NEW st, NEW S, NEW src,
         OnePacket(q, st, S, src), OneRts(q, st, S), OwnSingles(q, S, src),
         ClosingsHarmless(s, q, st, S), Behind(f, q, s, st, S, src),
         Answer(f) \/ \A k \in DOMAIN q : q[k].type # "DT",
         f.type = "DT" \/ Answer(f) \/ \A k \in DOMAIN q : q[k].type = "RTS" => q[k].packets = 0
  PROVE  /\ OnePacket(q2, st, S, src) /\ OneRts(q2, st, S) /\ OwnSingles(q2, S, src)
         /\ ClosingsHarmless(s, q2, st, S)
<1>1. /\ Len(q) \in Nat /\ DOMAIN q = 1 .. Len(q) /\ DOMAIN q2 = 1 .. Len(q) + 1
      /\ \A i \in DOMAIN q : i \in DOMAIN q2 /\ q2[i] = q[i] /\ i < Len(q) + 1
      /\ q2[Len(q) + 1] = f /\ Len(q) + 1 \in DOMAIN q2
  BY AppendFacts
<1>2. \A k \in DOMAIN q2 : k \in DOMAIN q \/ k = Len(q) + 1
  BY <1>1
<1>3. \A j \in DOMAIN q2 : ~(j > Len(q) + 1)
  BY <1>1
<1> DEFINE n == Len(q) + 1
<1> HIDE DEF n
<1>4. /\ \A i \in DOMAIN q : i \in DOMAIN q2 /\ q2[i] = q[i] /\ i < n
      /\ q2[n] = f /\ n \in DOMAIN q2
      /\ \A k \in DOMAIN q2 : k \in DOMAIN q \/ k = n
      /\ \A j \in DOMAIN q2 : ~(j > n)
  BY <1>1, <1>2, <1>3 DEF n
<1>5. OnePacket(q2, st, S, src)
  <2> SUFFICES ASSUME NEW k \in DOMAIN q2, q2[k].type = "DT"
               PROVE  /\ st.at = "sleep"
                      /\ q2[k].packet = [src |-> src, call |-> Len(S), seq |-> st.i + 1]
                      /\ \A j \in DOMAIN q2 : j > k => Answer(q2[j])
    BY DEF OnePacket
  <2>1. CASE k = n
    BY <1>4, <2>1 DEF Behind
  <2>2. CASE k \in DOMAIN q
    <3>1. q[k].type = "DT" /\ Answer(f)
      BY <1>4, <2>2
    <3>2. /\ st.at = "sleep"
          /\ q[k].packet = [src |-> src, call |-> Len(S), seq |-> st.i + 1]
          /\ \A j \in DOMAIN q : j > k => Answer(q[j])
      BY <2>2, <3>1 DEF OnePacket
    <3>3. \A j \in DOMAIN q2 : j > k => Answer(q2[j])
      BY <1>4, <3>1, <3>2
    <3> QED BY <1>4, <2>2, <3>2, <3>3
  <2> QED BY <1>4, <2>1, <2>2
<1>6. OneRts(q2, st, S)
  <2> SUFFICES ASSUME NEW k \in DOMAIN q2, q2[k].type = "RTS"
               PROVE  /\ \E c \in DOMAIN S : q2[k] = RTS(S[c])
                      /\ q2[k].packets # 0 =>
                           /\ st.at # "idle" /\ st.i = 0 /\ q2[k] = RTS(Latest(S))
                           /\ st.at = "sleep" => \E j \in DOMAIN q2 : q2[j].type = "DT"
                           /\ \A j \in DOMAIN q2 : j > k => Answer(q2[j]) \/ q2[j].type = "DT"
    BY DEF OneRts
  <2>1. CASE k = n
    <3>1. \E c \in DOMAIN S : q2[k] = RTS(S[c])
      BY <1>4, <2>1 DEF Behind
    <3>2. q2[k].packets # 0 => st.at = "data" /\ st.i = 0 /\ q2[k] = RTS(Latest(S))
      BY <1>4, <2>1 DEF Behind
    <3> QED BY <1>4, <2>1, <3>1, <3>2
  <2>2. CASE k \in DOMAIN q
    <3>1. q[k].type = "RTS" /\ q2[k] = q[k]
      BY <1>4, <2>2
    <3>2. /\ \E c \in DOMAIN S : q[k] = RTS(S[c])
          /\ q[k].packets # 0 =>
               /\ st.at # "idle" /\ st.i = 0 /\ q[k] = RTS(Latest(S))
               /\ st.at = "sleep" => \E j \in DOMAIN q : q[j].type = "DT"
               /\ \A j \in DOMAIN q : j > k => Answer(q[j]) \/ q[j].type = "DT"
      BY <2>2, <3>1 DEF OneRts
    <3>3. ASSUME q[k].packets # 0
          PROVE  \A j \in DOMAIN q2 : j > k => Answer(q2[j]) \/ q2[j].type = "DT"
      <4>1. f.type = "DT" \/ Answer(f)
        BY <2>2, <3>1, <3>3
      <4> QED BY <1>4, <3>2, <3>3, <4>1
    <3>4. (\E j \in DOMAIN q : q[j].type = "DT") => \E j \in DOMAIN q2 : q2[j].type = "DT"
      BY <1>4
    <3> QED BY <3>1, <3>2, <3>3, <3>4
  <2> QED BY <1>4, <2>1, <2>2
<1>7. OwnSingles(q2, S, src)
  BY <1>4 DEF OwnSingles, Behind
<1>8. ClosingsHarmless(s, q2, st, S)
  <2> SUFFICES ASSUME NEW k \in DOMAIN q2, Closing(q2[k]) PROVE Harmless(s, q2, k, st, S)
    BY DEF ClosingsHarmless
  <2>1. Harmless(s, q, k, st, S)
    BY <1>4 DEF ClosingsHarmless, Behind, n
  <2>2. (\E j \in DOMAIN q : j < k /\ q[j].type = "DT")
           => \E j \in DOMAIN q2 : j < k /\ q2[j].type = "DT"
    BY <1>4
  <2> QED BY <2>1, <2>2 DEF Harmless
<1> QED BY <1>5, <1>6, <1>7, <1>8

\* Of an answer the session and what is awaited take no notice.
LEMMA AnswerArrives ==
  ASSUME NEW q \in Seq(SoundFrames), NEW f \in SoundFrames, Answer(f),
         NEW s, NEW buffer, NEW D, NEW st, NEW S, NEW src,
         KeepsStep(s, buffer, D, q, st, S, src),
         Closing(f) => Harmless(s, q, Len(q) + 1, st, S)
  PROVE  KeepsStep(s, buffer, D, Append(q, f), st, S, src)
<1> DEFINE q2 == Append(q, f)
<1>1. /\ OnePacket(q, st, S, src) /\ OneRts(q, st, S) /\ OwnSingles(q, S, src)
      /\ ClosingsHarmless(s, q, st, S) /\ InStep(s, buffer, q, st, S, src)
      /\ AllAwaited(s, D, q, st, S, src) /\ OnlyInTime(D, S, src)
  BY DEF KeepsStep
<1>2. /\ f.type # "DT" /\ f.type # "RTS" /\ f.type # "PGN"
  BY DEF Answer
<1>3. /\ \A i \in DOMAIN q : i \in DOMAIN q2 /\ q2[i] = q[i]
      /\ \A k \in DOMAIN q2 : k \in DOMAIN q \/ q2[k] = f
  BY AppendFacts
<1>4. Behind(f, q, s, st, S, src)
  BY <1>2 DEF Behind
<1> HIDE DEF q2
<1>5. /\ OnePacket(q2, st, S, src) /\ OneRts(q2, st, S) /\ OwnSingles(q2, S, src)
      /\ ClosingsHarmless(s, q2, st, S)
  BY <1>1, <1>4, FramesBehind DEF q2
<1>6. InStep(s, buffer, q2, st, S, src)
  <2>1. /\ (\A k \in DOMAIN q : q[k].type # "RTS") => \A k \in DOMAIN q2 : q2[k].type # "RTS"
        /\ (\A k \in DOMAIN q : q[k].type # "DT") => \A k \in DOMAIN q2 : q2[k].type # "DT"
        /\ (\E k \in DOMAIN q : q[k].type = "DT") => \E k \in DOMAIN q2 : q2[k].type = "DT"
    BY <1>2, <1>3
  <2>2. NextInStep(s, q, st) => NextInStep(s, q2, st)
    BY <2>1 DEF NextInStep
  <2> QED BY <1>1, <2>1, <2>2 DEF InStep
<1>7. AllAwaited(s, D, q2, st, S, src)
  BY <1>1, <1>3 DEF AllAwaited, Awaited
<1> QED BY <1>1, <1>5, <1>6, <1>7 DEF KeepsStep, q2

LEMMA LatestOfAppend ==
  ASSUME NEW S \in Seq(Message), NEW m \in Message
  PROVE  /\ Append(S, m) \in Seq(Message)
         /\ Latest(Append(S, m)) = m /\ Len(Append(S, m)) = Len(S) + 1
         /\ Len(S) \in Nat /\ DOMAIN S = 1 .. Len(S)
         /\ \A c \in DOMAIN S : c \in DOMAIN Append(S, m) /\ Append(S, m)[c] = S[c]
                                /\ c # Len(S) + 1
         /\ Len(S) + 1 \in DOMAIN Append(S, m) /\ Append(S, m)[Len(S) + 1] = m
         /\ \A c \in DOMAIN Append(S, m) : c \in DOMAIN S \/ c = Len(S) + 1
<1>1. /\ Len(Append(S, m)) = Len(S) + 1 /\ DOMAIN Append(S, m) = 1 .. Len(S) + 1
      /\ DOMAIN S = 1 .. Len(S) /\ Len(S) \in Nat /\ Append(S, m) \in Seq(Message)
      /\ \A c \in DOMAIN S : c \in DOMAIN Append(S, m) /\ Append(S, m)[c] = S[c]
      /\ Append(S, m)[Len(S) + 1] = m
  BY AppendFacts
<1>2. Latest(Append(S, m)) = m
  BY <1>1 DEF Latest
<1> QED BY <1>1, <1>2

\* While src is idle nothing of a train is on the way, no session is open and
\* no answer closes one: a new call finds the node as it was.
LEMMA IdleSender ==
  ASSUME NEW s, NEW buffer, NEW D, NEW q, NEW st, NEW S, NEW src, st.at = "idle",
         KeepsStep(s, buffer, D, q, st, S, src)
  PROVE  /\ ~s.open
         /\ \A k \in DOMAIN q : /\ q[k].type # "DT" /\ ~Closing(q[k])
                                /\ q[k].type = "RTS" => q[k].packets = 0
  BY DEF KeepsStep, OnePacket, OneRts, ClosingsHarmless, Harmless, InStep

\* A call begins with frame f.
LEMMA CallBegins ==
  ASSUME NEW q \in Seq(SoundFrames), NEW f \in SoundFrames, NEW s, NEW buffer, NEW D,
         NEW st, NEW S \in Seq(Message), NEW src, st.at = "idle",
         KeepsStep(s, buffer, D, q, st, S, src),
         NEW m \in Message, NEW st2, NEW S2, S2 = Append(S, m),
         f.type \in {"RTS", "PGN"}, Behind(f, q, s, st2, S2, src),
         InTime(m) => Awaited(s, D, Append(q, f), st2, S2, src, Len(S) + 1)
  PROVE  KeepsStep(s, buffer, D, Append(q, f), st2, S2, src)
<1> DEFINE q2 == Append(q, f)
<1>1. /\ OneRts(q, st, S) /\ OwnSingles(q, S, src)
      /\ AllAwaited(s, D, q, st, S, src) /\ OnlyInTime(D, S, src)
  BY DEF KeepsStep
<1>2. /\ ~s.open
      /\ \A k \in DOMAIN q : /\ q[k].type # "DT" /\ ~Closing(q[k])
                             /\ q[k].type = "RTS" => q[k].packets = 0
  BY IdleSender
<1>3. /\ \A c \in DOMAIN S : c \in DOMAIN S2 /\ S2[c] = S[c]
      /\ \A c \in DOMAIN S2 : c \in DOMAIN S \/ c = Len(S) + 1
  BY LatestOfAppend
<1>4. /\ \A i \in DOMAIN q : i \in DOMAIN q2 /\ q2[i] = q[i]
      /\ \A k \in DOMAIN q2 : k \in DOMAIN q \/ q2[k] = f
  BY AppendFacts
<1>5. /\ OnePacket(q, st2, S2, src) /\ OneRts(q, st2, S2) /\ OwnSingles(q, S2, src)
      /\ ClosingsHarmless(s, q, st2, S2)
  <2>1. OnePacket(q, st2, S2, src) /\ ClosingsHarmless(s, q, st2, S2)
    BY <1>2 DEF OnePacket, ClosingsHarmless
  <2>2. OneRts(q, st2, S2)
    BY <1>1, <1>2, <1>3 DEF OneRts
  <2>3. OwnSingles(q, S2, src)
    BY <1>1, <1>3 DEF OwnSingles, SingleOf
  <2> QED BY <2>1, <2>2, <2>3
<1>6. /\ OnePacket(q2, st2, S2, src) /\ OneRts(q2, st2, S2) /\ OwnSingles(q2, S2, src)
      /\ ClosingsHarmless(s, q2, st2, S2)
  <2> HIDE DEF q2
  <2>1. q2 = Append(q, f)
    BY DEF q2
  <2> QED BY <1>2, <1>5, <2>1, FramesBehind
<1>7. InStep(s, buffer, q2, st2, S2, src)
  BY <1>2 DEF InStep
<1>8. AllAwaited(s, D, q2, st2, S2, src)
  <2> SUFFICES ASSUME NEW c \in DOMAIN S2, InTime(S2[c])
               PROVE  Awaited(s, D, q2, st2, S2, src, c)
    BY DEF AllAwaited
  <2>1. CASE c = Len(S) + 1
    BY <2>1, LatestOfAppend
  <2>2. CASE c \in DOMAIN S
    <3>1. Awaited(s, D, q, st, S, src, c)
      BY <1>1, <1>3, <2>2 DEF AllAwaited
    <3>2. /\ S2[c] = S[c]
          /\ \/ CallOf(src, c, S[c]) \in D
             \/ S[c].size <= 8 /\ \E k \in DOMAIN q : q[k] = SingleOf(S, c, src)
      BY <1>3, <2>2, <3>1 DEF Awaited
    <3> QED BY <1>4, <3>2 DEF Awaited, SingleOf
  <2> QED BY <1>3, <2>1, <2>2
<1>9. OnlyInTime(D, S2, src)
  BY <1>1, <1>3 DEF OnlyInTime
<1> QED BY <1>6, <1>7, <1>8, <1>9 DEF KeepsStep

LEMMA SingleBegins ==
  ASSUME NEW q \in Seq(SoundFrames), NEW s, NEW buffer, NEW D, NEW st,
         NEW S \in Seq(Message), NEW src, st.at = "idle",
         KeepsStep(s, buffer, D, q, st, S, src), NEW m \in Message, m.size <= 8,
         NEW f \in SoundFrames, f = Single(m, [src |-> src, call |-> Len(S) + 1, seq |-> 1])
  PROVE  KeepsStep(s, buffer, D, Append(q, f), st, Append(S, m), src)
<1> DEFINE S2 == Append(S, m)
           c == Len(S) + 1
<1>1. f.type = "PGN"
  BY SingleFields
<1>2. c \in DOMAIN S2 /\ S2[c] = m
  BY LatestOfAppend
<1>3. f = SingleOf(S2, c, src)
  BY <1>2 DEF SingleOf
<1>4. Behind(f, q, s, st, S2, src)
  <2>1. ~Closing(f)
    BY <1>1 DEF Closing
  <2> HIDE DEF S2, c
  <2> QED BY <1>1, <1>2, <1>3, <2>1 DEF Behind
<1>5. Awaited(s, D, Append(q, f), st, S2, src, c)
  <2>1. Len(q) + 1 \in DOMAIN Append(q, f) /\ Append(q, f)[Len(q) + 1] = f
    BY AppendFacts
  <2> HIDE DEF S2, c
  <2> QED BY <1>2, <1>3, <2>1 DEF Awaited
<1> QED BY <1>1, <1>4, <1>5, CallBegins

\* An RTS is sent; of a message of no packets nothing follows.
LEMMA RtsBegins ==
  ASSUME BufferSize <= 7 * UINT8_MAX,
         NEW q \in Seq(SoundFrames), NEW s, NEW buffer, NEW D, NEW st,
         NEW S \in Seq(Message), NEW src, st.at = "idle",
         KeepsStep(s, buffer, D, q, st, S, src), NEW m \in Message, m.size > 8,
         RTS(m) \in SoundFrames, NEW st2,
         IF num_packets(m.size) = 0 THEN st2 = st ELSE st2 = [at |-> "data", i |-> 0]
  PROVE  KeepsStep(s, buffer, D, Append(q, RTS(m)), st2, Append(S, m), src)
<1> DEFINE S2 == Append(S, m)
           c == Len(S) + 1
           f == RTS(m)
<1>1. f.type = "RTS" /\ f.packets = num_packets(m.size)
  BY RtsFields
<1>2. c \in DOMAIN S2 /\ S2[c] = m /\ Latest(S2) = m /\ Len(S2) = c
  BY LatestOfAppend
<1> HIDE DEF S2, c, f
<1>3. num_packets(m.size) # 0 => st2.at = "data" /\ st2.i = 0
  OBVIOUS
<1>4. Behind(f, q, s, st2, S2, src)
  <2>1. ~Closing(f)
    BY <1>1 DEF Closing
  <2>2. S2[c] = m => f = RTS(S2[c])
    BY DEF f
  <2>3. Latest(S2) = m => f = RTS(Latest(S2))
    BY DEF f
  <2> QED BY <1>1, <1>2, <1>3, <2>1, <2>2, <2>3 DEF Behind
<1>5. InTime(m) => Awaited(s, D, Append(q, f), st2, S2, src, c)
  <2> SUFFICES ASSUME InTime(m) PROVE Awaited(s, D, Append(q, f), st2, S2, src, c)
    OBVIOUS
  <2>1. f.packets # 0 /\ st2.at = "data"
    BY <1>1, <1>3, FittingIsValid DEF InTime
  <2>2. Len(q) + 1 \in DOMAIN Append(q, f) /\ Append(q, f)[Len(q) + 1] = f
    BY AppendFacts DEF f
  <2> QED BY <1>1, <1>2, <2>1, <2>2 DEF Awaited
<1>6. f \in SoundFrames /\ f.type \in {"RTS", "PGN"}
  BY <1>1 DEF f
<1>7. KeepsStep(s, buffer, D, Append(q, f), st2, S2, src)
  BY <1>4, <1>5, <1>6, CallBegins DEF S2, c
<1> QED BY <1>7 DEF S2, f

\* The next packet is sent.
LEMMA PacketSent ==
  ASSUME NEW q \in Seq(SoundFrames), NEW s, NEW buffer, NEW D, NEW st \in Senders,
         NEW S \in Seq(Message), NEW src, st.at = "data",
         KeepsStep(s, buffer, D, q, st, S, src),
         NEW f \in SoundFrames, f = DT([src |-> src, call |-> Len(S), seq |-> st.i + 1]),
         NEW st2, st2.at = "sleep", st2.i = st.i
  PROVE  KeepsStep(s, buffer, D, Append(q, f), st2, S, src)
<1> DEFINE q2 == Append(q, f)
<1>1. /\ OnePacket(q, st, S, src) /\ OneRts(q, st, S) /\ OwnSingles(q, S, src)
      /\ ClosingsHarmless(s, q, st, S) /\ InStep(s, buffer, q, st, S, src)
      /\ AllAwaited(s, D, q, st, S, src) /\ OnlyInTime(D, S, src)
  BY DEF KeepsStep
<1>2. f.type = "DT" /\ f.packet = [src |-> src, call |-> Len(S), seq |-> st.i + 1]
  BY DataFieldsOf
<1>3. /\ \A i \in DOMAIN q : i \in DOMAIN q2 /\ q2[i] = q[i] /\ i < Len(q) + 1
      /\ \A k \in DOMAIN q2 : k \in DOMAIN q \/ k = Len(q) + 1
      /\ q2[Len(q) + 1] = f /\ Len(q) + 1 \in DOMAIN q2
      /\ \A j \in DOMAIN q2 : ~(j > Len(q) + 1)
  BY AppendFacts
<1>4. \A k \in DOMAIN q : q[k].type # "DT"
  BY <1>1 DEF OnePacket
<1> DEFINE n == Len(q) + 1
<1> HIDE DEF q2, n
<1>5. OnePacket(q2, st2, S, src)
  BY <1>2, <1>3, <1>4 DEF OnePacket, n
<1>6. OneRts(q2, st2, S)
  <2> SUFFICES ASSUME NEW k \in DOMAIN q2, q2[k].type = "RTS"
               PROVE  /\ \E c \in DOMAIN S : q2[k] = RTS(S[c])
                      /\ q2[k].packets # 0 =>
                           /\ st2.at # "idle" /\ st2.i = 0 /\ q2[k] = RTS(Latest(S))
                           /\ st2.at = "sleep" => \E j \in DOMAIN q2 : q2[j].type = "DT"
                           /\ \A j \in DOMAIN q2 : j > k => Answer(q2[j]) \/ q2[j].type = "DT"
    BY DEF OneRts
  <2>1. k \in DOMAIN q /\ q2[k] = q[k]
    BY <1>2, <1>3
  <2>2. /\ \E c \in DOMAIN S : q[k] = RTS(S[c])
        /\ q[k].packets # 0 =>
             /\ st.i = 0 /\ q[k] = RTS(Latest(S))
             /\ \A j \in DOMAIN q : j > k => Answer(q[j]) \/ q[j].type = "DT"
    BY <1>1, <2>1 DEF OneRts
  <2> QED BY <1>2, <1>3, <2>1, <2>2
<1>7. OwnSingles(q2, S, src)
  BY <1>1, <1>2, <1>3 DEF OwnSingles
<1>8. ClosingsHarmless(s, q2, st2, S)
  <2> SUFFICES ASSUME NEW k \in DOMAIN q2, Closing(q2[k]) PROVE Harmless(s, q2, k, st2, S)
    BY DEF ClosingsHarmless
  <2>1. k \in DOMAIN q /\ q2[k] = q[k]
    BY <1>2, <1>3 DEF Closing
  <2>2. Harmless(s, q, k, st, S)
    BY <1>1, <2>1 DEF ClosingsHarmless
  <2> QED BY <2>2 DEF Harmless
<1>9. InStep(s, buffer, q2, st2, S, src)
  <2> SUFFICES ASSUME s.open PROVE InStep(s, buffer, q2, st2, S, src)
    BY DEF InStep
  <2>1. /\ \A k \in DOMAIN q2 : q2[k].type # "RTS"
        /\ \E k \in DOMAIN q2 : q2[k].type = "DT"
    BY <1>1, <1>2, <1>3 DEF InStep
  <2>2. s.next = st.i + 1
    BY <1>1 DEF InStep, NextInStep
  <2>3. NextInStep(s, q2, st2)
    BY <2>1, <2>2 DEF NextInStep
  <2> QED BY <1>1, <2>1, <2>3 DEF InStep
<1>10. AllAwaited(s, D, q2, st2, S, src)
  <2> SUFFICES ASSUME NEW c \in DOMAIN S, InTime(S[c])
               PROVE  Awaited(s, D, q2, st2, S, src, c)
    BY DEF AllAwaited
  <2>1. Awaited(s, D, q, st, S, src, c)
    BY <1>1 DEF AllAwaited
  <2> QED BY <1>3, <2>1 DEF Awaited
<1> QED BY <1>1, <1>5, <1>6, <1>7, <1>8, <1>9, <1>10 DEF KeepsStep, q2

\* 50 ms pass while nothing is on the way: the train goes on, and with it the
\* age of the session that waits for it.
LEMMA TimePasses ==
  ASSUME NEW s \in Sessions, NEW buffer, NEW D, NEW st \in Senders, NEW S \in Seq(Message),
         NEW src, KeepsStep(s, buffer, D, <<>>, st, S, src), st.at # "data",
         s.open => s.next <= s.packets, NEW s2, NEW st2,
         \/ st.at = "idle" /\ st2 = st
         \/ /\ st.at = "sleep" /\ st.i + 1 >= num_packets(Latest(S).size) /\ st2.at = "idle"
         \/ /\ st.at = "sleep" /\ ~(st.i + 1 >= num_packets(Latest(S).size))
            /\ st2.at = "data" /\ st2.i = st.i + 1,
         s2 = IF s.open THEN [s EXCEPT !.age = Smaller(@ + 1, TimeoutTicks + 1)] ELSE s
  PROVE  KeepsStep(s2, buffer, D, <<>>, st2, S, src)
<1> DEFINE q == <<>>
<1>1. DOMAIN q = {}
  OBVIOUS
<1>2. /\ InStep(s, buffer, q, st, S, src)
      /\ AllAwaited(s, D, q, st, S, src) /\ OnlyInTime(D, S, src)
  BY DEF KeepsStep
<1>3. /\ s2.open = s.open /\ s2.pgn = s.pgn /\ s2.size = s.size /\ s2.packets = s.packets
      /\ s2.next = s.next
      /\ s.open => s2.age = Smaller(s.age + 1, TimeoutTicks + 1)
  BY DEF Sessions
<1> HIDE DEF q
<1>4. OnePacket(q, st2, S, src) /\ OneRts(q, st2, S) /\ OwnSingles(q, S, src)
      /\ ClosingsHarmless(s2, q, st2, S)
  BY <1>1 DEF OnePacket, OneRts, OwnSingles, ClosingsHarmless
<1>5. st.i \in Nat /\ TimeoutTicks \in Nat
  BY LimitsAssumption, Maxima DEF Senders
<1>6. ASSUME s.open
      PROVE  /\ st.at = "sleep" /\ s.next = st.i + 2 /\ st2.at = "data" /\ st2.i = st.i + 1
             /\ s2.age = Smaller(st2.i, TimeoutTicks + 1)
  <2>1. /\ st.at = "sleep" /\ s.next = st.i + 2 /\ s.packets = num_packets(Latest(S).size)
        /\ s.age = Smaller(st.i, TimeoutTicks + 1)
    BY <1>1, <1>2, <1>6 DEF InStep, NextInStep
  <2>2. s.packets \in Nat /\ st.i + 2 <= s.packets
    BY <1>6, <2>1, Maxima DEF Sessions
  <2>3. ~(st.i + 1 >= num_packets(Latest(S).size))
    BY <1>5, <2>1, <2>2
  <2>4. st2.at = "data" /\ st2.i = st.i + 1
    BY <2>1, <2>3
  <2>5. s2.age = Smaller(Smaller(st.i, TimeoutTicks + 1) + 1, TimeoutTicks + 1)
    BY <1>3, <1>6, <2>1
  <2>6. Smaller(Smaller(st.i, TimeoutTicks + 1) + 1, TimeoutTicks + 1)
           = Smaller(st.i + 1, TimeoutTicks + 1)
    BY <1>5 DEF Smaller
  <2> QED BY <2>1, <2>4, <2>5, <2>6
<1>7. InStep(s2, buffer, q, st2, S, src)
  <2> SUFFICES ASSUME s.open PROVE InStep(s2, buffer, q, st2, S, src)
    BY <1>3 DEF InStep
  <2>1. s2.next = st2.i + 1 /\ st2.at = "data"
    BY <1>3, <1>5, <1>6
  <2>2. NextInStep(s2, q, st2)
    BY <2>1 DEF NextInStep
  <2> QED BY <1>1, <1>2, <1>3, <1>6, <2>1, <2>2 DEF InStep
<1>8. AllAwaited(s2, D, q, st2, S, src)
  <2> SUFFICES ASSUME NEW c \in DOMAIN S, InTime(S[c])
               PROVE  Awaited(s2, D, q, st2, S, src, c)
    BY DEF AllAwaited
  <2>1. Awaited(s, D, q, st, S, src, c)
    BY <1>2 DEF AllAwaited
  <2> QED BY <1>1, <1>3, <1>6, <2>1 DEF Awaited
<1> QED BY <1>2, <1>4, <1>7, <1>8 DEF KeepsStep, q

-----------------------------------------------------------------------------
(* One frame less for a node that keeps step.                               *)

LEMMA TailOrder ==
  ASSUME NEW q \in Seq(SoundFrames), q # <<>>
  PROVE  /\ q[1] \in SoundFrames /\ 1 \in DOMAIN q /\ Head(q) = q[1]
         /\ Tail(q) \in Seq(SoundFrames)
         /\ \A i \in DOMAIN Tail(q) : /\ i + 1 \in DOMAIN q /\ Tail(q)[i] = q[i + 1]
                                      /\ i \in Nat /\ i + 1 > 1
         /\ \A i \in DOMAIN q : i # 1 => i - 1 \in DOMAIN Tail(q) /\ Tail(q)[i - 1] = q[i]
         /\ \A i, j \in DOMAIN Tail(q) : (i + 1 > j + 1 <=> i > j) /\ (i + 1 < j + 1 <=> i < j)
         /\ \A i \in DOMAIN Tail(q) : \A j \in DOMAIN q : j # 1 =>
               (j < i + 1 <=> j - 1 < i)
<1>1. /\ Head(q) = q[1] /\ Head(q) \in SoundFrames /\ 1 \in DOMAIN q
      /\ Tail(q) \in Seq(SoundFrames)
      /\ \A i \in DOMAIN Tail(q) : i + 1 \in DOMAIN q /\ Tail(q)[i] = q[i + 1]
      /\ \A i \in DOMAIN q : i # 1 => i - 1 \in DOMAIN Tail(q) /\ Tail(q)[i - 1] = q[i]
  BY TailFacts
<1>2. \A i \in DOMAIN Tail(q) : i \in Nat /\ i >= 1
  BY <1>1
<1>3. \A i \in DOMAIN q : i \in Nat
  OBVIOUS
<1> QED BY <1>1, <1>2, <1>3

LEMMA FramesTail ==
  ASSUME NEW q \in Seq(SoundFrames), q # <<>>, NEW st, NEW S, NEW src,
         OnePacket(q, st, S, src), OneRts(q, st, S), OwnSingles(q, S, src)
  PROVE  /\ OnePacket(Tail(q), st, S, src) /\ OneRts(Tail(q), st, S)
         /\ OwnSingles(Tail(q), S, src)
<1> DEFINE q2 == Tail(q)
<1>1. /\ 1 \in DOMAIN q
      /\ \A i \in DOMAIN q2 : i + 1 \in DOMAIN q /\ q2[i] = q[i + 1] /\ i + 1 > 1
      /\ \A i \in DOMAIN q : i # 1 => i - 1 \in DOMAIN q2 /\ q2[i - 1] = q[i]
      /\ \A i, j \in DOMAIN q2 : i > j => i + 1 > j + 1
  BY TailOrder
<1> HIDE DEF q2
<1>2. OnePacket(q2, st, S, src)
  <2> SUFFICES ASSUME NEW k \in DOMAIN q2, q2[k].type = "DT"
               PROVE  /\ st.at = "sleep"
                      /\ q2[k].packet = [src |-> src, call |-> Len(S), seq |-> st.i + 1]
                      /\ \A j \in DOMAIN q2 : j > k => Answer(q2[j])
    BY DEF OnePacket
  <2>1. k + 1 \in DOMAIN q /\ q[k + 1] = q2[k]
    BY <1>1
  <2>2. /\ st.at = "sleep"
        /\ q[k + 1].packet = [src |-> src, call |-> Len(S), seq |-> st.i + 1]
        /\ \A j \in DOMAIN q : j > k + 1 => Answer(q[j])
    BY <2>1 DEF OnePacket
  <2>3. \A j \in DOMAIN q2 : j > k => Answer(q2[j])
    BY <1>1, <2>2
  <2> QED BY <2>1, <2>2, <2>3
<1>3. OneRts(q2, st, S)
  <2> SUFFICES ASSUME NEW k \in DOMAIN q2, q2[k].type = "RTS"
               PROVE  /\ \E c \in DOMAIN S : q2[k] = RTS(S[c])
                      /\ q2[k].packets # 0 =>
                           /\ st.at # "idle" /\ st.i = 0 /\ q2[k] = RTS(Latest(S))
                           /\ st.at = "sleep" => \E j \in DOMAIN q2 : q2[j].type = "DT"
                           /\ \A j \in DOMAIN q2 : j > k => Answer(q2[j]) \/ q2[j].type = "DT"
    BY DEF OneRts
  <2>1. k + 1 \in DOMAIN q /\ q[k + 1] = q2[k] /\ k + 1 > 1
    BY <1>1
  <2>2. /\ \E c \in DOMAIN S : q[k + 1] = RTS(S[c])
        /\ q[k + 1].packets # 0 =>
             /\ st.at # "idle" /\ st.i = 0 /\ q[k + 1] = RTS(Latest(S))
             /\ st.at = "sleep" => \E j \in DOMAIN q : q[j].type = "DT"
             /\ \A j \in DOMAIN q : j > k + 1 => Answer(q[j]) \/ q[j].type = "DT"
    BY <2>1 DEF OneRts
  <2>3. ASSUME q2[k].packets # 0
        PROVE  \A j \in DOMAIN q2 : j > k => Answer(q2[j]) \/ q2[j].type = "DT"
    BY <1>1, <2>1, <2>2, <2>3
  <2>4. ASSUME q2[k].packets # 0, st.at = "sleep"
        PROVE  \E j \in DOMAIN q2 : q2[j].type = "DT"
    <3>1. PICK j \in DOMAIN q : q[j].type = "DT"
      BY <2>1, <2>2, <2>4
    <3>2. j # 1
      <4> SUFFICES ASSUME j = 1 PROVE FALSE
        OBVIOUS
      <4>1. Answer(q[k + 1])
        BY <2>1, <3>1 DEF OnePacket
      <4> QED BY <2>1, <4>1 DEF Answer
    <3> QED BY <1>1, <3>1, <3>2
  <2> QED BY <2>1, <2>2, <2>3, <2>4
<1>4. OwnSingles(q2, S, src)
  BY <1>1 DEF OwnSingles
<1> QED BY <1>2, <1>3, <1>4 DEF q2

LEMMA ClosingsTail ==
  ASSUME NEW q \in Seq(SoundFrames), q # <<>>, NEW st, NEW S, NEW s, NEW s2,
         ClosingsHarmless(s, q, st, S),
         s2.open => \/ s.open /\ q[1].type # "DT"
                    \/ \A k \in DOMAIN q : ~Closing(q[k])
  PROVE  ClosingsHarmless(s2, Tail(q), st, S)
<1> DEFINE q2 == Tail(q)
<1>1. /\ \A i \in DOMAIN q2 : i + 1 \in DOMAIN q /\ q2[i] = q[i + 1]
      /\ \A i \in DOMAIN q : i # 1 => i - 1 \in DOMAIN q2 /\ q2[i - 1] = q[i]
      /\ \A i \in DOMAIN q2 : \A j \in DOMAIN q : j # 1 /\ j < i + 1 => j - 1 < i
  BY TailOrder
<1> HIDE DEF q2
<1> SUFFICES ASSUME NEW k \in DOMAIN q2, Closing(q2[k]) PROVE Harmless(s2, q2, k, st, S)
  BY DEF ClosingsHarmless, q2
<1>2. k + 1 \in DOMAIN q /\ Closing(q[k + 1])
  BY <1>1
<1>3. Harmless(s, q, k + 1, st, S)
  BY <1>2 DEF ClosingsHarmless
<1>4. ASSUME s2.open, s.open => \E j \in DOMAIN q : j < k + 1 /\ q[j].type = "DT"
      PROVE  \E j \in DOMAIN q2 : j < k /\ q2[j].type = "DT"
  <2>1. s.open /\ q[1].type # "DT"
    BY <1>2, <1>4
  <2>2. PICK j \in DOMAIN q : j < k + 1 /\ q[j].type = "DT"
    BY <1>4, <2>1
  <2>3. j # 1
    BY <2>1, <2>2
  <2> QED BY <1>1, <2>2, <2>3
<1> QED BY <1>3, <1>4 DEF Harmless

\* What is left to show when the node has processed the frame at the head.
LEMMA FrameProcessed ==
  ASSUME NEW q \in Seq(SoundFrames), q # <<>>, NEW s, NEW buffer, NEW D, NEW st, NEW S,
         NEW src, KeepsStep(s, buffer, D, q, st, S, src), NEW s2, NEW buffer2, NEW D2,
         s2.open => \/ s.open /\ q[1].type # "DT"
                    \/ \A k \in DOMAIN q : ~Closing(q[k]),
         InStep(s2, buffer2, Tail(q), st, S, src), OnlyInTime(D2, S, src), D \subseteq D2,
         \A c \in DOMAIN S : InTime(S[c]) =>
            /\ S[c].size <= 8 /\ q[1] = SingleOf(S, c, src) => CallOf(src, c, S[c]) \in D2
            /\ c = Len(S) /\ st.at # "idle" /\ S[c].size > 8 /\ s.open
                  => s2.open \/ CallOf(src, c, S[c]) \in D2
            /\ c = Len(S) /\ st.at # "idle" /\ S[c].size > 8
                  /\ q[1].type = "RTS" /\ q[1].packets # 0 => s2.open
  PROVE  KeepsStep(s2, buffer2, D2, Tail(q), st, S, src)
<1>1. /\ OnePacket(Tail(q), st, S, src) /\ OneRts(Tail(q), st, S)
      /\ OwnSingles(Tail(q), S, src)
  BY FramesTail DEF KeepsStep
<1>2. ClosingsHarmless(s2, Tail(q), st, S)
  BY ClosingsTail DEF KeepsStep
<1>3. AllAwaited(s2, D2, Tail(q), st, S, src)
  <2> SUFFICES ASSUME NEW c \in DOMAIN S, InTime(S[c])
               PROVE  Awaited(s2, D2, Tail(q), st, S, src, c)
    BY DEF AllAwaited
  <2>1. Awaited(s, D, q, st, S, src, c)
    BY DEF KeepsStep, AllAwaited
  <2>2. CASE CallOf(src, c, S[c]) \in D
    BY <2>2 DEF Awaited
  <2>3. ASSUME S[c].size <= 8, NEW k \in DOMAIN q, q[k] = SingleOf(S, c, src)
        PROVE  Awaited(s2, D2, Tail(q), st, S, src, c)
    BY <2>3, TailOrder DEF Awaited
  <2>4. CASE c = Len(S) /\ st.at # "idle" /\ S[c].size > 8 /\ s.open
    BY <2>4 DEF Awaited
  <2>5. ASSUME c = Len(S), st.at # "idle", S[c].size > 8, NEW k \in DOMAIN q,
               q[k].type = "RTS", q[k].packets # 0
        PROVE  Awaited(s2, D2, Tail(q), st, S, src, c)
    <3>1. CASE k = 1
      BY <2>5, <3>1 DEF Awaited
    <3>2. CASE k # 1
      <4>1. k - 1 \in DOMAIN Tail(q) /\ Tail(q)[k - 1] = q[k]
        BY <3>2, TailOrder
      <4> QED BY <2>5, <4>1 DEF Awaited
    <3> QED BY <3>1, <3>2
  <2> QED BY <2>1, <2>2, <2>3, <2>4, <2>5 DEF Awaited
<1> QED BY <1>1, <1>2, <1>3 DEF KeepsStep

\* A frame that leaves the session as it is: a message of its own or an answer,
\* an RTS that is refused, or a packet without a session.
LEMMA SessionLeft ==
  ASSUME BufferSize <= 7 * UINT8_MAX,
         NEW q \in Seq(SoundFrames), q # <<>>, NEW s, NEW buffer, NEW D, NEW st,
         NEW S \in Seq(Message), NEW src, KeepsStep(s, buffer, D, q, st, S, src), NEW D2,
         q[1].type = "DT" => ~s.open, q[1].type = "RTS" => ~ValidRts(q[1]),
         OnlyInTime(D2, S, src), D \subseteq D2,
         \A c \in DOMAIN S : InTime(S[c]) /\ S[c].size <= 8 /\ q[1] = SingleOf(S, c, src)
            => CallOf(src, c, S[c]) \in D2
  PROVE  KeepsStep(s, buffer, D2, Tail(q), st, S, src)
<1> DEFINE q2 == Tail(q)
<1>1. /\ \A i \in DOMAIN q2 : i + 1 \in DOMAIN q /\ q2[i] = q[i + 1]
      /\ \A i \in DOMAIN q : i # 1 => i - 1 \in DOMAIN q2 /\ q2[i - 1] = q[i]
      /\ 1 \in DOMAIN q
  BY TailOrder
<1>2. InStep(s, buffer, q, st, S, src) /\ OneRts(q, st, S)
  BY DEF KeepsStep
<1> HIDE DEF q2
<1>3. InStep(s, buffer, q2, st, S, src)
  <2> SUFFICES ASSUME s.open PROVE InStep(s, buffer, q2, st, S, src)
    BY DEF InStep
  <2>1. /\ (\A k \in DOMAIN q : q[k].type # "RTS") => \A k \in DOMAIN q2 : q2[k].type # "RTS"
        /\ (\A k \in DOMAIN q : q[k].type # "DT") => \A k \in DOMAIN q2 : q2[k].type # "DT"
        /\ (\E k \in DOMAIN q : q[k].type = "DT") => \E k \in DOMAIN q2 : q2[k].type = "DT"
    BY <1>1
  <2>2. NextInStep(s, q, st) => NextInStep(s, q2, st)
    BY <2>1 DEF NextInStep
  <2> QED BY <1>2, <2>1, <2>2 DEF InStep
<1>4. ASSUME NEW c \in DOMAIN S, InTime(S[c]), c = Len(S), S[c].size > 8,
             q[1].type = "RTS", q[1].packets # 0
      PROVE  FALSE
  <2>1. q[1] = RTS(S[c])
    BY <1>1, <1>2, <1>4 DEF OneRts, Latest
  <2>2. S[c] \in Message
    BY CallRange
  <2>3. ValidRts(RTS(S[c]))
    BY <1>4, <2>2, FittingIsValid DEF InTime
  <2> QED BY <1>4, <2>1, <2>3
<1>5. s.open => q[1].type # "DT"
  OBVIOUS
<1> QED BY <1>3, <1>4, <1>5, FrameProcessed DEF q2

\* An answer that closes sessions finds none open.
LEMMA ClosingSeen ==
  ASSUME BufferSize <= 7 * UINT8_MAX,
         NEW q \in Seq(SoundFrames), q # <<>>, NEW s, NEW buffer, NEW D, NEW st,
         NEW S \in Seq(Message), NEW src, KeepsStep(s, buffer, D, q, st, S, src),
         Closing(q[1]), NEW s2, ~s2.open
  PROVE  KeepsStep(s2, buffer, D, Tail(q), st, S, src)
<1>1. ~s.open
  <2>1. 1 \in DOMAIN q /\ \A j \in DOMAIN q : ~(j < 1)
    BY TailOrder
  <2>2. Harmless(s, q, 1, st, S)
    BY <2>1 DEF KeepsStep, ClosingsHarmless
  <2> QED BY <2>1, <2>2 DEF Harmless, KeepsStep, InStep
<1>2. InStep(s2, buffer, Tail(q), st, S, src)
  BY DEF InStep
<1>3. q[1].type # "RTS" /\ q[1].type # "PGN"
  BY DEF Closing
<1>4. \A c : q[1] # SingleOf(S, c, src)
  BY <1>3, SingleFields DEF SingleOf
<1>5. OnlyInTime(D, S, src)
  BY DEF KeepsStep
<1> QED BY <1>1, <1>2, <1>3, <1>4, <1>5, FrameProcessed

\* What src is doing has a packet of its message in mind.
Sending(st, S) ==
    st.at # "idle" =>
        /\ S # <<>> /\ Latest(S).size > 8
        /\ st.i \in Nat /\ st.i < num_packets(Latest(S).size)

LEMMA LatestMessage ==
  ASSUME NEW S \in Seq(Message), S # <<>>
  PROVE  /\ Len(S) \in DOMAIN S /\ Latest(S) = S[Len(S)] /\ Latest(S) \in Message
         /\ Latest(S).size \in Nat /\ num_packets(Latest(S).size) \in 0 .. UINT8_MAX
         /\ num_packets(Latest(S).size) \in Nat
<1>1. Len(S) \in DOMAIN S
  OBVIOUS
<1> QED BY <1>1, CallRange, Maxima DEF Latest

\* A valid RTS opens a session.
LEMMA SessionStarts ==
  ASSUME NEW q \in Seq(SoundFrames), q # <<>>, NEW s, NEW buffer, NEW D, NEW st \in Senders,
         NEW S \in Seq(Message), NEW src, KeepsStep(s, buffer, D, q, st, S, src),
         Sending(st, S), q[1].type = "RTS", ValidRts(q[1]), ~s.open,
         NEW s2, s2.open, s2.pgn = q[1].pgn, s2.size = q[1].size,
         s2.packets = q[1].packets, s2.next = 1, s2.age = 0
  PROVE  KeepsStep(s2, buffer, D, Tail(q), st, S, src)
<1> DEFINE q2 == Tail(q)
           m == Latest(S)
           N == num_packets(m.size)
<1>1. /\ \A i \in DOMAIN q2 : i + 1 \in DOMAIN q /\ q2[i] = q[i + 1] /\ i + 1 > 1
      /\ \A i \in DOMAIN q : i # 1 => i - 1 \in DOMAIN q2 /\ q2[i - 1] = q[i]
      /\ 1 \in DOMAIN q
  BY TailOrder
<1>2. q[1].packets # 0
  BY DEF ValidRts
<1>3. /\ st.at # "idle" /\ st.i = 0 /\ q[1] = RTS(m)
      /\ st.at = "sleep" => \E j \in DOMAIN q : q[j].type = "DT"
      /\ \A j \in DOMAIN q : j > 1 => Answer(q[j]) \/ q[j].type = "DT"
  BY <1>1, <1>2 DEF KeepsStep, OneRts
<1>4. m \in Message /\ m.size > 8 /\ S # <<>>
  BY <1>3, LatestMessage DEF Sending
<1>5. N \in Nat /\ N >= 2
  BY <1>3, <1>4, ValidCounts
<1>6. /\ s2.pgn = m.pgn /\ s2.size = m.size /\ s2.packets = N
  BY <1>3, RtsFields
<1> HIDE DEF q2, m, N
<1>7. InStep(s2, buffer, q2, st, S, src)
  <2>1. \A k \in DOMAIN q2 : q2[k].type # "RTS"
    BY <1>1, <1>3 DEF Answer
  <2>2. st.at = "sleep" => \E k \in DOMAIN q2 : q2[k].type = "DT"
    BY <1>1, <1>3
  <2>3. st.at = "data" \/ st.at = "sleep" => NextInStep(s2, q2, st)
    BY <1>3, <2>2 DEF NextInStep
  <2>4. s2.age = Smaller(st.i, TimeoutTicks + 1)
    BY <1>3, LimitsAssumption DEF Smaller
  <2>5. \A p \in 1 .. s2.next - 1 : FALSE
    OBVIOUS
  <2>6. NextInStep(s2, q2, st)
    <3>1. CASE \E j \in DOMAIN q : q[j].type = "DT"
      <4>1. PICK j \in DOMAIN q : q[j].type = "DT"
        BY <3>1
      <4>2. st.at = "sleep"
        BY <4>1 DEF KeepsStep, OnePacket
      <4> QED BY <2>3, <4>2
    <3>2. CASE st.at = "data"
      BY <2>3, <3>2
    <3>3. st.at \in {"idle", "data", "sleep"}
      BY DEF Senders
    <3> QED BY <1>3, <3>1, <3>2, <3>3
  <2> QED BY <1>3, <1>6, <2>1, <2>4, <2>5, <2>6 DEF InStep, m, N
<1>8. \A k \in DOMAIN q : ~Closing(q[k])
  <2> SUFFICES ASSUME NEW k \in DOMAIN q, Closing(q[k]) PROVE FALSE
    OBVIOUS
  <2>1. st.i > TimeoutTicks \/ st.i + 1 = N
    BY <1>3 DEF KeepsStep, ClosingsHarmless, Harmless, m, N
  <2> QED BY <1>3, <1>5, <2>1, LimitsAssumption
<1>9. \A c : q[1] # SingleOf(S, c, src)
  BY SingleFields DEF SingleOf
<1>10. OnlyInTime(D, S, src)
  BY DEF KeepsStep
<1> QED BY <1>7, <1>8, <1>9, <1>10, FrameProcessed DEF q2

-----------------------------------------------------------------------------
(* A packet for an open session.                                            *)

\* The session is in step with the packet: it is the next one, the session is
\* as old as the packet, and is too old only for a message that takes too long.
LEMMA PacketInStep ==
  ASSUME NEW q \in Seq(SoundFrames), q # <<>>, NEW s, NEW buffer, NEW D, NEW st,
         NEW S \in Seq(Message), NEW src, KeepsStep(s, buffer, D, q, st, S, src),
         Sending(st, S), q[1].type = "DT", s.open
  PROVE  /\ st.at = "sleep" /\ s.next = st.i + 1 /\ S # <<>>
         /\ q[1].packet = [src |-> src, call |-> Len(S), seq |-> s.next]
         /\ s.age = Smaller(st.i, TimeoutTicks + 1)
         /\ s.age > TimeoutTicks => st.i > TimeoutTicks
         /\ ~(s.age > TimeoutTicks) => st.i <= TimeoutTicks
         /\ st.i > TimeoutTicks => ~FitsTimeout(Latest(S))
         /\ \A k \in DOMAIN Tail(q) : Tail(q)[k].type # "DT" /\ Tail(q)[k].type # "RTS"
<1>1. /\ \A i \in DOMAIN Tail(q) : i + 1 \in DOMAIN q /\ Tail(q)[i] = q[i + 1] /\ i + 1 > 1
      /\ 1 \in DOMAIN q
  BY TailOrder
<1>2. /\ st.at = "sleep"
      /\ q[1].packet = [src |-> src, call |-> Len(S), seq |-> st.i + 1]
      /\ \A j \in DOMAIN q : j > 1 => Answer(q[j])
  BY <1>1 DEF KeepsStep, OnePacket
<1>3. /\ s.age = Smaller(st.i, TimeoutTicks + 1) /\ NextInStep(s, q, st)
  BY DEF KeepsStep, InStep
<1>4. s.next = st.i + 1
  BY <1>1, <1>3 DEF NextInStep
<1>5. S # <<>> /\ st.i \in Nat /\ st.i < num_packets(Latest(S).size)
  BY <1>2 DEF Sending
<1>6. num_packets(Latest(S).size) \in Nat /\ TimeoutTicks \in Nat
  BY <1>5, LatestMessage, LimitsAssumption
<1>7. /\ s.age > TimeoutTicks => st.i > TimeoutTicks
      /\ ~(s.age > TimeoutTicks) => st.i <= TimeoutTicks
  BY <1>3, <1>5, <1>6 DEF Smaller
<1>8. st.i > TimeoutTicks => ~FitsTimeout(Latest(S))
  BY <1>5, <1>6 DEF FitsTimeout
<1>9. \A k \in DOMAIN Tail(q) : Tail(q)[k].type # "DT" /\ Tail(q)[k].type # "RTS"
  BY <1>1, <1>2 DEF Answer
<1> QED BY <1>2, <1>3, <1>4, <1>5, <1>7, <1>8, <1>9

LEMMA PacketNoSingle ==
  ASSUME NEW q, q[1].type = "DT"
  PROVE  \A S, c, src : q[1] # SingleOf(S, c, src)
  BY SingleFields DEF SingleOf

\* The session is too old: its message takes too long.
LEMMA SessionExpires ==
  ASSUME NEW q \in Seq(SoundFrames), q # <<>>, NEW s, NEW buffer, NEW D, NEW st,
         NEW S \in Seq(Message), NEW src, KeepsStep(s, buffer, D, q, st, S, src),
         Sending(st, S), q[1].type = "DT", s.open, s.age > TimeoutTicks, NEW s2, ~s2.open
  PROVE  KeepsStep(s2, buffer, D, Tail(q), st, S, src)
<1>1. ~FitsTimeout(Latest(S))
  BY PacketInStep
<1>2. InStep(s2, buffer, Tail(q), st, S, src) /\ OnlyInTime(D, S, src)
  BY DEF InStep, KeepsStep
<1>3. \A c \in DOMAIN S : InTime(S[c]) => c # Len(S)
  BY <1>1 DEF InTime, Latest
<1> QED BY <1>2, <1>3, PacketNoSingle, FrameProcessed

\* Of a message in time, next_packet does not wrap.
LEMMA NextInTime ==
  ASSUME TimeoutTicks + 1 < UINT8_MAX, NEW i \in Nat, i <= TimeoutTicks,
         NEW next, next = i + 1, NEW next2, next2 = (next + 1) % (UINT8_MAX + 1)
  PROVE  next2 = i + 2 /\ \A p \in 1 .. next2 - 1 : p = next \/ p \in 1 .. next - 1
<1>1. i + 2 \in 0 .. 255
  BY LimitsAssumption DEF UINT8_MAX
<1>2. next2 = i + 2
  BY <1>1 DEF UINT8_MAX
<1>3. \A p \in 1 .. i + 1 : p = i + 1 \/ p \in 1 .. i
  OBVIOUS
<1> QED BY <1>2, <1>3

\* The packet is stored and more are expected.
GoesOn(q, s, buffer, s2, buffer2) ==
    /\ s2.open /\ s2.pgn = s.pgn /\ s2.size = s.size /\ s2.packets = s.packets
    /\ s2.age = s.age /\ s2.next = (s.next + 1) % (UINT8_MAX + 1) /\ s2.next <= s.packets
    /\ buffer2[s.next] = q[1].packet
    /\ \A p \in 1 .. s.next - 1 : buffer2[p] = buffer[p]

LEMMA SessionContinues ==
  ASSUME TimeoutTicks + 1 < UINT8_MAX,
         NEW q \in Seq(SoundFrames), q # <<>>, NEW s, NEW buffer, NEW D, NEW st,
         NEW S \in Seq(Message), NEW src, KeepsStep(s, buffer, D, q, st, S, src),
         Sending(st, S), q[1].type = "DT", s.open, ~(s.age > TimeoutTicks),
         NEW s2, NEW buffer2, GoesOn(q, s, buffer, s2, buffer2)
  PROVE  KeepsStep(s2, buffer2, D, Tail(q), st, S, src)
<1>0. /\ s2.open /\ s2.pgn = s.pgn /\ s2.size = s.size /\ s2.packets = s.packets
      /\ s2.age = s.age /\ s2.next = (s.next + 1) % (UINT8_MAX + 1) /\ s2.next <= s.packets
      /\ buffer2[s.next] = q[1].packet
      /\ \A p \in 1 .. s.next - 1 : buffer2[p] = buffer[p]
  BY DEF GoesOn
<1>1. /\ st.at = "sleep" /\ s.next = st.i + 1 /\ S # <<>>
      /\ q[1].packet = [src |-> src, call |-> Len(S), seq |-> s.next]
      /\ st.i <= TimeoutTicks
      /\ \A k \in DOMAIN Tail(q) : Tail(q)[k].type # "DT" /\ Tail(q)[k].type # "RTS"
  BY PacketInStep
<1>2. st.i \in Nat /\ TimeoutTicks \in Nat /\ num_packets(Latest(S).size) \in Nat
  BY <1>1, LatestMessage, LimitsAssumption DEF Sending
<1>3. s2.next = st.i + 2
  BY <1>0, <1>1, <1>2, NextInTime
<1>4. /\ ValidRts(RTS(Latest(S))) /\ s.pgn = Latest(S).pgn /\ s.size = Latest(S).size
      /\ s.packets = num_packets(Latest(S).size)
      /\ s.age = Smaller(st.i, TimeoutTicks + 1)
      /\ \A p \in 1 .. s.next - 1 : buffer[p] = [src |-> src, call |-> Len(S), seq |-> p]
  <2>1. InStep(s, buffer, q, st, S, src)
    BY DEF KeepsStep
  <2> QED BY <2>1 DEF InStep
<1>5. \A p \in 1 .. s2.next - 1 : buffer2[p] = [src |-> src, call |-> Len(S), seq |-> p]
  <2>1. \A p \in 1 .. s2.next - 1 : p = s.next \/ p \in 1 .. s.next - 1
    BY <1>0, <1>1, <1>2, NextInTime
  <2> QED BY <1>0, <1>1, <1>4, <2>1
<1>6. InStep(s2, buffer2, Tail(q), st, S, src)
  <2>1. NextInStep(s2, Tail(q), st)
    BY <1>1, <1>3 DEF NextInStep
  <2> QED BY <1>0, <1>1, <1>4, <1>5, <2>1 DEF InStep
<1>7. \A k \in DOMAIN q : ~Closing(q[k])
  <2> SUFFICES ASSUME NEW k \in DOMAIN q, Closing(q[k]) PROVE FALSE
    OBVIOUS
  <2>1. st.i > TimeoutTicks \/ st.i + 1 = num_packets(Latest(S).size)
    BY <1>4 DEF KeepsStep, ClosingsHarmless, Harmless
  <2> QED BY <1>0, <1>1, <1>2, <1>3, <1>4, <2>1
<1>8. OnlyInTime(D, S, src)
  BY DEF KeepsStep
<1> QED BY <1>0, <1>6, <1>7, <1>8, PacketNoSingle, FrameProcessed

\* The last packet is stored, and the handler of the message called if there is
\* one: with the message under way.
LEMMA SessionEnds ==
  ASSUME NEW q \in Seq(SoundFrames), q # <<>>, NEW s, NEW buffer, NEW D, NEW st,
         NEW S \in Seq(Message), NEW src, KeepsStep(s, buffer, D, q, st, S, src),
         Sending(st, S), ~(s.age > TimeoutTicks), NEW s2, ~s2.open, NEW buffer2,
         NEW data, LastStored(q, s, buffer, data), NEW D2,
         D2 = IF s.pgn \in Handled
              THEN D \cup {[pgn |-> s.pgn, size |-> s.size, data |-> data]} ELSE D
  PROVE  KeepsStep(s2, buffer2, D2, Tail(q), st, S, src)
<1> DEFINE m == Latest(S)
           N == num_packets(m.size)
           c == Len(S)
<1>0. /\ q[1].type = "DT" /\ s.open /\ s.next = s.packets
      /\ data = [k \in 1 .. s.packets |-> data[k]] /\ data[s.next] = q[1].packet
      /\ \A p \in 1 .. s.next - 1 : data[p] = buffer[p]
  BY DEF LastStored
<1>1. /\ st.at = "sleep" /\ s.next = st.i + 1 /\ S # <<>>
      /\ q[1].packet = [src |-> src, call |-> c, seq |-> s.next] /\ st.i <= TimeoutTicks
  BY <1>0, PacketInStep
<1>2. /\ st.i \in Nat /\ TimeoutTicks \in Nat /\ N \in Nat
      /\ m = S[c] /\ c \in DOMAIN S /\ m.size > 8 /\ m.size \in Nat
  BY <1>1, LatestMessage, LimitsAssumption DEF Sending
<1>3. /\ s.pgn = m.pgn /\ s.size = m.size /\ s.packets = N
      /\ \A p \in 1 .. s.next - 1 : buffer[p] = [src |-> src, call |-> c, seq |-> p]
  BY <1>0 DEF KeepsStep, InStep
<1> HIDE DEF m, N, c
<1>4. \A k \in 1 .. s.packets : data[k] = [src |-> src, call |-> c, seq |-> k]
  <2>1. \A k \in 1 .. s.packets : k = s.next \/ k \in 1 .. s.next - 1
    BY <1>0, <1>2, <1>3
  <2> QED BY <1>0, <1>1, <1>3, <2>1
<1>5. CallOf(src, c, m) = [pgn |-> s.pgn, size |-> s.size, data |-> data]
  <2>1. PacketsOf(src, c, m) = [k \in 1 .. N |-> [src |-> src, call |-> c, seq |-> k]]
    BY <1>2 DEF PacketsOf, N
  <2>2. PacketsOf(src, c, m) = data
    BY <1>0, <1>3, <1>4, <2>1
  <2> QED BY <1>3, <2>2 DEF CallOf
<1>6. FitsTimeout(m)
  <2>1. N = st.i + 1
    BY <1>0, <1>1, <1>3
  <2>2. N <= TimeoutTicks + 1
    BY <1>1, <1>2, <2>1
  <2> QED BY <2>2 DEF FitsTimeout, N
<1>7. OnlyInTime(D2, S, src)
  <2>1. OnlyInTime(D, S, src)
    BY DEF KeepsStep
  <2> QED BY <1>2, <1>5, <1>6, <2>1 DEF OnlyInTime
<1>8. \A k \in DOMAIN S : InTime(S[k]) /\ k = Len(S) => CallOf(src, k, S[k]) \in D2
  <2> SUFFICES ASSUME InTime(S[c]) PROVE CallOf(src, c, S[c]) \in D2
    BY DEF c
  <2> QED BY <1>2, <1>3, <1>5 DEF InTime
<1>9. InStep(s2, buffer2, Tail(q), st, S, src) /\ D \subseteq D2
  BY DEF InStep
<1> QED BY <1>0, <1>7, <1>8, <1>9, PacketNoSingle, FrameProcessed

-----------------------------------------------------------------------------
(* Every step, as long as src is undisturbed: the senders and time.          *)

\* What disturbs src is never undone.
LEMMA DisturbedForGood ==
  ASSUME IInv, [Next]_vars, NEW src \in Nodes, Undisturbed(src)'
  PROVE  Undisturbed(src) /\ failures = 0 /\ failures' = 0
<1>1. failures \in Nat /\ sent \in [Nodes -> Seq(Message)]
  BY DEF IInv, TypeOK, HistoriesOK
<1>2. failures' = 0 /\ ~delayed' /\ \A n \in others(src) : n \in Nodes /\ sent'[n] = <<>>
  BY DEF Undisturbed, others
<1>3. ASSUME failures' \in {failures, failures + 1}, delayed' = delayed,
             UNCHANGED sent \/ \E n \in Nodes, m \in Message :
                                  sent' = [sent EXCEPT ![n] = Append(@, m)]
      PROVE  Undisturbed(src) /\ failures = 0
  <2>1. failures = 0
    BY <1>1, <1>2, <1>3
  <2>2. \A n \in others(src) : sent[n] = <<>>
    <3>1. CASE UNCHANGED sent
      BY <1>2, <3>1
    <3>2. ASSUME NEW n \in Nodes, NEW m \in Message, sent' = [sent EXCEPT ![n] = Append(@, m)]
          PROVE  \A x \in others(src) : sent[x] = <<>>
      <4>1. sent'[n] = Append(sent[n], m) /\ \A x \in Nodes : x # n => sent'[x] = sent[x]
        BY <1>1, <3>2
      <4>2. Append(sent[n], m) # <<>>
        BY <1>1, AppendFacts
      <4> QED BY <1>2, <4>1, <4>2
    <3> QED BY <1>3, <3>1, <3>2
  <2> QED BY <1>2, <1>3, <2>1, <2>2 DEF Undisturbed
<1>4. ASSUME NEW n \in Nodes, NEW m \in Messages[n], SendSingle(n, m) \/ SendRts(n, m)
      PROVE  Undisturbed(src) /\ failures = 0
  <2>1. m \in Message
    BY MessageOf
  <2>2. /\ failures' \in {failures, failures + 1} /\ delayed' = delayed
        /\ sent' = [sent EXCEPT ![n] = Append(@, m)]
    BY <1>4 DEF SendSingle, SendRts, CanSendError, receiverVars
  <2> QED BY <1>3, <2>1, <2>2
<1>5. ASSUME NEW n \in Nodes, SendData(n) PROVE Undisturbed(src) /\ failures = 0
  <2>1. failures' \in {failures, failures + 1} /\ delayed' = delayed /\ UNCHANGED sent
    BY <1>5 DEF SendData, CanSendError, receiverVars
  <2> QED BY <1>3, <2>1
<1>6. ASSUME NEW n \in Nodes, j1939_process_message(n) PROVE Undisturbed(src) /\ failures = 0
  <2>1. /\ failures' = failures \/ failures' = failures + 1
        /\ delayed' = delayed /\ UNCHANGED sent
    BY <1>6 DEF j1939_process_message, RejectBusy, RejectSize, OpenSession, IgnoreData,
           TimedOut, SequenceError, AcceptData, ReceiveEnd, ReceiveCts, ReceiveSingle,
           AbortSession, Reply, NoReply, senderVars
  <2> QED BY <1>3, <2>1
<1>7. CASE Tick
  <2>1. failures' = failures /\ sent' = sent /\ (delayed => delayed')
    BY <1>7 DEF Tick
  <2> QED BY <1>2, <2>1 DEF Undisturbed
<1>8. CASE Quiet \/ UNCHANGED vars
  <2>1. failures' = failures /\ sent' = sent /\ delayed' = delayed
    BY <1>8 DEF Quiet, vars
  <2> QED BY <1>2, <2>1 DEF Undisturbed
<1> QED BY <1>2, <1>4, <1>5, <1>6, <1>7, <1>8 DEF Next, j1939_send_tp_data

\* Where src is with its call.
LEMMA SendingFacts ==
  ASSUME IInv, NEW src \in Nodes
  PROVE  /\ sender[src] \in Senders /\ sender[src].i \in Nat
         /\ sent[src] \in Seq(Message) /\ Sending(sender[src], sent[src])
<1>1. sender[src] \in Senders /\ sent[src] \in Seq(Message)
  BY PairTypes
<1>2. sender[src].i \in 0 .. UINT8_MAX - 1
  BY <1>1 DEF Senders
<1>3. sender[src].i \in Nat
  BY <1>2, Maxima
<1>4. SenderOK(src)
  BY DEF IInv
<1> QED BY <1>1, <1>3, <1>4 DEF SenderOK, Sending, Latest

\* src sends frame f: the others find it behind what is on the way.
LEMMA SenderPrompt ==
  ASSUME IInv, NEW src \in Nodes, AllFollow(src), NEW f \in SoundFrames, Broadcast(src, f),
         UNCHANGED <<session, tp_buffer, delivered>>,
         \A x \in listeners(src) :
            KeepsStep(session[x], tp_buffer[x], delivered[x], Append(inbox[x], f),
                      sender'[src], sent'[src], src)
  PROVE  AllFollow(src)'
<1>1. inbox'[src] = inbox[src] /\ \A x \in listeners(src) : inbox'[x] = Append(inbox[x], f)
  BY BroadcastFacts
<1>2. \A x \in listeners(src) : Follows(x, src)'
  BY <1>1 DEF Follows
<1> QED BY <1>1, <1>2, ListeningAssumption DEF AllFollow, listeners

LEMMA SendSinglePrompt ==
  ASSUME IInv, NEW src \in Nodes, AllFollow(src), failures' = 0,
         NEW m \in Messages[src], SendSingle(src, m)
  PROVE  AllFollow(src)'
<1> DEFINE p == [src |-> src, call |-> Len(sent[src]) + 1, seq |-> 1]
           f == Single(m, p)
<1>1. /\ sender[src] = Idle /\ m.size <= 8 /\ Broadcast(src, f)
      /\ UNCHANGED <<sender, session, tp_buffer, delivered>>
      /\ sent' = [sent EXCEPT ![src] = Append(@, m)]
  <2>1. failures \in Nat
    BY DEF IInv, TypeOK
  <2> QED BY <2>1 DEF SendSingle, CanSendError, receiverVars
<1>2. m \in Message /\ sent[src] \in Seq(Message) /\ sender[src].at = "idle"
  BY <1>1, MessageOf, SendingFacts DEF Idle
<1>3. sent'[src] = Append(sent[src], m)
  BY <1>1 DEF IInv, HistoriesOK
<1>4. p \in Packet /\ p.seq = 1
  BY SentFacts DEF Packet, UINT8_MAX
<1> HIDE DEF p
<1>5. f \in SoundFrames
  BY <1>2, <1>4, SingleFrame
<1> HIDE DEF f
<1>6. f = Single(m, [src |-> src, call |-> Len(sent[src]) + 1, seq |-> 1])
  BY DEF f, p
<1>7. ASSUME NEW x \in listeners(src)
      PROVE  KeepsStep(session[x], tp_buffer[x], delivered[x], Append(inbox[x], f),
                       sender'[src], sent'[src], src)
  <2>1. inbox[x] \in Seq(SoundFrames) /\ Follows(x, src)
    BY PairTypes, ListeningAssumption DEF listeners, AllFollow
  <2>2. KeepsStep(session[x], tp_buffer[x], delivered[x], Append(inbox[x], f),
                  sender[src], Append(sent[src], m), src)
    BY <1>1, <1>2, <1>5, <1>6, <2>1, SingleBegins DEF Follows
  <2> QED BY <1>1, <1>3, <2>2
<1> QED BY <1>1, <1>5, <1>7, SenderPrompt

LEMMA SendRtsPrompt ==
  ASSUME BufferSize <= 7 * UINT8_MAX, IInv, NEW src \in Nodes, AllFollow(src), failures' = 0,
         NEW m \in Messages[src], SendRts(src, m)
  PROVE  AllFollow(src)'
<1> DEFINE st2 == sender'[src]
<1>1. /\ sender[src] = Idle /\ m.size > 8 /\ Broadcast(src, RTS(m))
      /\ UNCHANGED <<session, tp_buffer, delivered>>
      /\ sent' = [sent EXCEPT ![src] = Append(@, m)]
      /\ IF num_packets(m.size) = 0 THEN UNCHANGED sender
         ELSE sender' = [sender EXCEPT ![src] = [at |-> "data", i |-> 0]]
  <2>1. failures \in Nat
    BY DEF IInv, TypeOK
  <2> QED BY <2>1 DEF SendRts, CanSendError, receiverVars
<1>2. /\ m \in Message /\ sent[src] \in Seq(Message) /\ sender[src].at = "idle"
      /\ RTS(m) \in SoundFrames
  BY <1>1, MessageOf, SendingFacts, RtsFrame DEF Idle
<1>3. sent'[src] = Append(sent[src], m)
  BY <1>1 DEF IInv, HistoriesOK
<1>4. IF num_packets(m.size) = 0 THEN st2 = sender[src] ELSE st2 = [at |-> "data", i |-> 0]
  BY <1>1 DEF IInv, TypeOK
<1> HIDE DEF st2
<1>5. ASSUME NEW x \in listeners(src)
      PROVE  KeepsStep(session[x], tp_buffer[x], delivered[x], Append(inbox[x], RTS(m)),
                       st2, sent'[src], src)
  <2>1. inbox[x] \in Seq(SoundFrames) /\ Follows(x, src)
    BY PairTypes, ListeningAssumption DEF listeners, AllFollow
  <2>2. KeepsStep(session[x], tp_buffer[x], delivered[x], Append(inbox[x], RTS(m)),
                  st2, Append(sent[src], m), src)
    BY <1>1, <1>2, <1>4, <2>1, RtsBegins DEF Follows
  <2> QED BY <1>3, <2>2
<1> QED BY <1>1, <1>2, <1>5, SenderPrompt DEF st2

LEMMA SendDataPrompt ==
  ASSUME IInv, NEW src \in Nodes, AllFollow(src), failures' = 0, SendData(src)
  PROVE  AllFollow(src)'
<1> DEFINE p == [src |-> src, call |-> Len(sent[src]), seq |-> sender[src].i + 1]
           f == DT(p)
<1>1. /\ sender[src].at = "data" /\ Broadcast(src, f)
      /\ UNCHANGED <<sent, session, tp_buffer, delivered>>
      /\ sender' = [sender EXCEPT ![src].at = "sleep"]
  <2>1. failures \in Nat
    BY DEF IInv, TypeOK
  <2> QED BY <2>1 DEF SendData, CanSendError, receiverVars
<1>2. /\ sender[src] \in Senders /\ sent[src] \in Seq(Message)
      /\ sender[src].i \in Nat /\ sender[src].i + 1 \in 0 .. UINT8_MAX
  <2>1. sender[src].i \in 0 .. UINT8_MAX - 1
    BY SendingFacts DEF Senders
  <2> QED BY <2>1, SendingFacts, Maxima
<1>3. sender'[src].at = "sleep" /\ sender'[src].i = sender[src].i
  BY <1>1 DEF IInv, TypeOK
<1>4. p \in Packet /\ p.seq >= 1
  <2>1. Len(sent[src]) \in Nat
    BY SentFacts
  <2>2. p \in Packet
    BY <1>2, <2>1 DEF Packet
  <2> QED BY <1>2, <2>2
<1> HIDE DEF p
<1>5. f \in SoundFrames
  BY <1>4, DataFrame
<1> HIDE DEF f
<1>6. f = DT([src |-> src, call |-> Len(sent[src]), seq |-> sender[src].i + 1])
  BY DEF f, p
<1>7. ASSUME NEW x \in listeners(src)
      PROVE  KeepsStep(session[x], tp_buffer[x], delivered[x], Append(inbox[x], f),
                       sender'[src], sent[src], src)
  <2>1. inbox[x] \in Seq(SoundFrames) /\ Follows(x, src)
    BY PairTypes, ListeningAssumption DEF listeners, AllFollow
  <2> DEFINE st2 == sender'[src]
  <2>2. st2.at = "sleep" /\ st2.i = sender[src].i
    BY <1>3
  <2> HIDE DEF st2
  <2>3. KeepsStep(session[x], tp_buffer[x], delivered[x], Append(inbox[x], f),
                  st2, sent[src], src)
    BY <1>1, <1>2, <1>5, <1>6, <2>1, <2>2, PacketSent DEF Follows
  <2> QED BY <2>3 DEF st2
<1> QED BY <1>1, <1>5, <1>7, SenderPrompt

LEMMA TickPrompt ==
  ASSUME IInv, NEW src \in Nodes, AllFollow(src), Tick, ~delayed'
  PROVE  AllFollow(src)'
<1>1. /\ sender' = [n \in Nodes |-> Woken(n)]
      /\ session' = [n \in Nodes |-> IF session[n].open
                         THEN [session[n] EXCEPT !.age = Smaller(@ + 1, TimeoutTicks + 1)]
                         ELSE session[n]]
      /\ UNCHANGED <<inbox, tp_buffer, sent, delivered>>
      /\ \A n \in Nodes : inbox[n] = <<>> /\ sender[n].at # "data"
  BY DEF Tick
<1>2. sender[src] \in Senders /\ sent[src] \in Seq(Message)
  BY SendingFacts
<1>3. \/ sender[src].at = "idle" /\ sender'[src] = sender[src]
      \/ /\ sender[src].at = "sleep" /\ sender'[src].at = "idle"
         /\ sender[src].i + 1 >= num_packets(Latest(sent[src]).size)
      \/ /\ sender[src].at = "sleep" /\ sender'[src].at = "data"
         /\ ~(sender[src].i + 1 >= num_packets(Latest(sent[src]).size))
         /\ sender'[src].i = sender[src].i + 1
  <2>1. sender'[src] = Woken(src)
    BY <1>1
  <2>2. sender[src].at \in {"idle", "data", "sleep"} /\ sender[src].at # "data"
    BY <1>1, <1>2 DEF Senders
  <2> QED BY <2>1, <2>2 DEF Woken, LastPacket, Idle, Latest
<1>4. ASSUME NEW x \in listeners(src) PROVE Follows(x, src)'
  <2>1. x \in Nodes /\ inbox[x] = <<>> /\ Follows(x, src)
    BY <1>1, ListeningAssumption DEF listeners, AllFollow
  <2>2. session[x] \in Sessions /\ (session[x].open => session[x].next <= session[x].packets)
    BY <2>1, PairTypes DEF IInv, SessionOK, SessionFits
  <2>3. session'[x] = IF session[x].open
                      THEN [session[x] EXCEPT !.age = Smaller(@ + 1, TimeoutTicks + 1)]
                      ELSE session[x]
    BY <1>1, <2>1
  <2>4. KeepsStep(session[x], tp_buffer[x], delivered[x], <<>>, sender[src], sent[src], src)
    BY <2>1 DEF Follows
  <2> DEFINE s2 == session'[x]
             st2 == sender'[src]
  <2>5. KeepsStep(s2, tp_buffer[x], delivered[x], <<>>, st2, sent[src], src)
    <3>1. sender[src].at # "data"
      BY <1>1
    <3>2. s2 = IF session[x].open
               THEN [session[x] EXCEPT !.age = Smaller(@ + 1, TimeoutTicks + 1)]
               ELSE session[x]
      BY <2>3
    <3>3. \/ sender[src].at = "idle" /\ st2 = sender[src]
          \/ /\ sender[src].at = "sleep" /\ st2.at = "idle"
             /\ sender[src].i + 1 >= num_packets(Latest(sent[src]).size)
          \/ /\ sender[src].at = "sleep" /\ st2.at = "data"
             /\ ~(sender[src].i + 1 >= num_packets(Latest(sent[src]).size))
             /\ st2.i = sender[src].i + 1
      BY <1>3
    <3> HIDE DEF s2, st2
    <3> QED BY <1>2, <2>2, <2>4, <3>1, <3>2, <3>3, TimePasses
  <2> QED BY <1>1, <2>1, <2>5 DEF Follows
<1>5. \A k \in DOMAIN inbox'[src] : Answer(inbox'[src][k])
  BY <1>1 DEF AllFollow
<1> QED BY <1>4, <1>5, ListeningAssumption DEF AllFollow, listeners

-----------------------------------------------------------------------------
(* Every step, as long as src is undisturbed: the receivers.                 *)

\* What a node that processes a frame answers does not harm the others.
AnswersHarmless(src, y) ==
    \/ NoReply(y)
    \/ \E e \in Replies :
          /\ Reply(y, e)
          /\ Closing(e) => \A x \in listeners(src) : x # y =>
                Harmless(session[x], inbox[x], Len(inbox[x]) + 1, sender[src], sent[src])

LEMMA ReceiverPrompt ==
  ASSUME IInv, failures = 0, failures' = 0, NEW src \in Nodes, AllFollow(src),
         NEW y \in listeners(src), inbox[y] # <<>>, UNCHANGED <<sender, sent>>,
         \A x \in Nodes : x # y =>
            session'[x] = session[x] /\ tp_buffer'[x] = tp_buffer[x]
            /\ delivered'[x] = delivered[x],
         AnswersHarmless(src, y),
         KeepsStep(session'[y], tp_buffer'[y], delivered'[y], Tail(inbox[y]),
                   sender[src], sent[src], src)
  PROVE  AllFollow(src)'
<1>1. y \in Nodes /\ y # src /\ inbox \in [Nodes -> Seq(SoundFrames)]
  BY ListeningAssumption DEF listeners, IInv, FramesOK
<1>2. PICK e \in Replies :
         /\ inbox'[y] = Tail(inbox[y])
         /\ \A x \in Nodes : x # y => inbox'[x] = inbox[x] \/ inbox'[x] = Append(inbox[x], e)
         /\ \A x \in listeners(src) : x # y /\ inbox'[x] # inbox[x] =>
               (Closing(e) => Harmless(session[x], inbox[x], Len(inbox[x]) + 1,
                                       sender[src], sent[src]))
  <2>1. CASE NoReply(y)
    <3>1. inbox'[y] = Tail(inbox[y]) /\ \A x \in Nodes : x # y => inbox'[x] = inbox[x]
      BY <1>1, <2>1 DEF NoReply, Consumed
    <3> QED BY <3>1, RepliesThereAre, ListeningAssumption DEF listeners
  <2>2. ASSUME NEW e \in Replies, Reply(y, e),
               Closing(e) => \A x \in listeners(src) : x # y =>
                  Harmless(session[x], inbox[x], Len(inbox[x]) + 1, sender[src], sent[src])
        PROVE  /\ inbox'[y] = Tail(inbox[y])
               /\ \A x \in Nodes : x # y => inbox'[x] = inbox[x] \/ inbox'[x] = Append(inbox[x], e)
    BY <1>1, <2>2 DEF Reply
  <2> QED BY <2>1, <2>2 DEF AnswersHarmless
<1>3. e \in SoundFrames /\ Answer(e)
  BY DEF Replies, Answer
<1>4. ASSUME NEW x \in listeners(src) PROVE Follows(x, src)'
  <2>1. x \in Nodes /\ Follows(x, src)
    BY ListeningAssumption DEF listeners, AllFollow
  <2>2. CASE x = y
    BY <1>2, <2>2 DEF Follows
  <2>3. CASE x # y
    <3>1. KeepsStep(session[x], tp_buffer[x], delivered[x], inbox'[x],
                    sender[src], sent[src], src)
      <4>1. CASE inbox'[x] = inbox[x]
        BY <2>1, <4>1 DEF Follows
      <4>2. CASE inbox'[x] = Append(inbox[x], e) /\ inbox'[x] # inbox[x]
        <5>1. Closing(e) => Harmless(session[x], inbox[x], Len(inbox[x]) + 1,
                                     sender[src], sent[src])
          BY <1>2, <2>3, <4>2
        <5>2. inbox[x] \in Seq(SoundFrames)
          BY <1>1, <2>1
        <5> QED BY <1>3, <2>1, <4>2, <5>1, <5>2, AnswerArrives DEF Follows
      <4> QED BY <1>2, <2>1, <2>3, <4>1, <4>2
    <3> QED BY <2>1, <2>3, <3>1 DEF Follows
  <2> QED BY <2>2, <2>3
<1>5. ASSUME NEW k \in DOMAIN inbox'[src] PROVE Answer(inbox'[src][k])
  <2>1. \A j \in DOMAIN inbox[src] : Answer(inbox[src][j])
    BY DEF AllFollow
  <2>2. CASE inbox'[src] = inbox[src]
    BY <2>1, <2>2
  <2>3. CASE inbox'[src] = Append(inbox[src], e)
    <3>1. (k \in DOMAIN inbox[src] /\ inbox'[src][k] = inbox[src][k]) \/ inbox'[src][k] = e
      BY <1>1, <1>3, <2>3, AppendFacts
    <3> QED BY <1>3, <2>1, <3>1
  <2> QED BY <1>1, <1>2, <2>2, <2>3
<1> QED BY <1>4, <1>5, ListeningAssumption DEF AllFollow, listeners

\* src itself gets nothing but answers, and none of what it does with them can
\* be seen by the others.
LEMMA OwnInbox ==
  ASSUME IInv, NEW src \in Nodes, AllFollow(src), j1939_process_message(src)
  PROVE  AllFollow(src)'
<1>1. inbox[src] # <<>>
  BY DEF j1939_process_message, RejectBusy, RejectSize, OpenSession, IgnoreData, TimedOut,
         SequenceError, AcceptData, ReceiveEnd, ReceiveCts, ReceiveSingle, Receives
<1>2. /\ Answer(Head(inbox[src])) /\ inbox \in [Nodes -> Seq(SoundFrames)]
      /\ \A k \in DOMAIN Tail(inbox[src]) : Answer(Tail(inbox[src])[k])
  <2>1. inbox \in [Nodes -> Seq(SoundFrames)]
    BY DEF IInv, FramesOK
  <2> QED BY <1>1, <2>1, TailOrder DEF AllFollow
<1>3. ReceiveEnd(src) \/ ReceiveCts(src)
  BY <1>2 DEF j1939_process_message, RejectBusy, RejectSize, OpenSession, IgnoreData,
         TimedOut, SequenceError, AcceptData, ReceiveSingle, Receives, Answer
<1>4. /\ inbox' = Consumed(src) /\ UNCHANGED <<tp_buffer, delivered, sender, sent>>
      /\ CloseSession(src) \/ UNCHANGED session
  BY <1>3 DEF ReceiveEnd, ReceiveCts, NoReply, senderVars
<1>5. \A x \in listeners(src) : inbox'[x] = inbox[x] /\ session'[x] = session[x]
  BY <1>2, <1>4, ListeningAssumption DEF Consumed, CloseSession, listeners, IInv, TypeOK
<1>6. \A x \in listeners(src) : Follows(x, src)'
  BY <1>4, <1>5 DEF AllFollow, Follows
<1>7. inbox'[src] = Tail(inbox[src])
  BY <1>2, <1>4 DEF Consumed
<1> QED BY <1>2, <1>6, <1>7, ListeningAssumption DEF AllFollow, listeners

\* A train is refused by all or by none.
LEMMA RefusalHarmless ==
  ASSUME TwoNodesOnly \/ ~EmptyTrains, IInv, NEW src \in Nodes, AllFollow(src),
         NEW y \in listeners(src), inbox[y] # <<>>, inbox[y][1].type = "RTS",
         ~ValidRts(inbox[y][1]), NEW x \in listeners(src), x # y
  PROVE  Harmless(session[x], inbox[x], Len(inbox[x]) + 1, sender[src], sent[src])
<1> DEFINE f == inbox[y][1]
           S == sent[src]
<1>1. 1 \in DOMAIN inbox[y] /\ inbox[y] \in Seq(SoundFrames)
  BY PairTypes, TailOrder, ListeningAssumption DEF listeners
<1>2. /\ \E c \in DOMAIN S : f = RTS(S[c])
      /\ f.packets # 0 => sender[src].at # "idle" /\ f = RTS(Latest(S))
  BY <1>1 DEF AllFollow, Follows, KeepsStep, OneRts
<1>3. ~TwoNodesOnly
  BY ListeningAssumption DEF TwoNodesOnly, listeners
<1>4. f.packets # 0
  <2>1. PICK c \in DOMAIN S : f = RTS(S[c])
    BY <1>2
  <2>2. S[c] \in Messages[src]
    BY SentFacts
  <2> QED BY <1>3, <2>1, <2>2, RtsFields DEF EmptyTrains
<1> QED BY <1>2, <1>4 DEF Harmless

\* A train that takes too long does so for all.
LEMMA ExpiryHarmless ==
  ASSUME IInv, NEW src \in Nodes, AllFollow(src), sender[src].at = "sleep",
         sender[src].i > TimeoutTicks, NEW x \in listeners(src)
  PROVE  Harmless(session[x], inbox[x], Len(inbox[x]) + 1, sender[src], sent[src])
<1> DEFINE s == session[x]
           q == inbox[x]
<1>1. sender[src].i \in Nat /\ TimeoutTicks \in Nat
  BY SendingFacts, LimitsAssumption
<1>2. q \in Seq(SoundFrames) /\ \A j \in DOMAIN q : j < Len(q) + 1
  BY PairTypes, ListeningAssumption DEF listeners
<1>3. InStep(s, tp_buffer[x], q, sender[src], sent[src], src)
  BY DEF AllFollow, Follows, KeepsStep
<1> HIDE DEF s, q
<1>4. s.open => \E j \in DOMAIN q : j < Len(q) + 1 /\ q[j].type = "DT"
  BY <1>1, <1>2, <1>3 DEF InStep, NextInStep
<1>5. Harmless(s, q, Len(q) + 1, sender[src], sent[src])
  BY <1>4 DEF Harmless
<1> QED BY <1>5 DEF s, q

\* The last packet is the last for all.
LEMMA EndHarmless ==
  ASSUME IInv, NEW src \in Nodes, AllFollow(src), sender[src].at = "sleep",
         sender[src].i + 1 = num_packets(Latest(sent[src]).size), NEW x \in listeners(src)
  PROVE  Harmless(session[x], inbox[x], Len(inbox[x]) + 1, sender[src], sent[src])
<1> DEFINE s == session[x]
           q == inbox[x]
<1>1. sender[src].i \in Nat
  BY SendingFacts
<1>2. q \in Seq(SoundFrames) /\ \A j \in DOMAIN q : j < Len(q) + 1
  BY PairTypes, ListeningAssumption DEF listeners
<1>3. InStep(s, tp_buffer[x], q, sender[src], sent[src], src)
  BY DEF AllFollow, Follows, KeepsStep
<1>4. s.open => s.next <= s.packets
  BY ListeningAssumption DEF IInv, SessionOK, SessionFits, listeners
<1> HIDE DEF s, q
<1>5. s.open => \E j \in DOMAIN q : j < Len(q) + 1 /\ q[j].type = "DT"
  <2> SUFFICES ASSUME s.open, \A j \in DOMAIN q : q[j].type # "DT" PROVE FALSE
    BY <1>2
  <2>1. s.next = sender[src].i + 2 /\ s.packets = sender[src].i + 1
    BY <1>3 DEF InStep, NextInStep
  <2> QED BY <1>1, <1>4, <2>1
<1>6. Harmless(s, q, Len(q) + 1, sender[src], sent[src])
  BY <1>5 DEF Harmless
<1> QED BY <1>6 DEF s, q

\* What a node that follows src processes, and what src is doing meanwhile.
LEMMA FollowerFacts ==
  ASSUME IInv, NEW src \in Nodes, AllFollow(src), NEW y \in listeners(src), inbox[y] # <<>>
  PROVE  /\ y \in Nodes /\ y # src /\ inbox[y] \in Seq(SoundFrames)
         /\ Head(inbox[y]) = inbox[y][1] /\ 1 \in DOMAIN inbox[y]
         /\ inbox[y][1] \in SoundFrames
         /\ KeepsStep(session[y], tp_buffer[y], delivered[y], inbox[y],
                      sender[src], sent[src], src)
         /\ sender[src] \in Senders /\ sender[src].i \in Nat /\ sent[src] \in Seq(Message)
         /\ Sending(sender[src], sent[src])
         /\ session \in [Nodes -> Sessions] /\ delivered \in [Nodes -> SUBSET Calls]
<1>1. y \in Nodes /\ y # src /\ inbox[y] \in Seq(SoundFrames)
  BY PairTypes, ListeningAssumption DEF listeners
<1>2. session \in [Nodes -> Sessions] /\ delivered \in [Nodes -> SUBSET Calls]
  BY DEF IInv, TypeOK, HistoriesOK
<1> QED BY <1>1, <1>2, TailOrder, SendingFacts DEF AllFollow, Follows

\* A frame that leaves the session of y as it is.
LEMMA LeftPrompt ==
  ASSUME BufferSize <= 7 * UINT8_MAX, IInv, failures = 0, failures' = 0,
         NEW src \in Nodes, AllFollow(src), NEW y \in listeners(src), inbox[y] # <<>>,
         inbox[y][1].type # "PGN", inbox[y][1].type = "DT" => ~session[y].open,
         inbox[y][1].type = "RTS" => ~ValidRts(inbox[y][1]),
         AnswersHarmless(src, y),
         UNCHANGED <<session, tp_buffer, delivered, senderVars>>
  PROVE  AllFollow(src)'
<1>1. \A c : inbox[y][1] # SingleOf(sent[src], c, src)
  BY SingleFields DEF SingleOf
<1>2. OnlyInTime(delivered[y], sent[src], src)
  BY FollowerFacts DEF KeepsStep
<1>3. KeepsStep(session[y], tp_buffer[y], delivered[y], Tail(inbox[y]),
                sender[src], sent[src], src)
  BY <1>1, <1>2, FollowerFacts, SessionLeft
<1> QED BY <1>3, ReceiverPrompt DEF senderVars

LEMMA RejectPrompt ==
  ASSUME BufferSize <= 7 * UINT8_MAX, TwoNodesOnly \/ ~EmptyTrains,
         IInv, failures = 0, failures' = 0,
         NEW src \in Nodes, AllFollow(src), NEW y \in listeners(src),
         RejectBusy(y) \/ RejectSize(y)
  PROVE  AllFollow(src)'
<1>1. inbox[y] # <<>> /\ Head(inbox[y]).type = "RTS"
  BY DEF RejectBusy, RejectSize, Receives
<1>2. ~session[y].open
  BY <1>1, FollowerFacts DEF KeepsStep, InStep
<1>3. /\ ~ValidRts(Head(inbox[y])) /\ Reply(y, Abort(2))
      /\ UNCHANGED <<session, tp_buffer, delivered, senderVars>>
  BY <1>2 DEF RejectBusy, RejectSize
<1>4. inbox[y][1].type = "RTS" /\ ~ValidRts(inbox[y][1])
  BY <1>1, <1>3, FollowerFacts
<1>5. AnswersHarmless(src, y)
  BY <1>1, <1>3, <1>4, RefusalHarmless, RepliesThereAre DEF AnswersHarmless
<1> QED BY <1>1, <1>3, <1>4, <1>5, LeftPrompt

LEMMA OpenSessionPrompt ==
  ASSUME IInv, failures = 0, failures' = 0,
         NEW src \in Nodes, AllFollow(src), NEW y \in listeners(src), OpenSession(y)
  PROVE  AllFollow(src)'
<1> DEFINE f == Head(inbox[y])
           s == [open |-> TRUE, pgn |-> f.pgn, size |-> f.size,
                 packets |-> f.packets, next |-> 1, age |-> 0]
<1>1. /\ inbox[y] # <<>> /\ f.type = "RTS" /\ Reply(y, CTS) /\ ValidRts(f)
      /\ ~session[y].open /\ session' = [session EXCEPT ![y] = s]
      /\ UNCHANGED <<tp_buffer, delivered, sender, sent>>
  BY DEF OpenSession, Receives, senderVars
<1>2. /\ s.open /\ s.pgn = f.pgn /\ s.size = f.size /\ s.packets = f.packets
      /\ s.next = 1 /\ s.age = 0
  OBVIOUS
<1>3. f = inbox[y][1]
  BY <1>1, FollowerFacts
<1> HIDE DEF f, s
<1>4. session'[y] = s /\ \A x \in Nodes : x # y => session'[x] = session[x]
  BY <1>1, FollowerFacts
<1>5. KeepsStep(s, tp_buffer[y], delivered[y], Tail(inbox[y]), sender[src], sent[src], src)
  BY <1>1, <1>2, <1>3, FollowerFacts, SessionStarts
<1>6. AnswersHarmless(src, y)
  <2>1. ~Closing(CTS)
    BY DEF Closing, CTS
  <2> QED BY <1>1, <2>1, RepliesThereAre DEF AnswersHarmless
<1> QED BY <1>1, <1>4, <1>5, <1>6, ReceiverPrompt

LEMMA ClosedSession ==
  ASSUME IInv, NEW y \in Nodes, CloseSession(y)
  PROVE  ~session'[y].open /\ \A x \in Nodes : x # y => session'[x] = session[x]
<1>1. session \in [Nodes -> Sessions]
  BY DEF IInv, TypeOK
<1> QED BY <1>1 DEF CloseSession, Closed

LEMMA ExpiredPrompt ==
  ASSUME IInv, failures = 0, failures' = 0,
         NEW src \in Nodes, AllFollow(src), NEW y \in listeners(src),
         TimedOut(y) \/ SequenceError(y)
  PROVE  AllFollow(src)'
<1>1. inbox[y] # <<>> /\ Head(inbox[y]).type = "DT" /\ session[y].open
  BY DEF TimedOut, SequenceError, Receives
<1>2. inbox[y][1].type = "DT"
  BY <1>1, FollowerFacts
<1>3. /\ sender[src].at = "sleep" /\ inbox[y][1].packet.seq = session[y].next
      /\ session[y].age > TimeoutTicks => sender[src].i > TimeoutTicks
  <2>1. /\ sender[src].at = "sleep"
        /\ inbox[y][1].packet = [src |-> src, call |-> Len(sent[src]), seq |-> session[y].next]
        /\ session[y].age > TimeoutTicks => sender[src].i > TimeoutTicks
    BY <1>1, <1>2, FollowerFacts, PacketInStep
  <2> QED BY <2>1
<1>4. /\ session[y].age > TimeoutTicks /\ Reply(y, Abort(3)) /\ CloseSession(y)
      /\ UNCHANGED <<tp_buffer, delivered, sender, sent>>
  <2>1. ~SequenceError(y)
    BY <1>1, <1>3, FollowerFacts DEF SequenceError
  <2> QED BY <2>1 DEF TimedOut, AbortSession, Expired, senderVars
<1>5. ~session'[y].open /\ \A x \in Nodes : x # y => session'[x] = session[x]
  BY <1>4, ClosedSession, ListeningAssumption DEF listeners
<1>6. KeepsStep(session'[y], tp_buffer[y], delivered[y], Tail(inbox[y]),
                sender[src], sent[src], src)
  BY <1>1, <1>2, <1>4, <1>5, FollowerFacts, SessionExpires
<1>7. AnswersHarmless(src, y)
  BY <1>3, <1>4, ExpiryHarmless, RepliesThereAre DEF AnswersHarmless
<1> QED BY <1>1, <1>4, <1>5, <1>6, <1>7, ReceiverPrompt

LEMMA ReceiveEndPrompt ==
  ASSUME BufferSize <= 7 * UINT8_MAX, IInv, failures = 0, failures' = 0,
         NEW src \in Nodes, AllFollow(src), NEW y \in listeners(src), ReceiveEnd(y)
  PROVE  AllFollow(src)'
<1>1. /\ inbox[y] # <<>> /\ Closing(Head(inbox[y])) /\ NoReply(y) /\ CloseSession(y)
      /\ UNCHANGED <<tp_buffer, delivered, sender, sent>>
  BY DEF ReceiveEnd, Receives, Closing, senderVars
<1>2. Closing(inbox[y][1])
  BY <1>1, FollowerFacts
<1>3. ~session'[y].open /\ \A x \in Nodes : x # y => session'[x] = session[x]
  BY <1>1, ClosedSession, ListeningAssumption DEF listeners
<1>4. KeepsStep(session'[y], tp_buffer[y], delivered[y], Tail(inbox[y]),
                sender[src], sent[src], src)
  BY <1>1, <1>2, <1>3, FollowerFacts, ClosingSeen
<1> QED BY <1>1, <1>3, <1>4, ReceiverPrompt DEF AnswersHarmless

LEMMA ReceiveSinglePrompt ==
  ASSUME BufferSize <= 7 * UINT8_MAX, IInv, failures = 0, failures' = 0,
         NEW src \in Nodes, AllFollow(src), NEW y \in listeners(src), ReceiveSingle(y)
  PROVE  AllFollow(src)'
<1> DEFINE f == Head(inbox[y])
           S == sent[src]
           call == [pgn |-> f.pgn, size |-> f.size, data |-> <<f.packet>>]
<1>1. /\ inbox[y] # <<>> /\ f.type = "PGN" /\ NoReply(y)
      /\ Deliver(y, f.pgn, f.size, <<f.packet>>)
      /\ UNCHANGED <<session, tp_buffer, sender, sent>>
  BY DEF ReceiveSingle, Receives, senderVars
<1>2. f = inbox[y][1] /\ 1 \in DOMAIN inbox[y] /\ S \in Seq(Message) /\ y \in Nodes
  BY <1>1, FollowerFacts
<1>3. OwnSingles(inbox[y], S, src) /\ OnlyInTime(delivered[y], S, src)
  BY <1>1, FollowerFacts DEF KeepsStep
<1> HIDE DEF f, S
<1>4. PICK c \in DOMAIN S : S[c].size <= 8 /\ f = SingleOf(S, c, src)
  BY <1>1, <1>2, <1>3 DEF OwnSingles
<1>5. call = CallOf(src, c, S[c])
  BY <1>2, <1>4, SingleCall
<1>6. \A k \in DOMAIN S : S[k].size <= 8 /\ f = SingleOf(S, k, src) =>
         call = CallOf(src, k, S[k]) /\ f.pgn = S[k].pgn
  <2>1. \A k \in DOMAIN S : S[k].size <= 8 /\ f = SingleOf(S, k, src) =>
           call = CallOf(src, k, S[k])
    BY <1>2, SingleCall
  <2>2. \A k \in DOMAIN S : f = SingleOf(S, k, src) => f.pgn = S[k].pgn
    BY SingleFields DEF SingleOf
  <2> QED BY <2>1, <2>2
<1>7. delivered' = IF f.pgn \in Handled
                   THEN [delivered EXCEPT ![y] = @ \cup {call}] ELSE delivered
  BY <1>1 DEF Deliver
<1> HIDE DEF call
<1>8. /\ \A x \in Nodes : x # y => delivered'[x] = delivered[x]
      /\ delivered'[y] = IF f.pgn \in Handled THEN delivered[y] \cup {call} ELSE delivered[y]
  BY <1>1, <1>7, FollowerFacts
<1>9. OnlyInTime(delivered'[y], S, src)
  BY <1>3, <1>4, <1>5, <1>8 DEF OnlyInTime
<1>10. \A k \in DOMAIN S : InTime(S[k]) /\ S[k].size <= 8 /\ f = SingleOf(S, k, src)
          => CallOf(src, k, S[k]) \in delivered'[y]
  BY <1>6, <1>8 DEF InTime
<1>11. KeepsStep(session[y], tp_buffer[y], delivered'[y], Tail(inbox[y]),
                 sender[src], sent[src], src)
  <2>1. delivered[y] \subseteq delivered'[y] /\ f.type # "DT" /\ f.type # "RTS"
    BY <1>1, <1>8
  <2> QED BY <1>1, <1>2, <1>9, <1>10, <2>1, FollowerFacts, SessionLeft DEF S
<1> QED BY <1>1, <1>8, <1>11, ReceiverPrompt DEF AnswersHarmless

LEMMA AcceptDataPrompt ==
  ASSUME TimeoutTicks + 1 < UINT8_MAX, IInv, failures = 0, failures' = 0,
         NEW src \in Nodes, AllFollow(src), NEW y \in listeners(src), AcceptData(y)
  PROVE  AllFollow(src)'
<1> DEFINE s == session[y]
           p == Head(inbox[y]).packet
           b == tp_buffer'[y]
           next == (s.next + 1) % (UINT8_MAX + 1)
           data == SubSeq(b, 1, s.packets)
<1>1. y \in Nodes
  BY ListeningAssumption DEF listeners
<1>2. /\ inbox[y] # <<>> /\ Head(inbox[y]).type = "DT" /\ s.open
      /\ p \in Packet /\ p.seq = s.next
      /\ s.next \in 1 .. UINT8_MAX /\ s.next <= s.packets /\ Accepted(y, p)
  BY <1>1, AcceptedCases
<1>3. tp_buffer' = [tp_buffer EXCEPT ![y] = Stored(@, p)] /\ UNCHANGED <<sender, sent>>
  BY <1>2 DEF Accepted, senderVars
<1>4. /\ b \in Seq(Packet \cup {NoPacket})
      /\ \A x \in Nodes : x # y => tp_buffer'[x] = tp_buffer[x]
      /\ Len(b) \in Nat /\ Len(b) >= s.next /\ b[s.next] = p
      /\ \A k \in 1 .. s.next - 1 : b[k] = tp_buffer[y][k]
  BY <1>1, <1>2, <1>3, StoredInPlace
<1>5. /\ session \in [Nodes -> Sessions] /\ s \in Sessions /\ s.packets \in 0 .. UINT8_MAX
      /\ delivered \in [Nodes -> SUBSET Calls]
  BY <1>1, <1>2, FollowerFacts, SessionFields
<1>6. inbox[y][1].type = "DT" /\ inbox[y][1].packet = p
  BY <1>2, FollowerFacts
<1>7. ~(s.age > TimeoutTicks)
  BY DEF AcceptData, Expired
<1>10. /\ inbox[y] \in Seq(SoundFrames) /\ sent[src] \in Seq(Message)
       /\ Sending(sender[src], sent[src])
       /\ KeepsStep(s, tp_buffer[y], delivered[y], inbox[y], sender[src], sent[src], src)
  BY <1>2, FollowerFacts
<1>11. /\ sender[src].at = "sleep" /\ s.next = sender[src].i + 1
       /\ s.packets = num_packets(Latest(sent[src]).size)
  <2> HIDE DEF s
  <2>1. s.packets = num_packets(Latest(sent[src]).size)
    BY <1>2, <1>10 DEF KeepsStep, InStep
  <2>2. /\ sender[src].at = "sleep" /\ s.next = sender[src].i + 1
        /\ inbox[y][1].packet = [src |-> src, call |-> Len(sent[src]), seq |-> s.next]
    BY <1>2, <1>6, <1>10, PacketInStep
  <2> QED BY <2>1, <2>2
<1>8. CASE /\ session' = [session EXCEPT ![y].next = next] /\ next <= s.packets
           /\ NoReply(y) /\ UNCHANGED delivered
  <2> DEFINE s2 == session'[y]
  <2>1. /\ s2 = [s EXCEPT !.next = next]
        /\ \A x \in Nodes : x # y => session'[x] = session[x]
    BY <1>1, <1>5, <1>8
  <2>2. /\ s2.open /\ s2.pgn = s.pgn /\ s2.size = s.size /\ s2.packets = s.packets
        /\ s2.age = s.age /\ s2.next = next
    BY <1>2, <1>5, <2>1 DEF Sessions
  <2> HIDE DEF s2, b, p, s
  <2>3. KeepsStep(s2, b, delivered[y], Tail(inbox[y]), sender[src], sent[src], src)
    <3>1. GoesOn(inbox[y], s, tp_buffer[y], s2, b)
      BY <1>4, <1>6, <1>8, <2>2 DEF GoesOn
    <3> QED BY <1>2, <1>6, <1>7, <1>10, <3>1, SessionContinues
  <2>4. KeepsStep(session'[y], tp_buffer'[y], delivered'[y], Tail(inbox[y]),
                  sender[src], sent[src], src)
    BY <1>8, <2>3 DEF s2, b
  <2> QED BY <1>2, <1>3, <1>4, <1>8, <2>1, <2>4, ReceiverPrompt DEF AnswersHarmless
<1>9. CASE /\ s.next = s.packets /\ Reply(y, EndOfMsgAck) /\ CloseSession(y)
           /\ Deliver(y, s.pgn, s.size, data)
  <2>1. s.packets \in Nat /\ s.packets <= Len(b)
    BY <1>2, <1>4, <1>9, Maxima
  <2>2. data = [k \in 1 .. s.packets |-> b[k]] /\ \A k \in 1 .. s.packets : data[k] = b[k]
    BY <1>4, <2>1, SubSeqFacts
  <2>3. \A k \in 1 .. s.next - 1 : k \in 1 .. s.packets
    BY <1>9, <2>1
  <2>4. s.next \in 1 .. s.packets
    BY <1>2, <1>9, <2>1, Maxima
  <2> DEFINE call == [pgn |-> s.pgn, size |-> s.size, data |-> data]
             D2 == delivered'[y]
             s2 == session'[y]
  <2>5. delivered' = IF s.pgn \in Handled
                     THEN [delivered EXCEPT ![y] = @ \cup {call}] ELSE delivered
    BY <1>9 DEF Deliver
  <2> HIDE DEF data, b, p
  <2>6. /\ \A x \in Nodes : x # y => delivered'[x] = delivered[x]
        /\ D2 = IF s.pgn \in Handled
                THEN delivered[y] \cup {[pgn |-> s.pgn, size |-> s.size, data |-> data]}
                ELSE delivered[y]
    <3> HIDE DEF call
    <3>1. /\ \A x \in Nodes : x # y => delivered'[x] = delivered[x]
          /\ D2 = IF s.pgn \in Handled THEN delivered[y] \cup {call} ELSE delivered[y]
      BY <1>1, <1>5, <2>5
    <3> QED BY <3>1 DEF call
  <2>7. ~s2.open /\ \A x \in Nodes : x # y => session'[x] = session[x]
    BY <1>1, <1>9, ClosedSession
  <2> HIDE DEF D2, s2
  <2>8. /\ data = [k \in 1 .. s.packets |-> data[k]] /\ data[s.next] = inbox[y][1].packet
        /\ \A k \in 1 .. s.next - 1 : data[k] = tp_buffer[y][k]
    BY <1>4, <1>6, <2>2, <2>3, <2>4
  <2> HIDE DEF s
  <2>10. KeepsStep(s2, b, D2, Tail(inbox[y]), sender[src], sent[src], src)
    <3>1. LastStored(inbox[y], s, tp_buffer[y], data)
      BY <1>2, <1>6, <1>9, <2>8 DEF LastStored
    <3> HIDE DEF call
    <3> QED BY <1>2, <1>7, <1>10, <2>6, <2>7, <3>1, SessionEnds
  <2>11. AnswersHarmless(src, y)
    <3>1. sender[src].i + 1 = num_packets(Latest(sent[src]).size)
      BY <1>9, <1>11
    <3> QED BY <1>9, <1>11, <3>1, EndHarmless, RepliesThereAre DEF AnswersHarmless
  <2>12. KeepsStep(session'[y], tp_buffer'[y], delivered'[y], Tail(inbox[y]),
                   sender[src], sent[src], src)
    BY <2>10 DEF s2, b, D2
  <2> QED BY <1>2, <1>3, <1>4, <2>6, <2>7, <2>11, <2>12, ReceiverPrompt
<1> QED BY <1>2, <1>8, <1>9 DEF Accepted

LEMMA ReceivePrompt ==
  ASSUME BufferSize <= 7 * UINT8_MAX, TimeoutTicks + 1 < UINT8_MAX,
         TwoNodesOnly \/ ~EmptyTrains, IInv, failures = 0, failures' = 0,
         NEW src \in Nodes, AllFollow(src), NEW y \in listeners(src), j1939_process_message(y)
  PROVE  AllFollow(src)'
<1>1. CASE RejectBusy(y) \/ RejectSize(y)
  BY <1>1, RejectPrompt
<1>2. CASE OpenSession(y)
  BY <1>2, OpenSessionPrompt
<1>3. CASE IgnoreData(y) \/ ReceiveCts(y)
  <2>1. /\ inbox[y] # <<>> /\ NoReply(y)
        /\ UNCHANGED <<session, tp_buffer, delivered, senderVars>>
        /\ \/ Head(inbox[y]).type = "DT" /\ ~session[y].open
           \/ Head(inbox[y]).type = "CTS"
    BY <1>3 DEF IgnoreData, ReceiveCts, Receives
  <2>2. Head(inbox[y]) = inbox[y][1]
    BY <2>1, FollowerFacts
  <2> QED BY <2>1, <2>2, LeftPrompt DEF AnswersHarmless
<1>4. CASE TimedOut(y) \/ SequenceError(y)
  BY <1>4, ExpiredPrompt
<1>5. CASE AcceptData(y)
  BY <1>5, AcceptDataPrompt
<1>6. CASE ReceiveEnd(y)
  BY <1>6, ReceiveEndPrompt
<1>7. CASE ReceiveSingle(y)
  BY <1>7, ReceiveSinglePrompt
<1> QED BY <1>1, <1>2, <1>3, <1>4, <1>5, <1>6, <1>7 DEF j1939_process_message

\* No other node sends anything as long as src is undisturbed.
LEMMA OthersSilent ==
  ASSUME IInv, NEW src \in Nodes, Undisturbed(src), Undisturbed(src)',
         NEW n \in others(src), j1939_send_tp_data(n)
  PROVE  FALSE
<1>1. n \in Nodes /\ sent \in [Nodes -> Seq(Message)] /\ sent[n] = <<>> /\ sent'[n] = <<>>
  BY DEF others, IInv, HistoriesOK, Undisturbed
<1>2. ASSUME NEW m \in Messages[n], SendSingle(n, m) \/ SendRts(n, m) PROVE FALSE
  <2>1. sent'[n] = Append(sent[n], m) /\ m \in Message
    BY <1>1, <1>2, MessageOf DEF SendSingle, SendRts
  <2> QED BY <1>1, <2>1, AppendFacts
<1>3. ASSUME SendData(n) PROVE FALSE
  <2>1. SenderOK(n)
    BY <1>1 DEF IInv
  <2> QED BY <1>1, <1>3, <2>1 DEF SendData, SenderOK
<1> QED BY <1>2, <1>3 DEF j1939_send_tp_data

LEMMA PromptStep ==
  ASSUME BufferSize <= 7 * UINT8_MAX, TimeoutTicks + 1 < UINT8_MAX,
         TwoNodesOnly \/ ~EmptyTrains, IInv, PromptInv, [Next]_vars
  PROVE  PromptInv'
<1> SUFFICES ASSUME NEW src \in Nodes, Undisturbed(src)' PROVE AllFollow(src)'
  BY DEF PromptInv
<1>1. Undisturbed(src) /\ failures = 0 /\ failures' = 0
  BY DisturbedForGood
<1>2. AllFollow(src)
  BY <1>1 DEF PromptInv
<1>3. \A n \in Nodes : n = src \/ n \in others(src)
  BY DEF others
<1>4. ASSUME NEW n \in Nodes, j1939_send_tp_data(n) PROVE AllFollow(src)'
  <2>1. n = src
    BY <1>1, <1>3, <1>4, OthersSilent
  <2> QED BY <1>1, <1>2, <1>4, <2>1, SendSinglePrompt, SendRtsPrompt, SendDataPrompt
          DEF j1939_send_tp_data
<1>5. ASSUME NEW n \in Nodes, j1939_process_message(n) PROVE AllFollow(src)'
  <2>1. CASE n = src
    BY <1>2, <1>5, <2>1, OwnInbox
  <2>2. CASE n \in others(src)
    <3>1. inbox[n] # <<>>
      BY <1>5 DEF j1939_process_message, RejectBusy, RejectSize, OpenSession, IgnoreData,
         TimedOut, SequenceError, AcceptData, ReceiveEnd, ReceiveCts, ReceiveSingle, Receives
    <3>2. n \in listeners(src)
      BY <2>2, <3>1 DEF IInv, FramesOK, listeners, others
    <3> QED BY <1>1, <1>2, <1>5, <3>2, ReceivePrompt
  <2> QED BY <1>3, <2>1, <2>2
<1>6. CASE Tick
  <2>1. ~delayed'
    BY DEF Undisturbed
  <2> QED BY <1>2, <1>6, <2>1, TickPrompt
<1>7. CASE Quiet \/ UNCHANGED vars
  <2>1. UNCHANGED <<inbox, session, tp_buffer, sender, sent, delivered>>
    BY <1>7 DEF Quiet, vars
  <2>2. \A x \in listeners(src) : Follows(x, src)'
    BY <1>2, <2>1 DEF AllFollow, Follows
  <2> QED BY <1>2, <2>1, <2>2, ListeningAssumption DEF AllFollow, listeners
<1> QED BY <1>4, <1>5, <1>6, <1>7 DEF Next

LEMMA InitPrompt ==
  ASSUME Init PROVE PromptInv /\ ReturnedIdle
<1>1. ASSUME NEW src \in Nodes, NEW x \in listeners(src) PROVE Follows(x, src)
  <2>1. /\ x \in Nodes /\ inbox[x] = <<>> /\ ~session[x].open
        /\ delivered[x] = {} /\ sent[src] = <<>>
    BY ListeningAssumption DEF Init, Closed, listeners
  <2>2. DOMAIN inbox[x] = {} /\ DOMAIN sent[src] = {}
    BY <2>1
  <2>3. /\ OnePacket(inbox[x], sender[src], sent[src], src)
        /\ OneRts(inbox[x], sender[src], sent[src])
        /\ OwnSingles(inbox[x], sent[src], src)
        /\ ClosingsHarmless(session[x], inbox[x], sender[src], sent[src])
    BY <2>2 DEF OnePacket, OneRts, OwnSingles, ClosingsHarmless
  <2>4. /\ InStep(session[x], tp_buffer[x], inbox[x], sender[src], sent[src], src)
        /\ AllAwaited(session[x], delivered[x], inbox[x], sender[src], sent[src], src)
        /\ OnlyInTime(delivered[x], sent[src], src)
    BY <2>1, <2>2 DEF InStep, AllAwaited, OnlyInTime
  <2> QED BY <2>3, <2>4 DEF Follows, KeepsStep
<1>2. \A src \in Nodes : \A k \in DOMAIN inbox[src] : FALSE
  BY DEF Init
<1>3. PromptInv
  BY <1>1, <1>2 DEF PromptInv, AllFollow
<1>4. ReturnedIdle
  BY DEF Init, ReturnedIdle
<1> QED BY <1>3, <1>4

LEMMA ReturnedStep ==
  ASSUME IInv, ReturnedIdle, [Next]_vars PROVE ReturnedIdle'
<1>1. /\ sent \in [Nodes -> Seq(Message)] /\ returned \in [Nodes -> SUBSET Nat]
      /\ sender \in [Nodes -> Senders]
      /\ \A n \in Nodes : returned[n] \subseteq DOMAIN sent[n] /\ Len(sent[n]) \in Nat
                          /\ Len(sent[n]) + 1 \notin returned[n]
  <2>1. /\ sent \in [Nodes -> Seq(Message)] /\ returned \in [Nodes -> SUBSET Nat]
        /\ sender \in [Nodes -> Senders]
        /\ \A n \in Nodes : returned[n] \subseteq DOMAIN sent[n]
    BY DEF IInv, TypeOK, HistoriesOK, Senders
  <2>2. \A n \in Nodes : Len(sent[n]) \in Nat /\ Len(sent[n]) + 1 \notin DOMAIN sent[n]
    BY <2>1
  <2> QED BY <2>1, <2>2
<1>2. ASSUME UNCHANGED <<sender, sent, returned>> PROVE ReturnedIdle'
  BY <1>2 DEF ReturnedIdle
<1>3. ASSUME NEW n \in Nodes, NEW m \in Messages[n], SendSingle(n, m) PROVE ReturnedIdle'
  <2>1. /\ sender[n] = Idle /\ sender' = sender
        /\ sent' = [sent EXCEPT ![n] = Append(@, m)]
        /\ \/ returned' = returned
           \/ returned' = [returned EXCEPT ![n] = @ \cup {Len(sent[n]) + 1}]
    BY <1>3 DEF SendSingle
  <2>2. /\ \A x \in Nodes : x # n => sent'[x] = sent[x] /\ returned'[x] = returned[x]
        /\ sender'[n].at = "idle"
    BY <1>1, <2>1 DEF Idle
  <2> QED BY <2>1, <2>2 DEF ReturnedIdle
<1>4. ASSUME NEW n \in Nodes, NEW m \in Messages[n], SendRts(n, m) PROVE ReturnedIdle'
  <2>1. /\ sender[n] = Idle
        /\ sent' = [sent EXCEPT ![n] = Append(@, m)]
        /\ \/ sender' = sender /\ returned' = returned
           \/ /\ sender' = sender
              /\ returned' = [returned EXCEPT ![n] = @ \cup {Len(sent[n]) + 1}]
           \/ /\ sender' = [sender EXCEPT ![n] = [at |-> "data", i |-> 0]]
              /\ returned' = returned
    BY <1>4 DEF SendRts
  <2>2. \A x \in Nodes : x # n =>
           sent'[x] = sent[x] /\ returned'[x] = returned[x] /\ sender'[x] = sender[x]
    BY <1>1, <2>1
  <2>3. Len(sent'[n]) = Len(sent[n]) + 1
    BY <1>1, <2>1, MessageOf, AppendFacts
  <2>4. Len(sent'[n]) \in returned'[n] => sender'[n].at = "idle"
    BY <1>1, <2>1, <2>3 DEF Idle
  <2> QED BY <2>2, <2>4 DEF ReturnedIdle
<1>5. ASSUME NEW n \in Nodes, SendData(n) PROVE ReturnedIdle'
  <2>1. /\ sender[n].at = "data" /\ sent' = sent /\ returned' = returned
        /\ \A x \in Nodes : x # n => sender'[x] = sender[x]
    BY <1>1, <1>5 DEF SendData
  <2>2. Len(sent[n]) \notin returned[n]
    BY <2>1 DEF ReturnedIdle
  <2> QED BY <2>1, <2>2 DEF ReturnedIdle
<1>6. CASE Tick
  <2> SUFFICES ASSUME NEW n \in Nodes, Len(sent'[n]) \in returned'[n]
               PROVE  sender'[n].at = "idle"
    BY DEF ReturnedIdle
  <2>1. /\ sent' = sent /\ sender'[n] = Woken(n)
        /\ returned'[n] = IF sender[n].at = "sleep" /\ LastPacket(n)
                          THEN returned[n] \cup {Len(sent[n])} ELSE returned[n]
    BY <1>6 DEF Tick
  <2>2. CASE sender[n].at = "sleep" /\ LastPacket(n)
    BY <2>1, <2>2 DEF Woken, Idle
  <2>3. CASE ~(sender[n].at = "sleep" /\ LastPacket(n))
    <3>1. sender[n].at = "idle"
      BY <2>1, <2>3 DEF ReturnedIdle
    <3> QED BY <2>1, <3>1 DEF Woken
  <2> QED BY <2>2, <2>3
<1>7. ASSUME NEW n \in Nodes, j1939_process_message(n) PROVE ReturnedIdle'
  BY <1>2, <1>7 DEF j1939_process_message, RejectBusy, RejectSize, OpenSession, IgnoreData,
     TimedOut, SequenceError, AcceptData, ReceiveEnd, ReceiveCts, ReceiveSingle, senderVars
<1>8. CASE Quiet \/ UNCHANGED vars
  BY <1>2, <1>8 DEF Quiet, vars
<1> QED BY <1>3, <1>4, <1>5, <1>6, <1>7, <1>8 DEF Next, j1939_send_tp_data

\* A call that returned, when nothing is on the way any more, was delivered.
LEMMA AwaitedArrived ==
  ASSUME PromptInv, ReturnedIdle PROVE PromptMessagesArrive
<1> SUFFICES ASSUME NEW src \in Nodes, NEW k \in DOMAIN sent[src], UndisturbedCall(src, k),
                    sent[src][k].size <= BufferSize, FitsTimeout(sent[src][k]),
                    NEW x \in listeners(src)
             PROVE  CallOf(src, k, sent[src][k]) \in delivered[x]
  BY DEF PromptMessagesArrive, ArrivedAtListeners, CallOf
<1>1. Undisturbed(src) /\ inbox[x] = <<>> /\ k \in returned[src] /\ InTime(sent[src][k])
  BY ListeningAssumption DEF UndisturbedCall, Undisturbed, InTime, listeners, others
<1>2. AllAwaited(session[x], delivered[x], inbox[x], sender[src], sent[src], src)
  BY <1>1 DEF PromptInv, AllFollow, Follows, KeepsStep
<1>3. Awaited(session[x], delivered[x], inbox[x], sender[src], sent[src], src, k)
  BY <1>1, <1>2 DEF AllAwaited
<1>4. DOMAIN inbox[x] = {}
  BY <1>1
<1>5. k = Len(sent[src]) => sender[src].at = "idle"
  BY <1>1 DEF ReturnedIdle
<1> QED BY <1>3, <1>4, <1>5 DEF Awaited

\* Between any number of nodes: as long as no can_send fails, nothing waits and
\* only src sends, a call of j1939_send_tp_data that returned 0 was delivered
\* to every other node that listens and has a handler for it, if the message
\* fits the buffer and its packets the timeout (j1939.c:155, "Process complete
\* message").  Who listens is a constant: with the filter of j1939_init alone
\* (j1939.c:37-44) nobody does, and nothing is delivered.  BufferSize is at most 255 packets of 7 bytes (the code's 1785), and the timeout shorter
\* than 255 packets: next_packet is a uint8_t.  A message of 1786 to 1792 bytes
\* is announced with 0 packets; a third node that refuses it aborts the next
\* session of the others, so none may be sent unless there are just two nodes.
THEOREM PromptDelivery ==
  ASSUME BufferSize <= 7 * UINT8_MAX, TimeoutTicks + 1 < UINT8_MAX,
         TwoNodesOnly \/ ~EmptyTrains
  PROVE  Spec => []PromptMessagesArrive
<1>1. Init => PromptInv /\ ReturnedIdle
  BY InitPrompt
<1>2. IInv /\ PromptInv /\ ReturnedIdle /\ [Next]_vars => PromptInv' /\ ReturnedIdle'
  BY PromptStep, ReturnedStep
<1>3. PromptInv /\ ReturnedIdle => PromptMessagesArrive
  BY AwaitedArrived
<1> QED BY <1>1, <1>2, <1>3, Inductive, PTL DEF Spec

\* Of what undisturbed nodes get from src, a message of more than one frame has
\* at most TimeoutTicks + 1 packets: one that takes longer is never delivered, to
\* any node that listens (16 packets with the code's timeout, 112 of the 1785 bytes of
\* tp_buffer, j1939.c:22, "Max J1939-TP size").
SlowNeverArrive ==
    \A src \in Nodes : Undisturbed(src) =>
        \A x \in listeners(src) : \A d \in delivered[x] :
            \E c \in DOMAIN sent[src] :
                /\ d = CallOf(src, c, sent[src][c])
                /\ sent[src][c].size <= 8 \/ FitsTimeout(sent[src][c])

\* The converse of PromptDelivery: a message that does not fit the timeout never
\* arrives, although the call that sent it returns 0.  The run j1939_largest
\* shows one such message; here it is all of them, and every handler's calls.
THEOREM SlowNeverDelivered ==
  ASSUME BufferSize <= 7 * UINT8_MAX, TimeoutTicks + 1 < UINT8_MAX,
         TwoNodesOnly \/ ~EmptyTrains
  PROVE  Spec => []SlowNeverArrive
<1>1. Init => PromptInv
  BY InitPrompt
<1>2. IInv /\ PromptInv /\ [Next]_vars => PromptInv'
  BY PromptStep
<1>3. PromptInv => SlowNeverArrive
  BY DEF PromptInv, AllFollow, Follows, KeepsStep, OnlyInTime, SlowNeverArrive
<1> QED BY <1>1, <1>2, <1>3, Inductive, PTL DEF Spec
=============================================================================
