------------------------------ MODULE Framing -------------------------------
(***************************************************************************)
(* The way of a text from a user of one ChatServer through a manager to    *)
(* the users of another: BroadcastMessage, T_PACKET and the cutting of the *)
(* received stream into packets.  A packet is a sequence of bytes that     *)
(* begins with the header (command and length, one cell each) and the id   *)
(* of the server (IdSize cells, 8 in the code).                            *)
(***************************************************************************)
EXTENDS Integers, Sequences, SequencesExt

CONSTANTS
  MAX_MESSAGE_SIZE,  \* bytes of BroadcastMessage::message
  PDUBODYSIZE,       \* bytes of T_PACKET::data
  IdSize,            \* sizeof(uint64_t)
  LengthBits         \* width of PACKET_HEADER::length

ASSUME FramingAssumption ==
  /\ MAX_MESSAGE_SIZE \in Nat \ {0} /\ IdSize \in Nat \ {0} /\ LengthBits \in Nat
  /\ PDUBODYSIZE \in Nat /\ MAX_MESSAGE_SIZE + IdSize <= PDUBODYSIZE
  /\ PDUBODYSIZE < 2 ^ LengthBits

PDUHEADERSIZE == 2
cmd_CHAT_BROADCAST == 1620

\* ChatUser::ExecuteCommand for a user: all that is buffered is one message.
UserMessage(text) == [size |-> Len(text), message |-> text]

\* Mutant: the length of the id is left out of header.length.
HeaderLengthBare(size) == size % 2 ^ LengthBits

HeaderLength(size) == (size + IdSize) % 2 ^ LengthBits

\* MessageBroadcastToManagers: the packet, and as much of it as is written.
MessageBroadcastToManagers(m, uniqId) ==
  LET length == HeaderLength(m.size)
      packet == <<cmd_CHAT_BROADCAST, length>> \o [i \in 1 .. IdSize |-> uniqId]
                \o m.message \o [i \in 1 .. PDUBODYSIZE |-> 0]
  IN SubSeq(packet, 1, PDUHEADERSIZE + length)

\* GetHeader and GetPacket: the first packet of a buffer, and the rest.
GetPacket(buffer) ==
  LET n == PDUHEADERSIZE + buffer[2]
  IN [packet |-> SubSeq(buffer, 1, n), rest |-> SubSeq(buffer, n + 1, Len(buffer))]

\* The manager passes a packet on as it is.
MessageBroadcast(packet) == SubSeq(packet, 1, PDUHEADERSIZE + packet[2])

\* The last byte of the message is replaced by 0.
SetMessage(message, size) ==
  [size |-> size, message |-> [SubSeq(message, 1, size) EXCEPT ![size] = 0]]

\* ChatUser::ExecuteCommand for a packet of the manager.
RelayedMessage(packet) ==
  SetMessage(SubSeq(packet, PDUHEADERSIZE + IdSize + 1, Len(packet)), packet[2] - IdSize)

\* One turn of the loop of a receiver: r.out are the packets taken so far.
TakePacket(r, turn) ==
  IF r.rest = <<>> THEN r
  ELSE LET g == GetPacket(r.rest)
       IN [out |-> Append(r.out, g.packet), rest |-> g.rest]

\* Packets are taken while the buffer holds bytes.
Packets(buffer) ==
  FoldLeft(TakePacket, [out |-> <<>>, rest |-> buffer], [i \in 1 .. Len(buffer) |-> i]).out

\* What the users of the other server get for the texts.
Arrives(texts, uniqId) ==
  LET toManager == FlattenSeq([i \in DOMAIN texts |->
                     MessageBroadcastToManagers(UserMessage(texts[i]), uniqId)])
      relayed   == Packets(toManager)
      toServer  == FlattenSeq([i \in DOMAIN relayed |-> MessageBroadcast(relayed[i])])
      received  == Packets(toServer)
  IN [i \in DOMAIN received |-> RelayedMessage(received[i]).message]

\* When whole packets arrive, however many at a time, the manager and the other
\* server cut the stream where it was put together, and each text of at most
\* MAX_MESSAGE_SIZE bytes arrives once, in its place, with its length, and with
\* 0 for its last byte (BroadcastMessage.cpp:28).
RelayedText(texts, uniqId) ==
  (\A i \in DOMAIN texts : Len(texts[i]) \in 1 .. MAX_MESSAGE_SIZE) =>
    Arrives(texts, uniqId) = [i \in DOMAIN texts |-> [texts[i] EXCEPT ![Len(texts[i])] = 0]]
=============================================================================
