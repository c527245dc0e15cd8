------------------------------- MODULE Socket -------------------------------
(***************************************************************************)
(* The Socket wrappers over one TCP connection: Connect, NonBlockConnect,  *)
(* Read, Write, Send, Recv, SendTo, RecvFrom and Close, with the system    *)
(* calls they make.  A system call may move a part of the bytes, be        *)
(* interrupted by a signal, find nothing to do on a non-blocking socket,   *)
(* meet a closed or reset connection, or time out in select.  The bytes of *)
(* a direction are numbered, so a count stands for a prefix of the stream. *)
(***************************************************************************)
EXTENDS Integers

CONSTANTS
  RoomMax,    \* size of the kernel's send buffer
  MaxLen,     \* bound: longest call
  MaxIn,      \* bound: bytes the peer sends
  MaxOut,     \* bound: bytes written
  MaxSignals  \* bound: system calls that are interrupted

ASSUME SocketAssumption ==
  /\ RoomMax \in Nat \ {0} /\ MaxLen \in Nat \ {0}
  /\ MaxIn \in Nat /\ MaxOut \in Nat /\ MaxSignals \in Nat

VARIABLES
  m_iFd,      \* the descriptor is open (otherwise m_iFd is -1)
  nonblock,   \* O_NONBLOCK is set
  conn,       \* "new", "pending", "up", "refused" or "reset"
  peerOpen,   \* the peer has not closed its end
  peerSent,   \* bytes the peer has sent
  taken,      \* bytes of them the program has taken from the kernel
  room,       \* free bytes of the send buffer
  sent,       \* bytes the kernel has accepted
  pc,         \* the call in progress, or where in it, or "idle"
  want, pos,  \* length of the call and bytes moved so far
  signals,    \* interruptions so far
  last,       \* the call that has just returned
  given,      \* history: bytes reported to callers by Read, Recv, RecvFrom
  dropped,    \* history: bytes taken by a Read that returned -1
  acked,      \* history: bytes reported as written
  torn        \* history: bytes written by a Write that returned -1

kernel == <<conn, peerOpen, peerSent, room>>
hist == <<given, dropped, acked, torn>>
vars == <<m_iFd, nonblock, kernel, taken, sent, pc, want, pos, signals, last, hist>>

Ops == {"Connect", "NonBlockConnect", "Read", "Write", "Send", "Recv", "SendTo", "RecvFrom"}
Inside == {"idle", "NBSelect", "SendCall", "SendToSelect", "RecvFromSelect"} \cup Ops

Least(a, b) == IF a < b THEN a ELSE b

NoCall == [op |-> "none", want |-> 0, ret |-> 0, fd |-> TRUE, eof |-> FALSE, conn |-> "new"]

Init ==
  /\ m_iFd = TRUE /\ nonblock = FALSE
  /\ conn = "new" /\ peerOpen = TRUE /\ peerSent = 0 /\ room = RoomMax
  /\ taken = 0 /\ sent = 0
  /\ pc = "idle" /\ want = 0 /\ pos = 0 /\ signals = 0
  /\ last = NoCall
  /\ given = 0 /\ dropped = 0 /\ acked = 0 /\ torn = 0

(***************************************************************************)
(* The system calls                                                        *)
(***************************************************************************)
Waiting == peerSent - taken
Broken == ~m_iFd \/ conn # "up"
Eof == ~Broken /\ Waiting = 0 /\ ~peerOpen
NoData == ~Broken /\ Waiting = 0 /\ peerOpen
NoRoom == ~Broken /\ room = 0 /\ peerOpen
CanTake(k) == ~Broken /\ k \in 1 .. Least(Waiting, want - pos)
CanPut(k) == ~Broken /\ k \in 1 .. Least(room, want - pos)
WriteError == Broken \/ ~peerOpen        \* a write to a closed end may be accepted or not

Take(k) == taken' = taken + k /\ UNCHANGED <<sent, room>>
Accept(k) == sent' = sent + k /\ room' = room - k /\ UNCHANGED taken
NoBytes == UNCHANGED <<taken, sent, room>>
Signal == signals < MaxSignals /\ signals' = signals + 1

\* The call op returns r.
Return(op, r) ==
  /\ pc' = "idle" /\ want' = 0 /\ pos' = 0
  /\ last' = [op |-> op, want |-> want, ret |-> r, fd |-> m_iFd, eof |-> Eof, conn |-> conn]

Counts(in, lostIn, out, lostOut) ==
  /\ given' = given + in /\ dropped' = dropped + lostIn
  /\ acked' = acked + out /\ torn' = torn + lostOut

Quiet == Counts(0, 0, 0, 0)
Stay(where) == pc' = where /\ UNCHANGED <<want, pos, last>> /\ Quiet
Rest == UNCHANGED <<m_iFd, nonblock, conn, peerOpen, peerSent>>

\* A caller makes the call op with n bytes.
Call(op, n) ==
  /\ pc = "idle"
  /\ op \in {"Write", "Send", "SendTo"} => sent + n <= MaxOut
  /\ op \in {"Connect", "NonBlockConnect"} <=> conn = "new"
  /\ pc' = op /\ want' = n /\ pos' = 0 /\ last' = NoCall
  /\ NoBytes /\ Rest /\ Quiet /\ UNCHANGED signals

(***************************************************************************)
(* Read and Write                                                          *)
(***************************************************************************)
\* Mutant: the loop is dropped, the first read is returned.
ReadSomeOnce(k) ==
  /\ pc = "Read" /\ CanTake(k)
  /\ Take(k) /\ Return("Read", k) /\ Counts(k, 0, 0, 0)
  /\ Rest /\ UNCHANGED signals

ReadSome(k) ==
  /\ pc = "Read" /\ CanTake(k)
  /\ Take(k) /\ pos' = pos + k
  /\ Rest /\ Quiet /\ UNCHANGED <<pc, want, signals, last>>

\* EINTR: the loop tries again.
ReadInterrupted ==
  /\ pc = "Read" /\ pos < want /\ NoData /\ Signal
  /\ NoBytes /\ Rest /\ Stay("Read")

\* All bytes, or the end of the file.
ReadReturns ==
  /\ pc = "Read" /\ (pos = want \/ Eof)
  /\ Return("Read", pos) /\ Counts(pos, 0, 0, 0)
  /\ NoBytes /\ Rest /\ UNCHANGED signals

\* EAGAIN or another error: what was read before is forgotten.
ReadFails ==
  /\ pc = "Read" /\ pos < want /\ (Broken \/ (NoData /\ nonblock))
  /\ Return("Read", -1) /\ Counts(0, pos, 0, 0)
  /\ NoBytes /\ Rest /\ UNCHANGED signals

WriteSome(k) ==
  /\ pc = "Write" /\ m_iFd /\ CanPut(k)
  /\ Accept(k) /\ pos' = pos + k
  /\ Rest /\ Quiet /\ UNCHANGED <<pc, want, signals, last>>

WriteInterrupted ==
  /\ pc = "Write" /\ pos < want /\ NoRoom /\ Signal
  /\ NoBytes /\ Rest /\ Stay("Write")

\* All bytes, or "socket is broken" without a descriptor.
WriteReturns ==
  /\ pc = "Write" /\ (pos = want \/ ~m_iFd)
  /\ Return("Write", pos) /\ Counts(0, 0, pos, 0)
  /\ NoBytes /\ Rest /\ UNCHANGED signals

WriteFails ==
  /\ pc = "Write" /\ pos < want /\ m_iFd /\ (WriteError \/ (NoRoom /\ nonblock))
  /\ Return("Write", -1) /\ Counts(0, 0, 0, pos)
  /\ NoBytes /\ Rest /\ UNCHANGED signals

(***************************************************************************)
(* Send and Recv wait in select first, 3 and 15 seconds                    *)
(***************************************************************************)
\* No descriptor, a timeout, or an error of select.
SelectFails ==
  /\ pc \in {"Send", "Recv"}
  /\ Return(pc, -1) /\ Quiet
  /\ NoBytes /\ Rest /\ UNCHANGED signals

SendReady ==
  /\ pc = "Send" /\ m_iFd /\ ~NoRoom
  /\ NoBytes /\ Rest /\ Stay("SendCall") /\ UNCHANGED signals

\* send takes what fits; a blocking socket then waits for room for the rest.
SendSome(k) ==
  /\ pc = "SendCall" /\ CanPut(k)
  /\ Accept(k)
  /\ IF nonblock \/ pos + k = want
     THEN Return("Send", pos + k) /\ Counts(0, 0, pos + k, 0)
     ELSE pos' = pos + k /\ UNCHANGED <<pc, want, last>> /\ Quiet
  /\ Rest /\ UNCHANGED signals

\* An error, or a signal: the count so far, or -1.
SendEnds ==
  /\ pc = "SendCall"
  /\ \/ WriteError /\ UNCHANGED signals
     \/ NoRoom /\ Signal
  /\ Return("Send", IF pos > 0 THEN pos ELSE -1) /\ Counts(0, 0, pos, 0)
  /\ NoBytes /\ Rest

\* Mutant: _iSize is returned for iRecvSize.
RecvReadySize(k) ==
  /\ pc = "Recv"
  /\ \/ CanTake(k) /\ Return("Recv", want) /\ Take(k) /\ Counts(want, 0, 0, 0)
     \/ Eof /\ Return("Recv", want) /\ NoBytes /\ Counts(want, 0, 0, 0)
  /\ Rest /\ UNCHANGED signals

\* recv returns what is there, 0 at the end of the file.
RecvReady(k) ==
  /\ pc = "Recv"
  /\ \/ CanTake(k) /\ Return("Recv", k) /\ Take(k) /\ Counts(k, 0, 0, 0)
     \/ Eof /\ Return("Recv", 0) /\ NoBytes /\ Quiet
  /\ Rest /\ UNCHANGED signals

(***************************************************************************)
(* SendTo and RecvFrom repeat the call after EINTR, and wait in select for *)
(* 5 seconds after EAGAIN                                                  *)
(***************************************************************************)
SendTo(k) ==
  /\ pc = "SendTo"
  /\ \/ CanPut(k) /\ Accept(k) /\ Return("SendTo", k) /\ Counts(0, 0, k, 0) /\ UNCHANGED signals
     \/ NoRoom /\ nonblock /\ NoBytes /\ Stay("SendToSelect") /\ UNCHANGED signals
     \/ NoRoom /\ NoBytes /\ Stay("SendTo") /\ Signal
     \/ WriteError /\ NoBytes /\ Return("SendTo", -1) /\ Quiet /\ UNCHANGED signals
  /\ Rest

RecvFrom(k) ==
  /\ pc = "RecvFrom"
  /\ \/ CanTake(k) /\ Take(k) /\ Return("RecvFrom", k) /\ Counts(k, 0, 0, 0) /\ UNCHANGED signals
     \/ NoData /\ nonblock /\ NoBytes /\ Stay("RecvFromSelect") /\ UNCHANGED signals
     \/ NoData /\ NoBytes /\ Stay("RecvFrom") /\ Signal
     \/ Eof /\ NoBytes /\ Return("RecvFrom", 0) /\ Quiet /\ UNCHANGED signals
     \/ Broken /\ NoBytes /\ Return("RecvFrom", -1) /\ Quiet /\ UNCHANGED signals
  /\ Rest

\* Mutant: a timeout of select is followed by another try.
SelectAgain(op, ready) ==
  /\ NoBytes /\ Rest
  /\ \/ Stay(op) /\ UNCHANGED signals
     \/ UNCHANGED <<pc, want, pos, last>> /\ Quiet /\ Signal

\* select: ready, interrupted, or a timeout that ends the call.
SelectTo(op, ready) ==
  /\ NoBytes /\ Rest
  /\ \/ ready /\ Stay(op) /\ UNCHANGED signals
     \/ ~ready /\ UNCHANGED <<pc, want, pos, last>> /\ Quiet /\ Signal
     \/ ~ready /\ Return(op, -1) /\ Quiet /\ UNCHANGED signals

SendToSelect == pc = "SendToSelect" /\ SelectTo("SendTo", ~NoRoom)
RecvFromSelect == pc = "RecvFromSelect" /\ SelectTo("RecvFrom", ~NoData)

(***************************************************************************)
(* Connect and NonBlockConnect                                             *)
(***************************************************************************)
Shake(c) == conn' = c /\ UNCHANGED <<m_iFd, peerOpen, peerSent>> /\ NoBytes /\ Quiet

\* connect begins; a signal makes it return -1 while the handshake goes on.
Connect ==
  /\ pc = "Connect"
  /\ \/ m_iFd /\ conn = "new" /\ Shake("pending") /\ UNCHANGED <<pc, want, pos, last, signals>>
     \/ conn = "pending" /\ Signal /\ Return("Connect", -1) /\ Shake(conn)
     \/ (~m_iFd \/ conn \in {"up", "refused", "reset"}) /\ UNCHANGED signals
        /\ Return("Connect", IF m_iFd /\ conn # "refused" THEN 0 ELSE -1) /\ Shake(conn)
  /\ UNCHANGED nonblock

SetNonBlock == nonblock' = TRUE

\* SetBlock sets the flags it has just read: it changes nothing.
SetBlock == UNCHANGED nonblock

\* SetNonBlock and connect.  When connect fails at once (other than
\* EINPROGRESS) the failure is logged and 0 is returned.
NonBlockConnect ==
  /\ pc = "NonBlockConnect"
  /\ IF ~m_iFd THEN Return("NonBlockConnect", -1) /\ Shake(conn) /\ UNCHANGED nonblock
     ELSE /\ SetNonBlock
          /\ \/ Shake("pending") /\ pc' = "NBSelect" /\ UNCHANGED <<want, pos, last>>
             \/ \E c \in {"up", "refused"} : Shake(c) /\ pc' = "idle" /\ want' = 0 /\ pos' = 0
                  /\ last' = [op |-> "NonBlockConnect", want |-> want, ret |-> 0, fd |-> m_iFd,
                              eof |-> FALSE, conn |-> c]
  /\ UNCHANGED signals

\* SO_ERROR: 0, or the error of a refused connection, a positive number.
GetReturnCode == IF conn = "refused" THEN 111 ELSE 0

\* Mutant: after a timeout the loop is left with break.
NBSelectBreak ==
  /\ pc = "NBSelect"
  /\ Return("NonBlockConnect", 0)
  /\ Shake(conn) /\ SetBlock /\ UNCHANGED signals

\* select for 10 seconds, after which only a negative GetReturnCode counts as a
\* failure.  A timeout and a signal end the call.
NBSelect ==
  /\ pc = "NBSelect"
  /\ \/ conn # "pending" /\ Return("NonBlockConnect", 0) /\ SetBlock /\ UNCHANGED signals
     \/ conn = "pending" /\ Return("NonBlockConnect", -1) /\ UNCHANGED <<nonblock, signals>>
     \/ conn = "pending" /\ Return("NonBlockConnect", -1) /\ UNCHANGED nonblock /\ Signal
  /\ Shake(conn)

\* Close forgets the descriptor, so that the destructor closes no other one.
Close ==
  /\ pc = "idle" /\ m_iFd
  /\ m_iFd' = FALSE
  /\ UNCHANGED <<nonblock, kernel, taken, sent, pc, want, pos, signals, last, hist>>

(***************************************************************************)
(* The network and the peer                                                *)
(***************************************************************************)
Ours == <<m_iFd, nonblock, taken, sent, pc, want, pos, signals, last, hist>>

Resolve(c) ==
  /\ conn = "pending" /\ conn' = c
  /\ UNCHANGED <<Ours, peerOpen, peerSent, room>>

PeerSends ==
  /\ conn = "up" /\ peerOpen /\ peerSent < MaxIn
  /\ peerSent' = peerSent + 1
  /\ UNCHANGED <<Ours, conn, peerOpen, room>>

PeerReads ==
  /\ conn = "up" /\ peerOpen /\ room < RoomMax
  /\ room' = room + 1
  /\ UNCHANGED <<Ours, conn, peerOpen, peerSent>>

PeerCloses ==
  /\ conn = "up" /\ peerOpen /\ peerOpen' = FALSE
  /\ UNCHANGED <<Ours, conn, peerSent, room>>

PeerResets ==
  /\ conn = "up" /\ conn' = "reset"
  /\ UNCHANGED <<Ours, peerOpen, peerSent, room>>

CallStep ==
  \/ ReadReturns \/ ReadFails \/ ReadInterrupted
  \/ WriteReturns \/ WriteFails \/ WriteInterrupted
  \/ SelectFails \/ SendReady \/ SendEnds
  \/ SendToSelect \/ RecvFromSelect
  \/ Connect \/ NonBlockConnect \/ NBSelect
  \/ \E k \in 1 .. MaxLen :
       ReadSome(k) \/ WriteSome(k) \/ SendSome(k) \/ RecvReady(k) \/ SendTo(k) \/ RecvFrom(k)

Next ==
  \/ CallStep \/ Close
  \/ \E op \in Ops, n \in 1 .. MaxLen : Call(op, n)
  \/ \E c \in {"up", "refused"} : Resolve(c)
  \/ PeerSends \/ PeerReads \/ PeerCloses \/ PeerResets

Spec == Init /\ [][Next]_vars

\* A system call that can return does, a timeout expires, and a handshake ends.
FairSpec ==
  Spec /\ WF_vars(CallStep) /\ WF_vars(\E c \in {"up", "refused"} : Resolve(c))

(***************************************************************************)
(* Properties                                                              *)
(***************************************************************************)
Returned == [op : Ops \cup {"none"}, want : Nat, ret : Int, fd : BOOLEAN, eof : BOOLEAN,
             conn : {"new", "pending", "up", "refused", "reset"}]

TypeOK ==
  /\ m_iFd \in BOOLEAN /\ nonblock \in BOOLEAN /\ peerOpen \in BOOLEAN
  /\ conn \in {"new", "pending", "up", "refused", "reset"}
  /\ peerSent \in Nat /\ taken \in 0 .. peerSent
  /\ room \in 0 .. RoomMax /\ sent \in Nat
  /\ pc \in Inside /\ want \in Nat /\ pos \in 0 .. want
  /\ signals \in Nat /\ last \in Returned
  /\ given \in Nat /\ dropped \in Nat /\ acked \in Nat /\ torn \in Nat

\* Across partial transfers, signals and failures, every byte taken from the
\* kernel is reported to a caller once, in its place, or belongs to a Read that
\* returned -1; every byte the kernel accepted is reported once or belongs to a
\* Write that returned -1 (Socket.cpp:53, 161, 199).
Accounted ==
  /\ taken = given + dropped + (IF pc = "Read" THEN pos ELSE 0)
  /\ sent = acked + torn + (IF pc \in {"Write", "SendCall"} THEN pos ELSE 0)

\* Read returns less than was asked for only at the end of the file, and Write
\* never returns a partial count: all, -1, or 0 without a descriptor.
WholeOrTold ==
  /\ last.op = "Read" /\ last.ret >= 0 => last.ret = last.want \/ last.eof
  /\ last.op = "Write" /\ last.ret >= 0 => last.ret = last.want \/ ~last.fd

\* Neither connect reports success while the handshake is undecided, and
\* Connect reports it only for a connection that was made.  (NonBlockConnect
\* returns 0 for a refused one: ClientSocket.cpp:93.)
ConnectDecided ==
  last.op \in {"Connect", "NonBlockConnect"} /\ last.ret = 0 =>
    /\ last.conn # "pending"
    /\ last.op = "Connect" => last.conn \in {"up", "reset"}

\* A call returns whatever the peer does: always for Connect, NonBlockConnect
\* and Recv, and for the others on a non-blocking socket.  (A blocking Read or
\* Write waits for the peer, and so does Send, for select promises room for one
\* byte only: Socket.cpp:230.)
CallsReturn ==
  (pc # "idle" /\ (nonblock \/ pc \in {"Connect", "NonBlockConnect", "Recv"}))
    ~> (pc = "idle")
=============================================================================
