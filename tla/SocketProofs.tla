---------------------------- MODULE SocketProofs ----------------------------
(***************************************************************************)
(* Proofs about Socket, for every size of the kernel's buffer and every    *)
(* bound on calls, bytes and signals.                                      *)
(***************************************************************************)
EXTENDS Socket, TLAPS

USE SocketAssumption DEF SocketAssumption

\* Only the calls that loop over parts have moved bytes they have not reported.
Loops == {"Read", "Write", "SendCall"}
NothingMoved == pc \notin Loops => pos = 0

\* The variables of a call in progress.
CallType ==
  /\ pc \in Inside /\ want \in Nat /\ pos \in 0 .. want
  /\ last \in Returned

\* What the calls have reported, and the invariant.
Reports == WholeOrTold /\ ConnectDecided
SocketInv == TypeOK /\ NothingMoved /\ Accounted /\ Reports

(***************************************************************************)
(* What the parts of an action do                                          *)
(***************************************************************************)
LEMMA ReturnType ==
  ASSUME TypeOK, NEW op \in Ops, NEW r \in Int, Return(op, r)
  PROVE  CallType' /\ NothingMoved' /\ pc' = "idle" /\ pos' = 0
<1>1. Eof \in BOOLEAN  BY DEF Eof
<1>2. last' \in Returned
  BY <1>1 DEF Return, Returned, TypeOK
<1>3. pc' = "idle" /\ want' = 0 /\ pos' = 0  BY DEF Return
<1> QED BY <1>2, <1>3 DEF CallType, Inside, NothingMoved, Loops

\* A call other than Read, Write and the two connects reports nothing that
\* Reports is about.
LEMMA ReturnOther ==
  ASSUME NEW op \in {"Send", "Recv", "SendTo", "RecvFrom"}, NEW r, Return(op, r)
  PROVE  Reports'
BY DEF Return, Reports, WholeOrTold, ConnectDecided

LEMMA ReturnError ==
  ASSUME NEW op, Return(op, -1)
  PROVE  Reports'
BY DEF Return, Reports, WholeOrTold, ConnectDecided

LEMMA KeepReports ==
  ASSUME Reports, UNCHANGED last
  PROVE  Reports'
BY DEF Reports, WholeOrTold, ConnectDecided

LEMMA RestType ==
  ASSUME TypeOK, Rest, NoBytes, signals' = signals \/ Signal,
         NEW a \in Nat, NEW b \in Nat, NEW c \in Nat, NEW d \in Nat, Counts(a, b, c, d),
         CallType'
  PROVE  TypeOK'
BY DEF TypeOK, Rest, NoBytes, Signal, Counts, CallType

LEMMA TakeType ==
  ASSUME TypeOK, Rest, NEW k \in Nat, CanTake(k), Take(k), signals' = signals,
         NEW a \in Nat, Counts(a, 0, 0, 0), CallType'
  PROVE  TypeOK'
BY DEF TypeOK, Rest, CanTake, Take, Waiting, Least, Counts, CallType

LEMMA AcceptType ==
  ASSUME TypeOK, Rest, NEW k \in Nat, CanPut(k), Accept(k), signals' = signals,
         NEW a \in Nat, Counts(0, 0, a, 0), CallType'
  PROVE  TypeOK'
BY DEF TypeOK, Rest, CanPut, Accept, Least, Counts, CallType

\* A call that moves nothing and goes on, from one place without parts to another
\* or where it is.
LEMMA StayInv ==
  ASSUME SocketInv, Rest, NoBytes, signals' = signals \/ Signal, Quiet, UNCHANGED <<want, pos, last>>,
         pc' \in Inside, pc' = pc \/ pos = 0
  PROVE  SocketInv'
<1>1. CallType'  BY DEF SocketInv, TypeOK, CallType
<1>2. TypeOK'  BY <1>1, RestType DEF SocketInv, Quiet
<1>3. NothingMoved'  BY DEF SocketInv, NothingMoved
<1>4. Accounted'
  BY DEF SocketInv, TypeOK, Accounted, NoBytes, Quiet, Counts
<1> QED BY <1>2, <1>3, <1>4, KeepReports DEF SocketInv

\* A call that ends without moving a byte in its last step.
LEMMA EndInv ==
  ASSUME SocketInv, Rest, NoBytes, signals' = signals \/ Signal,
         NEW op \in Ops, NEW r \in Int, Return(op, r), Reports',
         NEW a \in Nat, NEW b \in Nat, NEW c \in Nat, NEW d \in Nat, Counts(a, b, c, d),
         a + b = IF pc = "Read" THEN pos ELSE 0,
         c + d = IF pc \in {"Write", "SendCall"} THEN pos ELSE 0
  PROVE  SocketInv'
<1>1. CallType' /\ NothingMoved' /\ pc' = "idle" /\ pos' = 0
  BY ReturnType DEF SocketInv
<1>2. TypeOK'  BY <1>1, RestType DEF SocketInv
<1>3. Accounted'
  BY <1>1 DEF SocketInv, TypeOK, Accounted, NoBytes, Counts
<1> QED BY <1>1, <1>2, <1>3 DEF SocketInv

(***************************************************************************)
(* The steps of the calls                                                  *)
(***************************************************************************)
LEMMA ReadInv ==
  ASSUME SocketInv, NEW k \in 1 .. MaxLen,
         ReadSome(k) \/ ReadInterrupted \/ ReadReturns \/ ReadFails
  PROVE  SocketInv'
<1> USE DEF SocketInv
<1>1. CASE ReadSome(k)
  <2>1. CallType'
    BY <1>1 DEF ReadSome, TypeOK, CallType, CanTake, Waiting, Least
  <2>2. TypeOK'  BY <1>1, <2>1, TakeType DEF ReadSome, Quiet
  <2>3. NothingMoved'  BY <1>1 DEF ReadSome, NothingMoved, Loops
  <2>4. Accounted'
    BY <1>1 DEF ReadSome, TypeOK, Accounted, Take, Quiet, Counts
  <2> QED BY <1>1, <2>2, <2>3, <2>4, KeepReports DEF ReadSome
<1>2. CASE ReadInterrupted
  BY <1>2, StayInv DEF ReadInterrupted, Stay, Inside, Ops
<1>3. CASE ReadReturns
  <2>1. Reports'
    BY <1>3 DEF ReadReturns, Return, Reports, WholeOrTold, ConnectDecided
  <2>2. pos \in Nat /\ pos + 0 = pos  BY DEF TypeOK
  <2> QED BY <1>3, <2>1, <2>2, EndInv DEF ReadReturns, Ops
<1>4. CASE ReadFails
  <2>1. Reports'  BY <1>4, ReturnError DEF ReadFails
  <2>2. pos \in Nat /\ 0 + pos = pos  BY DEF TypeOK
  <2> QED BY <1>4, <2>1, <2>2, EndInv DEF ReadFails, Ops
<1> QED BY <1>1, <1>2, <1>3, <1>4

\* A Write that ends without having written all has no descriptor.
LEMMA WriteInv ==
  ASSUME SocketInv, NEW k \in 1 .. MaxLen,
         WriteSome(k) \/ WriteInterrupted \/ WriteReturns \/ WriteFails
  PROVE  SocketInv'
<1> USE DEF SocketInv
<1>1. CASE WriteSome(k)
  <2>1. CallType'
    BY <1>1 DEF WriteSome, TypeOK, CallType, CanPut, Least
  <2>2. TypeOK'  BY <1>1, <2>1, AcceptType DEF WriteSome, Quiet
  <2>3. NothingMoved'  BY <1>1 DEF WriteSome, NothingMoved, Loops
  <2>4. Accounted'
    BY <1>1 DEF WriteSome, TypeOK, Accounted, Accept, Quiet, Counts
  <2> QED BY <1>1, <2>2, <2>3, <2>4, KeepReports DEF WriteSome
<1>2. CASE WriteInterrupted
  BY <1>2, StayInv DEF WriteInterrupted, Stay, Inside, Ops
<1>3. CASE WriteReturns
  <2>1. Reports'
    BY <1>3 DEF WriteReturns, Return, Reports, WholeOrTold, ConnectDecided
  <2>2. pos \in Nat /\ pos + 0 = pos  BY DEF TypeOK
  <2> QED BY <1>3, <2>1, <2>2, EndInv DEF WriteReturns, Ops
<1>4. CASE WriteFails
  <2>1. Reports'  BY <1>4, ReturnError DEF WriteFails
  <2>2. pos \in Nat /\ 0 + pos = pos  BY DEF TypeOK
  <2> QED BY <1>4, <2>1, <2>2, EndInv DEF WriteFails, Ops
<1> QED BY <1>1, <1>2, <1>3, <1>4

LEMMA SendInv ==
  ASSUME SocketInv, NEW k \in 1 .. MaxLen, SendReady \/ SendSome(k) \/ SendEnds
  PROVE  SocketInv'
<1> USE DEF SocketInv
<1>1. CASE SendReady
  <2>1. pos = 0  BY <1>1 DEF SendReady, NothingMoved, Loops
  <2> QED BY <1>1, <2>1, StayInv DEF SendReady, Stay, Inside
<1>2. CASE SendSome(k) /\ (nonblock \/ pos + k = want)
  <2>1. pos + k \in Nat /\ k \in Nat  BY DEF TypeOK
  <2>2. CallType' /\ NothingMoved' /\ pc' = "idle" /\ pos' = 0
    BY <1>2, <2>1, ReturnType DEF SendSome, Ops
  <2>3. TypeOK'  BY <1>2, <2>1, <2>2, AcceptType DEF SendSome
  <2>4. Accounted'
    BY <1>2, <2>2 DEF SendSome, TypeOK, Accounted, Accept, Counts
  <2>5. Reports'  BY <1>2, ReturnOther DEF SendSome
  <2> QED BY <2>2, <2>3, <2>4, <2>5
<1>3. CASE SendSome(k) /\ ~(nonblock \/ pos + k = want)
  <2>1. CallType'
    BY <1>3 DEF SendSome, TypeOK, CallType, CanPut, Least
  <2>2. TypeOK'  BY <1>3, <2>1, AcceptType DEF SendSome, Quiet
  <2>3. NothingMoved'  BY <1>3 DEF SendSome, NothingMoved, Loops
  <2>4. Accounted'
    BY <1>3 DEF SendSome, TypeOK, Accounted, Accept, Quiet, Counts
  <2>5. Reports'  BY <1>3, KeepReports DEF SendSome
  <2> QED BY <2>2, <2>3, <2>4, <2>5
<1>4. CASE SendEnds
  <2>1. pos \in Nat /\ pos + 0 = pos  BY DEF TypeOK
  <2>2. (IF pos > 0 THEN pos ELSE -1) \in Int  BY DEF TypeOK
  <2>3. Reports'  BY <1>4, ReturnOther DEF SendEnds
  <2> QED BY <1>4, <2>1, <2>2, <2>3, EndInv DEF SendEnds, Ops
<1> QED BY <1>1, <1>2, <1>3, <1>4

\* The calls that move bytes at most once: select and one system call.
LEMMA RecvInv ==
  ASSUME SocketInv, NEW k \in 1 .. MaxLen, SelectFails \/ RecvReady(k)
  PROVE  SocketInv'
<1> USE DEF SocketInv
<1>1. CASE SelectFails
  <2>1. Reports'  BY <1>1, ReturnError DEF SelectFails
  <2> QED BY <1>1, <2>1, EndInv DEF SelectFails, Ops, Quiet
<1>2. CASE RecvReady(k) /\ CanTake(k) /\ Return("Recv", k) /\ Take(k) /\ Counts(k, 0, 0, 0)
  <2>1. CallType' /\ NothingMoved' /\ pc' = "idle" /\ pos' = 0
    BY <1>2, ReturnType DEF Ops
  <2>2. TypeOK'  BY <1>2, <2>1, TakeType DEF RecvReady
  <2>3. Accounted'
    BY <1>2, <2>1 DEF RecvReady, TypeOK, Accounted, Take, Counts
  <2>4. Reports'  BY <1>2, ReturnOther
  <2> QED BY <2>1, <2>2, <2>3, <2>4
<1>3. CASE RecvReady(k) /\ Return("Recv", 0) /\ NoBytes /\ Quiet
  <2>1. Reports'  BY <1>3, ReturnOther
  <2> QED BY <1>3, <2>1, EndInv DEF RecvReady, Ops, Quiet
<1> QED BY <1>1, <1>2, <1>3 DEF RecvReady

LEMMA SendToInv ==
  ASSUME SocketInv, NEW k \in 1 .. MaxLen, SendTo(k)
  PROVE  SocketInv'
<1> USE DEF SocketInv
<1>0. pc = "SendTo" /\ pos = 0 /\ Rest  BY DEF SendTo, NothingMoved, Loops
<1>1. CASE CanPut(k) /\ Accept(k) /\ Return("SendTo", k) /\ Counts(0, 0, k, 0) /\ UNCHANGED signals
  <2>1. CallType' /\ NothingMoved' /\ pc' = "idle" /\ pos' = 0
    BY <1>1, ReturnType DEF Ops
  <2>2. TypeOK'  BY <1>0, <1>1, <2>1, AcceptType
  <2>3. Accounted'
    BY <1>0, <1>1, <2>1 DEF TypeOK, Accounted, Accept, Counts
  <2>4. Reports'  BY <1>1, ReturnOther
  <2> QED BY <2>1, <2>2, <2>3, <2>4
<1>2. CASE NoBytes /\ Stay("SendToSelect") /\ UNCHANGED signals
  BY <1>0, <1>2, StayInv DEF Stay, Inside
<1>3. CASE NoBytes /\ Stay("SendTo") /\ Signal
  BY <1>0, <1>3, StayInv DEF Stay, Inside, Ops
<1>4. CASE NoBytes /\ Return("SendTo", -1) /\ Quiet /\ UNCHANGED signals
  <2>1. Reports'  BY <1>4, ReturnError
  <2> QED BY <1>0, <1>4, <2>1, EndInv DEF Ops, Quiet
<1> QED BY <1>1, <1>2, <1>3, <1>4 DEF SendTo

LEMMA RecvFromInv ==
  ASSUME SocketInv, NEW k \in 1 .. MaxLen, RecvFrom(k)
  PROVE  SocketInv'
<1> USE DEF SocketInv
<1>0. pc = "RecvFrom" /\ pos = 0 /\ Rest  BY DEF RecvFrom, NothingMoved, Loops
<1>1. CASE CanTake(k) /\ Take(k) /\ Return("RecvFrom", k) /\ Counts(k, 0, 0, 0) /\ UNCHANGED signals
  <2>1. CallType' /\ NothingMoved' /\ pc' = "idle" /\ pos' = 0
    BY <1>1, ReturnType DEF Ops
  <2>2. TypeOK'  BY <1>0, <1>1, <2>1, TakeType
  <2>3. Accounted'
    BY <1>0, <1>1, <2>1 DEF TypeOK, Accounted, Take, Counts
  <2>4. Reports'  BY <1>1, ReturnOther
  <2> QED BY <2>1, <2>2, <2>3, <2>4
<1>2. CASE NoBytes /\ Stay("RecvFromSelect") /\ UNCHANGED signals
  BY <1>0, <1>2, StayInv DEF Stay, Inside
<1>3. CASE NoBytes /\ Stay("RecvFrom") /\ Signal
  BY <1>0, <1>3, StayInv DEF Stay, Inside, Ops
<1>4. CASE \E r \in {0, -1} : NoBytes /\ Return("RecvFrom", r) /\ Quiet /\ UNCHANGED signals
  <2>1. Reports'  BY <1>4, ReturnOther
  <2> QED BY <1>0, <1>4, <2>1, EndInv DEF Ops, Quiet
<1> QED BY <1>1, <1>2, <1>3, <1>4 DEF RecvFrom

LEMMA SelectInv == SocketInv /\ (SendToSelect \/ RecvFromSelect) => SocketInv'
<1> SUFFICES ASSUME SocketInv, NEW op \in {"SendTo", "RecvFrom"}, NEW ready \in BOOLEAN,
                    pc \in {"SendToSelect", "RecvFromSelect"}, SelectTo(op, ready)
             PROVE  SocketInv'
  BY DEF SendToSelect, RecvFromSelect, NoRoom, NoData
<1>0. pos = 0 /\ pc \in Inside  BY DEF SocketInv, NothingMoved, Loops, Inside
<1>1. CASE Stay(op) /\ UNCHANGED signals
  BY <1>0, <1>1, StayInv DEF SelectTo, Stay, Inside, Ops
<1>2. CASE UNCHANGED <<pc, want, pos, last>> /\ Quiet /\ Signal
  BY <1>0, <1>2, StayInv DEF SelectTo
<1>3. CASE Return(op, -1) /\ Quiet /\ UNCHANGED signals
  <2>1. Reports'  BY <1>3, ReturnError
  <2> QED BY <1>3, <2>1, EndInv DEF SelectTo, Ops, Quiet
<1> QED BY <1>1, <1>2, <1>3 DEF SelectTo

(***************************************************************************)
(* The two connects                                                        *)
(***************************************************************************)
\* A step of a handshake moves no byte.
LEMMA ShakeInv ==
  ASSUME SocketInv, NEW c \in {"new", "pending", "up", "refused", "reset"}, Shake(c),
         nonblock' \in BOOLEAN, signals' = signals \/ Signal,
         pc \notin Loops, pc' \notin Loops, CallType', NothingMoved', Reports'
  PROVE  SocketInv'
<1> USE DEF SocketInv
<1>1. TypeOK'
  BY DEF TypeOK, CallType, Shake, NoBytes, Quiet, Counts, Signal
<1>2. Accounted'
  BY DEF TypeOK, Accounted, Loops, Shake, NoBytes, Quiet, Counts
<1> QED BY <1>1, <1>2

LEMMA ConnectInv ==
  ASSUME SocketInv, Connect
  PROVE  SocketInv'
<1> USE DEF SocketInv
<1>0. /\ pc = "Connect" /\ pc \notin Loops /\ pos = 0
      /\ conn \in {"new", "pending", "up", "refused", "reset"}
      /\ nonblock' \in BOOLEAN
  BY DEF Connect, NothingMoved, Loops, TypeOK
<1>1. CASE Shake("pending") /\ UNCHANGED <<pc, want, pos, last, signals>>
  <2>1. CallType' /\ NothingMoved'
    BY <1>1 DEF CallType, NothingMoved, TypeOK
  <2>2. pc' \notin Loops  BY <1>0, <1>1
  <2> QED BY <1>0, <1>1, <2>1, <2>2, KeepReports, ShakeInv
<1>2. CASE Signal /\ Return("Connect", -1) /\ Shake(conn)
  <2>1. CallType' /\ NothingMoved' /\ pc' \notin Loops
    BY <1>2, ReturnType DEF Ops, Loops
  <2>2. Reports'  BY <1>2, ReturnError
  <2> QED BY <1>0, <1>2, <2>1, <2>2, ShakeInv
<1>3. CASE /\ ~m_iFd \/ conn \in {"up", "refused", "reset"}
           /\ UNCHANGED signals
           /\ Return("Connect", IF m_iFd /\ conn # "refused" THEN 0 ELSE -1) /\ Shake(conn)
  <2>1. CallType' /\ NothingMoved' /\ pc' \notin Loops
    BY <1>3, ReturnType DEF Ops, Loops
  <2>2. Reports'
    BY <1>3 DEF Return, Reports, WholeOrTold, ConnectDecided
  <2> QED BY <1>0, <1>3, <2>1, <2>2, ShakeInv
<1> QED BY <1>1, <1>2, <1>3 DEF Connect

LEMMA NonBlockConnectInv ==
  ASSUME SocketInv, NonBlockConnect
  PROVE  SocketInv'
<1> USE DEF SocketInv
<1>0. /\ pc = "NonBlockConnect" /\ pc \notin Loops /\ pos = 0
      /\ conn \in {"new", "pending", "up", "refused", "reset"}
      /\ signals' = signals
  BY DEF NonBlockConnect, NothingMoved, Loops, TypeOK
<1>1. CASE Return("NonBlockConnect", -1) /\ Shake(conn) /\ UNCHANGED nonblock
  <2>1. CallType' /\ NothingMoved' /\ pc' \notin Loops
    BY <1>1, ReturnType DEF Ops, Loops
  <2>2. Reports'  BY <1>1, ReturnError
  <2>3. nonblock' \in BOOLEAN  BY <1>1 DEF TypeOK
  <2> QED BY <1>0, <1>1, <2>1, <2>2, <2>3, ShakeInv
<1>2. CASE SetNonBlock /\ Shake("pending") /\ pc' = "NBSelect" /\ UNCHANGED <<want, pos, last>>
  <2>1. CallType' /\ NothingMoved' /\ pc' \notin Loops
    BY <1>0, <1>2 DEF CallType, NothingMoved, TypeOK, Inside, Loops
  <2>2. nonblock' \in BOOLEAN  BY <1>2 DEF SetNonBlock
  <2> QED BY <1>0, <1>2, <2>1, <2>2, KeepReports, ShakeInv
<1>3. ASSUME NEW c \in {"up", "refused"}, SetNonBlock, Shake(c),
             pc' = "idle", want' = 0, pos' = 0,
             last' = [op |-> "NonBlockConnect", want |-> want, ret |-> 0, fd |-> m_iFd,
                      eof |-> FALSE, conn |-> c]
      PROVE  SocketInv'
  <2>1. last' \in Returned  BY <1>3 DEF Returned, Ops, TypeOK
  <2>2. CallType' /\ NothingMoved' /\ pc' \notin Loops
    BY <1>3, <2>1 DEF CallType, NothingMoved, Inside, Loops
  <2>3. Reports'  BY <1>3 DEF Reports, WholeOrTold, ConnectDecided
  <2>4. nonblock' \in BOOLEAN  BY <1>3 DEF SetNonBlock
  <2> QED BY <1>0, <1>3, <2>2, <2>3, <2>4, ShakeInv
<1> QED BY <1>1, <1>2, <1>3 DEF NonBlockConnect

LEMMA NBSelectInv ==
  ASSUME SocketInv, NBSelect
  PROVE  SocketInv'
<1> USE DEF SocketInv
<1>1. /\ pc = "NBSelect" /\ pc \notin Loops
      /\ conn \in {"new", "pending", "up", "refused", "reset"} /\ Shake(conn)
      /\ nonblock' \in BOOLEAN /\ (signals' = signals \/ Signal)
  BY DEF NBSelect, Loops, TypeOK, SetBlock
<1>2. PICK r \in {0, -1} : Return("NonBlockConnect", r) /\ (r = 0 => conn # "pending")
  BY DEF NBSelect
<1>3. CallType' /\ NothingMoved' /\ pc' \notin Loops
  BY <1>2, ReturnType DEF Ops, Loops
<1>4. Reports'
  BY <1>2 DEF Return, Reports, WholeOrTold, ConnectDecided
<1> QED BY <1>1, <1>3, <1>4, ShakeInv

(***************************************************************************)
(* The callers, the network and the peer                                   *)
(***************************************************************************)
LEMMA CallInv ==
  ASSUME SocketInv, NEW op \in Ops, NEW n \in 1 .. MaxLen, Call(op, n)
  PROVE  SocketInv'
<1> USE DEF SocketInv
<1>1. NoCall \in Returned  BY DEF NoCall, Returned
<1>2. CallType' /\ NothingMoved'
  BY <1>1 DEF Call, CallType, NothingMoved, Inside
<1>3. TypeOK'  BY <1>2, RestType DEF Call, Quiet
<1>4. Accounted'
  BY DEF Call, TypeOK, Accounted, NoBytes, Quiet, Counts
<1>5. Reports'
  BY DEF Call, NoCall, Reports, WholeOrTold, ConnectDecided
<1> QED BY <1>2, <1>3, <1>4, <1>5

\* What is not the program's step leaves the call and its counts alone, and
\* takes no byte back.
LEMMA OutsideInv ==
  ASSUME SocketInv,
         \/ Close \/ (\E c \in {"up", "refused"} : Resolve(c))
         \/ PeerSends \/ PeerReads \/ PeerCloses \/ PeerResets
         \/ UNCHANGED vars
  PROVE  SocketInv'
<1> USE DEF SocketInv
<1>1. UNCHANGED <<nonblock, taken, sent, pc, want, pos, signals, last, hist>>
  BY DEF Close, Resolve, PeerSends, PeerReads, PeerCloses, PeerResets, Ours, vars
<1>2. /\ m_iFd' \in BOOLEAN /\ peerOpen' \in BOOLEAN
      /\ conn' \in {"new", "pending", "up", "refused", "reset"}
  BY DEF TypeOK, Close, Resolve, PeerSends, PeerReads, PeerCloses, PeerResets, Ours, vars, kernel
<1>3. peerSent' \in Nat /\ peerSent' >= peerSent /\ room' \in 0 .. RoomMax
  BY DEF TypeOK, Close, Resolve, PeerSends, PeerReads, PeerCloses, PeerResets, vars, kernel
<1>4. TypeOK'  BY <1>1, <1>2, <1>3 DEF TypeOK, hist
<1>5. NothingMoved' /\ Accounted'
  BY <1>1 DEF NothingMoved, Accounted, hist
<1> QED BY <1>1, <1>4, <1>5, KeepReports

LEMMA NextInv == SocketInv /\ [Next]_vars => SocketInv'
<1> SUFFICES ASSUME SocketInv, [Next]_vars PROVE SocketInv'  OBVIOUS
<1>1. CASE CallStep
  <2>1. 1 \in 1 .. MaxLen  OBVIOUS
  <2>2. CASE ReadReturns \/ ReadFails \/ ReadInterrupted  BY <2>1, <2>2, ReadInv
  <2>3. CASE WriteReturns \/ WriteFails \/ WriteInterrupted  BY <2>1, <2>3, WriteInv
  <2>4. CASE SelectFails  BY <2>1, <2>4, RecvInv
  <2>5. CASE SendReady \/ SendEnds  BY <2>1, <2>5, SendInv
  <2>6. CASE SendToSelect \/ RecvFromSelect  BY <2>6, SelectInv
  <2>7. CASE Connect  BY <2>7, ConnectInv
  <2>8. CASE NonBlockConnect  BY <2>8, NonBlockConnectInv
  <2>9. CASE NBSelect  BY <2>9, NBSelectInv
  <2>10. ASSUME NEW k \in 1 .. MaxLen,
                \/ ReadSome(k) \/ WriteSome(k) \/ SendSome(k)
                \/ RecvReady(k) \/ SendTo(k) \/ RecvFrom(k)
         PROVE  SocketInv'
    BY <2>10, ReadInv, WriteInv, SendInv, RecvInv, SendToInv, RecvFromInv
  <2> QED BY <1>1, <2>2, <2>3, <2>4, <2>5, <2>6, <2>7, <2>8, <2>9, <2>10 DEF CallStep
<1>2. ASSUME NEW op \in Ops, NEW n \in 1 .. MaxLen, Call(op, n)
      PROVE  SocketInv'
  BY <1>2, CallInv
<1>3. CASE \/ Close \/ (\E c \in {"up", "refused"} : Resolve(c))
           \/ PeerSends \/ PeerReads \/ PeerCloses \/ PeerResets
           \/ UNCHANGED vars
  BY <1>3, OutsideInv
<1> QED BY <1>1, <1>2, <1>3 DEF Next

LEMMA InitInv == Init => SocketInv
<1> SUFFICES ASSUME Init PROVE SocketInv  OBVIOUS
<1>1. NoCall \in Returned  BY DEF NoCall, Returned
<1>2. m_iFd \in BOOLEAN /\ nonblock \in BOOLEAN /\ peerOpen \in BOOLEAN
  BY Zenon DEF Init
<1>3. last \in Returned  BY <1>1 DEF Init
<1>4. 0 \in 0 .. 0 /\ RoomMax \in 0 .. RoomMax  OBVIOUS
<1>5. TypeOK  BY <1>2, <1>3, <1>4 DEF Init, TypeOK, Inside
<1>6. NothingMoved /\ Accounted  BY DEF Init, NothingMoved, Accounted
<1>7. Reports  BY DEF Init, NoCall, Reports, WholeOrTold, ConnectDecided
<1> QED BY <1>5, <1>6, <1>7 DEF SocketInv

LEMMA Invariance == Spec => []SocketInv
BY InitInv, NextInv, PTL DEF Spec

(***************************************************************************)
(* The theorems                                                            *)
(***************************************************************************)
\* The counts stay in their ranges: no call takes more than the peer has sent
\* or moves more than it was asked to (Socket.cpp:53, 161).
THEOREM TypeCorrect == Spec => []TypeOK
BY Invariance, PTL DEF SocketInv

\* No byte is lost or reported twice by Read, Write, Send, Recv, SendTo and
\* RecvFrom, whatever is interrupted, partial or refused, but for the part of a
\* Read or Write that returned -1 (Socket.cpp:53, 161, 199).
THEOREM BytesAccounted == Spec => []Accounted
BY Invariance, PTL DEF SocketInv

\* A count that Read or Write returns is the whole, or the end of the file or
\* the missing descriptor explains it (Socket.cpp:53, 161).
THEOREM WholeCounts == Spec => []WholeOrTold
BY Invariance, PTL DEF SocketInv, Reports

\* Connect and NonBlockConnect never return 0 during the handshake
\* (ClientSocket.cpp:33, 92).
THEOREM ConnectsDecided == Spec => []ConnectDecided
BY Invariance, PTL DEF SocketInv, Reports
=============================================================================
