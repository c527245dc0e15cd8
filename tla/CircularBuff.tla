---------------------------- MODULE CircularBuff ----------------------------
(***************************************************************************)
(* CircularBuff, the receive buffer of every Client: Put(buffer, length),  *)
(* Get(buffer, length) and GetHeader(buffer) on a ring of Size bytes, with *)
(* the tests, branches and memcpy ranges of the code.                      *)
(*                                                                         *)
(* The allocation has Size + 1 bytes.  A memcpy that reads past it yields  *)
(* Undefined bytes, and so does the spare byte and a byte never written.   *)
(*                                                                         *)
(* MaxPut, MaxBacklog and MaxGet describe the user of the buffer: it puts  *)
(* at most MaxPut bytes at once, never lets more than MaxBacklog bytes     *)
(* pile up and never asks for more than MaxGet bytes at once.              *)
(***************************************************************************)
EXTENDS Integers, Sequences

CONSTANTS
  Bytes,            \* byte values
  Undefined,        \* the value of memory the program never wrote
  Size,             \* m_iBufferSize
  HeaderSize,       \* sizeof(PACKET_HEADER)
  RECV_NOT_ENOUGH,  \* Socket.h
  MaxPut, MaxBacklog, MaxGet

ASSUME BuffAssumption ==
  /\ Size \in Nat \ {0}
  /\ HeaderSize \in Nat \ {0}
  /\ RECV_NOT_ENOUGH \in Int /\ RECV_NOT_ENOUGH < 0
  /\ MaxPut \in 0 .. Size + 1
  /\ MaxBacklog \in 0 .. Size
  /\ MaxGet \in 0 .. Size + 1
  /\ HeaderSize <= MaxGet
  /\ Undefined \notin Bytes

VARIABLES
  m_iHead, m_iTail, m_iUseBufferSize,
  m_pchBufferHeader,  \* the allocation, indexed 0 .. Size
  in,                 \* what the last operation was given to put, if it took it
  out,                \* the caller's buffer after the last Get or GetHeader
  ret                 \* the last return value

vars == <<m_iHead, m_iTail, m_iUseBufferSize, m_pchBufferHeader, in, out, ret>>

Allocation == 0 .. Size
Cells == Bytes \cup {Undefined}

(* CircularBuff() and NewBuffer: new char[Size + 1] is not initialised.    *)
Init ==
  /\ m_iHead = 0
  /\ m_iTail = 0
  /\ m_iUseBufferSize = 0
  /\ m_pchBufferHeader = [i \in Allocation |-> Undefined]
  /\ in = << >>
  /\ out = << >>
  /\ ret = 0

GetFreeSize == Size - m_iUseBufferSize

(* memcpy(&m_pchBufferHeader[at], s, Len(s))                               *)
CopyIn(b, at, s) ==
  [i \in Allocation |-> IF i \in at .. at + Len(s) - 1 THEN s[i - at + 1] ELSE b[i]]

(* memcpy(_, &m_pchBufferHeader[at], n)                                    *)
CopyOut(at, n) ==
  [i \in 1 .. n |->
     IF at + i - 1 \in Allocation THEN m_pchBufferHeader[at + i - 1] ELSE Undefined]

-----------------------------------------------------------------------------
(* Mutant: the free part is taken to end at m_iHead, so nothing wraps.     *)
PutBytesNoWrap(s) == CopyIn(m_pchBufferHeader, m_iTail, s)

(* The branches of Put that decide where the bytes go.                     *)
PutBytes(s) ==
  LET iFree == Size - m_iTail IN
  IF m_iHead <= m_iTail + Len(s) /\ m_iHead # 0 /\ Len(s) > iFree
  THEN CopyIn(CopyIn(m_pchBufferHeader, m_iTail, SubSeq(s, 1, iFree)),
              0, SubSeq(s, iFree + 1, Len(s)))
  ELSE CopyIn(m_pchBufferHeader, m_iTail, s)

(* "m_i... += n; if (m_iBufferSize <= m_i...) m_i... -= m_iBufferSize"     *)
Forward(index, n) == IF Size <= index + n THEN index + n - Size ELSE index + n

(* Mutant: the index may come to rest on the spare byte.                   *)
PutOffByOne(s) ==
  \/ /\ Len(s) > GetFreeSize
     /\ in' = << >>
     /\ ret' = -1
     /\ UNCHANGED <<m_iHead, m_iTail, m_iUseBufferSize, m_pchBufferHeader, out>>
  \/ /\ Len(s) <= GetFreeSize
     /\ m_pchBufferHeader' = PutBytes(s)
     /\ m_iTail' = IF Size < m_iTail + Len(s) THEN m_iTail + Len(s) - Size ELSE m_iTail + Len(s)
     /\ m_iUseBufferSize' = m_iUseBufferSize + Len(s)
     /\ in' = s
     /\ ret' = Len(s)
     /\ UNCHANGED <<m_iHead, out>>

Put(s) ==
  \/ /\ Len(s) > GetFreeSize
     /\ in' = << >>
     /\ ret' = -1
     /\ UNCHANGED <<m_iHead, m_iTail, m_iUseBufferSize, m_pchBufferHeader, out>>
  \/ /\ Len(s) <= GetFreeSize
     /\ m_pchBufferHeader' = PutBytes(s)
     /\ m_iTail' = Forward(m_iTail, Len(s))
     /\ m_iUseBufferSize' = m_iUseBufferSize + Len(s)
     /\ in' = s
     /\ ret' = Len(s)
     /\ UNCHANGED <<m_iHead, out>>

(* Get and GetHeader copy in two pieces only when m_iHead > m_iTail + n.   *)
GetBytes(n) ==
  LET iRightLen == Size - m_iHead IN
  IF m_iHead > m_iTail + n /\ n > iRightLen
  THEN CopyOut(m_iHead, iRightLen) \o CopyOut(0, n - iRightLen)
  ELSE CopyOut(m_iHead, n)

Get(n) ==
  \/ /\ n > m_iUseBufferSize
     /\ in' = << >>
     /\ ret' = RECV_NOT_ENOUGH
     /\ UNCHANGED <<m_iHead, m_iTail, m_iUseBufferSize, m_pchBufferHeader, out>>
  \/ /\ n <= m_iUseBufferSize
     /\ in' = << >>
     /\ out' = GetBytes(n)
     /\ m_iHead' = Forward(m_iHead, n)
     /\ m_iUseBufferSize' = m_iUseBufferSize - n
     /\ ret' = n
     /\ UNCHANGED <<m_iTail, m_pchBufferHeader>>

(* GetHeader does not ask whether HeaderSize bytes have arrived.           *)
GetHeader ==
  /\ in' = << >>
  /\ out' = GetBytes(HeaderSize)
  /\ ret' = 0
  /\ UNCHANGED <<m_iHead, m_iTail, m_iUseBufferSize, m_pchBufferHeader>>

-----------------------------------------------------------------------------
(* A burst of k bytes either fits into the backlog or is refused by Put;   *)
(* the user calls Get and GetHeader only on a non-empty buffer             *)
(* (ThreadReceiver tests IsValidPacket() > 0).                             *)
Next ==
  \/ \E k \in 1 .. MaxPut : \E s \in [1 .. k -> Bytes] :
       /\ m_iUseBufferSize + k <= MaxBacklog \/ k > GetFreeSize
       /\ Put(s)
  \/ \E n \in 1 .. MaxGet : m_iUseBufferSize > 0 /\ Get(n)
  \/ m_iUseBufferSize > 0 /\ GetHeader

Spec == Init /\ [][Next]_vars

-----------------------------------------------------------------------------
(* The indices stay inside the ring and the tail is where the used bytes   *)
(* end.                                                                    *)
TypeOK ==
  /\ m_iHead \in 0 .. Size - 1
  /\ m_iUseBufferSize \in 0 .. MaxBacklog
  /\ m_iTail = Forward(m_iHead, m_iUseBufferSize)
  /\ m_pchBufferHeader \in [Allocation -> Cells]
  /\ in \in Seq(Bytes)
  /\ out \in Seq(Cells)
  /\ ret \in Int

(* The bytes the buffer holds, oldest first.                               *)
Contents == [i \in 1 .. m_iUseBufferSize |-> m_pchBufferHeader[(m_iHead + i - 1) % Size]]

Stream == INSTANCE ByteStream WITH stream <- Contents

(* The buffer is a byte stream: what Get returns is what was Put, in       *)
(* order, whatever the positions at which reads and writes wrap around.    *)
ImplementsStream == Stream!Spec
=============================================================================
