------------------------- MODULE CircularBuffProofs -------------------------
(***************************************************************************)
(* Proofs about CircularBuff for every buffer size and every byte set: the *)
(* indices stay consistent, and as long as the backlog and a request       *)
(* together are smaller than the buffer, the buffer is a byte stream.      *)
(***************************************************************************)
EXTENDS CircularBuff, SequenceTheorems, TLAPS

LEMMA ModSmall == \A q \in Nat \ {0} : \A x \in 0 .. q - 1 : x % q = x
  OBVIOUS

LEMMA ModWrap == \A q \in Nat \ {0} : \A x \in q .. 2 * q - 1 : x % q = x - q
  OBVIOUS

(* The conditional subtraction of the code is the remainder.               *)
LEMMA ForwardIsMod ==
  ASSUME NEW h \in 0 .. Size - 1, NEW i \in 0 .. Size
  PROVE  (h + i) % Size = Forward(h, i) /\ Forward(h, i) \in 0 .. Size - 1
  <1>1. Size \in Nat \ {0} /\ h + i \in 0 .. 2 * Size - 1
    BY BuffAssumption
  <1>2. CASE h + i < Size
    BY <1>1, <1>2, ModSmall DEF Forward
  <1>3. CASE h + i >= Size
    <2>1. h + i \in Size .. 2 * Size - 1
      BY <1>1, <1>3
    <2>2. \A x \in Size .. 2 * Size - 1 : x % Size = x - Size
      BY BuffAssumption, ModWrap
    <2>3. (h + i) % Size = (h + i) - Size
      BY <2>1, <2>2
    <2> QED BY <1>1, <1>3, <2>3 DEF Forward
  <1> QED BY <1>1, <1>2, <1>3

(* Advancing in two steps is advancing once.                               *)
LEMMA ForwardTwice ==
  ASSUME NEW h \in 0 .. Size - 1, NEW i \in Nat, NEW j \in Nat, i + j <= Size
  PROVE  Forward(Forward(h, i), j) = Forward(h, i + j)
  BY BuffAssumption DEF Forward

LEMMA ContentsCells ==
  ASSUME TypeOK
  PROVE  /\ Contents \in Seq(Cells)
         /\ Len(Contents) = m_iUseBufferSize
         /\ \A i \in 1 .. m_iUseBufferSize :
              Contents[i] = m_pchBufferHeader[Forward(m_iHead, i - 1)]
  <1>1. \A i \in 1 .. m_iUseBufferSize :
           /\ (m_iHead + i - 1) % Size = Forward(m_iHead, i - 1)
           /\ Forward(m_iHead, i - 1) \in 0 .. Size - 1
    <2> SUFFICES ASSUME NEW i \in 1 .. m_iUseBufferSize
                 PROVE  /\ (m_iHead + i - 1) % Size = Forward(m_iHead, i - 1)
                        /\ Forward(m_iHead, i - 1) \in 0 .. Size - 1
      OBVIOUS
    <2>1. i - 1 \in 0 .. Size /\ m_iHead + i - 1 = m_iHead + (i - 1) /\ m_iHead \in 0 .. Size - 1
      BY BuffAssumption DEF TypeOK
    <2> QED BY <2>1, ForwardIsMod
  <1>2. \A i \in 1 .. m_iUseBufferSize : m_pchBufferHeader[Forward(m_iHead, i - 1)] \in Cells
    <2> SUFFICES ASSUME NEW i \in 1 .. m_iUseBufferSize
                 PROVE  m_pchBufferHeader[Forward(m_iHead, i - 1)] \in Cells
      OBVIOUS
    <2>1. Forward(m_iHead, i - 1) \in Allocation
      BY <1>1, BuffAssumption DEF Allocation
    <2> QED BY <2>1 DEF TypeOK
  <1>3. \A i \in 1 .. m_iUseBufferSize :
           Contents[i] = m_pchBufferHeader[Forward(m_iHead, i - 1)]
    BY <1>1 DEF Contents
  <1>4. Contents \in [1 .. m_iUseBufferSize -> Cells]
    BY <1>1, <1>2 DEF Contents
  <1>5. m_iUseBufferSize \in Nat
    BY BuffAssumption DEF TypeOK
  <1> QED BY <1>3, <1>4, <1>5

-----------------------------------------------------------------------------
(* What memcpy into the buffer does.                                       *)
LEMMA CopyInCells ==
  ASSUME NEW b \in [Allocation -> Cells], NEW at \in 0 .. Size, NEW s \in Seq(Bytes)
  PROVE  /\ CopyIn(b, at, s) \in [Allocation -> Cells]
         /\ \A x \in Allocation : CopyIn(b, at, s)[x] =
              IF x \in at .. at + Len(s) - 1 THEN s[x - at + 1] ELSE b[x]
  <1>1. \A x \in Allocation : CopyIn(b, at, s)[x] =
          IF x \in at .. at + Len(s) - 1 THEN s[x - at + 1] ELSE b[x]
    BY DEF CopyIn
  <1>2. ASSUME NEW x \in Allocation PROVE CopyIn(b, at, s)[x] \in Cells
    <2>1. CASE x \in at .. at + Len(s) - 1
      <3>1. x - at + 1 \in 1 .. Len(s)
        BY <2>1
      <3> QED BY <1>1, <2>1, <3>1, ElementOfSeq DEF Cells
    <2>2. CASE x \notin at .. at + Len(s) - 1
      BY <1>1, <2>2
    <2> QED BY <2>1, <2>2
  <1> QED BY <1>1, <1>2 DEF CopyIn

(* Where Put writes: the k cells from m_iTail on, wrapping at Size.        *)
LEMMA PutWrites ==
  ASSUME TypeOK, NEW k \in 1 .. Size + 1, NEW s \in [1 .. k -> Bytes], k <= GetFreeSize
  PROVE  /\ PutBytes(s) \in [Allocation -> Cells]
         /\ \A x \in 0 .. Size - 1 :
              PutBytes(s)[x] =
                IF x \in m_iTail .. m_iTail + k - 1 THEN s[x - m_iTail + 1]
                ELSE IF x + Size \in m_iTail .. m_iTail + k - 1 THEN s[x + Size - m_iTail + 1]
                ELSE m_pchBufferHeader[x]
  <1> USE BuffAssumption
  <1>1. s \in Seq(Bytes) /\ Len(s) = k /\ m_pchBufferHeader \in [Allocation -> Cells]
    BY DEF TypeOK
  <1>2. /\ m_iTail \in 0 .. Size - 1 /\ m_iHead \in 0 .. Size - 1
        /\ m_iUseBufferSize \in 0 .. Size /\ m_iUseBufferSize + k <= Size
        /\ m_iTail = IF Size <= m_iHead + m_iUseBufferSize THEN m_iHead + m_iUseBufferSize - Size
                     ELSE m_iHead + m_iUseBufferSize
    BY DEF Forward, TypeOK, GetFreeSize
  <1>3. CASE m_iHead <= m_iTail + k /\ m_iHead # 0 /\ k > Size - m_iTail
    <2> DEFINE iFree == Size - m_iTail
               s1 == SubSeq(s, 1, iFree)
               s2 == SubSeq(s, iFree + 1, k)
               b1 == CopyIn(m_pchBufferHeader, m_iTail, s1)
               b2 == CopyIn(b1, 0, s2)
    <2>1. iFree \in 1 .. k - 1 /\ iFree + 1 \in 1 .. k /\ k - iFree <= m_iTail /\ m_iTail + iFree = Size
      BY <1>2, <1>3
    <2>2. s1 \in Seq(Bytes) /\ Len(s1) = iFree /\ \A i \in 1 .. iFree : s1[i] = s[i]
      BY <1>1, <2>1
    <2>3. s2 \in Seq(Bytes) /\ Len(s2) = k - iFree /\ \A i \in 1 .. k - iFree : s2[i] = s[iFree + i]
      BY <1>1, <2>1
    <2>4. PutBytes(s) = b2
      BY <1>1, <1>3 DEF PutBytes
    <2> HIDE DEF s1, s2
    <2>5. /\ b1 \in [Allocation -> Cells]
          /\ \A x \in Allocation : b1[x] =
               IF x \in m_iTail .. m_iTail + Len(s1) - 1 THEN s1[x - m_iTail + 1]
               ELSE m_pchBufferHeader[x]
      BY <1>1, <1>2, <2>2, CopyInCells
    <2> HIDE DEF b1
    <2>6. /\ b2 \in [Allocation -> Cells]
          /\ \A x \in Allocation : b2[x] =
               IF x \in 0 .. 0 + Len(s2) - 1 THEN s2[x - 0 + 1] ELSE b1[x]
      BY <2>3, <2>5, CopyInCells
    <2> HIDE DEF b2, iFree
    <2>7. ASSUME NEW x \in 0 .. Size - 1
          PROVE  b2[x] =
                    IF x \in m_iTail .. m_iTail + k - 1 THEN s[x - m_iTail + 1]
                    ELSE IF x + Size \in m_iTail .. m_iTail + k - 1 THEN s[x + Size - m_iTail + 1]
                    ELSE m_pchBufferHeader[x]
      <3>0. x \in Allocation
        BY DEF Allocation
      <3>1. CASE x < k - iFree
        <4>1. b2[x] = s2[x + 1] /\ x + 1 \in 1 .. k - iFree
          BY <2>1, <2>3, <2>6, <3>0, <3>1
        <4>2. s2[x + 1] = s[iFree + (x + 1)]
          BY <2>3, <4>1
        <4>3. iFree + (x + 1) = x + Size - m_iTail + 1
          BY <1>2, <2>1
        <4>4. x \notin m_iTail .. m_iTail + k - 1 /\ x + Size \in m_iTail .. m_iTail + k - 1
          BY <1>2, <2>1, <3>1
        <4> QED BY <4>1, <4>2, <4>3, <4>4
      <3>2. CASE x >= k - iFree /\ x < m_iTail
        <4>1. b2[x] = b1[x]
          BY <2>1, <2>3, <2>6, <3>0, <3>2
        <4>2. b1[x] = m_pchBufferHeader[x]
          BY <1>2, <2>5, <3>0, <3>2
        <4>3. x \notin m_iTail .. m_iTail + k - 1 /\ x + Size \notin m_iTail .. m_iTail + k - 1
          BY <1>2, <2>1, <3>2
        <4> QED BY <4>1, <4>2, <4>3
      <3>3. CASE x >= m_iTail
        <4>1. b2[x] = b1[x]
          BY <1>2, <2>1, <2>3, <2>6, <3>0, <3>3
        <4>2. b1[x] = s1[x - m_iTail + 1] /\ x - m_iTail + 1 \in 1 .. iFree
          BY <1>2, <2>1, <2>2, <2>5, <3>0, <3>3
        <4>3. s1[x - m_iTail + 1] = s[x - m_iTail + 1]
          BY <2>2, <4>2
        <4>4. x \in m_iTail .. m_iTail + k - 1
          BY <1>2, <2>1, <3>3
        <4> QED BY <4>1, <4>2, <4>3, <4>4
      <3>4. x < k - iFree \/ (x >= k - iFree /\ x < m_iTail) \/ x >= m_iTail
        BY <1>2, <2>1
      <3> QED BY <3>1, <3>2, <3>3, <3>4
    <2> QED BY <2>4, <2>6, <2>7
  <1>4. CASE ~(m_iHead <= m_iTail + k /\ m_iHead # 0 /\ k > Size - m_iTail)
    <2>1. PutBytes(s) = CopyIn(m_pchBufferHeader, m_iTail, s)
      BY <1>1, <1>4 DEF PutBytes
    <2>2. k <= Size - m_iTail
      BY <1>2, <1>4
    <2>3. /\ PutBytes(s) \in [Allocation -> Cells]
          /\ \A x \in Allocation : PutBytes(s)[x] =
               IF x \in m_iTail .. m_iTail + k - 1 THEN s[x - m_iTail + 1] ELSE m_pchBufferHeader[x]
      BY <1>1, <1>2, <2>1, CopyInCells
    <2>4. \A x \in 0 .. Size - 1 : x \in Allocation /\ x + Size \notin m_iTail .. m_iTail + k - 1
      BY <1>2, <2>2 DEF Allocation
    <2> QED BY <2>3, <2>4
  <1> QED BY <1>3, <1>4

LEMMA PutType ==
  ASSUME TypeOK, NEW k \in 1 .. Size + 1, NEW s \in [1 .. k -> Bytes],
         m_iUseBufferSize + k <= MaxBacklog \/ k > GetFreeSize, Put(s)
  PROVE  TypeOK'
  <1> USE BuffAssumption
  <1>1. Len(s) = k /\ s \in Seq(Bytes) /\ << >> \in Seq(Bytes)
    OBVIOUS
  <1>2. CASE k > GetFreeSize
    <2>1. /\ UNCHANGED <<m_iHead, m_iTail, m_iUseBufferSize, m_pchBufferHeader, out>>
          /\ in' = << >> /\ ret' = -1
      BY <1>1, <1>2 DEF Put, TypeOK, GetFreeSize
    <2> QED BY <1>1, <2>1 DEF TypeOK, Forward
  <1>3. CASE k <= GetFreeSize
    <2>1. m_iUseBufferSize' = m_iUseBufferSize + k /\ m_iHead' = m_iHead
      BY <1>1, <1>3 DEF Put, TypeOK, GetFreeSize
    <2>2. m_iTail' = Forward(m_iTail, k)
      BY <1>1, <1>3 DEF Put, TypeOK, GetFreeSize
    <2>3. m_iTail' = Forward(m_iHead, m_iUseBufferSize + k)
      BY <1>3, <2>2, ForwardTwice DEF TypeOK, GetFreeSize
    <2>4. m_pchBufferHeader' \in [Allocation -> Cells]
      BY <1>1, <1>3, PutWrites DEF Put, TypeOK, GetFreeSize
    <2>5. in' = s /\ out' = out /\ ret' \in Int
      BY <1>1, <1>3 DEF Put, TypeOK, GetFreeSize
    <2>6. m_iUseBufferSize' \in 0 .. MaxBacklog
      BY <1>3, <2>1 DEF TypeOK, GetFreeSize
    <2>7. m_iTail' = Forward(m_iHead', m_iUseBufferSize')
      BY <2>1, <2>3
    <2> QED BY <1>1, <2>1, <2>4, <2>5, <2>6, <2>7 DEF TypeOK, Forward
  <1> QED BY <1>2, <1>3 DEF TypeOK, GetFreeSize

-----------------------------------------------------------------------------
(* What Get and GetHeader copy: n cells, and the oldest n bytes whenever   *)
(* the single-piece copy is not taken across the end of the ring.          *)

LEMMA CopyOutCells ==
  ASSUME TypeOK, NEW at \in Nat, NEW n \in Nat
  PROVE  /\ CopyOut(at, n) \in Seq(Cells) /\ Len(CopyOut(at, n)) = n
         /\ \A i \in 1 .. n : at + i - 1 \in Allocation =>
              CopyOut(at, n)[i] = m_pchBufferHeader[at + i - 1]
  <1>1. \A i \in 1 .. n : CopyOut(at, n)[i] \in Cells
    BY DEF CopyOut, TypeOK, Cells
  <1>2. CopyOut(at, n) \in [1 .. n -> Cells]
    BY <1>1 DEF CopyOut
  <1> QED BY <1>2 DEF CopyOut

LEMMA GetBytesCells ==
  ASSUME TypeOK, NEW n \in 1 .. MaxGet
  PROVE  GetBytes(n) \in Seq(Cells) /\ Len(GetBytes(n)) = n
  <1> USE BuffAssumption
  <1> DEFINE iRightLen == Size - m_iHead
  <1>1. m_iHead \in Nat /\ iRightLen \in Nat /\ n \in Nat
    BY DEF TypeOK
  <1>2. CASE m_iHead > m_iTail + n /\ n > iRightLen
    <2>1. GetBytes(n) = CopyOut(m_iHead, iRightLen) \o CopyOut(0, n - iRightLen)
      BY <1>2 DEF GetBytes
    <2>2. n - iRightLen \in Nat
      BY <1>1, <1>2
    <2>3. CopyOut(m_iHead, iRightLen) \in Seq(Cells) /\ Len(CopyOut(m_iHead, iRightLen)) = iRightLen
      BY <1>1, CopyOutCells
    <2>4. CopyOut(0, n - iRightLen) \in Seq(Cells) /\ Len(CopyOut(0, n - iRightLen)) = n - iRightLen
      BY <2>2, CopyOutCells
    <2> HIDE DEF iRightLen
    <2>5. iRightLen + (n - iRightLen) = n
      BY <1>1
    <2> QED BY <2>1, <2>3, <2>4, <2>5, ConcatProperties
  <1>3. CASE ~(m_iHead > m_iTail + n /\ n > iRightLen)
    <2>1. GetBytes(n) = CopyOut(m_iHead, n)
      BY <1>3 DEF GetBytes
    <2> QED BY <1>1, <2>1, CopyOutCells
  <1> QED BY <1>2, <1>3

LEMMA GetBytesOldest ==
  ASSUME TypeOK, NEW n \in 1 .. MaxGet, n <= m_iUseBufferSize, MaxBacklog + MaxGet < Size
  PROVE  GetBytes(n) = SubSeq(Contents, 1, n)
  <1> USE BuffAssumption
  <1> DEFINE iRightLen == Size - m_iHead
  <1>1. /\ m_iHead \in 0 .. Size - 1 /\ iRightLen \in 1 .. Size /\ n \in Nat
        /\ m_iUseBufferSize \in 0 .. Size /\ m_iUseBufferSize + n < Size
        /\ m_iTail = IF Size <= m_iHead + m_iUseBufferSize THEN m_iHead + m_iUseBufferSize - Size
                     ELSE m_iHead + m_iUseBufferSize
    BY DEF TypeOK, Forward
  <1>2. GetBytes(n) \in Seq(Cells) /\ Len(GetBytes(n)) = n
    BY GetBytesCells
  <1>3. ASSUME NEW i \in 1 .. n
        PROVE  GetBytes(n)[i] = m_pchBufferHeader[Forward(m_iHead, i - 1)]
    <2>1. CASE m_iHead > m_iTail + n /\ n > iRightLen
      <3> DEFINE left == CopyOut(m_iHead, iRightLen)
                 right == CopyOut(0, n - iRightLen)
      <3>1. GetBytes(n) = left \o right
        BY <2>1 DEF GetBytes
      <3>0. m_iHead \in Nat /\ iRightLen \in Nat
        BY <1>1
      <3>2. /\ left \in Seq(Cells) /\ Len(left) = iRightLen
            /\ \A j \in 1 .. iRightLen : m_iHead + j - 1 \in Allocation =>
                   left[j] = m_pchBufferHeader[m_iHead + j - 1]
        BY <3>0, CopyOutCells
      <3>3. n - iRightLen \in Nat
        BY <1>1, <2>1
      <3>4. /\ right \in Seq(Cells) /\ Len(right) = n - iRightLen
            /\ \A j \in 1 .. n - iRightLen : 0 + j - 1 \in Allocation =>
                   right[j] = m_pchBufferHeader[0 + j - 1]
        BY <3>3, CopyOutCells
      <3> HIDE DEF left, right
      <3>5. i \in 1 .. Len(left) + Len(right)
        BY <1>1, <3>2, <3>4
      <3>6. GetBytes(n)[i] = IF i <= Len(left) THEN left[i] ELSE right[i - Len(left)]
        <4>1. \A j \in 1 .. Len(left) + Len(right) :
                (left \o right)[j] = IF j <= Len(left) THEN left[j] ELSE right[j - Len(left)]
          BY <3>2, <3>4, ConcatProperties
        <4> QED BY <3>1, <3>5, <4>1
      <3>7. CASE i <= iRightLen
        <4>1. m_iHead + i - 1 \in Allocation /\ Forward(m_iHead, i - 1) = m_iHead + i - 1
          BY <1>1, <3>7 DEF Allocation, Forward
        <4>2. left[i] = m_pchBufferHeader[m_iHead + i - 1]
          BY <3>2, <3>7, <4>1
        <4> QED BY <3>2, <3>6, <3>7, <4>1, <4>2
      <3>8. CASE i > iRightLen
        <4>1. /\ i - iRightLen \in 1 .. n - iRightLen
              /\ 0 + (i - iRightLen) - 1 \in Allocation
              /\ Forward(m_iHead, i - 1) = 0 + (i - iRightLen) - 1
          BY <1>1, <3>8 DEF Allocation, Forward
        <4>2. right[i - iRightLen] = m_pchBufferHeader[0 + (i - iRightLen) - 1]
          BY <3>4, <4>1
        <4>3. GetBytes(n)[i] = right[i - iRightLen]
          BY <1>1, <3>2, <3>6, <3>8
        <4> QED BY <4>1, <4>2, <4>3
      <3> QED BY <1>1, <3>7, <3>8
    <2>2. CASE ~(m_iHead > m_iTail + n /\ n > iRightLen)
      <3>1. GetBytes(n) = CopyOut(m_iHead, n)
        BY <2>2 DEF GetBytes
      <3>2. n <= iRightLen
        BY <1>1, <2>2
      <3>3. m_iHead + i - 1 \in Allocation /\ Forward(m_iHead, i - 1) = m_iHead + i - 1
        BY <1>1, <3>2 DEF Allocation, Forward
      <3>4. m_iHead \in Nat /\ n \in Nat
        BY <1>1
      <3> QED BY <3>1, <3>3, <3>4, CopyOutCells
    <2> QED BY <2>1, <2>2
  <1>4. /\ Contents \in Seq(Cells) /\ Len(Contents) = m_iUseBufferSize
        /\ \A i \in 1 .. m_iUseBufferSize :
              Contents[i] = m_pchBufferHeader[Forward(m_iHead, i - 1)]
    BY ContentsCells
  <1>5. /\ SubSeq(Contents, 1, n) \in Seq(Cells) /\ Len(SubSeq(Contents, 1, n)) = n
        /\ \A i \in 1 .. n : SubSeq(Contents, 1, n)[i] = Contents[i]
    BY <1>1, <1>4
  <1>6. ASSUME NEW i \in 1 .. n PROVE GetBytes(n)[i] = SubSeq(Contents, 1, n)[i]
    <2>1. i \in 1 .. m_iUseBufferSize
      BY <1>1
    <2> QED BY <1>3, <1>4, <1>5, <2>1
  <1> QED BY <1>2, <1>5, <1>6, SeqEqual

LEMMA GetType ==
  ASSUME TypeOK, NEW n \in 1 .. MaxGet, Get(n)
  PROVE  TypeOK'
  <1> USE BuffAssumption
  <1>0. << >> \in Seq(Bytes)
    OBVIOUS
  <1>1. CASE n > m_iUseBufferSize
    <2>1. /\ UNCHANGED <<m_iHead, m_iTail, m_iUseBufferSize, m_pchBufferHeader, out>>
          /\ in' = << >> /\ ret' = RECV_NOT_ENOUGH
      BY <1>1 DEF Get, TypeOK
    <2> QED BY <1>0, <2>1 DEF TypeOK, Forward
  <1>2. CASE n <= m_iUseBufferSize
    <2>1. /\ in' = << >> /\ out' = GetBytes(n) /\ m_iHead' = Forward(m_iHead, n)
          /\ m_iUseBufferSize' = m_iUseBufferSize - n /\ ret' = n
          /\ m_iTail' = m_iTail /\ m_pchBufferHeader' = m_pchBufferHeader
      BY <1>2 DEF Get, TypeOK
    <2>2. out' \in Seq(Cells)
      BY <2>1, GetBytesCells
    <2>3. m_iHead' \in 0 .. Size - 1 /\ m_iTail' = Forward(m_iHead', m_iUseBufferSize')
      BY <1>2, <2>1 DEF TypeOK, Forward
    <2> QED BY <1>0, <1>2, <2>1, <2>2, <2>3 DEF TypeOK
  <1> QED BY <1>1, <1>2 DEF TypeOK

LEMMA TypeStep == TypeOK /\ [Next]_vars => TypeOK'
  <1> SUFFICES ASSUME TypeOK, [Next]_vars PROVE TypeOK'
    OBVIOUS
  <1>1. ASSUME NEW k \in 1 .. MaxPut, NEW s \in [1 .. k -> Bytes],
               m_iUseBufferSize + k <= MaxBacklog \/ k > GetFreeSize, Put(s)
        PROVE  TypeOK'
    <2>1. k \in 1 .. Size + 1
      BY BuffAssumption
    <2> QED BY <1>1, <2>1, PutType
  <1>2. ASSUME NEW n \in 1 .. MaxGet, Get(n) PROVE TypeOK'
    BY <1>2, GetType
  <1>3. CASE GetHeader
    <2>1. HeaderSize \in 1 .. MaxGet
      BY BuffAssumption
    <2>2. in' = << >> /\ in' \in Seq(Bytes)
      BY <1>3 DEF GetHeader
    <2> QED BY <1>3, <2>1, <2>2, GetBytesCells DEF GetHeader, TypeOK, Forward
  <1>4. CASE UNCHANGED vars
    BY <1>4 DEF vars, TypeOK
  <1> QED BY <1>1, <1>2, <1>3, <1>4 DEF Next

LEMMA TypeInit == Init => TypeOK
  BY BuffAssumption DEF Init, TypeOK, Forward, Allocation, Cells

(* CircularBuff.cpp: head, tail and used size stay inside the ring and     *)
(* agree with each other under every sequence of Put, Get and GetHeader.   *)
THEOREM TypeCorrect == Spec => []TypeOK
  BY TypeInit, TypeStep, PTL DEF Spec

-----------------------------------------------------------------------------
(* The buffer implements the byte stream.                                  *)

LEMMA PutAppends ==
  ASSUME TypeOK, NEW k \in 1 .. Size + 1, NEW s \in [1 .. k -> Bytes], k <= GetFreeSize,
         TypeOK', Put(s)
  PROVE  Contents' = Contents \o s
  <1> USE BuffAssumption
  <1> DEFINE u == m_iUseBufferSize
  <1>1. /\ s \in Seq(Cells) /\ Len(s) = k
        /\ m_iHead \in 0 .. Size - 1 /\ u \in 0 .. Size /\ u + k <= Size
        /\ m_iTail = IF Size <= m_iHead + u THEN m_iHead + u - Size ELSE m_iHead + u
    BY DEF TypeOK, Forward, GetFreeSize, Cells
  <1>2. u' = u + k /\ m_iHead' = m_iHead /\ m_pchBufferHeader' = PutBytes(s)
    BY <1>1 DEF Put, GetFreeSize
  <1>3. /\ Contents \in Seq(Cells) /\ Len(Contents) = u
        /\ \A i \in 1 .. u : Contents[i] = m_pchBufferHeader[Forward(m_iHead, i - 1)]
    BY ContentsCells
  <1>4. ASSUME NEW i \in 1 .. u + k
        PROVE  /\ (m_iHead + i - 1) % Size = Forward(m_iHead, i - 1)
               /\ Forward(m_iHead, i - 1) \in 0 .. Size - 1
    <2>1. i - 1 \in 0 .. Size /\ m_iHead + i - 1 = m_iHead + (i - 1)
      BY <1>1
    <2> QED BY <1>1, <2>1, ForwardIsMod
  <1>5. Contents' = [i \in 1 .. u + k |-> PutBytes(s)[(m_iHead + i - 1) % Size]]
    BY <1>2 DEF Contents
  <1>6. PutBytes(s) \in [Allocation -> Cells]
    BY PutWrites
  <1>7. /\ Contents \o s \in Seq(Cells) /\ Len(Contents \o s) = u + k
        /\ \A i \in 1 .. u + k : (Contents \o s)[i] = IF i <= u THEN Contents[i] ELSE s[i - u]
    <2>1. /\ Contents \o s \in Seq(Cells) /\ Len(Contents \o s) = Len(Contents) + Len(s)
          /\ \A i \in 1 .. Len(Contents) + Len(s) :
               (Contents \o s)[i] = IF i <= Len(Contents) THEN Contents[i] ELSE s[i - Len(Contents)]
      BY <1>1, <1>3, ConcatProperties
    <2> QED BY <1>1, <1>3, <2>1
  <1>8. ASSUME NEW i \in 1 .. u + k
        PROVE  PutBytes(s)[(m_iHead + i - 1) % Size] = (Contents \o s)[i]
    <2> DEFINE x == Forward(m_iHead, i - 1)
    <2>1. (m_iHead + i - 1) % Size = x /\ x \in 0 .. Size - 1
      BY <1>4
    <2>2. PutBytes(s)[x] =
            IF x \in m_iTail .. m_iTail + k - 1 THEN s[x - m_iTail + 1]
            ELSE IF x + Size \in m_iTail .. m_iTail + k - 1 THEN s[x + Size - m_iTail + 1]
            ELSE m_pchBufferHeader[x]
      BY <2>1, PutWrites
    <2>3. x = IF Size <= m_iHead + i - 1 THEN m_iHead + i - 1 - Size ELSE m_iHead + i - 1
      BY <1>1 DEF Forward
    <2> HIDE DEF x
    <2>4. CASE i <= u
      <3>1. x \notin m_iTail .. m_iTail + k - 1 /\ x + Size \notin m_iTail .. m_iTail + k - 1
        BY <1>1, <2>3, <2>4
      <3>2. Contents[i] = m_pchBufferHeader[x]
        BY <1>3, <2>4 DEF x
      <3> QED BY <1>7, <2>1, <2>2, <2>4, <3>1, <3>2
    <2>5. CASE i > u
      <3>1. \/ x \in m_iTail .. m_iTail + k - 1 /\ x - m_iTail + 1 = i - u
            \/ /\ x \notin m_iTail .. m_iTail + k - 1
               /\ x + Size \in m_iTail .. m_iTail + k - 1 /\ x + Size - m_iTail + 1 = i - u
        BY <1>1, <2>3, <2>5
      <3>2. PutBytes(s)[x] = s[i - u]
        BY <2>2, <3>1
      <3>3. (Contents \o s)[i] = s[i - u]
        BY <1>1, <1>7, <2>5
      <3> QED BY <2>1, <3>2, <3>3
    <2>6. i <= u \/ i > u
      BY <1>1
    <2> QED BY <2>4, <2>5, <2>6
  <1>9. Contents' = [i \in 1 .. u + k |-> (Contents \o s)[i]]
    BY <1>5, <1>8
  <1>10. Contents \o s \in [1 .. u + k -> Cells]
    BY <1>7, LenProperties
  <1> QED BY <1>9, <1>10

LEMMA GetDrops ==
  ASSUME TypeOK, NEW n \in 1 .. MaxGet, n <= m_iUseBufferSize, TypeOK', Get(n)
  PROVE  Contents' = SubSeq(Contents, n + 1, Len(Contents))
  <1> USE BuffAssumption
  <1> DEFINE u == m_iUseBufferSize
  <1>1. /\ m_iHead \in 0 .. Size - 1 /\ u \in 0 .. Size /\ n \in 1 .. u
    BY DEF TypeOK
  <1>2. u' = u - n /\ m_iHead' = Forward(m_iHead, n) /\ m_pchBufferHeader' = m_pchBufferHeader
    BY <1>1 DEF Get
  <1>3. /\ Contents \in Seq(Cells) /\ Len(Contents) = u
        /\ \A i \in 1 .. u : Contents[i] = m_pchBufferHeader[Forward(m_iHead, i - 1)]
    BY ContentsCells
  <1>4. m_iHead' \in 0 .. Size - 1
    BY DEF TypeOK
  <1>5. ASSUME NEW i \in 1 .. u - n
        PROVE  m_pchBufferHeader[(m_iHead' + i - 1) % Size] = Contents[n + i]
    <2>1. i - 1 \in 0 .. Size /\ m_iHead' + i - 1 = m_iHead' + (i - 1)
      BY <1>1, <1>4
    <2>2. (m_iHead' + i - 1) % Size = Forward(m_iHead', i - 1)
      BY <1>4, <2>1, ForwardIsMod
    <2>3. Forward(m_iHead', i - 1) = Forward(m_iHead, n + (i - 1))
      BY <1>1, <1>2, <2>1, ForwardTwice
    <2>4. n + i \in 1 .. u /\ (n + i) - 1 = n + (i - 1)
      BY <1>1
    <2>5. Contents[n + i] = m_pchBufferHeader[Forward(m_iHead, n + (i - 1))]
      BY <1>3, <2>4
    <2> QED BY <2>2, <2>3, <2>5
  <1>6. Contents' = [i \in 1 .. u - n |-> m_pchBufferHeader[(m_iHead' + i - 1) % Size]]
    BY <1>2 DEF Contents
  <1>7. Contents' = [i \in 1 .. u - n |-> Contents[n + i]]
    BY <1>5, <1>6
  <1> DEFINE rest == SubSeq(Contents, n + 1, u)
  <1>8. n + 1 \in Int /\ u \in Int /\ \A i \in n + 1 .. u : Contents[i] \in Cells
    BY <1>1, <1>3, ElementOfSeq
  <1>9. /\ rest \in Seq(Cells) /\ Len(rest) = u - n
        /\ \A i \in 1 .. u - n : rest[i] = Contents[n + i]
    <2>1. /\ rest \in Seq(Cells)
          /\ Len(rest) = IF n + 1 <= u THEN u - (n + 1) + 1 ELSE 0
          /\ \A i \in 1 .. u - (n + 1) + 1 : rest[i] = Contents[(n + 1) + i - 1]
      BY <1>8, SubSeqProperties
    <2> HIDE DEF rest
    <2>2. u - (n + 1) + 1 = u - n /\ \A i \in 1 .. u - n : (n + 1) + i - 1 = n + i
      BY <1>1
    <2> QED BY <1>1, <2>1, <2>2
  <1> HIDE DEF rest
  <1>10. rest \in [1 .. u - n -> Cells]
    BY <1>9, LenProperties
  <1>11. Contents' = rest
    BY <1>7, <1>9, <1>10
  <1> QED BY <1>3, <1>11 DEF rest

LEMMA StreamStep ==
  ASSUME MaxBacklog + MaxGet < Size, TypeOK, TypeOK', [Next]_vars
  PROVE  [Stream!Next]_(Stream!vars)
  <1> USE BuffAssumption
  <1>1. Contents \in Seq(Cells) /\ Len(Contents) = m_iUseBufferSize
    BY ContentsCells
  <1>2. ASSUME NEW k \in 1 .. MaxPut, NEW s \in [1 .. k -> Bytes], Put(s)
        PROVE  Stream!Next
    <2>1. k \in 1 .. Size + 1 /\ Len(s) = k
      OBVIOUS
    <2>2. CASE k <= GetFreeSize
      <3>1. Contents' = Contents \o s
        BY <1>2, <2>1, <2>2, PutAppends
      <3>2. in' = s /\ ret' = Len(s) /\ out' = out /\ Len(s) <= Size - Len(Contents)
        BY <1>1, <1>2, <2>1, <2>2 DEF Put, GetFreeSize, TypeOK
      <3>3. Stream!Put(s)
        BY <3>1, <3>2 DEF Stream!Put
      <3> QED BY <2>1, <3>3 DEF Stream!Next
    <2>3. CASE k > GetFreeSize
      <3>0. UNCHANGED <<m_iHead, m_iUseBufferSize, m_pchBufferHeader>>
        BY <1>2, <2>1, <2>3 DEF Put, GetFreeSize, TypeOK
      <3>1. Contents' = Contents
        BY <3>0 DEF Contents
      <3>2. in' = << >> /\ ret' = -1 /\ out' = out /\ Len(s) > Size - Len(Contents)
        BY <1>1, <1>2, <2>1, <2>3 DEF Put, GetFreeSize, TypeOK
      <3>3. Stream!Put(s)
        BY <3>1, <3>2 DEF Stream!Put
      <3> QED BY <2>1, <3>3 DEF Stream!Next
    <2> QED BY <2>2, <2>3 DEF GetFreeSize, TypeOK
  <1>3. ASSUME NEW n \in 1 .. MaxGet, Get(n)
        PROVE  Stream!Next
    <2>1. n \in 1 .. Size + 1
      OBVIOUS
    <2>2. CASE n <= m_iUseBufferSize
      <3>1. out' = SubSeq(Contents, 1, n)
        BY <1>3, <2>2, GetBytesOldest DEF Get, TypeOK
      <3>2. Contents' = SubSeq(Contents, n + 1, Len(Contents))
        BY <1>3, <2>2, GetDrops
      <3>3. in' = << >> /\ ret' = n
        BY <1>3, <2>2 DEF Get, TypeOK
      <3>4. Stream!Get(n)
        BY <1>1, <2>2, <3>1, <3>2, <3>3 DEF Stream!Get
      <3> QED BY <2>1, <3>4 DEF Stream!Next
    <2>3. CASE n > m_iUseBufferSize
      <3>0. /\ UNCHANGED <<m_iHead, m_iUseBufferSize, m_pchBufferHeader, out>>
            /\ in' = << >> /\ ret' = RECV_NOT_ENOUGH
        BY <1>3, <2>3 DEF Get, TypeOK
      <3>1. Contents' = Contents
        BY <3>0 DEF Contents
      <3>2. Stream!Get(n)
        BY <1>1, <2>3, <3>0, <3>1 DEF Stream!Get
      <3> QED BY <2>1, <3>2 DEF Stream!Next
    <2> QED BY <2>2, <2>3 DEF TypeOK
  <1>4. CASE GetHeader
    <2>1. HeaderSize \in 1 .. MaxGet
      OBVIOUS
    <2>2. in' = << >> /\ out' = GetBytes(HeaderSize) /\ ret' = 0 /\ Contents' = Contents
      BY <1>4 DEF GetHeader, Contents
    <2>3. CASE HeaderSize <= m_iUseBufferSize
      <3>1. out' = SubSeq(Contents, 1, HeaderSize)
        BY <2>1, <2>2, <2>3, GetBytesOldest
      <3> QED BY <1>1, <2>2, <2>3, <3>1 DEF Stream!GetHeader, Stream!Next
    <2>4. CASE HeaderSize > m_iUseBufferSize
      <3>1. out' \in Seq(Cells) /\ Len(out') = HeaderSize
        BY <2>1, <2>2, GetBytesCells
      <3>2. out' \in [1 .. HeaderSize -> Bytes \cup {Undefined}]
        BY <3>1, LenProperties DEF Cells
      <3> QED BY <1>1, <2>2, <2>4, <3>2 DEF Stream!GetHeader, Stream!Next
    <2> QED BY <2>3, <2>4 DEF TypeOK
  <1>5. CASE UNCHANGED vars
    BY <1>5 DEF vars, Stream!vars, Contents
  <1> QED BY <1>2, <1>3, <1>4, <1>5 DEF Next

LEMMA StreamInit == Init => Stream!Init
  BY BuffAssumption DEF Init, Stream!Init, Contents

(* CircularBuff.cpp: while the bytes waiting in the buffer and the request *)
(* together are fewer than the buffer has cells, Put, Get and GetHeader    *)
(* behave like a byte stream: Get's test for a wrapped buffer, which looks *)
(* at m_iTail + _iLength instead of m_iTail, does no harm.                 *)
THEOREM StreamBelowLimit ==
  ASSUME MaxBacklog + MaxGet < Size
  PROVE  Spec => ImplementsStream
  <1>1. Init => Stream!Init
    BY StreamInit
  <1>2. TypeOK /\ TypeOK' /\ [Next]_vars => [Stream!Next]_(Stream!vars)
    BY StreamStep
  <1> QED BY <1>1, <1>2, TypeCorrect, PTL DEF Spec, ImplementsStream, Stream!Spec
=============================================================================
