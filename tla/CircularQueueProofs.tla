------------------------ MODULE CircularQueueProofs -------------------------
(***************************************************************************)
(* Proofs about CircularQueue for every set of producers and consumers and *)
(* every QSIZE >= 1: type correctness, no lost wakeup, and that the code   *)
(* implements the bounded FIFO of BoundedQueue.                            *)
(***************************************************************************)
EXTENDS CircularQueue, FiniteSetTheorems, SequenceTheorems, TLAPS

(* buf_lock is held by every thread between pthread_mutex_lock and         *)
(* pthread_mutex_unlock, except while it sleeps.                           *)
LockInv ==
  \A t \in Threads :
    pc[t] \in {"check", "count", "advance", "discount", "signal", "unlock"} => buf_lock = t

(* The wait sets are the threads that sleep.                               *)
WaitInv ==
  /\ \A p \in Producers : p \in notfull <=> pc[p] = "wait"
  /\ \A c \in Consumers : c \in notempty <=> pc[c] = "wait"

(* What a thread knows between two of its statements under the lock.       *)
BusyInv ==
  /\ \A p \in Producers : pc[p] # "idle" => arg[p] \in Items
  /\ \A p \in Producers : pc[p] = "count" =>
        /\ num_full < QSIZE
        /\ data[(start_idx + num_full) % QSIZE] = arg[p]
  /\ \A c \in Consumers : pc[c] = "advance" => num_full > 0 /\ local[c] = data[start_idx]
  /\ \A c \in Consumers : pc[c] = "discount" => num_full > 0
  /\ \A c \in Consumers :
       pc[c] \in {"advance", "discount", "signal", "unlock", "return"} => local[c] \in Items

(* The pointers in the ring are real ones.                                 *)
RingInv == \A i \in 1 .. Used : data[(start_idx + i - 1) % QSIZE] \in Items

IndInv == TypeOK /\ LockInv /\ WaitInv /\ BusyInv /\ RingInv

LEMMA ModRange == \A q \in Nat \ {0} : \A x \in Nat : x % q \in 0 .. q - 1
  OBVIOUS

LEMMA ModSmall == \A q \in Nat \ {0} : \A x \in 0 .. q - 1 : x % q = x
  OBVIOUS

LEMMA ModWrap == \A q \in Nat \ {0} : \A x \in q .. 2 * q - 1 : x % q = x - q
  OBVIOUS

(* Slot i of the ring seen from start_idx, without the remainder.          *)
Slot(s, i) == IF s + i < QSIZE THEN s + i ELSE s + i - QSIZE

LEMMA SlotIsMod ==
  ASSUME NEW s \in Slots, NEW i \in 0 .. QSIZE
  PROVE  (s + i) % QSIZE = Slot(s, i) /\ Slot(s, i) \in Slots
  <1>1. QSIZE \in Nat \ {0} /\ s \in 0 .. QSIZE - 1 /\ s + i \in 0 .. 2 * QSIZE - 1
    BY QueueAssumption DEF Slots
  <1>2. CASE s + i < QSIZE
    BY <1>1, <1>2, ModSmall DEF Slot, Slots
  <1>3. CASE s + i >= QSIZE
    <2>1. s + i \in QSIZE .. 2 * QSIZE - 1
      BY <1>1, <1>3
    <2>2. \A x \in QSIZE .. 2 * QSIZE - 1 : x % QSIZE = x - QSIZE
      BY QueueAssumption, ModWrap
    <2>3. (s + i) % QSIZE = (s + i) - QSIZE
      BY <2>1, <2>2
    <2> QED BY <1>1, <1>3, <2>3 DEF Slot, Slots
  <1> QED BY <1>1, <1>2, <1>3

-----------------------------------------------------------------------------
(* CircularQueue.cpp: the members keep their types, in particular num_full *)
(* stays within 0 .. QSIZE and start_idx inside the ring; the mutex really *)
(* excludes, and the wait sets are exact.                                  *)
LEMMA Initially == Init => IndInv
  <1> SUFFICES ASSUME Init PROVE IndInv
    OBVIOUS
  <1>1. TypeOK
    BY QueueAssumption DEF Init, TypeOK, Slots, Threads, ProducerLabels, ConsumerLabels
  <1>2. LockInv /\ WaitInv /\ BusyInv
    BY QueueAssumption DEF Init, LockInv, WaitInv, BusyInv, Threads
  <1>3. RingInv
    BY QueueAssumption DEF Init, RingInv, Used, Threads
  <1> QED BY <1>1, <1>2, <1>3 DEF IndInv

LEMMA TypeStep == IndInv /\ [Next]_vars => TypeOK'
  <1> SUFFICES ASSUME IndInv, [Next]_vars PROVE TypeOK'
    OBVIOUS
  <1> USE QueueAssumption DEF IndInv, TypeOK, Threads, ring, Goto, ProducerLabels, ConsumerLabels
  <1>1. ASSUME NEW t \in Threads, Lock(t) PROVE TypeOK'
    BY <1>1 DEF Lock
  <1>2. ASSUME NEW t \in Threads, Unlock(t) PROVE TypeOK'
    BY <1>2 DEF Unlock
  <1>3. ASSUME NEW t \in Threads, SpuriousWakeup(t) PROVE TypeOK'
    BY <1>3 DEF SpuriousWakeup
  <1>4. ASSUME NEW p \in Producers, NEW v \in Items, EnQueue(p, v) PROVE TypeOK'
    BY <1>4 DEF EnQueue
  <1>5. ASSUME NEW p \in Producers, EnQueueWait(p) PROVE TypeOK'
    BY <1>5 DEF EnQueueWait
  <1>6. ASSUME NEW p \in Producers, EnQueueStore(p) PROVE TypeOK'
    BY <1>6, SlotIsMod DEF EnQueueStore
  <1>7. ASSUME NEW p \in Producers, EnQueueCount(p) PROVE TypeOK'
    BY <1>7 DEF EnQueueCount, BusyInv
  <1>8. ASSUME NEW p \in Producers, EnQueueSignal(p) PROVE TypeOK'
    BY <1>8 DEF EnQueueSignal
  <1>9. ASSUME NEW c \in Consumers, DeQueue(c) PROVE TypeOK'
    BY <1>9 DEF DeQueue
  <1>10. ASSUME NEW c \in Consumers, DeQueueWait(c) PROVE TypeOK'
    BY <1>10 DEF DeQueueWait
  <1>11. ASSUME NEW c \in Consumers, DeQueueLoad(c) PROVE TypeOK'
    BY <1>11 DEF DeQueueLoad
  <1>12. ASSUME NEW c \in Consumers, DeQueueAdvance(c) PROVE TypeOK'
    BY <1>12, ModRange DEF DeQueueAdvance, Slots
  <1>13. ASSUME NEW c \in Consumers, DeQueueDiscount(c) PROVE TypeOK'
    BY <1>13 DEF DeQueueDiscount, BusyInv
  <1>14. ASSUME NEW c \in Consumers, DeQueueSignal(c) PROVE TypeOK'
    BY <1>14 DEF DeQueueSignal
  <1>15. ASSUME NEW c \in Consumers, DeQueueReturn(c) PROVE TypeOK'
    BY <1>15 DEF DeQueueReturn
  <1>16. CASE UNCHANGED vars
    BY <1>16 DEF vars
  <1> QED
    BY <1>1, <1>2, <1>3, <1>4, <1>5, <1>6, <1>7, <1>8, <1>9, <1>10, <1>11, <1>12, <1>13,
       <1>14, <1>15, <1>16 DEF Next, ProducerStep, ConsumerStep

LEMMA LockStep == IndInv /\ [Next]_vars => LockInv'
  <1> SUFFICES ASSUME IndInv, [Next]_vars PROVE LockInv'
    OBVIOUS
  <1> USE QueueAssumption DEF IndInv, TypeOK, LockInv, WaitInv, Threads, ring, Goto
  <1>1. ASSUME NEW t \in Threads, Lock(t) PROVE LockInv'
    BY <1>1 DEF Lock
  <1>2. ASSUME NEW t \in Threads, Unlock(t) PROVE LockInv'
    BY <1>2 DEF Unlock
  <1>3. ASSUME NEW t \in Threads, SpuriousWakeup(t) PROVE LockInv'
    BY <1>3 DEF SpuriousWakeup
  <1>4. ASSUME NEW p \in Producers, NEW v \in Items, EnQueue(p, v) PROVE LockInv'
    BY <1>4 DEF EnQueue
  <1>5. ASSUME NEW p \in Producers, EnQueueWait(p) PROVE LockInv'
    BY <1>5 DEF EnQueueWait
  <1>6. ASSUME NEW p \in Producers, EnQueueStore(p) \/ EnQueueCount(p) PROVE LockInv'
    BY <1>6 DEF EnQueueStore, EnQueueCount
  <1>7. ASSUME NEW p \in Producers, EnQueueSignal(p) PROVE LockInv'
    BY <1>7 DEF EnQueueSignal
  <1>8. ASSUME NEW c \in Consumers, DeQueue(c) \/ DeQueueReturn(c) PROVE LockInv'
    BY <1>8 DEF DeQueue, DeQueueReturn
  <1>9. ASSUME NEW c \in Consumers, DeQueueWait(c) PROVE LockInv'
    BY <1>9 DEF DeQueueWait
  <1>10. ASSUME NEW c \in Consumers, DeQueueLoad(c) \/ DeQueueAdvance(c) \/ DeQueueDiscount(c)
         PROVE  LockInv'
    BY <1>10 DEF DeQueueLoad, DeQueueAdvance, DeQueueDiscount
  <1>11. ASSUME NEW c \in Consumers, DeQueueSignal(c) PROVE LockInv'
    BY <1>11 DEF DeQueueSignal
  <1>12. CASE UNCHANGED vars
    BY <1>12 DEF vars
  <1> QED
    BY <1>1, <1>2, <1>3, <1>4, <1>5, <1>6, <1>7, <1>8, <1>9, <1>10, <1>11, <1>12
       DEF Next, ProducerStep, ConsumerStep

LEMMA WaitStep == IndInv /\ [Next]_vars => WaitInv'
  <1> SUFFICES ASSUME IndInv, [Next]_vars PROVE WaitInv'
    OBVIOUS
  <1> USE QueueAssumption DEF IndInv, TypeOK, WaitInv, Threads, ring, Goto
  <1>1. ASSUME NEW t \in Threads, Lock(t) \/ Unlock(t) PROVE WaitInv'
    BY <1>1 DEF Lock, Unlock
  <1>2. ASSUME NEW t \in Threads, SpuriousWakeup(t) PROVE WaitInv'
    BY <1>2 DEF SpuriousWakeup
  <1>3. ASSUME NEW p \in Producers, NEW v \in Items, EnQueue(p, v) PROVE WaitInv'
    BY <1>3 DEF EnQueue
  <1>4. ASSUME NEW p \in Producers, EnQueueWait(p) PROVE WaitInv'
    BY <1>4 DEF EnQueueWait
  <1>5. ASSUME NEW p \in Producers, EnQueueStore(p) \/ EnQueueCount(p) PROVE WaitInv'
    BY <1>5 DEF EnQueueStore, EnQueueCount
  <1>6. ASSUME NEW p \in Producers, EnQueueSignal(p) PROVE WaitInv'
    BY <1>6 DEF EnQueueSignal
  <1>7. ASSUME NEW c \in Consumers, DeQueue(c) \/ DeQueueReturn(c) PROVE WaitInv'
    BY <1>7 DEF DeQueue, DeQueueReturn
  <1>8. ASSUME NEW c \in Consumers, DeQueueWait(c) PROVE WaitInv'
    BY <1>8 DEF DeQueueWait
  <1>9. ASSUME NEW c \in Consumers, DeQueueLoad(c) \/ DeQueueAdvance(c) \/ DeQueueDiscount(c)
        PROVE  WaitInv'
    BY <1>9 DEF DeQueueLoad, DeQueueAdvance, DeQueueDiscount
  <1>10. ASSUME NEW c \in Consumers, DeQueueSignal(c) PROVE WaitInv'
    BY <1>10 DEF DeQueueSignal
  <1>11. CASE UNCHANGED vars
    BY <1>11 DEF vars
  <1> QED
    BY <1>1, <1>2, <1>3, <1>4, <1>5, <1>6, <1>7, <1>8, <1>9, <1>10, <1>11
       DEF Next, ProducerStep, ConsumerStep

LEMMA BusyStep == IndInv /\ [Next]_vars => BusyInv'
  <1> SUFFICES ASSUME IndInv, [Next]_vars PROVE BusyInv'
    OBVIOUS
  <1> USE QueueAssumption DEF IndInv, TypeOK, LockInv, BusyInv, Threads, ring, Goto
  <1>1. ASSUME NEW t \in Threads, Lock(t) \/ Unlock(t) PROVE BusyInv'
    BY <1>1 DEF Lock, Unlock
  <1>2. ASSUME NEW t \in Threads, SpuriousWakeup(t) PROVE BusyInv'
    BY <1>2 DEF SpuriousWakeup, WaitInv
  <1>3. ASSUME NEW p \in Producers, NEW v \in Items, EnQueue(p, v) PROVE BusyInv'
    BY <1>3 DEF EnQueue
  <1>4. ASSUME NEW p \in Producers, EnQueueWait(p) PROVE BusyInv'
    BY <1>4 DEF EnQueueWait
  <1>5. ASSUME NEW p \in Producers, EnQueueStore(p) PROVE BusyInv'
    <2>1. (start_idx + num_full) % QSIZE \in Slots
      BY SlotIsMod
    <2> QED BY <1>5, <2>1 DEF EnQueueStore
  <1>6. ASSUME NEW p \in Producers, EnQueueCount(p) PROVE BusyInv'
    BY <1>6 DEF EnQueueCount
  <1>7. ASSUME NEW p \in Producers, EnQueueSignal(p) PROVE BusyInv'
    BY <1>7 DEF EnQueueSignal, WaitInv
  <1>8. ASSUME NEW c \in Consumers, DeQueue(c) \/ DeQueueReturn(c) PROVE BusyInv'
    BY <1>8 DEF DeQueue, DeQueueReturn
  <1>9. ASSUME NEW c \in Consumers, DeQueueWait(c) PROVE BusyInv'
    BY <1>9 DEF DeQueueWait
  <1>10. ASSUME NEW c \in Consumers, DeQueueLoad(c) PROVE BusyInv'
    <2>1. data[start_idx] \in Items
      <3>1. Used >= 1
        BY <1>10 DEF DeQueueLoad, Used
      <3>2. start_idx % QSIZE = start_idx
        BY ModSmall DEF Slots
      <3>3. start_idx + 1 - 1 = start_idx /\ 1 \in 1 .. Used
        BY <3>1 DEF Slots, Used
      <3> QED BY <3>2, <3>3 DEF RingInv
    <2> QED BY <1>10, <2>1 DEF DeQueueLoad
  <1>11. ASSUME NEW c \in Consumers, DeQueueAdvance(c) PROVE BusyInv'
    BY <1>11 DEF DeQueueAdvance
  <1>12. ASSUME NEW c \in Consumers, DeQueueDiscount(c) PROVE BusyInv'
    BY <1>12 DEF DeQueueDiscount
  <1>13. ASSUME NEW c \in Consumers, DeQueueSignal(c) PROVE BusyInv'
    BY <1>13 DEF DeQueueSignal, WaitInv
  <1>14. CASE UNCHANGED vars
    BY <1>14 DEF vars
  <1> QED
    BY <1>1, <1>2, <1>3, <1>4, <1>5, <1>6, <1>7, <1>8, <1>9, <1>10, <1>11, <1>12, <1>13, <1>14
       DEF Next, ProducerStep, ConsumerStep

-----------------------------------------------------------------------------
(* The ring as the abstract queue sees it.                                 *)

(* Contents without the remainder: Used pointers from start_idx on.        *)
LEMMA ContentsSlots ==
  ASSUME IndInv
  PROVE  /\ Used \in 0 .. QSIZE
         /\ Contents \in Seq(Items)
         /\ Len(Contents) = Used
         /\ \A i \in 1 .. Used : Contents[i] = data[Slot(start_idx, i - 1)]
  <1>1. Used \in 0 .. QSIZE
    BY QueueAssumption DEF IndInv, TypeOK, BusyInv, Used
  <1>2. \A i \in 1 .. Used : Contents[i] = data[Slot(start_idx, i - 1)]
    <2> SUFFICES ASSUME NEW i \in 1 .. Used
                 PROVE  data[(start_idx + i - 1) % QSIZE] = data[Slot(start_idx, i - 1)]
      BY DEF Contents
    <2>1. i - 1 \in 0 .. QSIZE /\ start_idx + i - 1 = start_idx + (i - 1) /\ start_idx \in Slots
      BY <1>1, QueueAssumption DEF IndInv, TypeOK, Slots
    <2> QED BY <2>1, SlotIsMod
  <1>3. Contents \in [1 .. Used -> Items]
    BY DEF Contents, IndInv, RingInv
  <1> QED BY <1>1, <1>2, <1>3

(* Statements that leave the abstract queue alone.  EnQueueStore writes    *)
(* the slot behind the last pointer, DeQueueDiscount makes num_full agree  *)
(* with Used again.                                                        *)
Quiet(t) ==
  \/ Lock(t) \/ Unlock(t) \/ SpuriousWakeup(t)
  \/ /\ t \in Producers
     /\ \/ EnQueueWait(t) \/ EnQueueStore(t) \/ EnQueueSignal(t)
        \/ \E v \in Items : EnQueue(t, v)
  \/ /\ t \in Consumers
     /\ \/ DeQueue(t) \/ DeQueueWait(t) \/ DeQueueLoad(t) \/ DeQueueDiscount(t)
        \/ DeQueueSignal(t) \/ DeQueueReturn(t)

LEMMA NextCases ==
  ASSUME [Next]_vars
  PROVE  \/ \E t \in Threads : Quiet(t)
         \/ \E p \in Producers : EnQueueCount(p)
         \/ \E c \in Consumers : DeQueueAdvance(c)
         \/ UNCHANGED vars
  BY DEF Next, ProducerStep, ConsumerStep, Quiet, Threads

LEMMA StoreKeepsContents ==
  ASSUME IndInv, NEW p \in Producers, EnQueueStore(p)
  PROVE  Contents' = Contents
  <1> USE QueueAssumption DEF IndInv, TypeOK, Threads, Goto
  <1>1. Used = num_full /\ Used' = num_full /\ num_full < QSIZE
    BY DEF EnQueueStore, Used, LockInv
  <1> DEFINE x == (start_idx + num_full) % QSIZE
  <1>2. x = Slot(start_idx, num_full) /\ x \in Slots
    BY SlotIsMod
  <1>3. ASSUME NEW i \in 1 .. num_full
        PROVE  data'[(start_idx + i - 1) % QSIZE] = data[(start_idx + i - 1) % QSIZE]
    <2>1. i - 1 \in 0 .. QSIZE /\ start_idx + i - 1 = start_idx + (i - 1)
      BY <1>1 DEF Slots
    <2>2. (start_idx + i - 1) % QSIZE = Slot(start_idx, i - 1)
      BY <2>1, SlotIsMod
    <2>3. Slot(start_idx, i - 1) # Slot(start_idx, num_full)
      BY <1>1 DEF Slot, Slots
    <2> QED BY <1>2, <2>2, <2>3 DEF EnQueueStore
  <1>4. start_idx' = start_idx
    BY DEF EnQueueStore
  <1> QED BY <1>1, <1>3, <1>4 DEF Contents

LEMMA QuietKeepsContents ==
  ASSUME IndInv, NEW t \in Threads, Quiet(t)
  PROVE  Contents' = Contents
  <1> USE QueueAssumption DEF IndInv, TypeOK, Threads, Goto, ring
  <1>1. CASE t \in Producers /\ EnQueueStore(t)
    BY <1>1, StoreKeepsContents
  <1>2. CASE t \in Consumers /\ DeQueueDiscount(t)
    <2>1. Used = num_full - 1 /\ Used' = num_full - 1
      BY <1>2 DEF DeQueueDiscount, Used, LockInv
    <2> QED BY <1>2, <2>1 DEF DeQueueDiscount, Contents
  <1>3. CASE Lock(t) \/ Unlock(t) \/ SpuriousWakeup(t)
    <2>1. Used' = Used
      BY <1>3 DEF Lock, Unlock, SpuriousWakeup, Used, WaitInv
    <2> QED BY <1>3, <2>1 DEF Lock, Unlock, SpuriousWakeup, Contents
  <1>4. CASE t \in Producers /\ (EnQueueWait(t) \/ \E v \in Items : EnQueue(t, v))
    <2>1. Used' = Used
      BY <1>4 DEF EnQueueWait, EnQueue, Used
    <2> QED BY <1>4, <2>1 DEF EnQueueWait, EnQueue, Contents
  <1>5. CASE t \in Producers /\ EnQueueSignal(t)
    <2>1. Used' = Used
      BY <1>5 DEF EnQueueSignal, Used, WaitInv
    <2> QED BY <1>5, <2>1 DEF EnQueueSignal, Contents
  <1>6. CASE t \in Consumers /\ (DeQueue(t) \/ DeQueueWait(t) \/ DeQueueLoad(t) \/ DeQueueReturn(t))
    <2>1. Used' = Used
      BY <1>6 DEF DeQueue, DeQueueWait, DeQueueLoad, DeQueueReturn, Used
    <2> QED BY <1>6, <2>1 DEF DeQueue, DeQueueWait, DeQueueLoad, DeQueueReturn, Contents
  <1>7. CASE t \in Consumers /\ DeQueueSignal(t)
    <2>1. Used' = Used
      BY <1>7 DEF DeQueueSignal, Used, WaitInv
    <2> QED BY <1>7, <2>1 DEF DeQueueSignal, Contents
  <1> QED BY <1>1, <1>2, <1>3, <1>4, <1>5, <1>6, <1>7 DEF Quiet

(* The increment of num_full makes the stored pointer the newest one.      *)
LEMMA CountAppends ==
  ASSUME IndInv, NEW p \in Producers, EnQueueCount(p)
  PROVE  Contents' = Append(Contents, arg[p]) /\ Len(Contents) < QSIZE
  <1> USE QueueAssumption DEF IndInv, TypeOK, Threads, Goto
  <1>1. Used = num_full /\ Used' = num_full + 1 /\ num_full < QSIZE
    BY DEF EnQueueCount, Used, LockInv, BusyInv
  <1>2. data[(start_idx + num_full) % QSIZE] = arg[p]
    BY DEF EnQueueCount, BusyInv
  <1>3. start_idx' = start_idx /\ data' = data
    BY DEF EnQueueCount
  <1>4. start_idx + (num_full + 1) - 1 = start_idx + num_full
    BY DEF Slots
  <1>5. Contents' = [i \in 1 .. num_full + 1 |-> data[(start_idx + i - 1) % QSIZE]]
    BY <1>1, <1>3 DEF Contents
  <1>6. Contents = [i \in 1 .. num_full |-> data[(start_idx + i - 1) % QSIZE]]
    BY <1>1 DEF Contents
  <1>7. Contents \in Seq(Items) /\ Len(Contents) = num_full
    BY <1>1, ContentsSlots
  <1>8. Contents'[num_full + 1] = arg[p]
    BY <1>2, <1>4, <1>5
  <1>9. Append(Contents, arg[p]) =
          [i \in 1 .. num_full + 1 |-> IF i = num_full + 1 THEN arg[p] ELSE Contents[i]]
    BY <1>7
  <1>10. ASSUME NEW i \in 1 .. num_full + 1
         PROVE  Contents'[i] = IF i = num_full + 1 THEN arg[p] ELSE Contents[i]
    BY <1>5, <1>6, <1>8
  <1> QED BY <1>1, <1>5, <1>7, <1>9, <1>10

(* The advance of start_idx removes the oldest pointer, the one DeQueue    *)
(* has loaded.                                                             *)
LEMMA AdvanceTakesHead ==
  ASSUME IndInv, NEW c \in Consumers, DeQueueAdvance(c)
  PROVE  Contents # << >> /\ local[c] = Head(Contents) /\ Contents' = Tail(Contents)
  <1> USE QueueAssumption DEF IndInv, TypeOK, Threads, Goto
  <1>1. Used = num_full /\ Used' = num_full - 1 /\ num_full > 0
    BY DEF DeQueueAdvance, Used, LockInv, BusyInv
  <1>2. Contents \in Seq(Items) /\ Len(Contents) = num_full
    BY <1>1, ContentsSlots
  <1>3. Contents # << >> /\ Head(Contents) = Contents[1]
    BY <1>1, <1>2
  <1>4. Contents[1] = data[Slot(start_idx, 0)] /\ Slot(start_idx, 0) = start_idx
    BY <1>1, ContentsSlots DEF Slot, Slots
  <1>5. local[c] = data[start_idx]
    BY DEF DeQueueAdvance, BusyInv
  <1>6. start_idx' = Slot(start_idx, 1) /\ start_idx' \in Slots /\ data' = data
    BY SlotIsMod DEF DeQueueAdvance
  <1>7. Contents' = [i \in 1 .. num_full - 1 |-> data[(start_idx' + i - 1) % QSIZE]]
    BY <1>1, <1>6 DEF Contents
  <1>8. ASSUME NEW i \in 1 .. num_full - 1
        PROVE  data[(start_idx' + i - 1) % QSIZE] = Contents[i + 1]
    <2>1. i - 1 \in 0 .. QSIZE /\ start_idx' + i - 1 = start_idx' + (i - 1)
      BY <1>6 DEF Slots
    <2>2. (start_idx' + i - 1) % QSIZE = Slot(start_idx', i - 1)
      BY <1>6, <2>1, SlotIsMod
    <2>3. Slot(start_idx', i - 1) = Slot(start_idx, i)
      BY <1>6 DEF Slot, Slots
    <2>4. i + 1 \in 1 .. Used /\ (i + 1) - 1 = i
      BY <1>1
    <2>5. Contents[i + 1] = data[Slot(start_idx, i)]
      BY <2>4, ContentsSlots
    <2> QED BY <2>2, <2>3, <2>5
  <1>9. Tail(Contents) \in Seq(Items) /\ Len(Tail(Contents)) = num_full - 1
    BY <1>2, <1>3, HeadTailProperties
  <1>10. \A i \in 1 .. num_full - 1 : Tail(Contents)[i] = Contents[i + 1]
    BY <1>2, <1>3, <1>9, HeadTailProperties
  <1>11. \A i \in 1 .. num_full - 1 : Contents'[i] = Tail(Contents)[i]
    BY <1>7, <1>8, <1>10
  <1>12. num_full - 1 \in Nat
    BY <1>1
  <1>13. Tail(Contents) \in [1 .. num_full - 1 -> Items]
    BY <1>9, LenProperties
  <1>14. Contents' = Tail(Contents)
    BY <1>7, <1>11, <1>13
  <1> QED BY <1>3, <1>4, <1>5, <1>14

LEMMA RingStep == IndInv /\ [Next]_vars => RingInv'
  <1> SUFFICES ASSUME IndInv, [Next]_vars PROVE RingInv'
    OBVIOUS
  <1>1. Contents' \in Seq(Items)
    <2>1. Contents \in Seq(Items)
      BY ContentsSlots
    <2>2. CASE \E t \in Threads : Quiet(t)
      BY <2>1, <2>2, QuietKeepsContents
    <2>3. ASSUME NEW p \in Producers, EnQueueCount(p) PROVE Contents' \in Seq(Items)
      <3>1. arg[p] \in Items
        BY <2>3 DEF IndInv, BusyInv, EnQueueCount
      <3> QED BY <2>1, <2>3, <3>1, CountAppends
    <2>4. ASSUME NEW c \in Consumers, DeQueueAdvance(c) PROVE Contents' \in Seq(Items)
      <3>1. Contents # << >> /\ Contents' = Tail(Contents)
        BY <2>4, AdvanceTakesHead
      <3> QED BY <2>1, <3>1
    <2>5. CASE UNCHANGED vars
      BY <2>1, <2>5 DEF vars, Contents, Used
    <2> QED BY <2>2, <2>3, <2>4, <2>5, NextCases
  <1>2. Contents' = [i \in 1 .. Used' |-> data'[(start_idx' + i - 1) % QSIZE]]
    BY DEF Contents
  <1>3. Used' \in Nat
    BY TypeStep, BusyStep DEF TypeOK, Used, BusyInv
  <1>4. Len(Contents') = Used'
    BY <1>1, <1>2, <1>3
  <1>5. \A i \in 1 .. Used' : Contents'[i] \in Items
    BY <1>1, <1>4, ElementOfSeq
  <1>6. \A i \in 1 .. Used' : Contents'[i] = data'[(start_idx' + i - 1) % QSIZE]
    BY <1>2
  <1> QED BY <1>5, <1>6 DEF RingInv

LEMMA Inductive == IndInv /\ [Next]_vars => IndInv'
  BY TypeStep, LockStep, WaitStep, BusyStep, RingStep DEF IndInv

LEMMA Invariance == Spec => []IndInv
  BY Initially, Inductive, PTL DEF Spec

(* CircularQueue.cpp: start_idx never leaves the ring and num_full never   *)
(* leaves 0 .. QSIZE, for every number of callers of EnQueue and DeQueue   *)
(* and every queue size.                                                   *)
THEOREM TypeCorrect == Spec => []TypeOK
  <1>1. IndInv => TypeOK
    BY DEF IndInv
  <1> QED BY <1>1, Invariance, PTL

-----------------------------------------------------------------------------
(* The code implements the abstract queue.                                 *)

LEMMA AbstractInit == Init => Abstract!Init
  <1> SUFFICES ASSUME Init PROVE Abstract!Init
    OBVIOUS
  <1>1. Used = 0
    BY DEF Init, Used, Threads
  <1>2. Contents = << >>
    BY <1>1 DEF Contents
  <1>3. Pending = [p \in Producers |-> NoItem]
    BY DEF Init, Pending, Threads
  <1>4. Taken = [c \in Consumers |-> NoItem]
    BY DEF Init, Taken, Threads
  <1> QED BY <1>2, <1>3, <1>4 DEF Abstract!Init

LEMMA AbstractStep == IndInv /\ [Next]_vars => [Abstract!Next]_(Abstract!vars)
  <1> SUFFICES ASSUME IndInv, [Next]_vars PROVE [Abstract!Next]_(Abstract!vars)
    OBVIOUS
  <1> USE QueueAssumption DEF IndInv, TypeOK, Threads, Goto, ring
  <1>1. ASSUME NEW p \in Producers, NEW v \in Items, EnQueue(p, v)
        PROVE  Abstract!Offer(p, v)
    <2>1. Contents' = Contents
      BY <1>1, QuietKeepsContents DEF Quiet
    <2>2. Pending[p] = NoItem /\ Pending' = [Pending EXCEPT ![p] = v] /\ Taken' = Taken
      BY <1>1 DEF EnQueue, Pending, Taken
    <2> QED BY <2>1, <2>2 DEF Abstract!Offer
  <1>2. ASSUME NEW p \in Producers, EnQueueCount(p)
        PROVE  Abstract!Put(p)
    <2>1. Contents' = Append(Contents, arg[p]) /\ Len(Contents) < QSIZE
      BY <1>2, CountAppends
    <2>2. Pending[p] = arg[p] /\ arg[p] # NoItem
      BY <1>2 DEF EnQueueCount, Pending, BusyInv
    <2>3. Pending' = [Pending EXCEPT ![p] = NoItem]
      BY <1>2 DEF EnQueueCount, Pending
    <2>4. Taken' = Taken
      BY <1>2 DEF EnQueueCount, Taken
    <2> QED BY <2>1, <2>2, <2>3, <2>4 DEF Abstract!Put
  <1>3. ASSUME NEW c \in Consumers, DeQueueAdvance(c)
        PROVE  Abstract!Take(c)
    <2>1. Contents # << >> /\ local[c] = Head(Contents) /\ Contents' = Tail(Contents)
      BY <1>3, AdvanceTakesHead
    <2>2. Taken[c] = NoItem /\ Taken' = [Taken EXCEPT ![c] = local[c]] /\ Pending' = Pending
      BY <1>3 DEF DeQueueAdvance, Pending, Taken
    <2> QED BY <2>1, <2>2 DEF Abstract!Take
  <1>4. ASSUME NEW c \in Consumers, DeQueueReturn(c)
        PROVE  Abstract!Return(c)
    <2>1. Contents' = Contents
      BY <1>4, QuietKeepsContents DEF Quiet
    <2>2. Taken[c] # NoItem /\ Taken' = [Taken EXCEPT ![c] = NoItem] /\ Pending' = Pending
      BY <1>4 DEF DeQueueReturn, Pending, Taken, BusyInv
    <2> QED BY <2>1, <2>2 DEF Abstract!Return
  <1>5. ASSUME NEW t \in Threads, Quiet(t),
               ~ DeQueueReturn(t), ~ (t \in Producers /\ \E v \in Items : EnQueue(t, v))
        PROVE  UNCHANGED Abstract!vars
    <2>1. Contents' = Contents
      BY <1>5, QuietKeepsContents
    <2>2. CASE Lock(t) \/ Unlock(t)
      <3>1. Pending' = Pending /\ Taken' = Taken
        BY <2>2 DEF Lock, Unlock, Pending, Taken
      <3> QED BY <2>1, <3>1 DEF Abstract!vars
    <2>3. CASE SpuriousWakeup(t)
      <3>1. Pending' = Pending /\ Taken' = Taken
        BY <2>3 DEF SpuriousWakeup, Pending, Taken, WaitInv
      <3> QED BY <2>1, <3>1 DEF Abstract!vars
    <2>4. CASE t \in Producers /\ (EnQueueWait(t) \/ EnQueueStore(t))
      <3>1. Pending' = Pending /\ Taken' = Taken
        BY <2>4 DEF EnQueueWait, EnQueueStore, Pending, Taken
      <3> QED BY <2>1, <3>1 DEF Abstract!vars
    <2>5. CASE t \in Producers /\ EnQueueSignal(t)
      <3>1. Pending' = Pending /\ Taken' = Taken
        BY <2>5 DEF EnQueueSignal, Pending, Taken, WaitInv
      <3> QED BY <2>1, <3>1 DEF Abstract!vars
    <2>6. CASE t \in Consumers /\ (DeQueue(t) \/ DeQueueWait(t) \/ DeQueueLoad(t) \/ DeQueueDiscount(t))
      <3>1. Pending' = Pending /\ Taken' = Taken
        BY <2>6 DEF DeQueue, DeQueueWait, DeQueueLoad, DeQueueDiscount, Pending, Taken
      <3> QED BY <2>1, <3>1 DEF Abstract!vars
    <2>7. CASE t \in Consumers /\ DeQueueSignal(t)
      <3>1. Pending' = Pending /\ Taken' = Taken
        BY <2>7 DEF DeQueueSignal, Pending, Taken, WaitInv
      <3> QED BY <2>1, <3>1 DEF Abstract!vars
    <2> QED BY <1>5, <2>2, <2>3, <2>4, <2>5, <2>6, <2>7 DEF Quiet
  <1>6. CASE UNCHANGED vars
    BY <1>6 DEF vars, Abstract!vars, Contents, Used, Pending, Taken
  <1>7. ASSUME NEW t \in Threads, Quiet(t) PROVE [Abstract!Next]_(Abstract!vars)
    <2>1. CASE DeQueueReturn(t)
      <3>1. t \in Consumers
        BY <2>1 DEF DeQueueReturn, ProducerLabels
      <3> QED BY <1>4, <2>1, <3>1 DEF Abstract!Next
    <2>2. ASSUME NEW v \in Items, t \in Producers, EnQueue(t, v)
          PROVE  [Abstract!Next]_(Abstract!vars)
      BY <1>1, <2>2 DEF Abstract!Next
    <2>3. CASE ~ DeQueueReturn(t) /\ ~ (t \in Producers /\ \E v \in Items : EnQueue(t, v))
      BY <1>5, <1>7, <2>3
    <2> QED BY <2>1, <2>2, <2>3
  <1> QED BY <1>2, <1>3, <1>6, <1>7, NextCases DEF Abstract!Next

(* CircularQueue::EnQueue and DeQueue implement the bounded FIFO of        *)
(* BoundedQueue: whatever the threads that share the queue do, no pointer  *)
(* is lost, duplicated or reordered.                                       *)
THEOREM FIFO == Spec => ImplementsFIFO
  <1>1. Init => Abstract!Init
    BY AbstractInit
  <1>2. IndInv /\ [Next]_vars => [Abstract!Next]_(Abstract!vars)
    BY AbstractStep
  <1> QED BY <1>1, <1>2, Invariance, PTL DEF Spec, ImplementsFIFO, Abstract!Spec

-----------------------------------------------------------------------------
(* No wakeup is lost.                                                      *)

LEMMA CardAdd ==
  ASSUME NEW S, IsFiniteSet(S), NEW x
  PROVE  /\ Cardinality(S) \in Nat /\ Cardinality(S \cup {x}) \in Nat
         /\ x \notin S => Cardinality(S \cup {x}) = Cardinality(S) + 1
         /\ Cardinality(S) <= Cardinality(S \cup {x})
  <1>1. Cardinality(S) \in Nat
    BY FS_CardinalityType
  <1>2. Cardinality(S \cup {x}) = IF x \in S THEN Cardinality(S) ELSE Cardinality(S) + 1
    BY FS_AddElement
  <1> QED BY <1>1, <1>2

LEMMA CardRemove ==
  ASSUME NEW S, IsFiniteSet(S), NEW x \in S
  PROVE  Cardinality(S) \in Nat /\ Cardinality(S \ {x}) = Cardinality(S) - 1
  BY FS_CardinalityType, FS_RemoveElement

LEMMA CountedSets ==
  /\ IsFiniteSet(ComingConsumers) /\ Cardinality(ComingConsumers) \in Nat
  /\ IsFiniteSet(OwingProducers) /\ Cardinality(OwingProducers) \in Nat
  /\ IsFiniteSet(ComingProducers) /\ Cardinality(ComingProducers) \in Nat
  /\ IsFiniteSet(OwingConsumers) /\ Cardinality(OwingConsumers) \in Nat
  <1>1. /\ ComingConsumers \in SUBSET Consumers /\ OwingProducers \in SUBSET Producers
        /\ ComingProducers \in SUBSET Producers /\ OwingConsumers \in SUBSET Consumers
    BY DEF ComingConsumers, OwingProducers, ComingProducers, OwingConsumers
  <1>2. /\ IsFiniteSet(ComingConsumers) /\ IsFiniteSet(OwingProducers)
        /\ IsFiniteSet(ComingProducers) /\ IsFiniteSet(OwingConsumers)
    BY <1>1, QueueAssumption, FS_Subset
  <1> QED BY <1>2, FS_CardinalityType

LEMMA WakeupStep == IndInv /\ NoLostWakeup /\ [Next]_vars => NoLostWakeup'
  <1> SUFFICES ASSUME IndInv, NoLostWakeup, [Next]_vars PROVE NoLostWakeup'
    OBVIOUS
  <1> USE QueueAssumption DEF IndInv, TypeOK, Threads, Goto, ring
  <1> DEFINE CC == ComingConsumers
             OP == OwingProducers
             CP == ComingProducers
             OC == OwingConsumers
             Sets == <<CC, OP, CP, OC>>
  <1>n. num_full \in Nat /\ QSIZE \in Nat /\ num_full <= QSIZE
    OBVIOUS
  <1>1. ASSUME UNCHANGED <<num_full, notfull, notempty>>, UNCHANGED Sets
        PROVE  NoLostWakeup'
    BY <1>1 DEF NoLostWakeup
  <1>2. ASSUME NEW t \in Threads, Lock(t) \/ Unlock(t) PROVE NoLostWakeup'
    <2>1. UNCHANGED Sets
      BY <1>2 DEF Lock, Unlock, ComingConsumers, OwingProducers, ComingProducers, OwingConsumers
    <2> QED BY <1>1, <1>2, <2>1 DEF Lock, Unlock
  <1>3. ASSUME NEW p \in Producers, EnQueueStore(p) PROVE NoLostWakeup'
    <2>1. UNCHANGED Sets
      BY <1>3 DEF EnQueueStore, ComingConsumers, OwingProducers, ComingProducers, OwingConsumers
    <2> QED BY <1>1, <1>3, <2>1 DEF EnQueueStore
  <1>4. ASSUME NEW c \in Consumers, DeQueueLoad(c) \/ DeQueueAdvance(c) \/ DeQueueReturn(c)
        PROVE  NoLostWakeup'
    <2>1. UNCHANGED Sets
      BY <1>4 DEF DeQueueLoad, DeQueueAdvance, DeQueueReturn,
                  ComingConsumers, OwingProducers, ComingProducers, OwingConsumers
    <2> QED BY <1>1, <1>4, <2>1 DEF DeQueueLoad, DeQueueAdvance, DeQueueReturn
  <1>5. ASSUME NEW p \in Producers, pc' = [pc EXCEPT ![p] = "lock"], pc[p] \in {"idle", "wait"},
               UNCHANGED <<num_full, notempty>>, notfull' \subseteq notfull
        PROVE  NoLostWakeup'
    <2>1. CC' = CC /\ OP' = OP /\ CP' = CP \cup {p} /\ OC' = OC
      BY <1>5 DEF ComingConsumers, OwingProducers, ComingProducers, OwingConsumers
    <2>2. Cardinality(CP) <= Cardinality(CP')
      BY <2>1, CardAdd, CountedSets
    <2>3. Cardinality(CP') \in Nat
      BY <2>1, CardAdd, CountedSets
    <2> QED BY <1>n, <1>5, <2>1, <2>2, <2>3, CountedSets DEF NoLostWakeup
  <1>6. ASSUME NEW c \in Consumers, pc' = [pc EXCEPT ![c] = "lock"], pc[c] \in {"idle", "wait"},
               UNCHANGED <<num_full, notfull>>, notempty' \subseteq notempty
        PROVE  NoLostWakeup'
    <2>1. CC' = CC \cup {c} /\ OP' = OP /\ CP' = CP /\ OC' = OC
      BY <1>6 DEF ComingConsumers, OwingProducers, ComingProducers, OwingConsumers
    <2>2. Cardinality(CC) <= Cardinality(CC')
      BY <2>1, CardAdd, CountedSets
    <2>3. Cardinality(CC') \in Nat
      BY <2>1, CardAdd, CountedSets
    <2> QED BY <1>n, <1>6, <2>1, <2>2, <2>3, CountedSets DEF NoLostWakeup
  <1>7. ASSUME NEW p \in Producers, NEW v \in Items, EnQueue(p, v) PROVE NoLostWakeup'
    BY <1>5, <1>7 DEF EnQueue
  <1>8. ASSUME NEW c \in Consumers, DeQueue(c) PROVE NoLostWakeup'
    BY <1>6, <1>8 DEF DeQueue
  <1>9. ASSUME NEW t \in Threads, SpuriousWakeup(t) PROVE NoLostWakeup'
    <2>1. CASE t \in Producers
      <3>1. pc[t] = "wait" /\ notempty' = notempty
        BY <1>9, <2>1 DEF SpuriousWakeup, WaitInv
      <3> QED BY <1>5, <1>9, <2>1, <3>1 DEF SpuriousWakeup
    <2>2. CASE t \in Consumers
      <3>1. pc[t] = "wait" /\ notfull' = notfull
        BY <1>9, <2>2 DEF SpuriousWakeup, WaitInv
      <3> QED BY <1>6, <1>9, <2>2, <3>1 DEF SpuriousWakeup
    <2> QED BY <2>1, <2>2
  <1>10. ASSUME NEW p \in Producers, EnQueueWait(p) PROVE NoLostWakeup'
    <2>1. CC' = CC /\ OP' = OP /\ OC' = OC /\ num_full' = QSIZE
      BY <1>10 DEF EnQueueWait, ComingConsumers, OwingProducers, OwingConsumers
    <2>2. notempty' = notempty /\ num_full = QSIZE
      BY <1>10 DEF EnQueueWait
    <2>3. CP' = CP \ {p} /\ p \in CP
      BY <1>10 DEF EnQueueWait, ComingProducers
    <2>4. Cardinality(CP') \in Nat
      BY <2>3, CountedSets, FS_RemoveElement, FS_CardinalityType
    <2> QED BY <1>n, <2>1, <2>2, <2>4, CountedSets DEF NoLostWakeup
  <1>11. ASSUME NEW c \in Consumers, DeQueueWait(c) PROVE NoLostWakeup'
    <2>1. OP' = OP /\ CP' = CP /\ OC' = OC /\ num_full' = 0
      BY <1>11 DEF DeQueueWait, ComingProducers, OwingProducers, OwingConsumers
    <2>2. notfull' = notfull /\ num_full = 0
      BY <1>11 DEF DeQueueWait
    <2>3. CC' = CC \ {c} /\ c \in CC
      BY <1>11 DEF DeQueueWait, ComingConsumers
    <2>4. Cardinality(CC') \in Nat
      BY <2>3, CountedSets, FS_RemoveElement, FS_CardinalityType
    <2> QED BY <1>n, <2>1, <2>2, <2>4, CountedSets DEF NoLostWakeup
  <1>12. ASSUME NEW p \in Producers, EnQueueCount(p) PROVE NoLostWakeup'
    <2>1. /\ CC' = CC /\ OP' = OP \cup {p} /\ CP' = CP \ {p} /\ OC' = OC
          /\ p \notin OP /\ p \in CP
      BY <1>12 DEF EnQueueCount, ComingConsumers, OwingProducers, ComingProducers, OwingConsumers
    <2>2. Cardinality(OP') = Cardinality(OP) + 1
      BY <2>1, CardAdd, CountedSets
    <2>3. Cardinality(CP') = Cardinality(CP) - 1
      BY <2>1, CardRemove, CountedSets
    <2>4. num_full' = num_full + 1 /\ UNCHANGED <<notfull, notempty>>
      BY <1>12 DEF EnQueueCount
    <2> QED BY <1>n, <2>1, <2>2, <2>3, <2>4, CountedSets DEF NoLostWakeup
  <1>13. ASSUME NEW c \in Consumers, DeQueueDiscount(c) PROVE NoLostWakeup'
    <2>1. /\ CC' = CC \ {c} /\ OP' = OP /\ CP' = CP /\ OC' = OC \cup {c}
          /\ c \in CC /\ c \notin OC
      BY <1>13 DEF DeQueueDiscount, ComingConsumers, OwingProducers, ComingProducers, OwingConsumers
    <2>2. Cardinality(OC') = Cardinality(OC) + 1
      BY <2>1, CardAdd, CountedSets
    <2>3. Cardinality(CC') = Cardinality(CC) - 1
      BY <2>1, CardRemove, CountedSets
    <2>4. num_full' = num_full - 1 /\ UNCHANGED <<notfull, notempty>>
      BY <1>13 DEF DeQueueDiscount
    <2> QED BY <1>n, <2>1, <2>2, <2>3, <2>4, CountedSets DEF NoLostWakeup
  <1>14. ASSUME NEW p \in Producers, EnQueueSignal(p) PROVE NoLostWakeup'
    <2>1. p \in OP /\ UNCHANGED <<num_full, notfull>>
      BY <1>14 DEF EnQueueSignal, OwingProducers
    <2>2. CASE notempty = {} /\ Goto(p, "unlock") /\ notempty' = notempty
      <3>1. CP' = CP /\ OC' = OC
        BY <1>14, <2>2 DEF EnQueueSignal, ComingProducers, OwingConsumers
      <3> QED BY <2>1, <2>2, <3>1 DEF NoLostWakeup
    <2>3. ASSUME NEW c \in notempty, notempty' = notempty \ {c},
                 pc' = [pc EXCEPT ![c] = "lock", ![p] = "unlock"]
          PROVE  NoLostWakeup'
      <3>1. c \in Consumers /\ pc[c] = "wait" /\ pc[p] = "signal" /\ c # p
        BY <1>14, <2>3 DEF WaitInv, EnQueueSignal
      <3>2. CC' = CC \cup {c} /\ OP' = OP \ {p} /\ CP' = CP /\ OC' = OC /\ c \notin CC
        BY <2>3, <3>1 DEF ComingConsumers, OwingProducers, ComingProducers, OwingConsumers
      <3>3. Cardinality(CC') = Cardinality(CC) + 1
        BY <3>2, CardAdd, CountedSets
      <3>4. Cardinality(OP') = Cardinality(OP) - 1
        BY <2>1, <3>2, CardRemove, CountedSets
      <3> QED BY <1>n, <2>1, <2>3, <3>2, <3>3, <3>4, CountedSets DEF NoLostWakeup
    <2> QED BY <1>14, <2>2, <2>3 DEF EnQueueSignal
  <1>15. ASSUME NEW c \in Consumers, DeQueueSignal(c) PROVE NoLostWakeup'
    <2>1. c \in OC /\ UNCHANGED <<num_full, notempty>>
      BY <1>15 DEF DeQueueSignal, OwingConsumers
    <2>2. CASE notfull = {} /\ Goto(c, "unlock") /\ notfull' = notfull
      <3>1. CC' = CC /\ OP' = OP
        BY <1>15, <2>2 DEF DeQueueSignal, ComingConsumers, OwingProducers
      <3> QED BY <2>1, <2>2, <3>1 DEF NoLostWakeup
    <2>3. ASSUME NEW p \in notfull, notfull' = notfull \ {p},
                 pc' = [pc EXCEPT ![p] = "lock", ![c] = "unlock"]
          PROVE  NoLostWakeup'
      <3>1. p \in Producers /\ pc[p] = "wait" /\ pc[c] = "signal" /\ c # p
        BY <1>15, <2>3 DEF WaitInv, DeQueueSignal
      <3>2. CC' = CC /\ OP' = OP /\ CP' = CP \cup {p} /\ OC' = OC \ {c} /\ p \notin CP
        BY <2>3, <3>1 DEF ComingConsumers, OwingProducers, ComingProducers, OwingConsumers
      <3>3. Cardinality(CP') = Cardinality(CP) + 1
        BY <3>2, CardAdd, CountedSets
      <3>4. Cardinality(OC') = Cardinality(OC) - 1
        BY <2>1, <3>2, CardRemove, CountedSets
      <3> QED BY <1>n, <2>1, <2>3, <3>2, <3>3, <3>4, CountedSets DEF NoLostWakeup
    <2> QED BY <1>15, <2>2, <2>3 DEF DeQueueSignal
  <1>16. CASE UNCHANGED vars
    <2>1. UNCHANGED Sets
      BY <1>16 DEF vars, ComingConsumers, OwingProducers, ComingProducers, OwingConsumers
    <2> QED BY <1>1, <1>16, <2>1 DEF vars
  <1> QED
    BY <1>2, <1>3, <1>4, <1>7, <1>8, <1>9, <1>10, <1>11, <1>12, <1>13, <1>14, <1>15, <1>16
       DEF Next, ProducerStep, ConsumerStep

(* CircularQueue.cpp signals once per insertion and once per removal, and  *)
(* that is enough: while a thread sleeps, every item (every free slot) has *)
(* an awake thread or an outstanding signal to answer for it.              *)
THEOREM NoWakeupLost == Spec => []NoLostWakeup
  <1>1. Init => NoLostWakeup
    BY DEF Init, NoLostWakeup
  <1>2. IndInv /\ NoLostWakeup /\ [Next]_vars => NoLostWakeup'
    BY WakeupStep
  <1> QED BY <1>1, <1>2, Invariance, PTL DEF Spec
=============================================================================
