--------------------------- MODULE CircularQueue ----------------------------
(***************************************************************************)
(* CircularQueue::EnQueue and CircularQueue::DeQueue, statement by         *)
(* statement: a ring of QSIZE slots protected by one pthread mutex         *)
(* (buf_lock) with two condition variables (notfull, notempty).            *)
(*                                                                         *)
(* A thread that returns from pthread_cond_wait has to take buf_lock again *)
(* and re-tests the loop condition, so a woken thread is back at "lock".   *)
(* pthread_cond_signal wakes one waiter, any waiter; POSIX also allows a   *)
(* waiter to wake without a signal.                                        *)
(***************************************************************************)
EXTENDS Integers, Sequences, FiniteSets

CONSTANTS
  Producers,  \* threads that call EnQueue
  Consumers,  \* threads that call DeQueue
  Items,      \* the pointers that travel through the queue
  NoItem,     \* no pointer (an uninitialised local)
  NoThread,   \* nobody holds buf_lock
  QSIZE       \* number of slots

ASSUME QueueAssumption ==
  /\ QSIZE \in Nat \ {0}
  /\ NoItem \notin Items
  /\ Producers \cap Consumers = {}
  /\ NoThread \notin Producers \cup Consumers
  /\ IsFiniteSet(Producers) /\ IsFiniteSet(Consumers)

Threads == Producers \cup Consumers
Slots == 0 .. QSIZE - 1

VARIABLES
  start_idx, num_full, data,  \* the members of CircularQueue
  buf_lock,                   \* the holder of the mutex, or NoThread
  notfull, notempty,          \* the threads waiting on each condition
  pc,                         \* where each thread is
  arg,                        \* EnQueue's parameter, per producer
  local                       \* DeQueue's local variable "data", per consumer

ring == <<start_idx, num_full, data>>
vars == <<start_idx, num_full, data, buf_lock, notfull, notempty, pc, arg, local>>

Goto(t, label) == pc' = [pc EXCEPT ![t] = label]

Init ==
  /\ start_idx = 0
  /\ num_full = 0
  /\ data = [i \in Slots |-> NoItem]
  /\ buf_lock = NoThread
  /\ notfull = {}
  /\ notempty = {}
  /\ pc = [t \in Threads |-> "idle"]
  /\ arg = [p \in Producers |-> NoItem]
  /\ local = [c \in Consumers |-> NoItem]

-----------------------------------------------------------------------------
(* Steps that EnQueue and DeQueue share.                                   *)

Lock(t) ==
  /\ pc[t] = "lock"
  /\ buf_lock = NoThread
  /\ buf_lock' = t
  /\ Goto(t, "check")
  /\ UNCHANGED <<ring, notfull, notempty, arg, local>>

Unlock(t) ==
  /\ pc[t] = "unlock"
  /\ buf_lock' = NoThread
  /\ Goto(t, IF t \in Producers THEN "idle" ELSE "return")
  /\ UNCHANGED <<ring, notfull, notempty, arg, local>>

(* A waiter leaves pthread_cond_wait although nobody signalled it.         *)
SpuriousWakeup(t) ==
  /\ t \in notfull \cup notempty
  /\ notfull' = notfull \ {t}
  /\ notempty' = notempty \ {t}
  /\ Goto(t, "lock")
  /\ UNCHANGED <<ring, buf_lock, arg, local>>

-----------------------------------------------------------------------------
(* EnQueue(v) by producer p.                                               *)

EnQueue(p, v) ==
  /\ pc[p] = "idle"
  /\ arg' = [arg EXCEPT ![p] = v]
  /\ Goto(p, "lock")
  /\ UNCHANGED <<ring, buf_lock, notfull, notempty, local>>

EnQueueWait(p) ==
  /\ pc[p] = "check"
  /\ num_full = QSIZE
  /\ notfull' = notfull \cup {p}
  /\ buf_lock' = NoThread
  /\ Goto(p, "wait")
  /\ UNCHANGED <<ring, notempty, arg, local>>

(* Mutant: the new pointer goes to slot num_full, ignoring start_idx.      *)
EnQueueStoreFromZero(p) ==
  /\ pc[p] = "check"
  /\ num_full # QSIZE
  /\ data' = [data EXCEPT ![num_full % QSIZE] = arg[p]]
  /\ Goto(p, "count")
  /\ UNCHANGED <<start_idx, num_full, buf_lock, notfull, notempty, arg, local>>

(* Mutant: the test for a full ring is missing.                            *)
EnQueueStoreUnchecked(p) ==
  /\ pc[p] = "check"
  /\ data' = [data EXCEPT ![(start_idx + num_full) % QSIZE] = arg[p]]
  /\ Goto(p, "count")
  /\ UNCHANGED <<start_idx, num_full, buf_lock, notfull, notempty, arg, local>>

EnQueueStore(p) ==
  /\ pc[p] = "check"
  /\ num_full # QSIZE
  /\ data' = [data EXCEPT ![(start_idx + num_full) % QSIZE] = arg[p]]
  /\ Goto(p, "count")
  /\ UNCHANGED <<start_idx, num_full, buf_lock, notfull, notempty, arg, local>>

EnQueueCount(p) ==
  /\ pc[p] = "count"
  /\ num_full' = num_full + 1
  /\ Goto(p, "signal")
  /\ UNCHANGED <<start_idx, data, buf_lock, notfull, notempty, arg, local>>

(* Mutant: signal only on the transition from empty to non-empty.          *)
EnQueueSignalFirstOnly(p) ==
  /\ pc[p] = "signal"
  /\ \/ /\ notempty = {} \/ num_full # 1
        /\ UNCHANGED notempty
        /\ Goto(p, "unlock")
     \/ \E c \in notempty :
          /\ num_full = 1
          /\ notempty' = notempty \ {c}
          /\ pc' = [pc EXCEPT ![c] = "lock", ![p] = "unlock"]
  /\ UNCHANGED <<ring, buf_lock, notfull, arg, local>>

(* Mutant: EnQueue forgets to signal.                                      *)
EnQueueSignalMissing(p) ==
  /\ pc[p] = "signal"
  /\ Goto(p, "unlock")
  /\ UNCHANGED <<ring, buf_lock, notfull, notempty, arg, local>>

EnQueueSignal(p) ==
  /\ pc[p] = "signal"
  /\ \/ /\ notempty = {}
        /\ UNCHANGED notempty
        /\ Goto(p, "unlock")
     \/ \E c \in notempty :
          /\ notempty' = notempty \ {c}
          /\ pc' = [pc EXCEPT ![c] = "lock", ![p] = "unlock"]
  /\ UNCHANGED <<ring, buf_lock, notfull, arg, local>>

-----------------------------------------------------------------------------
(* DeQueue() by consumer c.                                                *)

DeQueue(c) ==
  /\ pc[c] = "idle"
  /\ local' = [local EXCEPT ![c] = NoItem]
  /\ Goto(c, "lock")
  /\ UNCHANGED <<ring, buf_lock, notfull, notempty, arg>>

DeQueueWait(c) ==
  /\ pc[c] = "check"
  /\ num_full = 0
  /\ notempty' = notempty \cup {c}
  /\ buf_lock' = NoThread
  /\ Goto(c, "wait")
  /\ UNCHANGED <<ring, notfull, arg, local>>

DeQueueLoad(c) ==
  /\ pc[c] = "check"
  /\ num_full # 0
  /\ local' = [local EXCEPT ![c] = data[start_idx]]
  /\ Goto(c, "advance")
  /\ UNCHANGED <<ring, buf_lock, notfull, notempty, arg>>

DeQueueAdvance(c) ==
  /\ pc[c] = "advance"
  /\ start_idx' = (start_idx + 1) % QSIZE
  /\ Goto(c, "discount")
  /\ UNCHANGED <<num_full, data, buf_lock, notfull, notempty, arg, local>>

DeQueueDiscount(c) ==
  /\ pc[c] = "discount"
  /\ num_full' = num_full - 1
  /\ Goto(c, "signal")
  /\ UNCHANGED <<start_idx, data, buf_lock, notfull, notempty, arg, local>>

(* Mutant: DeQueue signals the condition it waits on itself.               *)
DeQueueSignalNotEmpty(c) ==
  /\ pc[c] = "signal"
  /\ \/ /\ notempty = {}
        /\ UNCHANGED notempty
        /\ Goto(c, "unlock")
     \/ \E d \in notempty :
          /\ notempty' = notempty \ {d}
          /\ pc' = [pc EXCEPT ![d] = "lock", ![c] = "unlock"]
  /\ UNCHANGED <<ring, buf_lock, notfull, arg, local>>

DeQueueSignal(c) ==
  /\ pc[c] = "signal"
  /\ \/ /\ notfull = {}
        /\ UNCHANGED notfull
        /\ Goto(c, "unlock")
     \/ \E p \in notfull :
          /\ notfull' = notfull \ {p}
          /\ pc' = [pc EXCEPT ![p] = "lock", ![c] = "unlock"]
  /\ UNCHANGED <<ring, buf_lock, notempty, arg, local>>

(* return (data): the caller has the pointer.                              *)
DeQueueReturn(c) ==
  /\ pc[c] = "return"
  /\ Goto(c, "idle")
  /\ UNCHANGED <<ring, buf_lock, notfull, notempty, arg, local>>

-----------------------------------------------------------------------------
(* The steps a thread takes once it is inside an operation.                *)
ProducerStep(p) ==
  \/ Lock(p) \/ Unlock(p) \/ EnQueueWait(p)
  \/ EnQueueStore(p) \/ EnQueueCount(p) \/ EnQueueSignal(p)

ConsumerStep(c) ==
  \/ Lock(c) \/ Unlock(c) \/ DeQueueWait(c) \/ DeQueueLoad(c)
  \/ DeQueueAdvance(c) \/ DeQueueDiscount(c) \/ DeQueueSignal(c)
  \/ DeQueueReturn(c)

Next ==
  \/ \E p \in Producers : ProducerStep(p)
  \/ \E p \in Producers, v \in Items : EnQueue(p, v)
  \/ \E c \in Consumers : ConsumerStep(c) \/ DeQueue(c)
  \/ \E t \in Threads : SpuriousWakeup(t)

Spec == Init /\ [][Next]_vars

(* A thread inside an operation is scheduled whenever it can run; the      *)
(* consumers of this program call DeQueue in an endless loop; a waiter does *)
(* not wake without cause for ever.  Nothing is assumed about who gets a   *)
(* free mutex, which waiter a signal wakes, or producers calling EnQueue.  *)
Fairness ==
  /\ \A p \in Producers : WF_vars(ProducerStep(p))
  /\ \A c \in Consumers : WF_vars(ConsumerStep(c) \/ DeQueue(c))
  /\ <>[][\A t \in Threads : ~SpuriousWakeup(t)]_vars

FairSpec == Spec /\ Fairness
-----------------------------------------------------------------------------
(* Properties.                                                             *)

ProducerLabels == {"idle", "lock", "check", "wait", "count", "signal", "unlock"}
ConsumerLabels ==
  {"idle", "lock", "check", "wait", "advance", "discount", "signal", "unlock", "return"}

TypeOK ==
  /\ start_idx \in Slots
  /\ num_full \in 0 .. QSIZE
  /\ data \in [Slots -> Items \cup {NoItem}]
  /\ buf_lock \in Threads \cup {NoThread}
  /\ notfull \in SUBSET Producers
  /\ notempty \in SUBSET Consumers
  /\ pc \in [Threads -> ProducerLabels \cup ConsumerLabels]
  /\ \A p \in Producers : pc[p] \in ProducerLabels
  /\ \A c \in Consumers : pc[c] \in ConsumerLabels
  /\ arg \in [Producers -> Items \cup {NoItem}]
  /\ local \in [Consumers -> Items \cup {NoItem}]

(* How many pointers the ring holds.  Between the two assignments that     *)
(* remove the oldest one (start_idx, then num_full) num_full is still one  *)
(* too large.                                                              *)
Used == IF \E c \in Consumers : pc[c] = "discount" THEN num_full - 1 ELSE num_full

(* The pointers in the ring, oldest first.                                 *)
Contents == [i \in 1 .. Used |-> data[(start_idx + i - 1) % QSIZE]]

(* EnQueue's argument until it takes effect, DeQueue's result from the     *)
(* moment it takes effect.                                                 *)
Pending ==
  [p \in Producers |->
     IF pc[p] \in {"lock", "check", "wait", "count"} THEN arg[p] ELSE NoItem]

Taken ==
  [c \in Consumers |->
     IF pc[c] \in {"discount", "signal", "unlock", "return"} THEN local[c] ELSE NoItem]

(* The code implements the bounded FIFO: EnQueue takes effect at the       *)
(* increment of num_full, DeQueue at the advance of start_idx.  Nothing is *)
(* lost, duplicated, reordered or overwritten for any interleaving of the  *)
(* callers.                                                                *)
Abstract == INSTANCE BoundedQueue WITH offer <- Pending, queue <- Contents, got <- Taken

ImplementsFIFO == Abstract!Spec

(* Consumers that are awake inside DeQueue and have not yet lowered        *)
(* num_full, and producers that still owe the signal for their item; and   *)
(* the same for the other condition.                                       *)
ComingConsumers ==
  {c \in Consumers : pc[c] \in {"lock", "check", "advance", "discount"}}
OwingProducers == {p \in Producers : pc[p] = "signal"}
ComingProducers == {p \in Producers : pc[p] \in {"lock", "check", "count"}}
OwingConsumers == {c \in Consumers : pc[c] = "signal"}

(* No wakeup is lost: while a consumer sleeps on notempty, every item in   *)
(* the queue has an awake consumer or a still outstanding signal to answer *)
(* for it; while a producer sleeps on notfull, so has every free slot.     *)
NoLostWakeup ==
  /\ notempty # {} =>
       num_full <= Cardinality(ComingConsumers) + Cardinality(OwingProducers)
  /\ notfull # {} =>
       QSIZE - num_full <= Cardinality(ComingProducers) + Cardinality(OwingConsumers)

(* Everything put into the queue comes out: a pointer in the ring is       *)
(* eventually the result of some DeQueue.                                  *)
ItemsLeave ==
  \A v \in Items : (\E i \in 1 .. Len(Contents) : Contents[i] = v)
                      ~> (\E c \in Consumers : pc[c] = "return" /\ local[c] = v)

(* A full queue never wedges its producers: when one sleeps on notfull,    *)
(* some EnQueue eventually completes its insertion.                        *)
FullQueueReopens == notfull # {} ~> \E p \in Producers : pc[p] = "signal"
=============================================================================
