---------------------------- MODULE BoundedQueue ----------------------------
(***************************************************************************)
(* What the hand-over queues of thunder-chat (CircularQueue, used as the   *)
(* receive queue between the epoll loop and the receivers and as the       *)
(* broadcast queue between the receivers and the broadcasters) promise     *)
(* their callers: a FIFO of at most QSIZE pointers.  EnQueue(v) takes      *)
(* effect in one step, DeQueue() takes effect in one step and returns the  *)
(* oldest pointer; both may be delayed, neither loses, duplicates or       *)
(* reorders anything.                                                      *)
(***************************************************************************)
EXTENDS Naturals, Sequences

CONSTANTS Producers, Consumers, Items, NoItem, QSIZE

VARIABLES
  offer,   \* offer[p]: the argument of p's EnQueue that has not taken effect
  queue,   \* the pointers inside the queue, oldest first
  got      \* got[c]: what c's DeQueue took and has not yet given back

vars == <<offer, queue, got>>

Init ==
  /\ offer = [p \in Producers |-> NoItem]
  /\ queue = << >>
  /\ got = [c \in Consumers |-> NoItem]

Offer(p, v) ==
  /\ offer[p] = NoItem
  /\ offer' = [offer EXCEPT ![p] = v]
  /\ UNCHANGED <<queue, got>>

Put(p) ==
  /\ offer[p] # NoItem
  /\ Len(queue) < QSIZE
  /\ queue' = Append(queue, offer[p])
  /\ offer' = [offer EXCEPT ![p] = NoItem]
  /\ UNCHANGED got

Take(c) ==
  /\ got[c] = NoItem
  /\ queue # << >>
  /\ got' = [got EXCEPT ![c] = Head(queue)]
  /\ queue' = Tail(queue)
  /\ UNCHANGED offer

Return(c) ==
  /\ got[c] # NoItem
  /\ got' = [got EXCEPT ![c] = NoItem]
  /\ UNCHANGED <<offer, queue>>

Next ==
  \/ \E p \in Producers : Put(p) \/ \E v \in Items : Offer(p, v)
  \/ \E c \in Consumers : Take(c) \/ Return(c)

Spec == Init /\ [][Next]_vars
=============================================================================
