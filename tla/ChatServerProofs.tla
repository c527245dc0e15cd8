-------------------------- MODULE ChatServerProofs --------------------------
(***************************************************************************)
(* Proofs about ChatServer for every number of users, managers, receivers, *)
(* broadcasters and descriptors: type correctness; that a Client is in one *)
(* pair of hands at a time and never used after CloseClient; where what is *)
(* broadcast may go, and in which order it arrives; who is never closed;   *)
(* and when the count of connections is right.                             *)
(***************************************************************************)
EXTENDS ChatServer, FiniteSetTheorems, SequenceTheorems, TLAPS

(* An open socket has a descriptor.                                        *)
SocketInv ==
  /\ \A t \in Threads : cur[t] # NoConn => fd[cur[t]] # NoFd
  /\ \A c \in Live : fd[c] # NoFd
  /\ \A m \in unregistered : fd[m] # NoFd

(* A connection that has no Client yet is in nobody's hands but those of   *)
(* the thread that is about to create it.                                  *)
FreshInv ==
  /\ \A t \in Threads : pc[t] \in Accepting => client[cur[t]] = "none"
  /\ \A c \in unregistered \cup backlog : client[c] = "none"
  /\ \A t \in Threads : cur[t] \notin unregistered \cup backlog
  /\ \A c \in Conns : peer[c] = "away" => client[c] = "none" /\ c \notin backlog
  /\ \A t \in Threads : cur[t] # NoConn => peer[cur[t]] # "away"
  /\ \A m \in Managers : peer[m] # "away"

(* Only main can have in hand a client that is still registered with epoll, *)
(* and epoll_wait reports a client once.                                   *)
WatchInv ==
  /\ \A t \in Threads : cur[t] \in interest => t = Main
  /\ \A d, e \in batch : d.conn = e.conn => d = e

IndInv == TypeOK /\ NoUseAfterFree /\ SoleOwner /\ SocketInv /\ FreshInv /\ WatchInv

(* A thread in the middle of AcceptClient, CloseClient or a Run loop has a *)
(* connection in hand.                                                     *)
LEMMA InHand ==
  ASSUME HandType, NEW t \in Threads, pc[t] \in Accepting \cup Holding
  PROVE  cur[t] \in Conns
  BY DEF HandType, Accepting, Holding, Elsewhere

(* What EnQueue adds to the items in a queue.                              *)
LEMMA PlacesAppend ==
  ASSUME NEW S, NEW q \in Seq(S), NEW c \in S
  PROVE  Places(Append(q, c)) = Places(q) \cup {c}
  BY AppendProperties, LenProperties DEF Places

(* What DeQueue takes from them.                                           *)
LEMMA PlacesTake ==
  ASSUME NEW S, NEW q \in Seq(S), q # <<>>
  PROVE  Head(q) \in Places(q) /\ Places(Tail(q)) \subseteq Places(q)
  BY HeadTailProperties, LenProperties, EmptySeq DEF Places

(* write() appends chunks of a message to what a connection was sent.      *)
LEMMA WriteType ==
  ASSUME BufferType, NEW f, NEW m \in Messages, Write(f, m)
  PROVE  written' \in [Conns -> Seq(Conns \X Chunks)]
  <1>1. CASE UNCHANGED written
    BY <1>1 DEF BufferType
  <1>2. ASSUME NEW c \in Conns, NEW n \in 0 .. Len(m.data),
               written' = [written EXCEPT ![c] =
                             @ \o [i \in 1 .. n |-> <<m.from, m.data[i]>>]]
        PROVE  written' \in [Conns -> Seq(Conns \X Chunks)]
    <2>1. m.from \in Conns /\ m.data \in Seq(Chunks) /\ Len(m.data) \in Nat
      BY LenProperties DEF Messages
    <2>2. \A i \in 1 .. n : m.data[i] \in Chunks
      BY <2>1, ElementOfSeq
    <2>3. [i \in 1 .. n |-> <<m.from, m.data[i]>>] \in Seq(Conns \X Chunks)
      BY <2>1, <2>2
    <2>4. written[c] \o [i \in 1 .. n |-> <<m.from, m.data[i]>>] \in Seq(Conns \X Chunks)
      BY <2>3, ConcatProperties DEF BufferType
    <2> QED BY <1>2, <2>4 DEF BufferType
  <1> QED BY <1>1, <1>2 DEF Write

(* Each part of the invariant depends on a few variables only.             *)
LEMMA Frame ==
  /\ KernelType /\ UNCHANGED <<peer, sent, backlog, fd, interest, ready>> => KernelType'
  /\ BufferType /\ UNCHANGED <<inbox, m_cCBuff, written>> => BufferType'
  /\ ServerType /\ UNCHANGED <<client, m_lstClient, m_iConnCount, tmp>> => ServerType'
  /\ QueueType /\ UNCHANGED <<m_pReceiveQueue, m_pBroadcastQueue>> => QueueType'
  /\ HandType /\ UNCHANGED <<pc, cur>> => HandType'
  /\ MessageType /\ UNCHANGED <<msg, pc>> => MessageType'
  /\ LoopType /\ UNCHANGED <<unregistered, batch, relay, targets>> => LoopType'
  /\ NoUseAfterFree /\ UNCHANGED <<pc, cur, client, batch, interest, m_pReceiveQueue, m_lstClient>> => NoUseAfterFree'
  /\ SoleOwner /\ UNCHANGED <<pc, cur, m_pReceiveQueue, interest, batch>> => SoleOwner'
  /\ SocketInv /\ UNCHANGED <<cur, fd, client, unregistered>> => SocketInv'
  /\ FreshInv /\ UNCHANGED <<pc, cur, client, unregistered, backlog, peer>> => FreshInv'
  /\ WatchInv /\ UNCHANGED <<cur, interest, batch>> => WatchInv'
  <1>1. KernelType /\ UNCHANGED <<peer, sent, backlog, fd, interest, ready>> => KernelType'
    BY DEF KernelType
  <1>2. BufferType /\ UNCHANGED <<inbox, m_cCBuff, written>> => BufferType'
    BY DEF BufferType
  <1>3. ServerType /\ UNCHANGED <<client, m_lstClient, m_iConnCount, tmp>> => ServerType'
    BY DEF ServerType
  <1>4. QueueType /\ UNCHANGED <<m_pReceiveQueue, m_pBroadcastQueue>> => QueueType'
    BY DEF QueueType
  <1>5. HandType /\ UNCHANGED <<pc, cur>> => HandType'
    BY DEF HandType
  <1>6. MessageType /\ UNCHANGED <<msg, pc>> => MessageType'
    BY DEF MessageType
  <1>7. LoopType /\ UNCHANGED <<unregistered, batch, relay, targets>> => LoopType'
    BY DEF LoopType
  <1>8. NoUseAfterFree /\ UNCHANGED <<pc, cur, client, batch, interest, m_pReceiveQueue, m_lstClient>> => NoUseAfterFree'
    BY DEF NoUseAfterFree, Live, Places
  <1>9. SoleOwner /\ UNCHANGED <<pc, cur, m_pReceiveQueue, interest, batch>> => SoleOwner'
    BY DEF SoleOwner, Places
  <1>10. SocketInv /\ UNCHANGED <<cur, fd, client, unregistered>> => SocketInv'
    BY DEF SocketInv, Live
  <1>11. FreshInv /\ UNCHANGED <<pc, cur, client, unregistered, backlog, peer>> => FreshInv'
    BY DEF FreshInv
  <1>12. WatchInv /\ UNCHANGED <<cur, interest, batch>> => WatchInv'
    BY DEF WatchInv
  <1> QED BY <1>1, <1>2, <1>3, <1>4, <1>5, <1>6, <1>7, <1>8, <1>9, <1>10,
       <1>11, <1>12

(* A connection that waits in the accept queue is in nobody's hands. *)
LEMMA ConnectStep ==
  ASSUME IndInv, NEW u \in Users, Connect(u)
  PROVE  IndInv'
  <1>1. BufferType' /\ ServerType' /\ QueueType' /\ HandType' /\ MessageType'
       /\ LoopType' /\ NoUseAfterFree' /\ SoleOwner' /\ SocketInv' /\
       WatchInv'
    BY Frame DEF Connect, Internals, shared, IndInv, TypeOK
  <1>2. KernelType'
    BY ServerAssumption
    DEF Connect, Internals, shared, IndInv, TypeOK, KernelType, HandType,
        Conns, Threads
  <1>3. FreshInv'
    BY ServerAssumption
    DEF Connect, Internals, shared, IndInv, TypeOK, FreshInv, NoUseAfterFree,
        SoleOwner, HandType, KernelType, ServerType, LoopType, Live,
        Accepting, Holding, Elsewhere, Conns, Threads
  <1> QED BY <1>1, <1>2, <1>3 DEF IndInv, TypeOK

(* Input changes no owner. *)
LEMMA SendStep ==
  ASSUME IndInv, NEW c \in Conns, Send(c)
  PROVE  IndInv'
  <1>1. ServerType' /\ QueueType' /\ HandType' /\ MessageType' /\ LoopType' /\
       NoUseAfterFree' /\ SoleOwner' /\ SocketInv' /\ FreshInv' /\ WatchInv'
    BY Frame DEF Send, Internals, shared, IndInv, TypeOK
  <1>2. KernelType'
    BY ServerAssumption
    DEF Send, Internals, Notify, shared, IndInv, TypeOK, KernelType, HandType,
        Conns, Threads
  <1>3. BufferType'
    <2>1. inbox[c] \in Seq(Chunks) /\ sent[c] + 1 \in Chunks
      BY DEF IndInv, TypeOK, KernelType, BufferType, Chunks
    <2>2. Append(inbox[c], sent[c] + 1) \in Seq(Chunks)
      BY <2>1, AppendProperties
    <2> QED BY <2>2 DEF Send, Internals, IndInv, TypeOK, BufferType
  <1> QED BY <1>1, <1>2, <1>3 DEF IndInv, TypeOK

(* A closing peer changes no owner. *)
LEMMA CloseStep ==
  ASSUME IndInv, NEW c \in Conns, Close(c)
  PROVE  IndInv'
  <1>1. BufferType' /\ ServerType' /\ QueueType' /\ HandType' /\ MessageType'
       /\ LoopType' /\ NoUseAfterFree' /\ SoleOwner' /\ SocketInv' /\
       WatchInv'
    BY Frame DEF Close, Internals, shared, IndInv, TypeOK
  <1>2. KernelType'
    BY ServerAssumption
    DEF Close, Internals, Notify, shared, IndInv, TypeOK, KernelType,
        HandType, Conns, Threads
  <1>3. FreshInv'
    BY ServerAssumption
    DEF Close, Internals, Notify, shared, IndInv, TypeOK, FreshInv,
        NoUseAfterFree, SoleOwner, HandType, KernelType, ServerType, LoopType,
        Live, Accepting, Holding, Elsewhere, Conns, Threads
  <1> QED BY <1>1, <1>2, <1>3 DEF IndInv, TypeOK

(* A reset changes no owner. *)
LEMMA ResetStep ==
  ASSUME IndInv, NEW c \in Conns, Reset(c)
  PROVE  IndInv'
  <1>1. BufferType' /\ ServerType' /\ QueueType' /\ HandType' /\ MessageType'
       /\ LoopType' /\ NoUseAfterFree' /\ SoleOwner' /\ SocketInv' /\
       WatchInv'
    BY Frame DEF Reset, Internals, shared, IndInv, TypeOK
  <1>2. KernelType'
    BY ServerAssumption
    DEF Reset, Internals, Notify, shared, IndInv, TypeOK, KernelType,
        HandType, Conns, Threads
  <1>3. FreshInv'
    BY ServerAssumption
    DEF Reset, Internals, Notify, shared, IndInv, TypeOK, FreshInv,
        NoUseAfterFree, SoleOwner, HandType, KernelType, ServerType, LoopType,
        Live, Accepting, Holding, Elsewhere, Conns, Threads
  <1> QED BY <1>1, <1>2, <1>3 DEF IndInv, TypeOK

(* accept(): the acceptor is the only one to know the new socket. *)
LEMMA AcceptStep ==
  ASSUME IndInv, Accept
  PROVE  IndInv'
  <1>1. BufferType' /\ ServerType' /\ QueueType' /\ LoopType'
    BY Frame DEF Accept, poll, shared, IndInv, TypeOK
  <1>2. KernelType'
    BY ServerAssumption
    DEF Accept, Goto, poll, shared, IndInv, TypeOK, KernelType, HandType,
        Conns, Threads
  <1>3. HandType'
    BY ServerAssumption
    DEF Accept, Goto, poll, shared, IndInv, TypeOK, HandType, QueueType,
        LoopType, KernelType, Accepting, Holding, Elsewhere, Conns, Threads
  <1>4. MessageType'
    BY ServerAssumption
    DEF Accept, Goto, poll, shared, IndInv, TypeOK, MessageType, HandType,
        QueueType, Conns, Threads
  <1>5. NoUseAfterFree'
    BY ServerAssumption
    DEF Accept, Goto, poll, shared, IndInv, TypeOK, NoUseAfterFree, SoleOwner,
        FreshInv, WatchInv, HandType, KernelType, ServerType, QueueType,
        LoopType, Live, Places, Accepting, Holding, Elsewhere, Conns, Threads
  <1>6. SoleOwner'
    BY ServerAssumption
    DEF Accept, Goto, poll, shared, IndInv, TypeOK, SoleOwner, NoUseAfterFree,
        FreshInv, WatchInv, HandType, KernelType, ServerType, QueueType,
        LoopType, Live, Places, Accepting, Holding, Elsewhere, Conns, Threads
  <1>7. SocketInv'
    BY ServerAssumption
    DEF Accept, Goto, poll, shared, IndInv, TypeOK, SocketInv, NoUseAfterFree,
        SoleOwner, FreshInv, HandType, KernelType, ServerType, LoopType, Live,
        Accepting, Holding, Elsewhere, Conns, Threads
  <1>8. FreshInv'
    BY ServerAssumption
    DEF Accept, Goto, poll, shared, IndInv, TypeOK, FreshInv, NoUseAfterFree,
        SoleOwner, HandType, KernelType, ServerType, LoopType, Live,
        Accepting, Holding, Elsewhere, Conns, Threads
  <1>9. WatchInv'
    BY ServerAssumption
    DEF Accept, Goto, poll, shared, IndInv, TypeOK, WatchInv, SoleOwner,
        NoUseAfterFree, FreshInv, HandType, KernelType, ServerType, LoopType,
        Live, Accepting, Holding, Elsewhere, Conns, Threads
  <1> QED BY <1>1, <1>2, <1>3, <1>4, <1>5, <1>6, <1>7, <1>8, <1>9 DEF IndInv,
       TypeOK

(* Over the limit: the socket goes before a Client exists. *)
LEMMA RefuseClientStep ==
  ASSUME IndInv, RefuseClient
  PROVE  IndInv'
  <1>1. ServerType' /\ QueueType' /\ LoopType'
    BY Frame DEF RefuseClient, shared, IndInv, TypeOK
  <1>2. KernelType'
    BY ServerAssumption
    DEF RefuseClient, Done, shared, CloseSocket, Goto, IndInv, TypeOK,
        KernelType, HandType, Conns, Threads
  <1>3. BufferType'
    <2>1. <<>> \in Seq(Chunks)
      BY EmptySeq
    <2> QED BY <2>1 DEF RefuseClient, CloseSocket, shared, IndInv, TypeOK,
       BufferType
  <1>4. HandType'
    BY ServerAssumption
    DEF RefuseClient, Done, shared, CloseSocket, Goto, IndInv, TypeOK,
        HandType, QueueType, LoopType, KernelType, Accepting, Holding,
        Elsewhere, Conns, Threads
  <1>5. MessageType'
    BY ServerAssumption
    DEF RefuseClient, Done, shared, CloseSocket, Goto, IndInv, TypeOK,
        MessageType, HandType, QueueType, Conns, Threads
  <1>6. NoUseAfterFree'
    BY ServerAssumption
    DEF RefuseClient, Done, shared, CloseSocket, Goto, IndInv, TypeOK,
        NoUseAfterFree, SoleOwner, FreshInv, WatchInv, HandType, KernelType,
        ServerType, QueueType, LoopType, Live, Places, Accepting, Holding,
        Elsewhere, Conns, Threads
  <1>7. SoleOwner'
    BY ServerAssumption
    DEF RefuseClient, Done, shared, CloseSocket, Goto, IndInv, TypeOK,
        SoleOwner, NoUseAfterFree, FreshInv, WatchInv, HandType, KernelType,
        ServerType, QueueType, LoopType, Live, Places, Accepting, Holding,
        Elsewhere, Conns, Threads
  <1>8. SocketInv'
    BY ServerAssumption
    DEF RefuseClient, Done, shared, CloseSocket, Goto, IndInv, TypeOK,
        SocketInv, NoUseAfterFree, SoleOwner, FreshInv, HandType, KernelType,
        ServerType, LoopType, Live, Accepting, Holding, Elsewhere, Conns,
        Threads
  <1>9. FreshInv'
    BY ServerAssumption
    DEF RefuseClient, Done, shared, CloseSocket, Goto, IndInv, TypeOK,
        FreshInv, NoUseAfterFree, SoleOwner, HandType, KernelType, ServerType,
        LoopType, Live, Accepting, Holding, Elsewhere, Conns, Threads
  <1>10. WatchInv'
    BY ServerAssumption
    DEF RefuseClient, Done, shared, CloseSocket, Goto, IndInv, TypeOK,
        WatchInv, SoleOwner, NoUseAfterFree, FreshInv, HandType, KernelType,
        ServerType, LoopType, Live, Accepting, Holding, Elsewhere, Conns,
        Threads
  <1> QED BY <1>1, <1>2, <1>3, <1>4, <1>5, <1>6, <1>7, <1>8, <1>9, <1>10 DEF
       IndInv, TypeOK

(* Under the limit: AcceptClient. *)
LEMMA AdmitClientStep ==
  ASSUME IndInv, AdmitClient
  PROVE  IndInv'
  <1>1. KernelType' /\ BufferType' /\ ServerType' /\ QueueType' /\ LoopType'
       /\ SocketInv' /\ WatchInv'
    BY Frame DEF AdmitClient, net, poll, shared, IndInv, TypeOK
  <1>2. HandType'
    BY ServerAssumption
    DEF AdmitClient, Goto, net, poll, shared, IndInv, TypeOK, HandType,
        QueueType, LoopType, KernelType, Accepting, Holding, Elsewhere, Conns,
        Threads
  <1>3. MessageType'
    BY ServerAssumption
    DEF AdmitClient, Goto, net, poll, shared, IndInv, TypeOK, MessageType,
        HandType, QueueType, Conns, Threads
  <1>4. NoUseAfterFree'
    BY ServerAssumption
    DEF AdmitClient, Goto, net, poll, shared, IndInv, TypeOK, NoUseAfterFree,
        SoleOwner, FreshInv, WatchInv, HandType, KernelType, ServerType,
        QueueType, LoopType, Live, Places, Accepting, Holding, Elsewhere,
        Conns, Threads
  <1>5. SoleOwner'
    BY ServerAssumption
    DEF AdmitClient, Goto, net, poll, shared, IndInv, TypeOK, SoleOwner,
        NoUseAfterFree, FreshInv, WatchInv, HandType, KernelType, ServerType,
        QueueType, LoopType, Live, Places, Accepting, Holding, Elsewhere,
        Conns, Threads
  <1>6. FreshInv'
    BY ServerAssumption
    DEF AdmitClient, Goto, net, poll, shared, IndInv, TypeOK, FreshInv,
        NoUseAfterFree, SoleOwner, HandType, KernelType, ServerType, LoopType,
        Live, Accepting, Holding, Elsewhere, Conns, Threads
  <1> QED BY <1>1, <1>2, <1>3, <1>4, <1>5, <1>6 DEF IndInv, TypeOK

(* m_iConnCount++ of AcceptClient, the load. *)
LEMMA AcceptLoadStep ==
  ASSUME IndInv, NEW t \in Threads, AcceptLoad(t)
  PROVE  IndInv'
  <1>1. KernelType' /\ BufferType' /\ QueueType' /\ LoopType' /\ SocketInv' /\
       WatchInv'
    BY Frame DEF AcceptLoad, net, poll, shared, IndInv, TypeOK
  <1>2. ServerType'
    BY ServerAssumption
    DEF AcceptLoad, Goto, net, poll, shared, IndInv, TypeOK, ServerType,
        HandType, Conns, Threads
  <1>3. HandType'
    BY ServerAssumption
    DEF AcceptLoad, Goto, net, poll, shared, IndInv, TypeOK, HandType,
        QueueType, LoopType, KernelType, Accepting, Holding, Elsewhere, Conns,
        Threads
  <1>4. MessageType'
    BY ServerAssumption
    DEF AcceptLoad, Goto, net, poll, shared, IndInv, TypeOK, MessageType,
        HandType, QueueType, Conns, Threads
  <1>5. NoUseAfterFree'
    BY ServerAssumption
    DEF AcceptLoad, Goto, net, poll, shared, IndInv, TypeOK, NoUseAfterFree,
        SoleOwner, FreshInv, WatchInv, HandType, KernelType, ServerType,
        QueueType, LoopType, Live, Places, Accepting, Holding, Elsewhere,
        Conns, Threads
  <1>6. SoleOwner'
    BY ServerAssumption
    DEF AcceptLoad, Goto, net, poll, shared, IndInv, TypeOK, SoleOwner,
        NoUseAfterFree, FreshInv, WatchInv, HandType, KernelType, ServerType,
        QueueType, LoopType, Live, Places, Accepting, Holding, Elsewhere,
        Conns, Threads
  <1>7. FreshInv'
    BY ServerAssumption
    DEF AcceptLoad, Goto, net, poll, shared, IndInv, TypeOK, FreshInv,
        NoUseAfterFree, SoleOwner, HandType, KernelType, ServerType, LoopType,
        Live, Accepting, Holding, Elsewhere, Conns, Threads
  <1> QED BY <1>1, <1>2, <1>3, <1>4, <1>5, <1>6, <1>7 DEF IndInv, TypeOK

(* m_iConnCount++ of AcceptClient, the store, and new ChatUser. *)
LEMMA AcceptStoreStep ==
  ASSUME IndInv, NEW t \in Threads, AcceptStore(t)
  PROVE  IndInv'
  <1>1. KernelType' /\ BufferType' /\ QueueType' /\ LoopType' /\ WatchInv'
    BY Frame DEF AcceptStore, net, poll, IndInv, TypeOK
  <1>2. ServerType'
    <2>1. tmp[t] + 1 \in Int
      BY DEF IndInv, TypeOK, ServerType
    <2>2. client' \in [Conns -> {"none", "live", "freed"}]
      BY DEF AcceptStore, IndInv, TypeOK, ServerType
    <2>3. tmp' \in [Threads -> Int]
      BY DEF AcceptStore, IndInv, TypeOK, ServerType
    <2> QED BY <2>1, <2>2, <2>3 DEF AcceptStore, IndInv, TypeOK, ServerType
  <1>3. HandType'
    BY ServerAssumption
    DEF AcceptStore, Goto, net, poll, IndInv, TypeOK, HandType, QueueType,
        LoopType, KernelType, Accepting, Holding, Elsewhere, Conns, Threads
  <1>4. MessageType'
    BY ServerAssumption
    DEF AcceptStore, Goto, net, poll, IndInv, TypeOK, MessageType, HandType,
        QueueType, Conns, Threads
  <1>5. NoUseAfterFree'
    <2>1. client' = [client EXCEPT ![cur[t]] = "live"] /\ Live \subseteq Live'
      BY DEF AcceptStore, Live, IndInv, TypeOK, ServerType
    <2>2. cur[t] \in Conns
      BY InHand DEF AcceptStore, IndInv, TypeOK, Accepting
    <2>3. \A s \in Threads : pc'[s] \in Holding => client'[cur'[s]] = "live"
      BY <2>1, <2>2, InHand
      DEF AcceptStore, Goto, IndInv, TypeOK, HandType, ServerType,
          NoUseAfterFree
    <2>4. \A e \in batch' : client'[e.conn] = "live"
      BY <2>1, <2>2
      DEF AcceptStore, IndInv, TypeOK, ServerType, LoopType, NoUseAfterFree
    <2> QED BY <2>1, <2>3, <2>4 DEF AcceptStore, poll, IndInv, NoUseAfterFree,
       Places
  <1>6. SoleOwner'
    BY ServerAssumption
    DEF AcceptStore, Goto, net, poll, IndInv, TypeOK, SoleOwner,
        NoUseAfterFree, FreshInv, WatchInv, HandType, KernelType, ServerType,
        QueueType, LoopType, Live, Places, Accepting, Holding, Elsewhere,
        Conns, Threads
  <1>7. SocketInv'
    BY ServerAssumption
    DEF AcceptStore, Goto, net, poll, IndInv, TypeOK, SocketInv,
        NoUseAfterFree, SoleOwner, FreshInv, HandType, KernelType, ServerType,
        LoopType, Live, Accepting, Holding, Elsewhere, Conns, Threads
  <1>8. FreshInv'
    BY ServerAssumption
    DEF AcceptStore, Goto, net, poll, IndInv, TypeOK, FreshInv,
        NoUseAfterFree, SoleOwner, HandType, KernelType, ServerType, LoopType,
        Live, Accepting, Holding, Elsewhere, Conns, Threads
  <1> QED BY <1>1, <1>2, <1>3, <1>4, <1>5, <1>6, <1>7, <1>8 DEF IndInv, TypeOK

(* The new Client enters m_lstClient before anyone else can close it. *)
LEMMA AcceptPushStep ==
  ASSUME IndInv, NEW t \in Threads, AcceptPush(t)
  PROVE  IndInv'
  <1>1. KernelType' /\ BufferType' /\ QueueType' /\ LoopType' /\ SocketInv' /\
       WatchInv'
    BY Frame DEF AcceptPush, net, poll, IndInv, TypeOK
  <1>2. ServerType'
    <2>1. cur[t] \in Conns
      BY InHand DEF AcceptPush, IndInv, TypeOK, Holding
    <2> QED BY <2>1 DEF AcceptPush, IndInv, TypeOK, ServerType
  <1>3. HandType'
    BY ServerAssumption
    DEF AcceptPush, Goto, net, poll, IndInv, TypeOK, HandType, QueueType,
        LoopType, KernelType, Accepting, Holding, Elsewhere, Conns, Threads
  <1>4. MessageType'
    BY ServerAssumption
    DEF AcceptPush, Goto, net, poll, IndInv, TypeOK, MessageType, HandType,
        QueueType, Conns, Threads
  <1>5. NoUseAfterFree'
    <2>1. cur[t] \in Live
      BY InHand DEF AcceptPush, IndInv, TypeOK, NoUseAfterFree, Live, Holding
    <2>2. \A s \in Threads : pc'[s] \in Holding => client'[cur'[s]] = "live"
      BY <2>1
      DEF AcceptPush, Goto, IndInv, TypeOK, HandType, NoUseAfterFree, Holding
    <2> QED BY <2>1, <2>2 DEF AcceptPush, poll, IndInv, NoUseAfterFree,
       Places, Live
  <1>6. SoleOwner'
    BY ServerAssumption
    DEF AcceptPush, Goto, net, poll, IndInv, TypeOK, SoleOwner,
        NoUseAfterFree, FreshInv, WatchInv, HandType, KernelType, ServerType,
        QueueType, LoopType, Live, Places, Accepting, Holding, Elsewhere,
        Conns, Threads
  <1>7. FreshInv'
    BY ServerAssumption
    DEF AcceptPush, Goto, net, poll, IndInv, TypeOK, FreshInv, NoUseAfterFree,
        SoleOwner, HandType, KernelType, ServerType, LoopType, Live,
        Accepting, Holding, Elsewhere, Conns, Threads
  <1> QED BY <1>1, <1>2, <1>3, <1>4, <1>5, <1>6, <1>7 DEF IndInv, TypeOK

(* AcceptClient hands the Client to epoll and does not touch it again. *)
LEMMA AcceptAddStep ==
  ASSUME IndInv, NEW t \in Threads, AcceptAdd(t)
  PROVE  IndInv'
  <1>1. BufferType' /\ ServerType' /\ QueueType' /\ LoopType'
    BY Frame DEF AcceptAdd, net, shared, IndInv, TypeOK
  <1>2. KernelType'
    <2>1. cur[t] \in Conns
      BY InHand DEF AcceptAdd, IndInv, TypeOK, Holding
    <2>2. interest' = interest \cup {cur[t]} /\ ready' \subseteq ready \cup {cur[t]}
      BY DEF AcceptAdd, AddClient
    <2> QED BY <2>1, <2>2 DEF AcceptAdd, net, IndInv, TypeOK, KernelType
  <1>3. HandType'
    BY ServerAssumption
    DEF AcceptAdd, Done, net, shared, AddClient, Goto, IndInv, TypeOK,
        HandType, QueueType, LoopType, KernelType, Accepting, Holding,
        Elsewhere, Conns, Threads
  <1>4. MessageType'
    BY ServerAssumption
    DEF AcceptAdd, Done, net, shared, AddClient, Goto, IndInv, TypeOK,
        MessageType, HandType, QueueType, Conns, Threads
  <1>5. NoUseAfterFree'
    <2>1. cur[t] \in Live
      BY InHand DEF AcceptAdd, IndInv, TypeOK, NoUseAfterFree, Live, Holding
    <2>2. \A s \in Threads : pc'[s] \in Holding => client'[cur'[s]] = "live"
      BY
      DEF AcceptAdd, Done, Goto, IndInv, TypeOK, HandType, NoUseAfterFree,
          Holding
    <2>3. interest' = interest \cup {cur[t]}
      BY DEF AcceptAdd, AddClient
    <2> QED BY <2>1, <2>2, <2>3 DEF AcceptAdd, shared, IndInv, NoUseAfterFree,
       Places, Live
  <1>6. SoleOwner'
    <2>1. /\ cur[t] \in Conns /\ cur' = [cur EXCEPT ![t] = NoConn]
          /\ pc' = [pc EXCEPT ![t] = "home"] /\ interest' = interest \cup {cur[t]}
          /\ UNCHANGED <<m_pReceiveQueue, batch>> /\ NoConn \notin Conns
      BY InHand, ServerAssumption
      DEF AcceptAdd, Done, Goto, AddClient, shared, IndInv, TypeOK, Holding
    <2>2. Places(m_pReceiveQueue) \subseteq Conns /\ interest \subseteq Conns
      BY DEF IndInv, NoUseAfterFree, Live
    <2>3. \A e \in batch : e.conn \in Conns
      BY DEF IndInv, TypeOK, LoopType
    <2>4. t \in Threads
      BY DEF Threads
    <2> QED BY <2>1, <2>2, <2>3, <2>4 DEF IndInv, TypeOK, HandType, SoleOwner,
       Places
  <1>7. SocketInv'
    BY ServerAssumption
    DEF AcceptAdd, Done, net, shared, AddClient, Goto, IndInv, TypeOK,
        SocketInv, NoUseAfterFree, SoleOwner, FreshInv, HandType, KernelType,
        ServerType, LoopType, Live, Accepting, Holding, Elsewhere, Conns,
        Threads
  <1>8. FreshInv'
    BY ServerAssumption
    DEF AcceptAdd, Done, net, shared, AddClient, Goto, IndInv, TypeOK,
        FreshInv, NoUseAfterFree, SoleOwner, HandType, KernelType, ServerType,
        LoopType, Live, Accepting, Holding, Elsewhere, Conns, Threads
  <1>9. WatchInv'
    <2>1. /\ cur[t] \in Conns /\ cur' = [cur EXCEPT ![t] = NoConn]
          /\ interest' = interest \cup {cur[t]}
          /\ UNCHANGED batch /\ NoConn \notin interest'
      BY InHand, ServerAssumption
      DEF AcceptAdd, Done, AddClient, IndInv, TypeOK, KernelType, Holding
    <2>2. t \in Threads
      BY DEF Threads
    <2> QED BY <2>1, <2>2 DEF IndInv, TypeOK, HandType, SoleOwner, WatchInv
  <1> QED BY <1>1, <1>2, <1>3, <1>4, <1>5, <1>6, <1>7, <1>8, <1>9 DEF IndInv,
       TypeOK

(* AcceptClient keeps a Client that epoll refused, and closes it. *)
LEMMA AcceptAddFailsStep ==
  ASSUME IndInv, NEW t \in Threads, AcceptAddFails(t)
  PROVE  IndInv'
  <1>1. KernelType' /\ BufferType' /\ ServerType' /\ QueueType' /\ LoopType'
       /\ SocketInv' /\ WatchInv'
    BY Frame DEF AcceptAddFails, net, poll, shared, IndInv, TypeOK
  <1>2. HandType'
    BY ServerAssumption
    DEF AcceptAddFails, Goto, net, poll, shared, IndInv, TypeOK, HandType,
        QueueType, LoopType, KernelType, Accepting, Holding, Elsewhere, Conns,
        Threads
  <1>3. MessageType'
    BY ServerAssumption
    DEF AcceptAddFails, Goto, net, poll, shared, IndInv, TypeOK, MessageType,
        HandType, QueueType, Conns, Threads
  <1>4. NoUseAfterFree'
    BY ServerAssumption
    DEF AcceptAddFails, Goto, net, poll, shared, IndInv, TypeOK,
        NoUseAfterFree, SoleOwner, FreshInv, WatchInv, HandType, KernelType,
        ServerType, QueueType, LoopType, Live, Places, Accepting, Holding,
        Elsewhere, Conns, Threads
  <1>5. SoleOwner'
    BY ServerAssumption
    DEF AcceptAddFails, Goto, net, poll, shared, IndInv, TypeOK, SoleOwner,
        NoUseAfterFree, FreshInv, WatchInv, HandType, KernelType, ServerType,
        QueueType, LoopType, Live, Places, Accepting, Holding, Elsewhere,
        Conns, Threads
  <1>6. FreshInv'
    BY ServerAssumption
    DEF AcceptAddFails, Goto, net, poll, shared, IndInv, TypeOK, FreshInv,
        NoUseAfterFree, SoleOwner, HandType, KernelType, ServerType, LoopType,
        Live, Accepting, Holding, Elsewhere, Conns, Threads
  <1> QED BY <1>1, <1>2, <1>3, <1>4, <1>5, <1>6 DEF IndInv, TypeOK

(* CloseClient takes the Client out of epoll. *)
LEMMA CloseDelStep ==
  ASSUME IndInv, NEW t \in Threads, CloseDel(t)
  PROVE  IndInv'
  <1>1. BufferType' /\ ServerType' /\ QueueType' /\ LoopType' /\ SocketInv'
    BY Frame DEF CloseDel, net, shared, IndInv, TypeOK
  <1>2. KernelType'
    BY ServerAssumption
    DEF CloseDel, Goto, net, shared, IndInv, TypeOK, KernelType, HandType,
        Conns, Threads
  <1>3. HandType'
    BY ServerAssumption
    DEF CloseDel, Goto, net, shared, IndInv, TypeOK, HandType, QueueType,
        LoopType, KernelType, Accepting, Holding, Elsewhere, Conns, Threads
  <1>4. MessageType'
    BY ServerAssumption
    DEF CloseDel, Goto, net, shared, IndInv, TypeOK, MessageType, HandType,
        QueueType, Conns, Threads
  <1>5. NoUseAfterFree'
    BY ServerAssumption
    DEF CloseDel, Goto, net, shared, IndInv, TypeOK, NoUseAfterFree,
        SoleOwner, FreshInv, WatchInv, HandType, KernelType, ServerType,
        QueueType, LoopType, Live, Places, Accepting, Holding, Elsewhere,
        Conns, Threads
  <1>6. SoleOwner'
    BY ServerAssumption
    DEF CloseDel, Goto, net, shared, IndInv, TypeOK, SoleOwner,
        NoUseAfterFree, FreshInv, WatchInv, HandType, KernelType, ServerType,
        QueueType, LoopType, Live, Places, Accepting, Holding, Elsewhere,
        Conns, Threads
  <1>7. FreshInv'
    BY ServerAssumption
    DEF CloseDel, Goto, net, shared, IndInv, TypeOK, FreshInv, NoUseAfterFree,
        SoleOwner, HandType, KernelType, ServerType, LoopType, Live,
        Accepting, Holding, Elsewhere, Conns, Threads
  <1>8. WatchInv'
    BY ServerAssumption
    DEF CloseDel, Goto, net, shared, IndInv, TypeOK, WatchInv, SoleOwner,
        NoUseAfterFree, FreshInv, HandType, KernelType, ServerType, LoopType,
        Live, Accepting, Holding, Elsewhere, Conns, Threads
  <1> QED BY <1>1, <1>2, <1>3, <1>4, <1>5, <1>6, <1>7, <1>8 DEF IndInv, TypeOK

(* CloseClient deletes a Client that only this thread can reach. *)
LEMMA CloseFreeStep ==
  ASSUME IndInv, NEW t \in Threads, CloseFree(t)
  PROVE  IndInv'
  <1>1. QueueType' /\ LoopType'
    BY Frame DEF CloseFree, IndInv, TypeOK
  <1>2. KernelType'
    BY ServerAssumption
    DEF CloseFree, Goto, CloseSocket, IndInv, TypeOK, KernelType, HandType,
        Conns, Threads
  <1>3. BufferType'
    <2>1. <<>> \in Seq(Chunks)
      BY EmptySeq
    <2> QED BY <2>1 DEF CloseFree, CloseSocket, shared, IndInv, TypeOK,
       BufferType
  <1>4. ServerType'
    BY ServerAssumption
    DEF CloseFree, Goto, CloseSocket, IndInv, TypeOK, ServerType, HandType,
        Conns, Threads
  <1>5. HandType'
    BY ServerAssumption
    DEF CloseFree, Goto, CloseSocket, IndInv, TypeOK, HandType, QueueType,
        LoopType, KernelType, Accepting, Holding, Elsewhere, Conns, Threads
  <1>6. MessageType'
    BY ServerAssumption
    DEF CloseFree, Goto, CloseSocket, IndInv, TypeOK, MessageType, HandType,
        QueueType, Conns, Threads
  <1>7. NoUseAfterFree'
    BY ServerAssumption
    DEF CloseFree, Goto, CloseSocket, IndInv, TypeOK, NoUseAfterFree,
        SoleOwner, FreshInv, WatchInv, HandType, KernelType, ServerType,
        QueueType, LoopType, Live, Places, Accepting, Holding, Elsewhere,
        Conns, Threads
  <1>8. SoleOwner'
    BY ServerAssumption
    DEF CloseFree, Goto, CloseSocket, IndInv, TypeOK, SoleOwner,
        NoUseAfterFree, FreshInv, WatchInv, HandType, KernelType, ServerType,
        QueueType, LoopType, Live, Places, Accepting, Holding, Elsewhere,
        Conns, Threads
  <1>9. SocketInv'
    BY ServerAssumption
    DEF CloseFree, Goto, CloseSocket, IndInv, TypeOK, SocketInv,
        NoUseAfterFree, SoleOwner, FreshInv, HandType, KernelType, ServerType,
        LoopType, Live, Accepting, Holding, Elsewhere, Conns, Threads
  <1>10. FreshInv'
    BY ServerAssumption
    DEF CloseFree, Goto, CloseSocket, IndInv, TypeOK, FreshInv,
        NoUseAfterFree, SoleOwner, HandType, KernelType, ServerType, LoopType,
        Live, Accepting, Holding, Elsewhere, Conns, Threads
  <1>11. WatchInv'
    BY ServerAssumption
    DEF CloseFree, Goto, CloseSocket, IndInv, TypeOK, WatchInv, SoleOwner,
        NoUseAfterFree, FreshInv, HandType, KernelType, ServerType, LoopType,
        Live, Accepting, Holding, Elsewhere, Conns, Threads
  <1> QED BY <1>1, <1>2, <1>3, <1>4, <1>5, <1>6, <1>7, <1>8, <1>9, <1>10,
       <1>11 DEF IndInv, TypeOK

(* m_iConnCount-- of CloseClient, the load. *)
LEMMA CloseLoadStep ==
  ASSUME IndInv, NEW t \in Threads, CloseLoad(t)
  PROVE  IndInv'
  <1>1. KernelType' /\ BufferType' /\ QueueType' /\ LoopType' /\ SocketInv' /\
       WatchInv'
    BY Frame DEF CloseLoad, net, poll, shared, IndInv, TypeOK
  <1>2. ServerType'
    BY ServerAssumption
    DEF CloseLoad, Goto, net, poll, shared, IndInv, TypeOK, ServerType,
        HandType, Conns, Threads
  <1>3. HandType'
    BY ServerAssumption
    DEF CloseLoad, Goto, net, poll, shared, IndInv, TypeOK, HandType,
        QueueType, LoopType, KernelType, Accepting, Holding, Elsewhere, Conns,
        Threads
  <1>4. MessageType'
    BY ServerAssumption
    DEF CloseLoad, Goto, net, poll, shared, IndInv, TypeOK, MessageType,
        HandType, QueueType, Conns, Threads
  <1>5. NoUseAfterFree'
    BY ServerAssumption
    DEF CloseLoad, Goto, net, poll, shared, IndInv, TypeOK, NoUseAfterFree,
        SoleOwner, FreshInv, WatchInv, HandType, KernelType, ServerType,
        QueueType, LoopType, Live, Places, Accepting, Holding, Elsewhere,
        Conns, Threads
  <1>6. SoleOwner'
    BY ServerAssumption
    DEF CloseLoad, Goto, net, poll, shared, IndInv, TypeOK, SoleOwner,
        NoUseAfterFree, FreshInv, WatchInv, HandType, KernelType, ServerType,
        QueueType, LoopType, Live, Places, Accepting, Holding, Elsewhere,
        Conns, Threads
  <1>7. FreshInv'
    BY ServerAssumption
    DEF CloseLoad, Goto, net, poll, shared, IndInv, TypeOK, FreshInv,
        NoUseAfterFree, SoleOwner, HandType, KernelType, ServerType, LoopType,
        Live, Accepting, Holding, Elsewhere, Conns, Threads
  <1> QED BY <1>1, <1>2, <1>3, <1>4, <1>5, <1>6, <1>7 DEF IndInv, TypeOK

(* m_iConnCount-- of CloseClient, the store. *)
LEMMA CloseStoreStep ==
  ASSUME IndInv, NEW t \in Threads, CloseStore(t)
  PROVE  IndInv'
  <1>1. KernelType' /\ BufferType' /\ QueueType' /\ LoopType'
    BY Frame DEF CloseStore, net, poll, IndInv, TypeOK
  <1>2. ServerType'
    BY ServerAssumption
    DEF CloseStore, Done, net, poll, Goto, IndInv, TypeOK, ServerType,
        HandType, Conns, Threads
  <1>3. HandType'
    BY ServerAssumption
    DEF CloseStore, Done, net, poll, Goto, IndInv, TypeOK, HandType,
        QueueType, LoopType, KernelType, Accepting, Holding, Elsewhere, Conns,
        Threads
  <1>4. MessageType'
    BY ServerAssumption
    DEF CloseStore, Done, net, poll, Goto, IndInv, TypeOK, MessageType,
        HandType, QueueType, Conns, Threads
  <1>5. NoUseAfterFree'
    BY ServerAssumption
    DEF CloseStore, Done, net, poll, Goto, IndInv, TypeOK, NoUseAfterFree,
        SoleOwner, FreshInv, WatchInv, HandType, KernelType, ServerType,
        QueueType, LoopType, Live, Places, Accepting, Holding, Elsewhere,
        Conns, Threads
  <1>6. SoleOwner'
    BY ServerAssumption
    DEF CloseStore, Done, net, poll, Goto, IndInv, TypeOK, SoleOwner,
        NoUseAfterFree, FreshInv, WatchInv, HandType, KernelType, ServerType,
        QueueType, LoopType, Live, Places, Accepting, Holding, Elsewhere,
        Conns, Threads
  <1>7. SocketInv'
    BY ServerAssumption
    DEF CloseStore, Done, net, poll, Goto, IndInv, TypeOK, SocketInv,
        NoUseAfterFree, SoleOwner, FreshInv, HandType, KernelType, ServerType,
        LoopType, Live, Accepting, Holding, Elsewhere, Conns, Threads
  <1>8. FreshInv'
    BY ServerAssumption
    DEF CloseStore, Done, net, poll, Goto, IndInv, TypeOK, FreshInv,
        NoUseAfterFree, SoleOwner, HandType, KernelType, ServerType, LoopType,
        Live, Accepting, Holding, Elsewhere, Conns, Threads
  <1>9. WatchInv'
    BY ServerAssumption
    DEF CloseStore, Done, net, poll, Goto, IndInv, TypeOK, WatchInv,
        SoleOwner, NoUseAfterFree, FreshInv, HandType, KernelType, ServerType,
        LoopType, Live, Accepting, Holding, Elsewhere, Conns, Threads
  <1> QED BY <1>1, <1>2, <1>3, <1>4, <1>5, <1>6, <1>7, <1>8, <1>9 DEF IndInv,
       TypeOK

(* Main takes the next manager socket. *)
LEMMA RegisterManagerStep ==
  ASSUME IndInv, RegisterManager
  PROVE  IndInv'
  <1>1. KernelType' /\ BufferType' /\ ServerType' /\ QueueType'
    BY Frame DEF RegisterManager, net, poll, shared, IndInv, TypeOK
  <1>2. HandType'
    BY ServerAssumption
    DEF RegisterManager, Goto, net, poll, shared, IndInv, TypeOK, HandType,
        QueueType, LoopType, KernelType, Accepting, Holding, Elsewhere, Conns,
        Threads
  <1>3. MessageType'
    BY ServerAssumption
    DEF RegisterManager, Goto, net, poll, shared, IndInv, TypeOK, MessageType,
        HandType, QueueType, Conns, Threads
  <1>4. LoopType'
    BY ServerAssumption
    DEF RegisterManager, Goto, net, poll, shared, IndInv, TypeOK, LoopType,
        KernelType, HandType, ServerType, SocketInv, NoUseAfterFree, Live,
        MessageType, Conns, Threads
  <1>5. NoUseAfterFree'
    BY ServerAssumption
    DEF RegisterManager, Goto, net, poll, shared, IndInv, TypeOK,
        NoUseAfterFree, SoleOwner, FreshInv, WatchInv, HandType, KernelType,
        ServerType, QueueType, LoopType, Live, Places, Accepting, Holding,
        Elsewhere, Conns, Threads
  <1>6. SoleOwner'
    BY ServerAssumption
    DEF RegisterManager, Goto, net, poll, shared, IndInv, TypeOK, SoleOwner,
        NoUseAfterFree, FreshInv, WatchInv, HandType, KernelType, ServerType,
        QueueType, LoopType, Live, Places, Accepting, Holding, Elsewhere,
        Conns, Threads
  <1>7. SocketInv'
    BY ServerAssumption
    DEF RegisterManager, Goto, net, poll, shared, IndInv, TypeOK, SocketInv,
        NoUseAfterFree, SoleOwner, FreshInv, HandType, KernelType, ServerType,
        LoopType, Live, Accepting, Holding, Elsewhere, Conns, Threads
  <1>8. FreshInv'
    BY ServerAssumption
    DEF RegisterManager, Goto, net, poll, shared, IndInv, TypeOK, FreshInv,
        NoUseAfterFree, SoleOwner, HandType, KernelType, ServerType, LoopType,
        Live, Accepting, Holding, Elsewhere, Conns, Threads
  <1>9. WatchInv'
    BY ServerAssumption
    DEF RegisterManager, Goto, net, poll, shared, IndInv, TypeOK, WatchInv,
        SoleOwner, NoUseAfterFree, FreshInv, HandType, KernelType, ServerType,
        LoopType, Live, Accepting, Holding, Elsewhere, Conns, Threads
  <1> QED BY <1>1, <1>2, <1>3, <1>4, <1>5, <1>6, <1>7, <1>8, <1>9 DEF IndInv,
       TypeOK

(* epoll_wait returns clients that nobody holds. *)
LEMMA PollingStep ==
  ASSUME IndInv, Polling
  PROVE  IndInv'
  <1>1. BufferType' /\ ServerType' /\ QueueType' /\ HandType' /\ MessageType'
       /\ SocketInv' /\ FreshInv'
    BY Frame DEF Polling, net, shared, IndInv, TypeOK
  <1>2. KernelType'
    BY ServerAssumption
    DEF Polling, net, shared, IndInv, TypeOK, KernelType, HandType, Conns,
        Threads
  <1>3. LoopType'
    <2>1. \A c \in ready : [conn |-> c, err |-> peer[c] = "reset"] \in [conn : Conns, err : BOOLEAN]
      BY DEF IndInv, TypeOK, KernelType
    <2> QED BY <2>1 DEF Polling, IndInv, TypeOK, LoopType
  <1>4. NoUseAfterFree'
    BY ServerAssumption
    DEF Polling, net, shared, IndInv, TypeOK, NoUseAfterFree, SoleOwner,
        FreshInv, WatchInv, HandType, KernelType, ServerType, QueueType,
        LoopType, Live, Places, Accepting, Holding, Elsewhere, Conns, Threads
  <1>5. SoleOwner'
    BY ServerAssumption
    DEF Polling, net, shared, IndInv, TypeOK, SoleOwner, NoUseAfterFree,
        FreshInv, WatchInv, HandType, KernelType, ServerType, QueueType,
        LoopType, Live, Places, Accepting, Holding, Elsewhere, Conns, Threads
  <1>6. WatchInv'
    BY ServerAssumption
    DEF Polling, net, shared, IndInv, TypeOK, WatchInv, SoleOwner,
        NoUseAfterFree, FreshInv, HandType, KernelType, ServerType, LoopType,
        Live, Accepting, Holding, Elsewhere, Conns, Threads
  <1> QED BY <1>1, <1>2, <1>3, <1>4, <1>5, <1>6 DEF IndInv, TypeOK

(* Main takes a client with an error, still registered, to close it. *)
LEMMA ErrorEventStep ==
  ASSUME IndInv, NEW e \in batch, ErrorEvent(e)
  PROVE  IndInv'
  <1>1. KernelType' /\ BufferType' /\ ServerType' /\ QueueType'
    BY Frame DEF ErrorEvent, net, poll, shared, IndInv, TypeOK
  <1>2. HandType'
    BY ServerAssumption
    DEF ErrorEvent, Goto, net, poll, shared, IndInv, TypeOK, HandType,
        QueueType, LoopType, KernelType, Accepting, Holding, Elsewhere, Conns,
        Threads
  <1>3. MessageType'
    BY ServerAssumption
    DEF ErrorEvent, Goto, net, poll, shared, IndInv, TypeOK, MessageType,
        HandType, QueueType, Conns, Threads
  <1>4. LoopType'
    BY ServerAssumption
    DEF ErrorEvent, Goto, net, poll, shared, IndInv, TypeOK, LoopType,
        KernelType, HandType, ServerType, SocketInv, NoUseAfterFree, Live,
        MessageType, Conns, Threads
  <1>5. NoUseAfterFree'
    BY ServerAssumption
    DEF ErrorEvent, Goto, net, poll, shared, IndInv, TypeOK, NoUseAfterFree,
        SoleOwner, FreshInv, WatchInv, HandType, KernelType, ServerType,
        QueueType, LoopType, Live, Places, Accepting, Holding, Elsewhere,
        Conns, Threads
  <1>6. SoleOwner'
    BY ServerAssumption
    DEF ErrorEvent, Goto, net, poll, shared, IndInv, TypeOK, SoleOwner,
        NoUseAfterFree, FreshInv, WatchInv, HandType, KernelType, ServerType,
        QueueType, LoopType, Live, Places, Accepting, Holding, Elsewhere,
        Conns, Threads
  <1>7. SocketInv'
    BY ServerAssumption
    DEF ErrorEvent, Goto, net, poll, shared, IndInv, TypeOK, SocketInv,
        NoUseAfterFree, SoleOwner, FreshInv, HandType, KernelType, ServerType,
        LoopType, Live, Accepting, Holding, Elsewhere, Conns, Threads
  <1>8. FreshInv'
    BY ServerAssumption
    DEF ErrorEvent, Goto, net, poll, shared, IndInv, TypeOK, FreshInv,
        NoUseAfterFree, SoleOwner, HandType, KernelType, ServerType, LoopType,
        Live, Accepting, Holding, Elsewhere, Conns, Threads
  <1>9. WatchInv'
    BY ServerAssumption
    DEF ErrorEvent, Goto, net, poll, shared, IndInv, TypeOK, WatchInv,
        SoleOwner, NoUseAfterFree, FreshInv, HandType, KernelType, ServerType,
        LoopType, Live, Accepting, Holding, Elsewhere, Conns, Threads
  <1> QED BY <1>1, <1>2, <1>3, <1>4, <1>5, <1>6, <1>7, <1>8, <1>9 DEF IndInv,
       TypeOK

(* Main takes a readable client out of epoll. *)
LEMMA ReadEventStep ==
  ASSUME IndInv, NEW e \in batch, ReadEvent(e)
  PROVE  IndInv'
  <1>1. BufferType' /\ ServerType' /\ QueueType'
    BY Frame DEF ReadEvent, net, shared, IndInv, TypeOK
  <1>2. KernelType'
    BY ServerAssumption
    DEF ReadEvent, Goto, net, shared, IndInv, TypeOK, KernelType, HandType,
        Conns, Threads
  <1>3. HandType'
    BY ServerAssumption
    DEF ReadEvent, Goto, net, shared, IndInv, TypeOK, HandType, QueueType,
        LoopType, KernelType, Accepting, Holding, Elsewhere, Conns, Threads
  <1>4. MessageType'
    BY ServerAssumption
    DEF ReadEvent, Goto, net, shared, IndInv, TypeOK, MessageType, HandType,
        QueueType, Conns, Threads
  <1>5. LoopType'
    BY ServerAssumption
    DEF ReadEvent, Goto, net, shared, IndInv, TypeOK, LoopType, KernelType,
        HandType, ServerType, SocketInv, NoUseAfterFree, Live, MessageType,
        Conns, Threads
  <1>6. NoUseAfterFree'
    BY ServerAssumption
    DEF ReadEvent, Goto, net, shared, IndInv, TypeOK, NoUseAfterFree,
        SoleOwner, FreshInv, WatchInv, HandType, KernelType, ServerType,
        QueueType, LoopType, Live, Places, Accepting, Holding, Elsewhere,
        Conns, Threads
  <1>7. SoleOwner'
    BY ServerAssumption
    DEF ReadEvent, Goto, net, shared, IndInv, TypeOK, SoleOwner,
        NoUseAfterFree, FreshInv, WatchInv, HandType, KernelType, ServerType,
        QueueType, LoopType, Live, Places, Accepting, Holding, Elsewhere,
        Conns, Threads
  <1>8. SocketInv'
    BY ServerAssumption
    DEF ReadEvent, Goto, net, shared, IndInv, TypeOK, SocketInv,
        NoUseAfterFree, SoleOwner, FreshInv, HandType, KernelType, ServerType,
        LoopType, Live, Accepting, Holding, Elsewhere, Conns, Threads
  <1>9. FreshInv'
    BY ServerAssumption
    DEF ReadEvent, Goto, net, shared, IndInv, TypeOK, FreshInv,
        NoUseAfterFree, SoleOwner, HandType, KernelType, ServerType, LoopType,
        Live, Accepting, Holding, Elsewhere, Conns, Threads
  <1>10. WatchInv'
    BY ServerAssumption
    DEF ReadEvent, Goto, net, shared, IndInv, TypeOK, WatchInv, SoleOwner,
        NoUseAfterFree, FreshInv, HandType, KernelType, ServerType, LoopType,
        Live, Accepting, Holding, Elsewhere, Conns, Threads
  <1> QED BY <1>1, <1>2, <1>3, <1>4, <1>5, <1>6, <1>7, <1>8, <1>9, <1>10 DEF
       IndInv, TypeOK

(* Main hands the client to m_pReceiveQueue. *)
LEMMA PutReceiveQueueStep ==
  ASSUME IndInv, PutReceiveQueue
  PROVE  IndInv'
  <1>1. KernelType' /\ BufferType' /\ ServerType' /\ LoopType'
    BY Frame DEF PutReceiveQueue, net, poll, IndInv, TypeOK
  <1>2. QueueType'
    <2>1. cur[Main] \in Conns
      BY InHand DEF PutReceiveQueue, IndInv, TypeOK, Threads, Holding
    <2>2. /\ Append(m_pReceiveQueue, cur[Main]) \in Seq(Conns)
          /\ Len(Append(m_pReceiveQueue, cur[Main])) = Len(m_pReceiveQueue) + 1
      BY <2>1, AppendProperties DEF IndInv, TypeOK, QueueType
    <2>3. Len(m_pReceiveQueue) \in Nat /\ QSIZE \in Nat
      BY LenProperties, ServerAssumption DEF IndInv, TypeOK, QueueType
    <2> QED BY <2>2, <2>3 DEF PutReceiveQueue, IndInv, TypeOK, QueueType
  <1>3. HandType'
    BY ServerAssumption
    DEF PutReceiveQueue, Done, net, poll, Goto, IndInv, TypeOK, HandType,
        QueueType, LoopType, KernelType, Accepting, Holding, Elsewhere, Conns,
        Threads
  <1>4. MessageType'
    BY ServerAssumption
    DEF PutReceiveQueue, Done, net, poll, Goto, IndInv, TypeOK, MessageType,
        HandType, QueueType, Conns, Threads
  <1>5. NoUseAfterFree'
    <2>1. cur[Main] \in Live
      BY InHand
      DEF PutReceiveQueue, IndInv, TypeOK, NoUseAfterFree, Live, Holding,
          Threads
    <2>2. \A s \in Threads : pc'[s] \in Holding => client'[cur'[s]] = "live"
      BY
      DEF PutReceiveQueue, Done, Goto, IndInv, TypeOK, HandType,
          NoUseAfterFree, Holding, Threads
    <2>3. Places(m_pReceiveQueue') = Places(m_pReceiveQueue) \cup {cur[Main]}
      BY <2>1, PlacesAppend
      DEF PutReceiveQueue, IndInv, TypeOK, QueueType, Live
    <2> QED BY <2>1, <2>2, <2>3 DEF PutReceiveQueue, poll, IndInv,
       NoUseAfterFree, Live, Places
  <1>6. SoleOwner'
    BY ServerAssumption
    DEF PutReceiveQueue, Done, net, poll, Goto, IndInv, TypeOK, SoleOwner,
        NoUseAfterFree, FreshInv, WatchInv, HandType, KernelType, ServerType,
        QueueType, LoopType, Live, Places, Accepting, Holding, Elsewhere,
        Conns, Threads
  <1>7. SocketInv'
    BY ServerAssumption
    DEF PutReceiveQueue, Done, net, poll, Goto, IndInv, TypeOK, SocketInv,
        NoUseAfterFree, SoleOwner, FreshInv, HandType, KernelType, ServerType,
        LoopType, Live, Accepting, Holding, Elsewhere, Conns, Threads
  <1>8. FreshInv'
    BY ServerAssumption
    DEF PutReceiveQueue, Done, net, poll, Goto, IndInv, TypeOK, FreshInv,
        NoUseAfterFree, SoleOwner, HandType, KernelType, ServerType, LoopType,
        Live, Accepting, Holding, Elsewhere, Conns, Threads
  <1>9. WatchInv'
    BY ServerAssumption
    DEF PutReceiveQueue, Done, net, poll, Goto, IndInv, TypeOK, WatchInv,
        SoleOwner, NoUseAfterFree, FreshInv, HandType, KernelType, ServerType,
        LoopType, Live, Accepting, Holding, Elsewhere, Conns, Threads
  <1> QED BY <1>1, <1>2, <1>3, <1>4, <1>5, <1>6, <1>7, <1>8, <1>9 DEF IndInv,
       TypeOK

(* A receiver takes the client at the head of m_pReceiveQueue. *)
LEMMA GetReceiveQueueStep ==
  ASSUME IndInv, NEW r \in Receivers, GetReceiveQueue(r)
  PROVE  IndInv'
  <1>1. KernelType' /\ BufferType' /\ ServerType' /\ LoopType'
    BY Frame DEF GetReceiveQueue, net, poll, IndInv, TypeOK
  <1>2. QueueType'
    BY ServerAssumption
    DEF GetReceiveQueue, Goto, net, poll, IndInv, TypeOK, QueueType, HandType,
        Conns, Threads
  <1>3. HandType'
    BY ServerAssumption
    DEF GetReceiveQueue, Goto, net, poll, IndInv, TypeOK, HandType, QueueType,
        LoopType, KernelType, Accepting, Holding, Elsewhere, Conns, Threads
  <1>4. MessageType'
    BY ServerAssumption
    DEF GetReceiveQueue, Goto, net, poll, IndInv, TypeOK, MessageType,
        HandType, QueueType, Conns, Threads
  <1>5. NoUseAfterFree'
    BY ServerAssumption
    DEF GetReceiveQueue, Goto, net, poll, IndInv, TypeOK, NoUseAfterFree,
        SoleOwner, FreshInv, WatchInv, HandType, KernelType, ServerType,
        QueueType, LoopType, Live, Places, Accepting, Holding, Elsewhere,
        Conns, Threads
  <1>6. SoleOwner'
    BY ServerAssumption
    DEF GetReceiveQueue, Goto, net, poll, IndInv, TypeOK, SoleOwner,
        NoUseAfterFree, FreshInv, WatchInv, HandType, KernelType, ServerType,
        QueueType, LoopType, Live, Places, Accepting, Holding, Elsewhere,
        Conns, Threads
  <1>7. SocketInv'
    <2>1. Head(m_pReceiveQueue) \in Live \cap Places(m_pReceiveQueue)
      BY PlacesTake
      DEF GetReceiveQueue, IndInv, TypeOK, QueueType, NoUseAfterFree
    <2>2. cur' = [cur EXCEPT ![r] = Head(m_pReceiveQueue)] /\ r \in Threads
      BY DEF GetReceiveQueue, Threads
    <2> QED BY <2>1, <2>2 DEF GetReceiveQueue, Goto, net, poll, IndInv,
       TypeOK, HandType, SocketInv, ServerType, Live, Accepting
  <1>8. FreshInv'
    <2>1. Head(m_pReceiveQueue) \in Live \cap Places(m_pReceiveQueue)
      BY PlacesTake
      DEF GetReceiveQueue, IndInv, TypeOK, QueueType, NoUseAfterFree
    <2>2. cur' = [cur EXCEPT ![r] = Head(m_pReceiveQueue)] /\ r \in Threads
      BY DEF GetReceiveQueue, Threads
    <2> QED BY <2>1, <2>2 DEF GetReceiveQueue, Goto, net, poll, IndInv,
       TypeOK, HandType, FreshInv, Live, Accepting
  <1>9. WatchInv'
    <2>1. Head(m_pReceiveQueue) \in Live \cap Places(m_pReceiveQueue)
      BY PlacesTake
      DEF GetReceiveQueue, IndInv, TypeOK, QueueType, NoUseAfterFree
    <2>2. cur' = [cur EXCEPT ![r] = Head(m_pReceiveQueue)] /\ r \in Threads
      BY DEF GetReceiveQueue, Threads
    <2> QED BY <2>1, <2>2 DEF GetReceiveQueue, Goto, net, poll, IndInv,
       TypeOK, HandType, WatchInv, SoleOwner, Live, Accepting
  <1> QED BY <1>1, <1>2, <1>3, <1>4, <1>5, <1>6, <1>7, <1>8, <1>9 DEF IndInv,
       TypeOK

(* The receiver keeps the client, to read or to close it. *)
LEMMA AvailableStep ==
  ASSUME IndInv, NEW r \in Receivers, Available(r)
  PROVE  IndInv'
  <1>1. KernelType' /\ BufferType' /\ ServerType' /\ QueueType' /\ LoopType'
       /\ SocketInv' /\ WatchInv'
    BY Frame DEF Available, net, poll, shared, IndInv, TypeOK
  <1>2. HandType'
    BY ServerAssumption
    DEF Available, Goto, net, poll, shared, IndInv, TypeOK, HandType,
        QueueType, LoopType, KernelType, Accepting, Holding, Elsewhere, Conns,
        Threads
  <1>3. MessageType'
    BY ServerAssumption
    DEF Available, Goto, net, poll, shared, IndInv, TypeOK, MessageType,
        HandType, QueueType, Conns, Threads
  <1>4. NoUseAfterFree'
    BY ServerAssumption
    DEF Available, Goto, net, poll, shared, IndInv, TypeOK, NoUseAfterFree,
        SoleOwner, FreshInv, WatchInv, HandType, KernelType, ServerType,
        QueueType, LoopType, Live, Places, Accepting, Holding, Elsewhere,
        Conns, Threads
  <1>5. SoleOwner'
    BY ServerAssumption
    DEF Available, Goto, net, poll, shared, IndInv, TypeOK, SoleOwner,
        NoUseAfterFree, FreshInv, WatchInv, HandType, KernelType, ServerType,
        QueueType, LoopType, Live, Places, Accepting, Holding, Elsewhere,
        Conns, Threads
  <1>6. FreshInv'
    BY ServerAssumption
    DEF Available, Goto, net, poll, shared, IndInv, TypeOK, FreshInv,
        NoUseAfterFree, SoleOwner, HandType, KernelType, ServerType, LoopType,
        Live, Accepting, Holding, Elsewhere, Conns, Threads
  <1> QED BY <1>1, <1>2, <1>3, <1>4, <1>5, <1>6 DEF IndInv, TypeOK

(* The receiver keeps the client, to execute, register or close it. *)
LEMMA ReadAllStep ==
  ASSUME IndInv, NEW r \in Receivers, ReadAll(r)
  PROVE  IndInv'
  <1>1. KernelType' /\ ServerType' /\ QueueType' /\ LoopType' /\ SocketInv' /\
       WatchInv'
    BY Frame DEF ReadAll, poll, shared, IndInv, TypeOK
  <1>2. BufferType'
    <2>1. <<>> \in Seq(Chunks)
      BY EmptySeq
    <2>2. cur[r] \in Conns
      BY InHand DEF ReadAll, IndInv, TypeOK, Holding, Threads
    <2>3. m_cCBuff[cur[r]] \o inbox[cur[r]] \in Seq(Chunks)
      BY <2>2, ConcatProperties DEF IndInv, TypeOK, BufferType
    <2> QED BY <2>1, <2>2, <2>3 DEF ReadAll, IndInv, TypeOK, BufferType
  <1>3. HandType'
    <2>1. PICK label \in {"rearm", "close", "exec"} : pc' = [pc EXCEPT ![r] = label]
      BY DEF ReadAll, Goto
    <2>2. pc[r] = "read" /\ r \in Threads /\ UNCHANGED <<cur>>
      BY DEF ReadAll, poll, shared, Threads
    <2> QED BY <2>1, <2>2 DEF IndInv, TypeOK, HandType, Accepting, Holding,
       Elsewhere
  <1>4. MessageType'
    BY ServerAssumption
    DEF ReadAll, Goto, poll, shared, IndInv, TypeOK, MessageType, HandType,
        QueueType, Conns, Threads
  <1>5. NoUseAfterFree'
    <2>1. PICK label \in {"rearm", "close", "exec"} : pc' = [pc EXCEPT ![r] = label]
      BY DEF ReadAll, Goto
    <2>2. pc[r] = "read" /\ r \in Threads /\ UNCHANGED <<cur, client, batch, interest, m_pReceiveQueue, m_lstClient>>
      BY DEF ReadAll, poll, shared, Threads
    <2> QED BY <2>1, <2>2 DEF IndInv, TypeOK, HandType, NoUseAfterFree,
       Holding, Places, Live
  <1>6. SoleOwner'
    <2>1. PICK label \in {"rearm", "close", "exec"} : pc' = [pc EXCEPT ![r] = label]
      BY DEF ReadAll, Goto
    <2>2. pc[r] = "read" /\ r \in Threads /\ UNCHANGED <<cur, m_pReceiveQueue, interest, batch>>
      BY DEF ReadAll, poll, shared, Threads
    <2> QED BY <2>1, <2>2 DEF IndInv, TypeOK, HandType, SoleOwner, Places
  <1>7. FreshInv'
    <2>1. PICK label \in {"rearm", "close", "exec"} : pc' = [pc EXCEPT ![r] = label]
      BY DEF ReadAll, Goto
    <2>2. pc[r] = "read" /\ r \in Threads /\ UNCHANGED <<cur, client, unregistered, backlog, peer>>
      BY DEF ReadAll, poll, shared, Threads
    <2> QED BY <2>1, <2>2 DEF IndInv, TypeOK, HandType, FreshInv, Accepting
  <1> QED BY <1>1, <1>2, <1>3, <1>4, <1>5, <1>6, <1>7 DEF IndInv, TypeOK

(* The receiver keeps the client, to close it. *)
LEMMA ReadFailsStep ==
  ASSUME IndInv, NEW r \in Receivers, ReadFails(r)
  PROVE  IndInv'
  <1>1. KernelType' /\ ServerType' /\ QueueType' /\ LoopType' /\ SocketInv' /\
       WatchInv'
    BY Frame DEF ReadFails, poll, shared, IndInv, TypeOK
  <1>2. BufferType'
    <2>1. <<>> \in Seq(Chunks)
      BY EmptySeq
    <2> QED BY <2>1 DEF ReadFails, IndInv, TypeOK, BufferType
  <1>3. HandType'
    BY ServerAssumption
    DEF ReadFails, Goto, poll, shared, IndInv, TypeOK, HandType, QueueType,
        LoopType, KernelType, Accepting, Holding, Elsewhere, Conns, Threads
  <1>4. MessageType'
    BY ServerAssumption
    DEF ReadFails, Goto, poll, shared, IndInv, TypeOK, MessageType, HandType,
        QueueType, Conns, Threads
  <1>5. NoUseAfterFree'
    BY ServerAssumption
    DEF ReadFails, Goto, poll, shared, IndInv, TypeOK, NoUseAfterFree,
        SoleOwner, FreshInv, WatchInv, HandType, KernelType, ServerType,
        QueueType, LoopType, Live, Places, Accepting, Holding, Elsewhere,
        Conns, Threads
  <1>6. SoleOwner'
    BY ServerAssumption
    DEF ReadFails, Goto, poll, shared, IndInv, TypeOK, SoleOwner,
        NoUseAfterFree, FreshInv, WatchInv, HandType, KernelType, ServerType,
        QueueType, LoopType, Live, Places, Accepting, Holding, Elsewhere,
        Conns, Threads
  <1>7. FreshInv'
    BY ServerAssumption
    DEF ReadFails, Goto, poll, shared, IndInv, TypeOK, FreshInv,
        NoUseAfterFree, SoleOwner, HandType, KernelType, ServerType, LoopType,
        Live, Accepting, Holding, Elsewhere, Conns, Threads
  <1> QED BY <1>1, <1>2, <1>3, <1>4, <1>5, <1>6, <1>7 DEF IndInv, TypeOK

(* The message carries the descriptor of an open socket. *)
LEMMA ExecuteUserStep ==
  ASSUME IndInv, NEW r \in Receivers, ExecuteUser(r)
  PROVE  IndInv'
  <1>1. KernelType' /\ ServerType' /\ QueueType' /\ LoopType' /\ SocketInv' /\
       WatchInv'
    BY Frame DEF ExecuteUser, net, poll, shared, IndInv, TypeOK
  <1>2. BufferType'
    BY ServerAssumption
    DEF ExecuteUser, Goto, net, poll, shared, IndInv, TypeOK, BufferType,
        HandType, Conns, Threads
  <1>3. HandType'
    BY ServerAssumption
    DEF ExecuteUser, Goto, net, poll, shared, IndInv, TypeOK, HandType,
        QueueType, LoopType, KernelType, Accepting, Holding, Elsewhere, Conns,
        Threads
  <1>4. MessageType'
    <2>1. r \in Threads /\ cur[r] \in Conns /\ fd[cur[r]] \in FDs
      BY InHand, ServerAssumption
      DEF ExecuteUser, IndInv, TypeOK, HandType, KernelType, SocketInv,
          Threads, Holding
    <2>2. [from |-> cur[r], data |-> m_cCBuff[cur[r]], fd |-> fd[cur[r]], relayed |-> FALSE] \in Messages
      BY <2>1 DEF IndInv, TypeOK, BufferType, Messages
    <2> QED BY <2>1, <2>2 DEF ExecuteUser, Goto, IndInv, TypeOK, HandType,
       MessageType
  <1>5. NoUseAfterFree'
    BY ServerAssumption
    DEF ExecuteUser, Goto, net, poll, shared, IndInv, TypeOK, NoUseAfterFree,
        SoleOwner, FreshInv, WatchInv, HandType, KernelType, ServerType,
        QueueType, LoopType, Live, Places, Accepting, Holding, Elsewhere,
        Conns, Threads
  <1>6. SoleOwner'
    BY ServerAssumption
    DEF ExecuteUser, Goto, net, poll, shared, IndInv, TypeOK, SoleOwner,
        NoUseAfterFree, FreshInv, WatchInv, HandType, KernelType, ServerType,
        QueueType, LoopType, Live, Places, Accepting, Holding, Elsewhere,
        Conns, Threads
  <1>7. FreshInv'
    BY ServerAssumption
    DEF ExecuteUser, Goto, net, poll, shared, IndInv, TypeOK, FreshInv,
        NoUseAfterFree, SoleOwner, HandType, KernelType, ServerType, LoopType,
        Live, Accepting, Holding, Elsewhere, Conns, Threads
  <1> QED BY <1>1, <1>2, <1>3, <1>4, <1>5, <1>6, <1>7 DEF IndInv, TypeOK

(* A packet is made of chunks, and its descriptor is open. *)
LEMMA ExecuteManagerStep ==
  ASSUME IndInv, NEW r \in Receivers, ExecuteManager(r)
  PROVE  IndInv'
  <1>1. KernelType' /\ ServerType' /\ QueueType' /\ LoopType' /\ SocketInv' /\
       WatchInv'
    BY Frame DEF ExecuteManager, net, poll, shared, IndInv, TypeOK
  <1>2. BufferType'
    BY ServerAssumption
    DEF ExecuteManager, Goto, net, poll, shared, IndInv, TypeOK, BufferType,
        HandType, Conns, Threads
  <1>3. HandType'
    BY ServerAssumption
    DEF ExecuteManager, Goto, net, poll, shared, IndInv, TypeOK, HandType,
        QueueType, LoopType, KernelType, Accepting, Holding, Elsewhere, Conns,
        Threads
  <1>4. MessageType'
    <2> DEFINE packet == SubSeq(m_cCBuff[cur[r]], 1, PacketLen)
    <2>1. r \in Threads /\ cur[r] \in Conns /\ fd[cur[r]] \in FDs
      BY InHand, ServerAssumption
      DEF ExecuteManager, IndInv, TypeOK, HandType, KernelType, SocketInv,
          Threads, Holding
    <2>2. packet \in Seq(Chunks)
      <3>1. m_cCBuff[cur[r]] \in Seq(Chunks) /\ PacketLen \in Nat /\ Len(m_cCBuff[cur[r]]) >= PacketLen
        BY <2>1, ServerAssumption
        DEF ExecuteManager, IndInv, TypeOK, BufferType
      <3>2. \A i \in 1 .. PacketLen : m_cCBuff[cur[r]][i] \in Chunks
        BY <3>1, LenProperties, ElementOfSeq
      <3> QED BY <3>1, <3>2, SubSeqProperties
    <2>3. [from |-> cur[r], data |-> packet, fd |-> fd[cur[r]], relayed |-> TRUE] \in Messages
      BY <2>1, <2>2 DEF Messages
    <2>4. CASE UNCHANGED <<msg, pc>>
      BY <2>4 DEF IndInv, TypeOK, MessageType
    <2>5. CASE /\ msg' = [msg EXCEPT ![r] = [from |-> cur[r], data |-> packet, fd |-> fd[cur[r]], relayed |-> TRUE]]
               /\ pc' = [pc EXCEPT ![r] = "broadcast"]
      BY <2>1, <2>3, <2>5 DEF IndInv, TypeOK, HandType, MessageType
    <2> QED BY <2>4, <2>5 DEF ExecuteManager, Goto
  <1>5. NoUseAfterFree'
    BY ServerAssumption
    DEF ExecuteManager, Goto, net, poll, shared, IndInv, TypeOK,
        NoUseAfterFree, SoleOwner, FreshInv, WatchInv, HandType, KernelType,
        ServerType, QueueType, LoopType, Live, Places, Accepting, Holding,
        Elsewhere, Conns, Threads
  <1>6. SoleOwner'
    BY ServerAssumption
    DEF ExecuteManager, Goto, net, poll, shared, IndInv, TypeOK, SoleOwner,
        NoUseAfterFree, FreshInv, WatchInv, HandType, KernelType, ServerType,
        QueueType, LoopType, Live, Places, Accepting, Holding, Elsewhere,
        Conns, Threads
  <1>7. FreshInv'
    BY ServerAssumption
    DEF ExecuteManager, Goto, net, poll, shared, IndInv, TypeOK, FreshInv,
        NoUseAfterFree, SoleOwner, HandType, KernelType, ServerType, LoopType,
        Live, Accepting, Holding, Elsewhere, Conns, Threads
  <1> QED BY <1>1, <1>2, <1>3, <1>4, <1>5, <1>6, <1>7 DEF IndInv, TypeOK

(* The receiver hands the message over and keeps the client. *)
LEMMA PutBroadcastQueueStep ==
  ASSUME IndInv, NEW r \in Receivers, PutBroadcastQueue(r)
  PROVE  IndInv'
  <1>1. KernelType' /\ BufferType' /\ ServerType' /\ LoopType' /\ SocketInv'
       /\ WatchInv'
    BY Frame DEF PutBroadcastQueue, net, poll, IndInv, TypeOK
  <1>2. QueueType'
    <2>1. msg[r] \in Messages
      BY DEF PutBroadcastQueue, IndInv, TypeOK, MessageType, Threads
    <2>2. /\ Append(m_pBroadcastQueue, msg[r]) \in Seq(Messages)
          /\ Len(Append(m_pBroadcastQueue, msg[r])) = Len(m_pBroadcastQueue) + 1
      BY <2>1, AppendProperties DEF IndInv, TypeOK, QueueType
    <2>3. Len(m_pBroadcastQueue) \in Nat /\ QSIZE \in Nat
      BY LenProperties, ServerAssumption DEF IndInv, TypeOK, QueueType
    <2> QED BY <2>2, <2>3 DEF PutBroadcastQueue, IndInv, TypeOK, QueueType
  <1>3. HandType'
    BY ServerAssumption
    DEF PutBroadcastQueue, Goto, net, poll, IndInv, TypeOK, HandType,
        QueueType, LoopType, KernelType, Accepting, Holding, Elsewhere, Conns,
        Threads
  <1>4. MessageType'
    BY ServerAssumption
    DEF PutBroadcastQueue, Goto, net, poll, IndInv, TypeOK, MessageType,
        HandType, QueueType, Conns, Threads
  <1>5. NoUseAfterFree'
    BY ServerAssumption
    DEF PutBroadcastQueue, Goto, net, poll, IndInv, TypeOK, NoUseAfterFree,
        SoleOwner, FreshInv, WatchInv, HandType, KernelType, ServerType,
        QueueType, LoopType, Live, Places, Accepting, Holding, Elsewhere,
        Conns, Threads
  <1>6. SoleOwner'
    BY ServerAssumption
    DEF PutBroadcastQueue, Goto, net, poll, IndInv, TypeOK, SoleOwner,
        NoUseAfterFree, FreshInv, WatchInv, HandType, KernelType, ServerType,
        QueueType, LoopType, Live, Places, Accepting, Holding, Elsewhere,
        Conns, Threads
  <1>7. FreshInv'
    BY ServerAssumption
    DEF PutBroadcastQueue, Goto, net, poll, IndInv, TypeOK, FreshInv,
        NoUseAfterFree, SoleOwner, HandType, KernelType, ServerType, LoopType,
        Live, Accepting, Holding, Elsewhere, Conns, Threads
  <1> QED BY <1>1, <1>2, <1>3, <1>4, <1>5, <1>6, <1>7 DEF IndInv, TypeOK

(* The receiver keeps the client, to register it. *)
LEMMA ExecuteDoneStep ==
  ASSUME IndInv, NEW r \in Receivers, ExecuteDone(r)
  PROVE  IndInv'
  <1>1. KernelType' /\ BufferType' /\ ServerType' /\ QueueType' /\ LoopType'
       /\ SocketInv' /\ WatchInv'
    BY Frame DEF ExecuteDone, net, poll, shared, IndInv, TypeOK
  <1>2. HandType'
    BY ServerAssumption
    DEF ExecuteDone, Goto, net, poll, shared, IndInv, TypeOK, HandType,
        QueueType, LoopType, KernelType, Accepting, Holding, Elsewhere, Conns,
        Threads
  <1>3. MessageType'
    BY ServerAssumption
    DEF ExecuteDone, Goto, net, poll, shared, IndInv, TypeOK, MessageType,
        HandType, QueueType, Conns, Threads
  <1>4. NoUseAfterFree'
    BY ServerAssumption
    DEF ExecuteDone, Goto, net, poll, shared, IndInv, TypeOK, NoUseAfterFree,
        SoleOwner, FreshInv, WatchInv, HandType, KernelType, ServerType,
        QueueType, LoopType, Live, Places, Accepting, Holding, Elsewhere,
        Conns, Threads
  <1>5. SoleOwner'
    BY ServerAssumption
    DEF ExecuteDone, Goto, net, poll, shared, IndInv, TypeOK, SoleOwner,
        NoUseAfterFree, FreshInv, WatchInv, HandType, KernelType, ServerType,
        QueueType, LoopType, Live, Places, Accepting, Holding, Elsewhere,
        Conns, Threads
  <1>6. FreshInv'
    BY ServerAssumption
    DEF ExecuteDone, Goto, net, poll, shared, IndInv, TypeOK, FreshInv,
        NoUseAfterFree, SoleOwner, HandType, KernelType, ServerType, LoopType,
        Live, Accepting, Holding, Elsewhere, Conns, Threads
  <1> QED BY <1>1, <1>2, <1>3, <1>4, <1>5, <1>6 DEF IndInv, TypeOK

(* The receiver hands the client back to epoll. *)
LEMMA AddEPollStep ==
  ASSUME IndInv, NEW r \in Receivers, AddEPoll(r)
  PROVE  IndInv'
  <1>1. BufferType' /\ ServerType' /\ QueueType' /\ LoopType'
    BY Frame DEF AddEPoll, net, shared, IndInv, TypeOK
  <1>2. KernelType'
    <2>1. cur[r] \in Conns
      BY InHand DEF AddEPoll, IndInv, TypeOK, Holding, Threads
    <2>2. interest' = interest \cup {cur[r]} /\ ready' \subseteq ready \cup {cur[r]}
      BY DEF AddEPoll, AddClient
    <2> QED BY <2>1, <2>2 DEF AddEPoll, net, IndInv, TypeOK, KernelType
  <1>3. HandType'
    BY ServerAssumption
    DEF AddEPoll, Done, net, shared, AddClient, Goto, IndInv, TypeOK,
        HandType, QueueType, LoopType, KernelType, Accepting, Holding,
        Elsewhere, Conns, Threads
  <1>4. MessageType'
    BY ServerAssumption
    DEF AddEPoll, Done, net, shared, AddClient, Goto, IndInv, TypeOK,
        MessageType, HandType, QueueType, Conns, Threads
  <1>5. NoUseAfterFree'
    <2>1. cur[r] \in Live
      BY InHand
      DEF AddEPoll, IndInv, TypeOK, NoUseAfterFree, Live, Holding, Threads
    <2>2. \A s \in Threads : pc'[s] \in Holding => client'[cur'[s]] = "live"
      BY
      DEF AddEPoll, Done, Goto, IndInv, TypeOK, HandType, NoUseAfterFree,
          Holding, Threads
    <2>3. interest' = interest \cup {cur[r]}
      BY DEF AddEPoll, AddClient
    <2> QED BY <2>1, <2>2, <2>3 DEF AddEPoll, shared, IndInv, NoUseAfterFree,
       Places, Live
  <1>6. SoleOwner'
    <2>1. /\ cur[r] \in Conns /\ cur' = [cur EXCEPT ![r] = NoConn]
          /\ pc' = [pc EXCEPT ![r] = "home"] /\ interest' = interest \cup {cur[r]}
          /\ UNCHANGED <<m_pReceiveQueue, batch>> /\ NoConn \notin Conns
      BY InHand, ServerAssumption
      DEF AddEPoll, Done, Goto, AddClient, shared, IndInv, TypeOK, Holding,
          Threads
    <2>2. Places(m_pReceiveQueue) \subseteq Conns /\ interest \subseteq Conns
      BY DEF IndInv, NoUseAfterFree, Live
    <2>3. \A e \in batch : e.conn \in Conns
      BY DEF IndInv, TypeOK, LoopType
    <2>4. r \in Threads
      BY DEF Threads
    <2> QED BY <2>1, <2>2, <2>3, <2>4 DEF IndInv, TypeOK, HandType, SoleOwner,
       Places
  <1>7. SocketInv'
    BY ServerAssumption
    DEF AddEPoll, Done, net, shared, AddClient, Goto, IndInv, TypeOK,
        SocketInv, NoUseAfterFree, SoleOwner, FreshInv, HandType, KernelType,
        ServerType, LoopType, Live, Accepting, Holding, Elsewhere, Conns,
        Threads
  <1>8. FreshInv'
    BY ServerAssumption
    DEF AddEPoll, Done, net, shared, AddClient, Goto, IndInv, TypeOK,
        FreshInv, NoUseAfterFree, SoleOwner, HandType, KernelType, ServerType,
        LoopType, Live, Accepting, Holding, Elsewhere, Conns, Threads
  <1>9. WatchInv'
    <2>1. /\ cur[r] \in Conns /\ cur' = [cur EXCEPT ![r] = NoConn]
          /\ interest' = interest \cup {cur[r]}
          /\ UNCHANGED batch /\ NoConn \notin interest'
      BY InHand, ServerAssumption
      DEF AddEPoll, Done, AddClient, IndInv, TypeOK, KernelType, Holding,
          Threads
    <2>2. r \in Threads
      BY DEF Threads
    <2> QED BY <2>1, <2>2 DEF IndInv, TypeOK, HandType, SoleOwner, WatchInv
  <1> QED BY <1>1, <1>2, <1>3, <1>4, <1>5, <1>6, <1>7, <1>8, <1>9 DEF IndInv,
       TypeOK

(* The receiver drops its pointer: the client is stranded, not freed. *)
LEMMA AddEPollFailsStep ==
  ASSUME IndInv, NEW r \in Receivers, AddEPollFails(r)
  PROVE  IndInv'
  <1>1. KernelType' /\ BufferType' /\ ServerType' /\ QueueType' /\ LoopType'
    BY Frame DEF AddEPollFails, net, poll, shared, IndInv, TypeOK
  <1>2. HandType'
    BY ServerAssumption
    DEF AddEPollFails, Done, net, poll, shared, Goto, IndInv, TypeOK,
        HandType, QueueType, LoopType, KernelType, Accepting, Holding,
        Elsewhere, Conns, Threads
  <1>3. MessageType'
    BY ServerAssumption
    DEF AddEPollFails, Done, net, poll, shared, Goto, IndInv, TypeOK,
        MessageType, HandType, QueueType, Conns, Threads
  <1>4. NoUseAfterFree'
    BY ServerAssumption
    DEF AddEPollFails, Done, net, poll, shared, Goto, IndInv, TypeOK,
        NoUseAfterFree, SoleOwner, FreshInv, WatchInv, HandType, KernelType,
        ServerType, QueueType, LoopType, Live, Places, Accepting, Holding,
        Elsewhere, Conns, Threads
  <1>5. SoleOwner'
    BY ServerAssumption
    DEF AddEPollFails, Done, net, poll, shared, Goto, IndInv, TypeOK,
        SoleOwner, NoUseAfterFree, FreshInv, WatchInv, HandType, KernelType,
        ServerType, QueueType, LoopType, Live, Places, Accepting, Holding,
        Elsewhere, Conns, Threads
  <1>6. SocketInv'
    BY ServerAssumption
    DEF AddEPollFails, Done, net, poll, shared, Goto, IndInv, TypeOK,
        SocketInv, NoUseAfterFree, SoleOwner, FreshInv, HandType, KernelType,
        ServerType, LoopType, Live, Accepting, Holding, Elsewhere, Conns,
        Threads
  <1>7. FreshInv'
    BY ServerAssumption
    DEF AddEPollFails, Done, net, poll, shared, Goto, IndInv, TypeOK,
        FreshInv, NoUseAfterFree, SoleOwner, HandType, KernelType, ServerType,
        LoopType, Live, Accepting, Holding, Elsewhere, Conns, Threads
  <1>8. WatchInv'
    BY ServerAssumption
    DEF AddEPollFails, Done, net, poll, shared, Goto, IndInv, TypeOK,
        WatchInv, SoleOwner, NoUseAfterFree, FreshInv, HandType, KernelType,
        ServerType, LoopType, Live, Accepting, Holding, Elsewhere, Conns,
        Threads
  <1> QED BY <1>1, <1>2, <1>3, <1>4, <1>5, <1>6, <1>7, <1>8 DEF IndInv, TypeOK

(* Broadcasters hold messages and descriptors, never clients. *)
LEMMA GetBroadcastQueueStep ==
  ASSUME IndInv, NEW b \in Broadcasters, GetBroadcastQueue(b)
  PROVE  IndInv'
  <1>1. KernelType' /\ BufferType' /\ ServerType' /\ SocketInv' /\ WatchInv'
    BY Frame DEF GetBroadcastQueue, net, poll, IndInv, TypeOK
  <1>2. QueueType'
    BY ServerAssumption
    DEF GetBroadcastQueue, Goto, net, poll, IndInv, TypeOK, QueueType,
        HandType, Conns, Threads
  <1>3. HandType'
    BY ServerAssumption
    DEF GetBroadcastQueue, Goto, net, poll, IndInv, TypeOK, HandType,
        QueueType, LoopType, KernelType, Accepting, Holding, Elsewhere, Conns,
        Threads
  <1>4. MessageType'
    BY ServerAssumption
    DEF GetBroadcastQueue, Goto, net, poll, IndInv, TypeOK, MessageType,
        HandType, QueueType, Conns, Threads
  <1>5. LoopType'
    BY ServerAssumption
    DEF GetBroadcastQueue, Goto, net, poll, IndInv, TypeOK, LoopType,
        KernelType, HandType, ServerType, SocketInv, NoUseAfterFree, Live,
        MessageType, Conns, Threads
  <1>6. NoUseAfterFree'
    BY ServerAssumption
    DEF GetBroadcastQueue, Goto, net, poll, IndInv, TypeOK, NoUseAfterFree,
        SoleOwner, FreshInv, WatchInv, HandType, KernelType, ServerType,
        QueueType, LoopType, Live, Places, Accepting, Holding, Elsewhere,
        Conns, Threads
  <1>7. SoleOwner'
    BY ServerAssumption
    DEF GetBroadcastQueue, Goto, net, poll, IndInv, TypeOK, SoleOwner,
        NoUseAfterFree, FreshInv, WatchInv, HandType, KernelType, ServerType,
        QueueType, LoopType, Live, Places, Accepting, Holding, Elsewhere,
        Conns, Threads
  <1>8. FreshInv'
    BY ServerAssumption
    DEF GetBroadcastQueue, Goto, net, poll, IndInv, TypeOK, FreshInv,
        NoUseAfterFree, SoleOwner, HandType, KernelType, ServerType, LoopType,
        Live, Accepting, Holding, Elsewhere, Conns, Threads
  <1> QED BY <1>1, <1>2, <1>3, <1>4, <1>5, <1>6, <1>7, <1>8 DEF IndInv, TypeOK

(* What is written has the type of a message. *)
LEMMA RelayToManagerStep ==
  ASSUME IndInv, NEW b \in Broadcasters, NEW m \in Managers, RelayToManager(b, m)
  PROVE  IndInv'
  <1>1. KernelType' /\ ServerType' /\ QueueType' /\ HandType' /\ MessageType'
       /\ NoUseAfterFree' /\ SoleOwner' /\ SocketInv' /\ FreshInv' /\
       WatchInv'
    BY Frame DEF RelayToManager, net, poll, shared, IndInv, TypeOK
  <1>2. BufferType'
    <2>1. \E f : Write(f, msg[b])
      BY DEF RelayToManager
    <2>2. msg[b] \in Messages
      BY DEF RelayToManager, IndInv, TypeOK, MessageType, Threads
    <2> QED BY <2>1, <2>2, WriteType DEF RelayToManager, net, IndInv, TypeOK,
       BufferType
  <1>3. LoopType'
    BY ServerAssumption
    DEF RelayToManager, net, poll, shared, Write, IndInv, TypeOK, LoopType,
        KernelType, HandType, ServerType, SocketInv, NoUseAfterFree, Live,
        MessageType, Conns, Threads
  <1> QED BY <1>1, <1>2, <1>3 DEF IndInv, TypeOK

(* The clients of m_lstClient are live, so their descriptors are open. *)
LEMMA GetBroadcastTargetsStep ==
  ASSUME IndInv, NEW b \in Broadcasters, GetBroadcastTargets(b)
  PROVE  IndInv'
  <1>1. KernelType' /\ BufferType' /\ ServerType' /\ QueueType' /\ SocketInv'
       /\ WatchInv'
    BY Frame DEF GetBroadcastTargets, net, poll, shared, IndInv, TypeOK
  <1>2. HandType'
    BY ServerAssumption
    DEF GetBroadcastTargets, Goto, net, poll, shared, Targets, IndInv, TypeOK,
        HandType, QueueType, LoopType, KernelType, Accepting, Holding,
        Elsewhere, Conns, Threads
  <1>3. MessageType'
    BY ServerAssumption
    DEF GetBroadcastTargets, Goto, net, poll, shared, Targets, IndInv, TypeOK,
        MessageType, HandType, QueueType, Conns, Threads
  <1>4. LoopType'
    BY ServerAssumption
    DEF GetBroadcastTargets, Goto, net, poll, shared, Targets, IndInv, TypeOK,
        LoopType, KernelType, HandType, ServerType, SocketInv, NoUseAfterFree,
        Live, MessageType, Conns, Threads
  <1>5. NoUseAfterFree'
    BY ServerAssumption
    DEF GetBroadcastTargets, Goto, net, poll, shared, Targets, IndInv, TypeOK,
        NoUseAfterFree, SoleOwner, FreshInv, WatchInv, HandType, KernelType,
        ServerType, QueueType, LoopType, Live, Places, Accepting, Holding,
        Elsewhere, Conns, Threads
  <1>6. SoleOwner'
    BY ServerAssumption
    DEF GetBroadcastTargets, Goto, net, poll, shared, Targets, IndInv, TypeOK,
        SoleOwner, NoUseAfterFree, FreshInv, WatchInv, HandType, KernelType,
        ServerType, QueueType, LoopType, Live, Places, Accepting, Holding,
        Elsewhere, Conns, Threads
  <1>7. FreshInv'
    BY ServerAssumption
    DEF GetBroadcastTargets, Goto, net, poll, shared, Targets, IndInv, TypeOK,
        FreshInv, NoUseAfterFree, SoleOwner, HandType, KernelType, ServerType,
        LoopType, Live, Accepting, Holding, Elsewhere, Conns, Threads
  <1> QED BY <1>1, <1>2, <1>3, <1>4, <1>5, <1>6, <1>7 DEF IndInv, TypeOK

(* What is written has the type of a message. *)
LEMMA WriteToTargetStep ==
  ASSUME IndInv, NEW b \in Broadcasters, NEW p \in targets[b], WriteToTarget(b, p)
  PROVE  IndInv'
  <1>1. KernelType' /\ ServerType' /\ QueueType' /\ HandType' /\ MessageType'
       /\ NoUseAfterFree' /\ SoleOwner' /\ SocketInv' /\ FreshInv' /\
       WatchInv'
    BY Frame DEF WriteToTarget, net, poll, shared, IndInv, TypeOK
  <1>2. BufferType'
    <2>1. \E f : Write(f, msg[b])
      BY DEF WriteToTarget
    <2>2. msg[b] \in Messages
      BY DEF WriteToTarget, IndInv, TypeOK, MessageType, Threads
    <2> QED BY <2>1, <2>2, WriteType DEF WriteToTarget, net, IndInv, TypeOK,
       BufferType
  <1>3. LoopType'
    BY ServerAssumption
    DEF WriteToTarget, net, poll, shared, Write, IndInv, TypeOK, LoopType,
        KernelType, HandType, ServerType, SocketInv, NoUseAfterFree, Live,
        MessageType, Conns, Threads
  <1> QED BY <1>1, <1>2, <1>3 DEF IndInv, TypeOK

(* The message is deleted. *)
LEMMA BroadcastDoneStep ==
  ASSUME IndInv, NEW b \in Broadcasters, BroadcastDone(b)
  PROVE  IndInv'
  <1>1. KernelType' /\ BufferType' /\ ServerType' /\ QueueType' /\ LoopType'
       /\ SocketInv' /\ WatchInv'
    BY Frame DEF BroadcastDone, net, poll, shared, IndInv, TypeOK
  <1>2. HandType'
    BY ServerAssumption
    DEF BroadcastDone, Goto, net, poll, shared, IndInv, TypeOK, HandType,
        QueueType, LoopType, KernelType, Accepting, Holding, Elsewhere, Conns,
        Threads
  <1>3. MessageType'
    BY ServerAssumption
    DEF BroadcastDone, Goto, net, poll, shared, IndInv, TypeOK, MessageType,
        HandType, QueueType, Conns, Threads
  <1>4. NoUseAfterFree'
    BY ServerAssumption
    DEF BroadcastDone, Goto, net, poll, shared, IndInv, TypeOK,
        NoUseAfterFree, SoleOwner, FreshInv, WatchInv, HandType, KernelType,
        ServerType, QueueType, LoopType, Live, Places, Accepting, Holding,
        Elsewhere, Conns, Threads
  <1>5. SoleOwner'
    BY ServerAssumption
    DEF BroadcastDone, Goto, net, poll, shared, IndInv, TypeOK, SoleOwner,
        NoUseAfterFree, FreshInv, WatchInv, HandType, KernelType, ServerType,
        QueueType, LoopType, Live, Places, Accepting, Holding, Elsewhere,
        Conns, Threads
  <1>6. FreshInv'
    BY ServerAssumption
    DEF BroadcastDone, Goto, net, poll, shared, IndInv, TypeOK, FreshInv,
        NoUseAfterFree, SoleOwner, HandType, KernelType, ServerType, LoopType,
        Live, Accepting, Holding, Elsewhere, Conns, Threads
  <1> QED BY <1>1, <1>2, <1>3, <1>4, <1>5, <1>6 DEF IndInv, TypeOK

-----------------------------------------------------------------------------
(* The initial state: no Client exists, the managers' sockets are open.    *)
LEMMA Initially == Init => IndInv
  <1> SUFFICES ASSUME Init PROVE IndInv
    OBVIOUS
  <1>1. KernelType /\ ServerType /\ HandType
    BY DEF Init, KernelType, ServerType, HandType, Elsewhere, Conns
  <1>2. BufferType /\ QueueType
    BY EmptySeq, ServerAssumption DEF Init, BufferType, QueueType
  <1>3. MessageType /\ LoopType
    BY DEF Init, MessageType, LoopType
  <1>4. NoUseAfterFree /\ SoleOwner
    BY ServerAssumption DEF Init, NoUseAfterFree, SoleOwner, Places, Holding
  <1>5. SocketInv /\ FreshInv /\ WatchInv
    BY ServerAssumption
    DEF Init, SocketInv, FreshInv, WatchInv, Live, Accepting, Conns
  <1> QED BY <1>1, <1>2, <1>3, <1>4, <1>5 DEF IndInv, TypeOK

(* AcceptClient and CloseClient, whichever thread runs them.               *)
LEMMA SharedStep ==
  ASSUME IndInv, NEW t \in Threads, AcceptClient(t) \/ CloseClient(t)
  PROVE  IndInv'
  BY AcceptLoadStep, AcceptStoreStep, AcceptPushStep, AcceptAddStep,
     AcceptAddFailsStep, CloseDelStep, CloseFreeStep, CloseLoadStep,
     CloseStoreStep
  DEF AcceptClient, CloseClient

(* No step of any thread or peer breaks the invariant.                     *)
LEMMA Inductive == IndInv /\ [Next]_vars => IndInv'
  <1> SUFFICES ASSUME IndInv, [Next]_vars PROVE IndInv'
    OBVIOUS
  <1>1. CASE UNCHANGED vars
    BY <1>1, Frame DEF vars, net, poll, shared, IndInv, TypeOK
  <1>2. CASE Peers
    BY <1>2, ConnectStep, SendStep, CloseStep, ResetStep DEF Peers
  <1>3. CASE AcceptorStep
    <2>1. Acceptor \in Threads
      BY DEF Threads
    <2> QED BY <1>3, <2>1, AcceptStep, RefuseClientStep, AdmitClientStep,
               SharedStep DEF AcceptorStep
  <1>4. CASE MainStep
    <2>1. Main \in Threads
      BY DEF Threads
    <2> QED BY <1>4, <2>1, RegisterManagerStep, PollingStep, ErrorEventStep,
               ReadEventStep, PutReceiveQueueStep, SharedStep DEF MainStep
  <1>5. ASSUME NEW r \in Receivers, ReceiverStep(r)
        PROVE  IndInv'
    <2>1. r \in Threads
      BY DEF Threads
    <2> QED BY <1>5, <2>1, GetReceiveQueueStep, AvailableStep, ReadAllStep,
               ReadFailsStep, ExecuteUserStep, ExecuteManagerStep,
               PutBroadcastQueueStep, ExecuteDoneStep, AddEPollStep,
               AddEPollFailsStep, SharedStep DEF ReceiverStep, FillFromSocket
  <1>6. ASSUME NEW b \in Broadcasters, BroadcasterStep(b)
        PROVE  IndInv'
    BY <1>6, GetBroadcastQueueStep, RelayToManagerStep,
       GetBroadcastTargetsStep, WriteToTargetStep, BroadcastDoneStep
    DEF BroadcasterStep
  <1> QED BY <1>1, <1>2, <1>3, <1>4, <1>5, <1>6 DEF Next

LEMMA Invariance == Spec => []IndInv
  BY Initially, Inductive, PTL DEF Spec

(* The members of ChatServer and the local variables of its threads keep   *)
(* their types, and both queues respect QSIZE, for any number of threads,  *)
(* users and managers.                                                     *)
THEOREM TypeCorrect == Spec => []TypeOK
  <1>1. IndInv => TypeOK
    BY DEF IndInv
  <1> QED BY Invariance, <1>1, PTL

(* ChatServer::CloseClient never deletes a Client that a thread, a queue,  *)
(* the list, epoll or a pending event still refers to.                     *)
THEOREM ClientsNotUsedAfterFree == Spec => []NoUseAfterFree
  <1>1. IndInv => NoUseAfterFree
    BY DEF IndInv
  <1> QED BY Invariance, <1>1, PTL

(* The hand-over protocol of AcceptClient, Run and ThreadReceiver::Run     *)
(* (DelClient before PutReceiveQueue, AddEPoll last) keeps every Client in *)
(* one pair of hands, so that no lock is needed for it.                    *)
THEOREM ClientsHaveOneOwner == Spec => []SoleOwner
  <1>1. IndInv => SoleOwner
    BY DEF IndInv
  <1> QED BY Invariance, <1>1, PTL

-----------------------------------------------------------------------------
(***************************************************************************)
(* What is broadcast.  Users come and go and the kernel hands their        *)
(* descriptors out again.  A manager socket that is gone is another thing: *)
(* m_lstChatManagerSocket keeps it, and what is relayed through it goes    *)
(* anywhere.  So the properties are of a server that still has its managers. *)
(***************************************************************************)
ManagersOpen == \A m \in Managers : client[m] # "freed"

Carrying == {"broadcast", "relay", "write"}

(* The messages that receivers have made, that wait in m_pBroadcastQueue,  *)
(* and that broadcasters send.                                             *)
Made == {msg[r] : r \in {q \in Receivers : pc[q] = "broadcast"}}
Queued == Places(m_pBroadcastQueue)
Sending == {msg[b] : b \in {a \in Broadcasters : pc[a] \in {"relay", "write"}}}
Flight == Made \cup Queued \cup Sending

(* Open sockets have descriptors of their own; managers keep theirs, and   *)
(* what was never accepted has none and was sent nothing.                  *)
FdInv ==
  /\ \A c, d \in Conns : fd[c] = fd[d] /\ fd[c] # NoFd => c = d
  /\ \A m \in Managers : client[m] # "freed" => fd[m] # NoFd
  /\ \A c \in Conns : c \in backlog \/ peer[c] = "away" => fd[c] = NoFd /\ written[c] = <<>>
  /\ \A t \in Threads : pc[t] = "check" => cur[t] \in Users

(* A message carries the descriptor of its sender, until that is closed.   *)
Stamped(m) ==
  /\ client[m.from] # "none"
  /\ fd[m.from] \in {m.fd, NoFd}
  /\ m.relayed <=> m.from \in Managers

MessageInv ==
  /\ \A t \in Threads : pc[t] \in {"relay", "write"} => t \in Broadcasters
  /\ \A t \in Threads : pc[t] = "broadcast" => t \in Receivers /\ msg[t].from = cur[t]
  /\ \A m \in Flight : Stamped(m)

(* Copied descriptors are neither the sender's nor a manager's, and each   *)
(* was copied once.  Only messages of users are relayed.                   *)
TargetInv ==
  \A b \in Broadcasters :
    /\ pc[b] = "relay" /\ relay[b] # {} => msg[b].from \in Users
    /\ pc[b] = "write" => \A p \in targets[b] :
         /\ p[1] # msg[b].fd
         /\ \A m \in Managers : fd[m] # p[1]
         /\ \A q \in targets[b] : p[1] = q[1] => p = q

RoutingInv == FdInv /\ MessageInv /\ TargetInv

(* The text of a sender on its way: in its buffers, behind all that was    *)
(* taken out of them; and what was written of it to a connection.          *)
Increasing(q) == \A i, j \in 1 .. Len(q) : i < j => q[i] < q[j]
Below(A, B) == \A x \in A, y \in B : x < y
Buffered(s) == Places(m_cCBuff[s]) \cup Places(inbox[s])
Text(c, s) == {written[c][i][2] : i \in {j \in 1 .. Len(written[c]) : written[c][j][1] = s}}

(* Chunks X of sender s were sent before all that is still in its buffers. *)
Earlier(X, s) == Below(X, Buffered(s)) /\ \A x \in X : x <= sent[s]

BuffersInv ==
  \A s \in Conns : /\ Increasing(m_cCBuff[s]) /\ Increasing(inbox[s])
                   /\ Below(Places(m_cCBuff[s]), Places(inbox[s]))
                   /\ \A x \in Buffered(s) : x <= sent[s]

TakenInv ==
  /\ \A m \in Flight : Increasing(m.data) /\ Earlier(Places(m.data), m.from)
  /\ \A c, s \in Conns : Earlier(Text(c, s), s)

(* The connections that a broadcaster may still write its message to.      *)
Owed(b) == IF pc[b] = "relay" THEN relay[b] \cup Users
           ELSE {c \in Conns : \E p \in targets[b] : fd[c] = p[1]}

(* Messages overtake no message of the same sender.                        *)
Precedes(m, n) == m.from = n.from => Below(Places(m.data), Places(n.data))
PipeInv ==
  /\ \A i, j \in 1 .. Len(m_pBroadcastQueue) :
       i < j => Precedes(m_pBroadcastQueue[i], m_pBroadcastQueue[j])
  /\ \A m \in Queued, n \in Made : Precedes(m, n)
  /\ \A m \in Sending, n \in Queued \cup Made : Precedes(m, n)
SentInv ==
  /\ \A c \in Conns, n \in Queued \cup Made : Below(Text(c, n.from), Places(n.data))
  /\ \A b \in Broadcasters : pc[b] \in {"relay", "write"} =>
       \A c \in Owed(b) : Below(Text(c, msg[b].from), Places(msg[b].data))

OrderInv == BuffersInv /\ TakenInv /\ PipeInv /\ SentInv /\ SenderOrder

(***************************************************************************)
(* The steps that neither take up a message nor write one, and open no     *)
(* socket.                                                                 *)
(***************************************************************************)
Quiet ==
  /\ UNCHANGED <<written, m_pBroadcastQueue, msg, relay, targets>>
  /\ \A t \in Threads :
       \/ pc'[t] = pc[t] /\ cur'[t] = cur[t]
       \/ pc[t] \notin Carrying /\ pc'[t] \notin Carrying \cup {"check"}
  /\ \A c \in Conns :
       /\ fd'[c] \in {fd[c], NoFd}
       /\ client[c] # "none" => client'[c] # "none"
       /\ c \in backlog' \/ peer'[c] = "away" => c \in backlog \/ peer[c] = "away"
  /\ \A m \in Managers : client'[m] # "freed" => client[m] # "freed" /\ fd'[m] = fd[m]

LEMMA PeersQuiet ==
  ASSUME IndInv, Peers
  PROVE  Quiet
  <1>1. \A c \in Conns : peer'[c] = "away" => peer[c] = "away"
    BY DEF Peers, Connect, Send, Close, Reset, IndInv, TypeOK, KernelType
  <1>2. \A c \in Conns : c \in backlog' => c \in backlog \/ peer[c] = "away"
    BY DEF Peers, Connect, Send, Close, Reset
  <1> QED BY <1>1, <1>2 DEF Quiet, Peers, Connect, Send, Close, Reset, Internals, shared

(* A thread inside AcceptClient.                                           *)
LEMMA AcceptClientQuiet ==
  ASSUME IndInv, NEW t \in Threads, AcceptClient(t)
  PROVE  Quiet
  <1>1. pc[t] \notin Carrying /\ pc'[t] \notin Carrying \cup {"check"}
        /\ \A s \in Threads : s # t => pc'[s] = pc[s] /\ cur'[s] = cur[s]
    BY DEF AcceptClient, AcceptLoad, AcceptStore, AcceptPush, AcceptAdd, AcceptAddFails,
           Done, Goto, Carrying, IndInv, TypeOK, HandType
  <1>2. /\ UNCHANGED <<written, m_pBroadcastQueue, msg, relay, targets, fd, peer, backlog>>
        /\ client' = client \/ client' = [client EXCEPT ![cur[t]] = "live"]
    BY DEF AcceptClient, AcceptLoad, AcceptStore, AcceptPush, AcceptAdd, AcceptAddFails, net, shared
  <1>3. \A c \in Conns : client'[c] = client[c] \/ (client[c] = "none" /\ client'[c] = "live")
    <2>1. CASE client' = client  BY <2>1
    <2>2. CASE AcceptStore(t)
      <3>1. client[cur[t]] = "none"
        BY <2>2 DEF AcceptStore, IndInv, FreshInv, Accepting
      <3> QED BY <2>2, <3>1 DEF AcceptStore, IndInv, TypeOK, ServerType
    <2> QED BY <2>1, <2>2
          DEF AcceptClient, AcceptLoad, AcceptPush, AcceptAdd, AcceptAddFails
  <1> QED BY <1>1, <1>2, <1>3, ServerAssumption DEF Quiet, Conns

(* A thread that closes the connection it has in hand.                     *)
LEMMA CloseSocketQuiet ==
  ASSUME IndInv, NEW t \in Threads, CloseSocket(cur[t]), backlog' = backlog,
         pc[t] \in Accepting \cup Holding,
         cur[t] \in Managers => client'[cur[t]] = "freed",
         \A c \in Conns : client'[c] = client[c] \/ client'[c] = "freed"
  PROVE  /\ \A c \in Conns :
              /\ fd'[c] \in {fd[c], NoFd}
              /\ client[c] # "none" => client'[c] # "none"
              /\ c \in backlog' \/ peer'[c] = "away" => c \in backlog \/ peer[c] = "away"
         /\ \A m \in Managers : client'[m] # "freed" => client[m] # "freed" /\ fd'[m] = fd[m]
  <1>1. /\ fd' = [fd EXCEPT ![cur[t]] = NoFd] /\ peer' = [peer EXCEPT ![cur[t]] = "reset"]
        /\ fd \in [Conns -> FDs \cup {NoFd}] /\ DOMAIN peer = Conns
    BY DEF CloseSocket, IndInv, TypeOK, KernelType
  <1>2. cur[t] \in Conns  BY InHand DEF IndInv, TypeOK
  <1> QED BY <1>1, <1>2 DEF Conns

LEMMA CloseClientQuiet ==
  ASSUME IndInv, NEW t \in Threads, CloseClient(t)
  PROVE  Quiet
  <1>1. /\ pc[t] \notin Carrying /\ pc'[t] \notin Carrying \cup {"check"}
        /\ \A s \in Threads : s # t => pc'[s] = pc[s] /\ cur'[s] = cur[s]
        /\ UNCHANGED <<written, m_pBroadcastQueue, msg, relay, targets, backlog>>
    BY DEF CloseClient, CloseDel, CloseFree, CloseLoad, CloseStore, Done, Goto, Carrying,
           IndInv, TypeOK, HandType, net, shared
  <1>2. CASE CloseFree(t)
    <2>1. CloseSocket(cur[t]) /\ pc[t] \in Holding /\ client' = [client EXCEPT ![cur[t]] = "freed"]
      BY <1>2 DEF CloseFree, Holding
    <2>2. cur[t] \in Conns /\ client \in [Conns -> {"none", "live", "freed"}]
      BY <2>1, InHand DEF IndInv, TypeOK, ServerType
    <2>3. client'[cur[t]] = "freed" /\ \A c \in Conns : client'[c] = client[c] \/ client'[c] = "freed"
      BY <2>1, <2>2
    <2> QED BY <1>1, <2>1, <2>3, CloseSocketQuiet DEF Quiet
  <1>3. CASE ~CloseFree(t)
    <2>1. UNCHANGED <<fd, peer, client>>
      BY <1>3 DEF CloseClient, CloseDel, CloseLoad, CloseStore, net
    <2> QED BY <1>1, <2>1 DEF Quiet, Conns
  <1> QED BY <1>2, <1>3

LEMMA AcceptorQuiet ==
  ASSUME IndInv, FdInv, RefuseClient \/ AdmitClient
  PROVE  Quiet
  <1>1. /\ Acceptor \in Threads /\ pc[Acceptor] = "check" /\ cur[Acceptor] \in Users
        /\ pc'[Acceptor] \notin Carrying \cup {"check"}
        /\ \A s \in Threads : s # Acceptor => pc'[s] = pc[s] /\ cur'[s] = cur[s]
        /\ UNCHANGED <<written, m_pBroadcastQueue, msg, relay, targets, backlog, client>>
    BY DEF RefuseClient, AdmitClient, Done, Goto, Carrying, Threads, IndInv, TypeOK, HandType,
           FdInv, net, shared
  <1>2. CASE RefuseClient
    BY <1>1, <1>2, CloseSocketQuiet, ServerAssumption DEF Quiet, RefuseClient, Accepting, Carrying
  <1>3. CASE AdmitClient
    BY <1>1, <1>3 DEF Quiet, AdmitClient, net, Carrying, Conns
  <1> QED BY <1>2, <1>3

LEMMA MainQuiet ==
  ASSUME IndInv,
         \/ RegisterManager \/ Polling \/ PutReceiveQueue
         \/ \E e \in batch : ErrorEvent(e) \/ ReadEvent(e)
  PROVE  Quiet
  <1>1. /\ Main \in Threads
        /\ UNCHANGED <<written, m_pBroadcastQueue, msg, relay, targets, backlog, client, fd, peer>>
    BY DEF RegisterManager, Polling, PutReceiveQueue, ErrorEvent, ReadEvent, Threads, net, shared
  <1>2. /\ pc[Main] \notin Carrying /\ pc'[Main] \notin Carrying \cup {"check"}
        /\ \A s \in Threads : s # Main => pc'[s] = pc[s] /\ cur'[s] = cur[s]
    BY DEF RegisterManager, Polling, PutReceiveQueue, ErrorEvent, ReadEvent, Done, Goto, Threads,
           Carrying, IndInv, TypeOK, HandType
  <1> QED BY <1>1, <1>2 DEF Quiet, Conns

(* What a receiver does besides making messages.                           *)
Fetching(r) ==
  \/ GetReceiveQueue(r) \/ FillFromSocket(r) \/ ExecuteDone(r) \/ AddEPoll(r) \/ AddEPollFails(r)

LEMMA ReceiverQuiet ==
  ASSUME IndInv, NEW r \in Receivers, Fetching(r)
  PROVE  Quiet
  <1>1. /\ r \in Threads
        /\ UNCHANGED <<written, m_pBroadcastQueue, msg, relay, targets, backlog, client, fd, peer>>
    BY DEF Fetching, FillFromSocket, GetReceiveQueue, Available, ReadAll, ReadFails, ExecuteDone,
           AddEPoll, AddEPollFails, Threads, net, shared
  <1>2. /\ pc[r] \notin Carrying /\ pc'[r] \notin Carrying \cup {"check"}
        /\ \A s \in Threads : s # r => pc'[s] = pc[s] /\ cur'[s] = cur[s]
    BY <1>1 DEF Fetching, FillFromSocket, GetReceiveQueue, Available, ReadAll, ReadFails, ExecuteDone,
           AddEPoll, AddEPollFails, Done, Goto, Carrying, IndInv, TypeOK, HandType
  <1> QED BY <1>1, <1>2 DEF Quiet, Conns

(***************************************************************************)
(* Routing: where a message may go.                                        *)
(***************************************************************************)
LEMMA QuietFlight ==
  ASSUME Quiet, IndInv
  PROVE  /\ Made' = Made /\ Queued' = Queued /\ Sending' = Sending /\ Flight' = Flight
         /\ \A t \in Threads : pc'[t] \in Carrying <=> pc[t] \in Carrying
         /\ \A t \in Threads : pc[t] \in Carrying => pc'[t] = pc[t] /\ cur'[t] = cur[t]
  <1>1. /\ \A t \in Threads : pc'[t] \in Carrying <=> pc[t] \in Carrying
        /\ \A t \in Threads : pc[t] \in Carrying => pc'[t] = pc[t] /\ cur'[t] = cur[t]
    BY DEF Quiet
  <1>2. {q \in Receivers : pc'[q] = "broadcast"} = {q \in Receivers : pc[q] = "broadcast"}
    BY <1>1 DEF Carrying, Threads
  <1>3. {a \in Broadcasters : pc'[a] \in {"relay", "write"}}
          = {a \in Broadcasters : pc[a] \in {"relay", "write"}}
    BY <1>1 DEF Carrying, Threads
  <1>4. msg' = msg /\ m_pBroadcastQueue' = m_pBroadcastQueue  BY DEF Quiet
  <1>5. Made' = Made /\ Queued' = Queued /\ Sending' = Sending
    BY <1>2, <1>3, <1>4 DEF Made, Queued, Sending, Places
  <1> QED BY <1>1, <1>5 DEF Flight

(* A message in flight is a message.                                       *)
LEMMA FlightType ==
  ASSUME IndInv
  PROVE  /\ Flight \subseteq Messages
         /\ \A m \in Flight : /\ m.from \in Conns /\ m.data \in Seq(Chunks) /\ m.fd \in FDs
                              /\ m.relayed \in BOOLEAN
  <1>1. Made \cup Sending \subseteq Messages
    BY DEF Made, Sending, IndInv, TypeOK, MessageType, Threads
  <1>2. Queued \subseteq Messages
    BY ElementOfSeq, LenProperties DEF Queued, Places, IndInv, TypeOK, QueueType
  <1>3. Flight \subseteq Messages  BY <1>1, <1>2 DEF Flight
  <1> QED BY <1>3 DEF Messages

LEMMA StampedFrame ==
  ASSUME IndInv, NEW m \in Messages, Stamped(m),
         \A c \in Conns : /\ fd'[c] \in {fd[c], NoFd}
                          /\ client[c] # "none" => client'[c] # "none"
  PROVE  Stamped(m)'
  <1>1. m.from \in Conns  BY DEF Messages
  <1> QED BY <1>1 DEF Stamped

LEMMA QuietRouting ==
  ASSUME IndInv, RoutingInv, Quiet
  PROVE  RoutingInv'
  <1>1. FdInv'
    <2>1. \A c, d \in Conns : fd'[c] = fd'[d] /\ fd'[c] # NoFd => c = d
      BY DEF Quiet, RoutingInv, FdInv
    <2>2. \A m \in Managers : client'[m] # "freed" => fd'[m] # NoFd
      BY DEF Quiet, RoutingInv, FdInv
    <2>3. \A c \in Conns : c \in backlog' \/ peer'[c] = "away" => fd'[c] = NoFd /\ written'[c] = <<>>
      BY DEF Quiet, RoutingInv, FdInv
    <2>4. \A t \in Threads : pc'[t] = "check" => cur'[t] \in Users
      BY DEF Quiet, RoutingInv, FdInv
    <2> QED BY <2>1, <2>2, <2>3, <2>4 DEF FdInv
  <1>2. MessageInv'
    <2>1. \A m \in Flight' : Stamped(m)'
      <3> SUFFICES ASSUME NEW m \in Flight' PROVE Stamped(m)'  OBVIOUS
      <3>1. m \in Flight /\ m \in Messages  BY QuietFlight, FlightType
      <3>2. Stamped(m)  BY <3>1 DEF RoutingInv, MessageInv
      <3> QED BY <3>1, <3>2, StampedFrame DEF Quiet
    <2>2. \A t \in Threads : pc'[t] \in Carrying => pc'[t] = pc[t] /\ cur'[t] = cur[t]
      BY QuietFlight
    <2>3. msg' = msg  BY DEF Quiet
    <2> QED BY <2>1, <2>2, <2>3 DEF MessageInv, RoutingInv, Carrying
  <1>3. TargetInv'
    <2>1. \A b \in Broadcasters : pc'[b] \in {"relay", "write"} => pc'[b] = pc[b]
      BY QuietFlight DEF Carrying, Threads
    <2>2. UNCHANGED <<relay, targets, msg>>  BY DEF Quiet
    <2>3. ASSUME NEW m \in Managers, NEW b \in Broadcasters, NEW p \in targets[b], fd[m] # p[1]
          PROVE  fd'[m] # p[1]
      <3>1. p[1] \in FDs  BY DEF IndInv, TypeOK, LoopType
      <3>2. fd'[m] \in {fd[m], NoFd}  BY DEF Quiet, Conns
      <3> QED BY <2>3, <3>1, <3>2, ServerAssumption
    <2> QED BY <2>1, <2>2, <2>3 DEF TargetInv, RoutingInv
  <1> QED BY <1>1, <1>2, <1>3 DEF RoutingInv

(* accept(): the new descriptor belongs to nobody, and the new connection  *)
(* to no message.                                                          *)
LEMMA AcceptRouting ==
  ASSUME IndInv, RoutingInv, Accept
  PROVE  RoutingInv'
  <1>1. PICK u \in backlog, f \in FDs :
          /\ \A c \in Conns : fd[c] # f
          /\ backlog' = backlog \ {u} /\ fd' = [fd EXCEPT ![u] = f]
          /\ cur' = [cur EXCEPT ![Acceptor] = u]
    BY DEF Accept
  <1>2. /\ u \in Users /\ u \in Conns /\ u \notin Managers /\ client[u] = "none" /\ f # NoFd
        /\ peer[u] # "away"
    BY ServerAssumption DEF IndInv, TypeOK, KernelType, FreshInv, Conns
  <1>3. /\ pc[Acceptor] = "home" /\ pc' = [pc EXCEPT ![Acceptor] = "check"]
        /\ Acceptor \in Threads
        /\ UNCHANGED <<peer, written, client, m_pBroadcastQueue, msg, relay, targets>>
    BY DEF Accept, Goto, Threads, shared
  <1>4. \A t \in Threads : pc'[t] \in Carrying \/ pc[t] \in Carrying =>
          pc'[t] = pc[t] /\ cur'[t] = cur[t]
    BY <1>1, <1>3 DEF Carrying, IndInv, TypeOK, HandType
  <1>5. Flight' = Flight
    <2>1. {q \in Receivers : pc'[q] = "broadcast"} = {q \in Receivers : pc[q] = "broadcast"}
      BY <1>4 DEF Carrying, Threads
    <2>2. {a \in Broadcasters : pc'[a] \in {"relay", "write"}}
            = {a \in Broadcasters : pc[a] \in {"relay", "write"}}
      BY <1>4 DEF Carrying, Threads
    <2> QED BY <1>3, <2>1, <2>2 DEF Flight, Made, Queued, Sending, Places
  <1>6. FdInv'
    <2> USE DEF RoutingInv, FdInv
    <2>1. fd'[u] = f /\ \A c \in Conns : c # u => fd'[c] = fd[c]
      BY <1>1, <1>2 DEF IndInv, TypeOK, KernelType
    <2>2. \A c, d \in Conns : fd'[c] = fd'[d] /\ fd'[c] # NoFd => c = d
      BY <1>1, <2>1
    <2>3. \A m \in Managers : client'[m] # "freed" => fd'[m] # NoFd
      BY <1>2, <1>3, <2>1 DEF Conns
    <2>4. \A c \in Conns : c \in backlog' \/ peer'[c] = "away" => fd'[c] = NoFd /\ written'[c] = <<>>
      BY <1>1, <1>2, <1>3, <2>1
    <2>5. \A t \in Threads : pc'[t] = "check" => cur'[t] \in Users
      BY <1>1, <1>2, <1>3 DEF IndInv, TypeOK, HandType
    <2> QED BY <2>2, <2>3, <2>4, <2>5
  <1>7. MessageInv'
    <2>1. ASSUME NEW m \in Flight' PROVE Stamped(m)'
      <3>1. m \in Flight /\ Stamped(m) /\ m.from \in Conns
        BY <1>5, FlightType DEF RoutingInv, MessageInv
      <3>2. m.from # u  BY <1>2, <3>1 DEF Stamped
      <3>3. fd'[m.from] = fd[m.from] /\ client' = client
        BY <1>1, <1>3, <3>1, <3>2 DEF IndInv, TypeOK, KernelType
      <3> QED BY <3>1, <3>3 DEF Stamped
    <2> QED BY <1>3, <1>4, <2>1 DEF RoutingInv, MessageInv, Carrying
  <1>8. TargetInv'
    <2>1. \A b \in Broadcasters : pc'[b] \in {"relay", "write"} => pc'[b] = pc[b]
      BY <1>4 DEF Carrying, Threads
    <2>2. \A m \in Managers : fd'[m] = fd[m]
      BY <1>1, <1>2 DEF IndInv, TypeOK, KernelType
    <2> QED BY <1>3, <2>1, <2>2 DEF RoutingInv, TargetInv
  <1> QED BY <1>6, <1>7, <1>8 DEF RoutingInv

(* Steps that leave the sockets alone keep what is said of descriptors.    *)
LEMMA FdFrame ==
  ASSUME FdInv, UNCHANGED <<fd, client, backlog, peer>>,
         \A c \in Conns : fd[c] = NoFd => written'[c] = written[c],
         \A t \in Threads : pc'[t] = "check" => pc[t] = "check" /\ cur'[t] = cur[t]
  PROVE  FdInv'
BY DEF FdInv

(* ExecuteCommand makes a message of a live client.                        *)
LEMMA MakeRouting ==
  ASSUME IndInv, RoutingInv, NEW r \in Receivers, pc[r] = "exec",
         NEW m \in Messages, m.from = cur[r], m.fd = fd[cur[r]],
         m.relayed <=> cur[r] \in Managers,
         msg' = [msg EXCEPT ![r] = m], pc' = [pc EXCEPT ![r] = "broadcast"],
         UNCHANGED <<fd, client, backlog, peer, written, cur, m_pBroadcastQueue, relay, targets>>
  PROVE  RoutingInv' /\ Flight' \subseteq Flight \cup {m}
  <1>1. /\ r \in Threads /\ cur[r] \in Conns /\ client[cur[r]] = "live"
        /\ r \notin Broadcasters
    BY ServerAssumption, InHand DEF Threads, Holding, IndInv, TypeOK, NoUseAfterFree
  <1>2. /\ pc'[r] = "broadcast" /\ msg'[r] = m
        /\ \A t \in Threads : t # r => pc'[t] = pc[t] /\ msg'[t] = msg[t]
    BY <1>1 DEF IndInv, TypeOK, HandType, MessageType
  <1>3. Flight' \subseteq Flight \cup {m}
    <2>1. Made' \subseteq Made \cup {m}  BY <1>2 DEF Made, Threads
    <2>2. Sending' = Sending
      BY <1>1, <1>2, ServerAssumption DEF Sending, Threads
    <2> QED BY <2>1, <2>2 DEF Flight, Queued, Places
  <1>4. FdInv'  BY <1>2, FdFrame DEF RoutingInv
  <1>5. MessageInv'
    <2>1. ASSUME NEW n \in Flight' PROVE Stamped(n)'
      <3>1. CASE n = m  BY <1>1, <3>1 DEF Stamped
      <3>2. CASE n \in Flight
        BY <3>2, FlightType DEF Stamped, RoutingInv, MessageInv
      <3> QED BY <1>3, <3>1, <3>2
    <2> QED BY <1>1, <1>2, <2>1 DEF RoutingInv, MessageInv
  <1>6. TargetInv'
    BY <1>1, <1>2 DEF RoutingInv, TargetInv, Threads
  <1> QED BY <1>3, <1>4, <1>5, <1>6 DEF RoutingInv

LEMMA ExecuteUserRouting ==
  ASSUME IndInv, RoutingInv, NEW r \in Receivers, ExecuteUser(r)
  PROVE  RoutingInv'
  <1> DEFINE m == [from |-> cur[r], data |-> m_cCBuff[cur[r]], fd |-> fd[cur[r]], relayed |-> FALSE]
  <1>1. m \in Messages
    <2>1. r \in Threads /\ pc[r] \in Holding  BY DEF ExecuteUser, Threads, Holding
    <2>2. client[cur[r]] = "live" /\ cur[r] \in Conns
      BY <2>1, InHand DEF IndInv, TypeOK, NoUseAfterFree
    <2> QED BY <2>2 DEF Messages, IndInv, TypeOK, BufferType, KernelType, SocketInv, Live
  <1>2. /\ msg' = [msg EXCEPT ![r] = m] /\ pc' = [pc EXCEPT ![r] = "broadcast"] /\ pc[r] = "exec"
        /\ UNCHANGED <<fd, client, backlog, peer, written, cur, m_pBroadcastQueue, relay, targets>>
        /\ cur[r] \notin Managers
    BY ServerAssumption DEF ExecuteUser, Goto, net, shared
  <1>3. m.from = cur[r] /\ m.fd = fd[cur[r]] /\ m.relayed = FALSE  OBVIOUS
  <1> HIDE DEF m
  <1> QED BY <1>1, <1>2, <1>3, MakeRouting

(* ExecuteCommand of a manager's packet drops it or makes a message of it. *)
LEMMA ExecuteManagerCases ==
  ASSUME IndInv, NEW r \in Receivers, ExecuteManager(r)
  PROVE  \/ Quiet
         \/ /\ msg'[r] \in Messages /\ msg'[r].from = cur[r] /\ msg'[r].fd = fd[cur[r]]
            /\ msg'[r].relayed <=> cur[r] \in Managers
            /\ msg'[r].data = SubSeq(m_cCBuff[cur[r]], 1, PacketLen)
            /\ msg' = [msg EXCEPT ![r] = msg'[r]] /\ pc' = [pc EXCEPT ![r] = "broadcast"]
  <1>1. /\ r \in Threads /\ pc[r] = "exec" /\ cur[r] \in Managers
        /\ UNCHANGED <<fd, client, backlog, peer, written, cur, m_pBroadcastQueue, relay, targets>>
    BY DEF ExecuteManager, Threads, net, shared
  <1>2. CASE UNCHANGED <<msg, pc>>
    BY <1>1, <1>2 DEF Quiet, Conns
  <1>3. CASE ~UNCHANGED <<msg, pc>>
    <2> DEFINE m == [from |-> cur[r], data |-> SubSeq(m_cCBuff[cur[r]], 1, PacketLen),
                     fd |-> fd[cur[r]], relayed |-> TRUE]
    <2>1. msg' = [msg EXCEPT ![r] = m] /\ pc' = [pc EXCEPT ![r] = "broadcast"]
      BY <1>3 DEF ExecuteManager, Goto
    <2>2. /\ m.from = cur[r] /\ m.fd = fd[cur[r]] /\ m.relayed = TRUE
          /\ m.data = SubSeq(m_cCBuff[cur[r]], 1, PacketLen)
      OBVIOUS
    <2> HIDE DEF m
    <2>3. msg'[r] = m  BY <1>1, <2>1 DEF IndInv, TypeOK, MessageType
    <2>4. m \in Messages
      <3>1. pc'[r] = "broadcast"  BY <1>1, <2>1 DEF IndInv, TypeOK, HandType
      <3> QED BY <1>1, <2>3, <3>1, ExecuteManagerStep DEF IndInv, TypeOK, MessageType
    <2> QED BY <1>1, <2>1, <2>2, <2>3, <2>4
  <1> QED BY <1>2, <1>3

LEMMA ExecuteManagerRouting ==
  ASSUME IndInv, RoutingInv, NEW r \in Receivers, ExecuteManager(r)
  PROVE  RoutingInv'
  <1>1. CASE Quiet  BY <1>1, QuietRouting
  <1>2. CASE ~Quiet
    <2> DEFINE m == msg'[r]
    <2>1. /\ m \in Messages /\ m.from = cur[r] /\ m.fd = fd[cur[r]]
          /\ m.relayed <=> cur[r] \in Managers
          /\ msg' = [msg EXCEPT ![r] = m] /\ pc' = [pc EXCEPT ![r] = "broadcast"]
      BY <1>2, ExecuteManagerCases
    <2>2. /\ pc[r] = "exec"
          /\ UNCHANGED <<fd, client, backlog, peer, written, cur, m_pBroadcastQueue, relay, targets>>
      BY DEF ExecuteManager, net, shared
    <2> HIDE DEF m
    <2> QED BY <2>1, <2>2, MakeRouting
  <1> QED BY <1>1, <1>2

(* The messages in flight do not change when one is passed on.             *)
LEMMA PassRouting ==
  ASSUME IndInv, RoutingInv, NEW t \in Threads,
         Flight' \subseteq Flight,
         \A s \in Threads : s # t => pc'[s] = pc[s] /\ msg'[s] = msg[s],
         UNCHANGED <<fd, client, backlog, peer, cur>>,
         \A c \in Conns : fd[c] = NoFd => written'[c] = written[c],
         pc'[t] \notin {"check", "broadcast"},
         pc'[t] \in {"relay", "write"} => t \in Broadcasters,
         TargetInv'
  PROVE  RoutingInv'
  <1>1. FdInv'  BY FdFrame DEF RoutingInv
  <1>2. MessageInv'
    <2>1. ASSUME NEW n \in Flight' PROVE Stamped(n)'
      BY FlightType DEF Stamped, RoutingInv, MessageInv
    <2> QED BY <2>1 DEF RoutingInv, MessageInv
  <1> QED BY <1>1, <1>2 DEF RoutingInv

LEMMA PutBroadcastQueueFlight ==
  ASSUME IndInv, RoutingInv, NEW r \in Receivers, PutBroadcastQueue(r)
  PROVE  /\ Queued' = Queued \cup {msg[r]} /\ msg[r] \in Made /\ Made' \subseteq Made
         /\ Sending' = Sending
         /\ r \in Threads /\ r \notin Broadcasters /\ pc'[r] = "exec"
         /\ \A s \in Threads : s # r => pc'[s] = pc[s] /\ msg'[s] = msg[s]
         /\ UNCHANGED <<fd, client, backlog, peer, cur, written, relay, targets, sent, inbox, m_cCBuff>>
  <1>1. /\ r \in Threads /\ r \notin Broadcasters /\ pc[r] = "broadcast"
        /\ msg' = [msg EXCEPT ![r] = NoMsg] /\ pc' = [pc EXCEPT ![r] = "exec"]
        /\ m_pBroadcastQueue' = Append(m_pBroadcastQueue, msg[r])
        /\ UNCHANGED <<fd, client, backlog, peer, cur, written, relay, targets, sent, inbox, m_cCBuff>>
    BY ServerAssumption DEF PutBroadcastQueue, Goto, Threads, net, shared
  <1>2. pc'[r] = "exec" /\ \A s \in Threads : s # r => pc'[s] = pc[s] /\ msg'[s] = msg[s]
    BY <1>1 DEF IndInv, TypeOK, HandType, MessageType
  <1>3. msg[r] \in Messages /\ m_pBroadcastQueue \in Seq(Messages)
    BY <1>1 DEF IndInv, TypeOK, MessageType, QueueType
  <1>4. Queued' = Queued \cup {msg[r]}
    BY <1>1, <1>3, PlacesAppend DEF Queued
  <1>5. msg[r] \in Made /\ Made' \subseteq Made
    BY <1>1, <1>2 DEF Made, Threads
  <1>6. Sending' = Sending
    <2>1. {a \in Broadcasters : pc'[a] \in {"relay", "write"}}
            = {a \in Broadcasters : pc[a] \in {"relay", "write"}}
      BY <1>1, <1>2 DEF Threads
    <2>2. \A a \in Broadcasters : msg'[a] = msg[a]  BY <1>1, <1>2 DEF Threads
    <2> QED BY <2>1, <2>2 DEF Sending
  <1> QED BY <1>1, <1>2, <1>4, <1>5, <1>6

LEMMA PutBroadcastQueueRouting ==
  ASSUME IndInv, RoutingInv, NEW r \in Receivers, PutBroadcastQueue(r)
  PROVE  RoutingInv'
  <1>1. Flight' \subseteq Flight
    BY PutBroadcastQueueFlight DEF Flight
  <1>2. TargetInv'
    <2>1. \A b \in Broadcasters : pc'[b] = pc[b] /\ msg'[b] = msg[b]
      BY PutBroadcastQueueFlight DEF Threads
    <2> QED BY <2>1, PutBroadcastQueueFlight DEF RoutingInv, TargetInv
  <1> QED BY <1>1, <1>2, PutBroadcastQueueFlight, PassRouting

LEMMA GetBroadcastQueueFlight ==
  ASSUME IndInv, RoutingInv, NEW b \in Broadcasters, GetBroadcastQueue(b)
  PROVE  /\ b \in Threads /\ b \notin Receivers
         /\ msg'[b] = Head(m_pBroadcastQueue) /\ msg'[b] \in Queued /\ Queued' \subseteq Queued
         /\ Made' = Made /\ Sending' \subseteq Sending \cup {msg'[b]}
         /\ pc'[b] = "relay"
         /\ relay' = [relay EXCEPT ![b] = IF msg'[b].relayed THEN {} ELSE Managers]
         /\ \A s \in Threads : s # b => pc'[s] = pc[s] /\ msg'[s] = msg[s]
         /\ UNCHANGED <<fd, client, backlog, peer, cur, written, targets, sent, inbox, m_cCBuff>>
  <1> DEFINE m == Head(m_pBroadcastQueue)
  <1>1. /\ b \in Threads /\ b \notin Receivers
        /\ msg' = [msg EXCEPT ![b] = m] /\ pc' = [pc EXCEPT ![b] = "relay"]
        /\ relay' = [relay EXCEPT ![b] = IF m.relayed THEN {} ELSE Managers]
        /\ m_pBroadcastQueue # <<>> /\ m_pBroadcastQueue' = Tail(m_pBroadcastQueue)
        /\ UNCHANGED <<fd, client, backlog, peer, cur, written, targets, sent, inbox, m_cCBuff>>
    BY ServerAssumption DEF GetBroadcastQueue, Goto, Threads, net
  <1> HIDE DEF m
  <1>2. /\ pc'[b] = "relay" /\ msg'[b] = m
        /\ \A s \in Threads : s # b => pc'[s] = pc[s] /\ msg'[s] = msg[s]
    BY <1>1 DEF IndInv, TypeOK, HandType, MessageType
  <1>3. m \in Queued /\ Queued' \subseteq Queued
    <2>1. m_pBroadcastQueue \in Seq(Messages)  BY DEF IndInv, TypeOK, QueueType
    <2> QED BY <1>1, <2>1, PlacesTake DEF Queued, m
  <1>4. Made' = Made
    <2>1. {q \in Receivers : pc'[q] = "broadcast"} = {q \in Receivers : pc[q] = "broadcast"}
      BY <1>1, <1>2 DEF Threads
    <2>2. \A q \in Receivers : msg'[q] = msg[q]  BY <1>1, <1>2 DEF Threads
    <2> QED BY <2>1, <2>2 DEF Made
  <1>5. Sending' \subseteq Sending \cup {m}  BY <1>2 DEF Sending, Threads
  <1> QED BY <1>1, <1>2, <1>3, <1>4, <1>5 DEF m

LEMMA GetBroadcastQueueRouting ==
  ASSUME IndInv, RoutingInv, NEW b \in Broadcasters, GetBroadcastQueue(b)
  PROVE  RoutingInv'
  <1>1. Flight' \subseteq Flight
    BY GetBroadcastQueueFlight DEF Flight
  <1>2. TargetInv'
    <2>1. Stamped(msg'[b]) /\ msg'[b].from \in Conns
      BY GetBroadcastQueueFlight, FlightType DEF RoutingInv, MessageInv, Flight
    <2>2. relay'[b] = IF msg'[b].relayed THEN {} ELSE Managers
      BY GetBroadcastQueueFlight DEF IndInv, TypeOK, LoopType
    <2>3. relay'[b] # {} => msg'[b].from \in Users
      BY <2>1, <2>2 DEF Stamped, Conns
    <2>4. \A a \in Broadcasters : a # b => pc'[a] = pc[a] /\ msg'[a] = msg[a] /\ relay'[a] = relay[a]
      BY GetBroadcastQueueFlight DEF Threads, IndInv, TypeOK, LoopType
    <2>5. pc'[b] = "relay" /\ UNCHANGED <<targets, fd>>
      BY GetBroadcastQueueFlight
    <2> QED BY <2>3, <2>4, <2>5 DEF RoutingInv, TargetInv
  <1> QED BY <1>1, <1>2, GetBroadcastQueueFlight, PassRouting

(* A write goes to the owner of the descriptor, if there is one.           *)
LEMMA WriteEffect ==
  ASSUME IndInv, FdInv, NEW f, NEW m \in Messages, Write(f, m)
  PROVE  \/ UNCHANGED written
         \/ \E c \in Conns, n \in 0 .. Len(m.data) :
              /\ f # NoFd /\ fd[c] = f
              /\ written' = [written EXCEPT ![c] = @ \o [i \in 1 .. n |-> <<m.from, m.data[i]>>]]
BY DEF Write

LEMMA RelayToManagerRouting ==
  ASSUME IndInv, RoutingInv, NEW b \in Broadcasters, NEW m \in Managers, RelayToManager(b, m)
  PROVE  RoutingInv'
  <1>1. /\ pc[b] = "relay" /\ b \in Threads
        /\ relay' = [relay EXCEPT ![b] = @ \ {m}] /\ m \in relay[b]
        /\ UNCHANGED <<fd, client, backlog, peer, cur, pc, msg, m_pBroadcastQueue, targets>>
        /\ \E f : Write(f, msg[b])
    BY DEF RelayToManager, Threads, net, shared
  <1>2. \A c \in Conns : fd[c] = NoFd => written'[c] = written[c]
    <2>1. msg[b] \in Messages  BY <1>1 DEF IndInv, TypeOK, MessageType
    <2> QED BY <1>1, <2>1, WriteEffect DEF RoutingInv, IndInv, TypeOK, BufferType
  <1>3. Flight' = Flight
    BY <1>1 DEF Flight, Made, Queued, Sending, Places
  <1>4. TargetInv'
    <2>1. relay'[b] = relay[b] \ {m} /\ \A a \in Broadcasters : a # b => relay'[a] = relay[a]
      BY <1>1 DEF IndInv, TypeOK, LoopType
    <2> QED BY <1>1, <2>1 DEF RoutingInv, TargetInv
  <1> QED BY <1>1, <1>2, <1>3, <1>4, PassRouting

LEMMA GetBroadcastTargetsRouting ==
  ASSUME IndInv, RoutingInv, NEW b \in Broadcasters, GetBroadcastTargets(b)
  PROVE  RoutingInv'
  <1>1. /\ pc[b] = "relay" /\ b \in Threads /\ b \notin Receivers
        /\ targets' = [targets EXCEPT ![b] = Targets(msg[b])] /\ pc' = [pc EXCEPT ![b] = "write"]
        /\ UNCHANGED <<fd, client, backlog, peer, cur, written, msg, m_pBroadcastQueue, relay>>
    BY ServerAssumption DEF GetBroadcastTargets, Threads, Goto, net, shared
  <1>2. /\ pc'[b] = "write" /\ \A s \in Threads : s # b => pc'[s] = pc[s]
        /\ targets'[b] = Targets(msg[b])
        /\ \A a \in Broadcasters : a # b => targets'[a] = targets[a]
    BY <1>1 DEF IndInv, TypeOK, HandType, LoopType
  <1>3. Flight' = Flight
    <2>1. Made' = Made
      <3>1. {q \in Receivers : pc'[q] = "broadcast"} = {q \in Receivers : pc[q] = "broadcast"}
        BY <1>1, <1>2 DEF Threads
      <3> QED BY <1>1, <3>1 DEF Made
    <2>2. Sending' = Sending
      <3>1. {a \in Broadcasters : pc'[a] \in {"relay", "write"}}
              = {a \in Broadcasters : pc[a] \in {"relay", "write"}}
        BY <1>1, <1>2 DEF Threads
      <3> QED BY <1>1, <3>1 DEF Sending
    <2> QED BY <1>1, <2>1, <2>2 DEF Flight, Queued, Places
  <1>4. ASSUME NEW p \in targets'[b]
        PROVE  /\ p[1] # msg[b].fd /\ \A m \in Managers : fd[m] # p[1]
               /\ \A q \in targets'[b] : p[1] = q[1] => p = q
    <2>1. PICK d \in m_lstClient : d \in Users /\ fd[d] # msg[b].fd /\ p = <<fd[d], d>>
      BY <1>2 DEF Targets
    <2>2. d \in Conns /\ fd[d] # NoFd
      BY DEF IndInv, NoUseAfterFree, SocketInv, Live
    <2>3. \A m \in Managers : fd[m] # p[1]
      <3>1. \A m \in Managers : m \in Conns /\ m # d  BY <2>1, ServerAssumption DEF Conns
      <3> QED BY <2>1, <2>2, <3>1 DEF RoutingInv, FdInv
    <2>4. ASSUME NEW q \in targets'[b], p[1] = q[1] PROVE p = q
      <3>1. PICK e \in m_lstClient : e \in Users /\ q = <<fd[e], e>>
        BY <1>2 DEF Targets
      <3>2. fd[d] = fd[e] /\ e \in Conns  BY <2>1, <2>4, <3>1 DEF Conns
      <3>3. d = e  BY <2>2, <3>2 DEF RoutingInv, FdInv
      <3> QED BY <2>1, <3>1, <3>3
    <2> QED BY <2>1, <2>3, <2>4
  <1>5. TargetInv'
    <2>1. \A a \in Broadcasters : a # b => pc'[a] = pc[a] /\ targets'[a] = targets[a]
      BY <1>2 DEF Threads
    <2> QED BY <1>1, <1>2, <1>4, <2>1 DEF RoutingInv, TargetInv
  <1> QED BY <1>1, <1>2, <1>3, <1>5, PassRouting

LEMMA WriteToTargetRouting ==
  ASSUME IndInv, RoutingInv, NEW b \in Broadcasters, NEW p \in targets[b], WriteToTarget(b, p)
  PROVE  RoutingInv'
  <1>1. /\ pc[b] = "write" /\ b \in Threads
        /\ targets' = [targets EXCEPT ![b] = @ \ {p}]
        /\ UNCHANGED <<fd, client, backlog, peer, cur, pc, msg, m_pBroadcastQueue, relay>>
        /\ Write(p[1], msg[b])
    BY DEF WriteToTarget, Threads, net, shared
  <1>2. \A c \in Conns : fd[c] = NoFd => written'[c] = written[c]
    <2>1. msg[b] \in Messages  BY <1>1 DEF IndInv, TypeOK, MessageType
    <2> QED BY <1>1, <2>1, WriteEffect DEF RoutingInv, IndInv, TypeOK, BufferType
  <1>3. Flight' = Flight
    BY <1>1 DEF Flight, Made, Queued, Sending, Places
  <1>4. TargetInv'
    <2>1. targets'[b] = targets[b] \ {p}
          /\ \A a \in Broadcasters : a # b => targets'[a] = targets[a]
      BY <1>1 DEF IndInv, TypeOK, LoopType
    <2> QED BY <1>1, <2>1 DEF RoutingInv, TargetInv
  <1> QED BY <1>1, <1>2, <1>3, <1>4, PassRouting

LEMMA BroadcastDoneFlight ==
  ASSUME IndInv, NEW b \in Broadcasters, BroadcastDone(b)
  PROVE  /\ b \in Threads /\ pc'[b] = "home" /\ Made' = Made /\ Queued' = Queued
         /\ Sending' \subseteq Sending
         /\ \A s \in Threads : s # b => pc'[s] = pc[s] /\ msg'[s] = msg[s]
         /\ UNCHANGED <<fd, client, backlog, peer, cur, written, relay, targets, sent, inbox,
                        m_cCBuff, m_pBroadcastQueue>>
  <1>1. /\ b \in Threads /\ b \notin Receivers
        /\ msg' = [msg EXCEPT ![b] = NoMsg] /\ pc' = [pc EXCEPT ![b] = "home"]
        /\ UNCHANGED <<fd, client, backlog, peer, cur, written, relay, targets, sent, inbox,
                       m_cCBuff, m_pBroadcastQueue>>
    BY ServerAssumption DEF BroadcastDone, Threads, Goto, net, shared
  <1>2. /\ pc'[b] = "home"
        /\ \A s \in Threads : s # b => pc'[s] = pc[s] /\ msg'[s] = msg[s]
    BY <1>1 DEF IndInv, TypeOK, HandType, MessageType
  <1>3. Made' = Made
    <2>1. {q \in Receivers : pc'[q] = "broadcast"} = {q \in Receivers : pc[q] = "broadcast"}
      BY <1>1, <1>2 DEF Threads
    <2>2. \A q \in Receivers : msg'[q] = msg[q]  BY <1>1, <1>2 DEF Threads
    <2> QED BY <2>1, <2>2 DEF Made
  <1>4. Sending' \subseteq Sending  BY <1>2 DEF Sending, Threads
  <1> QED BY <1>1, <1>2, <1>3, <1>4 DEF Queued, Places

LEMMA BroadcastDoneRouting ==
  ASSUME IndInv, RoutingInv, NEW b \in Broadcasters, BroadcastDone(b)
  PROVE  RoutingInv'
  <1>1. Flight' \subseteq Flight  BY BroadcastDoneFlight DEF Flight
  <1>2. TargetInv'
    <2>1. \A a \in Broadcasters : a # b => pc'[a] = pc[a] /\ msg'[a] = msg[a]
      BY BroadcastDoneFlight DEF Threads
    <2> QED BY <2>1, BroadcastDoneFlight DEF RoutingInv, TargetInv
  <1> QED BY <1>1, <1>2, BroadcastDoneFlight, PassRouting

(* No step breaks what routing rests on, whichever sockets are gone.       *)
LEMMA SharedQuiet ==
  ASSUME IndInv, NEW t \in Threads, AcceptClient(t) \/ CloseClient(t)
  PROVE  Quiet
  BY AcceptClientQuiet, CloseClientQuiet

LEMMA RoutingInductive ==
  ASSUME IndInv, RoutingInv, [Next]_vars
  PROVE  RoutingInv'
  <1>1. CASE UNCHANGED vars
    BY <1>1, QuietRouting DEF Quiet, vars, net, shared, Conns
  <1>2. CASE Peers
    BY <1>2, PeersQuiet, QuietRouting
  <1>3. CASE AcceptorStep
    <2>1. Acceptor \in Threads  BY DEF Threads
    <2> QED BY <1>3, <2>1, AcceptRouting, AcceptorQuiet, SharedQuiet, QuietRouting
            DEF AcceptorStep, RoutingInv
  <1>4. CASE MainStep
    <2>1. Main \in Threads  BY DEF Threads
    <2> QED BY <1>4, <2>1, MainQuiet, SharedQuiet, QuietRouting DEF MainStep
  <1>5. ASSUME NEW r \in Receivers, ReceiverStep(r)
        PROVE  RoutingInv'
    <2>1. r \in Threads  BY DEF Threads
    <2> QED BY <1>5, <2>1, ReceiverQuiet, SharedQuiet, QuietRouting, ExecuteUserRouting,
               ExecuteManagerRouting, PutBroadcastQueueRouting DEF ReceiverStep, Fetching
  <1>6. ASSUME NEW b \in Broadcasters, BroadcasterStep(b)
        PROVE  RoutingInv'
    BY <1>6, GetBroadcastQueueRouting, RelayToManagerRouting, GetBroadcastTargetsRouting,
       WriteToTargetRouting, BroadcastDoneRouting DEF BroadcasterStep
  <1> QED BY <1>1, <1>2, <1>3, <1>4, <1>5, <1>6 DEF Next

LEMMA RoutingInitially == Init => RoutingInv
  <1> SUFFICES ASSUME Init PROVE RoutingInv  OBVIOUS
  <1>1. Flight = {} /\ \A t \in Threads : pc[t] = "home"
    <2>1. \A t \in Threads : pc[t] = "home"  BY DEF Init
    <2>2. Made = {} /\ Sending = {}  BY <2>1 DEF Made, Sending, Threads
    <2>3. Queued = {}  BY DEF Init, Queued, Places
    <2> QED BY <2>1, <2>2, <2>3 DEF Flight
  <1>2. FdInv
    BY <1>1, ServerAssumption DEF Init, FdInv, Conns
  <1>3. MessageInv /\ TargetInv
    BY <1>1 DEF MessageInv, TargetInv, Threads
  <1> QED BY <1>2, <1>3 DEF RoutingInv

(* What is written to a connection after a write of n chunks of m.         *)
LEMMA WrittenItems ==
  ASSUME BufferType, NEW c \in Conns, NEW m \in Messages, NEW n \in 0 .. Len(m.data),
         written' = [written EXCEPT ![c] = @ \o [i \in 1 .. n |-> <<m.from, m.data[i]>>]]
  PROVE  /\ Len(written[c]) \in Nat /\ Len(written'[c]) = Len(written[c]) + n
         /\ \A i \in 1 .. Len(written[c]) : written'[c][i] = written[c][i]
         /\ \A i \in 1 .. Len(written'[c]) : i > Len(written[c]) =>
              /\ i - Len(written[c]) \in 1 .. n
              /\ written'[c][i] = <<m.from, m.data[i - Len(written[c])]>>
         /\ \A d \in Conns : d # c => written'[d] = written[d]
  <1> DEFINE new == [i \in 1 .. n |-> <<m.from, m.data[i]>>]
  <1>1. m.from \in Conns /\ m.data \in Seq(Chunks) /\ Len(m.data) \in Nat
    BY LenProperties DEF Messages
  <1>2. new \in Seq(Conns \X Chunks) /\ Len(new) = n /\ written[c] \in Seq(Conns \X Chunks)
    <2>1. \A i \in 1 .. n : m.data[i] \in Chunks  BY <1>1, ElementOfSeq
    <2>2. new \in Seq(Conns \X Chunks)  BY <1>1, <2>1
    <2>3. n \in Nat /\ DOMAIN new = 1 .. n  BY <1>1
    <2>4. Len(new) = n  BY <2>2, <2>3, LenProperties
    <2> QED BY <2>2, <2>4 DEF BufferType
  <1>3. \A i \in 1 .. n : new[i] = <<m.from, m.data[i]>>  OBVIOUS
  <1>4. written'[c] = written[c] \o new /\ \A d \in Conns : d # c => written'[d] = written[d]
    BY DEF BufferType
  <1> HIDE DEF new
  <1>5. /\ Len(written[c] \o new) = Len(written[c]) + n /\ Len(written[c]) \in Nat
        /\ \A i \in 1 .. Len(written[c]) + n :
             (written[c] \o new)[i] = IF i <= Len(written[c]) THEN written[c][i]
                                      ELSE new[i - Len(written[c])]
    BY <1>2, ConcatProperties, LenProperties
  <1>6. n \in Nat  BY <1>1
  <1> QED BY <1>3, <1>4, <1>5, <1>6

LEMMA WriteRouted ==
  ASSUME BufferType, NoEcho, NoRelayLoop,
         NEW c \in Conns, NEW m \in Messages, NEW n \in 0 .. Len(m.data),
         written' = [written EXCEPT ![c] = @ \o [i \in 1 .. n |-> <<m.from, m.data[i]>>]],
         m.from # c, c \in Managers => m.from \in Users
  PROVE  NoEcho' /\ NoRelayLoop'
  <1>1. \A i \in 1 .. Len(written'[c]) :
          \/ i \in 1 .. Len(written[c]) /\ written'[c][i] = written[c][i]
          \/ written'[c][i][1] = m.from
    <2> SUFFICES ASSUME NEW i \in 1 .. Len(written'[c])
                 PROVE  \/ i \in 1 .. Len(written[c]) /\ written'[c][i] = written[c][i]
                        \/ written'[c][i][1] = m.from
      OBVIOUS
    <2>1. CASE i <= Len(written[c])  BY <2>1, WrittenItems
    <2>2. CASE ~(i <= Len(written[c]))
      <3>1. i > Len(written[c])  BY <2>2, WrittenItems
      <3> QED BY <3>1, WrittenItems
    <2> QED BY <2>1, <2>2
  <1>2. \A d \in Conns : d # c => written'[d] = written[d]  BY WrittenItems
  <1> QED BY <1>1, <1>2 DEF NoEcho, NoRelayLoop, Conns

(* A write of a broadcaster that reaches a connection reaches a manager    *)
(* that it relays to, or one that is neither a manager nor the sender.     *)
LEMMA RelayRouted ==
  ASSUME IndInv, RoutingInv, ManagersOpen, NoEcho, NoRelayLoop,
         NEW b \in Broadcasters, NEW m \in Managers, RelayToManager(b, m)
  PROVE  NoEcho' /\ NoRelayLoop'
  <1>1. msg[b] \in Messages /\ msg[b].from \in Users /\ Write(fd[m], msg[b])
    BY DEF RelayToManager, RoutingInv, TargetInv, ManagersOpen, IndInv, TypeOK, MessageType, Threads
  <1>2. m \in Conns /\ m \notin Users  BY ServerAssumption DEF Conns
  <1>3. CASE UNCHANGED written  BY <1>3 DEF NoEcho, NoRelayLoop
  <1>4. ASSUME NEW c \in Conns, NEW n \in 0 .. Len(msg[b].data), fd[m] # NoFd, fd[c] = fd[m],
               written' = [written EXCEPT ![c] = @ \o [i \in 1 .. n |-> <<msg[b].from, msg[b].data[i]>>]]
        PROVE  NoEcho' /\ NoRelayLoop'
    <2>1. c = m  BY <1>2, <1>4 DEF RoutingInv, FdInv
    <2>2. msg[b].from # c  BY <1>1, <1>2, <2>1
    <2> QED BY <1>1, <1>4, <2>2, WriteRouted DEF IndInv, TypeOK
  <1> QED BY <1>1, <1>3, <1>4, WriteEffect DEF RoutingInv

LEMMA TargetRouted ==
  ASSUME IndInv, RoutingInv, NoEcho, NoRelayLoop,
         NEW b \in Broadcasters, NEW p \in targets[b], WriteToTarget(b, p)
  PROVE  NoEcho' /\ NoRelayLoop'
  <1>1. /\ msg[b] \in Messages /\ Write(p[1], msg[b]) /\ pc[b] = "write" /\ p[1] \in FDs
        /\ msg[b] \in Sending
    BY DEF WriteToTarget, IndInv, TypeOK, MessageType, Threads, LoopType, Sending
  <1>2. CASE UNCHANGED written  BY <1>2 DEF NoEcho, NoRelayLoop
  <1>3. ASSUME NEW c \in Conns, NEW n \in 0 .. Len(msg[b].data), fd[c] = p[1],
               written' = [written EXCEPT ![c] = @ \o [i \in 1 .. n |-> <<msg[b].from, msg[b].data[i]>>]]
        PROVE  NoEcho' /\ NoRelayLoop'
    <2>1. p[1] # msg[b].fd /\ \A m \in Managers : fd[m] # p[1]
      BY <1>1 DEF RoutingInv, TargetInv
    <2>2. fd[msg[b].from] \in {msg[b].fd, NoFd}
      BY <1>1 DEF RoutingInv, MessageInv, Stamped, Flight
    <2>3. msg[b].from # c /\ c \notin Managers
      BY <1>1, <1>3, <2>1, <2>2, ServerAssumption
    <2> QED BY <1>1, <1>3, <2>3, WriteRouted DEF IndInv, TypeOK
  <1> QED BY <1>1, <1>2, <1>3, WriteEffect DEF RoutingInv

(* Only broadcasters write.                                                *)
LEMMA OnlyBroadcastersWrite ==
  ASSUME [Next]_vars, ~(UNCHANGED written)
  PROVE  \E b \in Broadcasters : \/ \E m \in Managers : RelayToManager(b, m)
                                 \/ \E p \in targets[b] : WriteToTarget(b, p)
  <1>1. ~(UNCHANGED vars)  BY DEF vars
  <1>2. ~Peers  BY DEF Peers, Connect, Send, Close, Reset, Internals
  <1>3. \A t : ~AcceptClient(t) /\ ~CloseClient(t)
    BY DEF AcceptClient, AcceptLoad, AcceptStore, AcceptPush, AcceptAdd, AcceptAddFails,
           CloseClient, CloseDel, CloseFree, CloseLoad, CloseStore
  <1>4. ~AcceptorStep
    BY <1>3 DEF AcceptorStep, Accept, RefuseClient, AdmitClient
  <1>5. ~MainStep
    BY <1>3 DEF MainStep, RegisterManager, Polling, ErrorEvent, ReadEvent, PutReceiveQueue
  <1>6. \A r : ~ReceiverStep(r)
    BY <1>3 DEF ReceiverStep, GetReceiveQueue, FillFromSocket, Available, ReadAll, ReadFails,
               ExecuteUser, ExecuteManager, PutBroadcastQueue, ExecuteDone, AddEPoll, AddEPollFails
  <1>7. \A b : ~GetBroadcastQueue(b) /\ ~GetBroadcastTargets(b) /\ ~BroadcastDone(b)
    BY DEF GetBroadcastQueue, GetBroadcastTargets, BroadcastDone
  <1> QED BY <1>1, <1>2, <1>4, <1>5, <1>6, <1>7 DEF Next, BroadcasterStep

RoutedInv == IndInv /\ RoutingInv /\ NoEcho /\ NoRelayLoop

LEMMA RoutedInductive == RoutedInv /\ ManagersOpen /\ [Next]_vars => RoutedInv'
  <1> SUFFICES ASSUME RoutedInv, ManagersOpen, [Next]_vars PROVE RoutedInv'  OBVIOUS
  <1>1. IndInv' /\ RoutingInv'  BY Inductive, RoutingInductive DEF RoutedInv
  <1>2. NoEcho' /\ NoRelayLoop'
    <2>1. CASE UNCHANGED written  BY <2>1 DEF RoutedInv, NoEcho, NoRelayLoop
    <2>2. CASE ~(UNCHANGED written)
      BY <2>2, OnlyBroadcastersWrite, RelayRouted, TargetRouted DEF RoutedInv
    <2> QED BY <2>1, <2>2
  <1> QED BY <1>1, <1>2 DEF RoutedInv

LEMMA RoutedAlways == Spec /\ []ManagersOpen => []RoutedInv
  <1>1. Init => RoutedInv
    <2> SUFFICES ASSUME Init PROVE RoutedInv  OBVIOUS
    <2>1. NoEcho /\ NoRelayLoop  BY DEF Init, NoEcho, NoRelayLoop, Conns
    <2> QED BY <2>1, Initially, RoutingInitially DEF RoutedInv
  <1> QED BY <1>1, RoutedInductive, PTL DEF Spec

(* As long as the managers' sockets are open, no user is sent its own text *)
(* (MessageBroadcast compares descriptors, and those of users that have    *)
(* left are handed out again), for any number of broadcasters.             *)
THEOREM SenderLeftOut == Spec /\ []ManagersOpen => []NoEcho
  <1>1. RoutedInv => NoEcho  BY DEF RoutedInv
  <1> QED BY RoutedAlways, <1>1, PTL

(* As long as the managers' sockets are open, what a manager sends reaches *)
(* no manager (RELAYED_MESSAGE in ChatUser::ExecuteCommand).               *)
THEOREM RelayedOnce == Spec /\ []ManagersOpen => []NoRelayLoop
  <1>1. RoutedInv => NoRelayLoop  BY DEF RoutedInv
  <1> QED BY RoutedAlways, <1>1, PTL

(***************************************************************************)
(* Order: with one broadcaster a sender's text arrives as it was sent.     *)
(***************************************************************************)
OneBroadcaster == \A a, b \in Broadcasters : a = b

(* Buffers grow by what a peer sends next, and shrink otherwise.           *)
Onward == \A s \in Conns : /\ sent[s] <= sent'[s]
                           /\ \A x \in Buffered(s)' : x \in Buffered(s) \/ x > sent[s]

LEMMA TextType ==
  ASSUME BufferType, NEW c \in Conns, NEW s
  PROVE  Text(c, s) \subseteq Chunks
  <1>1. \A i \in 1 .. Len(written[c]) : written[c][i] \in Conns \X Chunks
    BY ElementOfSeq DEF BufferType
  <1> QED BY <1>1 DEF Text

LEMMA BufferedType ==
  ASSUME BufferType, NEW s \in Conns
  PROVE  Buffered(s) \subseteq Chunks
  <1>1. m_cCBuff[s] \in Seq(Chunks) /\ inbox[s] \in Seq(Chunks)  BY DEF BufferType
  <1> QED BY <1>1, ElementOfSeq DEF Buffered, Places

LEMMA DataType ==
  ASSUME NEW m \in Messages
  PROVE  Places(m.data) \subseteq Chunks /\ m.from \in Conns
  <1>1. m.data \in Seq(Chunks) /\ m.from \in Conns  BY DEF Messages
  <1> QED BY <1>1, ElementOfSeq DEF Places

LEMMA EarlierOnward ==
  ASSUME IndInv, IndInv', Onward, NEW s \in Conns, NEW X, X \subseteq Chunks, Earlier(X, s)
  PROVE  \A x \in X : x <= sent'[s] /\ \A y \in Buffered(s)' : x < y
  <1>1. sent[s] \in Int /\ sent'[s] \in Int /\ sent[s] <= sent'[s]
    BY DEF IndInv, TypeOK, KernelType, Onward
  <1>2. Buffered(s)' \subseteq Chunks
    <2>1. BufferType'  BY DEF IndInv, TypeOK
    <2>2. m_cCBuff'[s] \in Seq(Chunks) /\ inbox'[s] \in Seq(Chunks)  BY <2>1 DEF BufferType
    <2> QED BY <2>2, ElementOfSeq DEF Buffered, Places
  <1> SUFFICES ASSUME NEW x \in X PROVE x <= sent'[s] /\ \A y \in Buffered(s)' : x < y
    OBVIOUS
  <1>3. x \in Int /\ x <= sent[s] /\ \A y \in Buffered(s) : x < y
    BY DEF Earlier, Below, Chunks
  <1>4. ASSUME NEW y \in Buffered(s)' PROVE x < y
    <2>1. y \in Int  BY <1>2 DEF Chunks
    <2>2. y \in Buffered(s) \/ y > sent[s]  BY DEF Onward
    <2> QED BY <1>1, <1>3, <2>1, <2>2
  <1> QED BY <1>1, <1>3, <1>4

(* Steps that make, take up and write nothing.                             *)
LEMMA OrderFrame ==
  ASSUME IndInv, IndInv', OrderInv, BuffersInv', Onward,
         Made' \subseteq Made, Sending' \subseteq Sending, UNCHANGED <<written, m_pBroadcastQueue>>,
         \A b \in Broadcasters : pc'[b] \in {"relay", "write"} =>
           /\ pc[b] \in {"relay", "write"} /\ msg'[b] = msg[b]
           /\ \A c \in Owed(b)' : c \in Owed(b) \/ (c \in Conns /\ written[c] = <<>>)
  PROVE  OrderInv'
  <1> USE DEF OrderInv
  <1>1. \A c, s : Text(c, s)' = Text(c, s)  BY DEF Text
  <1>2. Queued' = Queued /\ Flight' \subseteq Flight  BY DEF Queued, Flight, Places
  <1>3. TakenInv'
    <2>1. ASSUME NEW m \in Flight' PROVE Increasing(m.data)' /\ Earlier(Places(m.data), m.from)'
      <3>1. m \in Flight /\ m \in Messages  BY <1>2, FlightType
      <3>2. Increasing(m.data) /\ Earlier(Places(m.data), m.from)  BY <3>1 DEF TakenInv
      <3>3. \A x \in Places(m.data) : x <= sent'[m.from] /\ \A y \in Buffered(m.from)' : x < y
        BY <3>1, <3>2, DataType, EarlierOnward
      <3>4. Increasing(m.data)'  BY <3>2 DEF Increasing
      <3> QED BY <3>3, <3>4 DEF Earlier, Below, Places
    <2>2. ASSUME NEW c \in Conns, NEW s \in Conns PROVE Earlier(Text(c, s), s)'
      <3>1. Earlier(Text(c, s), s) /\ Text(c, s) \subseteq Chunks
        BY TextType DEF TakenInv, IndInv, TypeOK
      <3>2. \A x \in Text(c, s) : x <= sent'[s] /\ \A y \in Buffered(s)' : x < y
        BY <3>1, EarlierOnward
      <3> QED BY <1>1, <3>2 DEF Earlier, Below
    <2> QED BY <2>1, <2>2 DEF TakenInv
  <1>4. PipeInv'
    BY <1>2 DEF PipeInv, Precedes, Below, Places
  <1>5. SentInv'
    <2>1. \A c \in Conns, n \in Queued' \cup Made' : Below(Text(c, n.from)', Places(n.data)')
      BY <1>1, <1>2 DEF SentInv, Below, Places
    <2>2. ASSUME NEW b \in Broadcasters, pc'[b] \in {"relay", "write"}, NEW c \in Owed(b)'
          PROVE  Below(Text(c, msg[b].from), Places(msg[b].data))'
      <3>1. msg'[b] = msg[b]  BY <2>2
      <3>2. CASE c \in Owed(b)
        BY <1>1, <2>2, <3>1, <3>2 DEF SentInv, Below, Places
      <3>3. CASE c \in Conns /\ written[c] = <<>>
        BY <1>1, <3>3 DEF Below, Text
      <3> QED BY <2>2, <3>2, <3>3
    <2> QED BY <2>1, <2>2 DEF SentInv, Below
  <1>6. SenderOrder'  BY DEF SenderOrder
  <1> QED BY <1>3, <1>4, <1>5, <1>6

LEMMA QuietOrder ==
  ASSUME IndInv, IndInv', OrderInv, Quiet, BuffersInv', Onward
  PROVE  OrderInv'
  <1>1. ASSUME NEW b \in Broadcasters, pc'[b] \in {"relay", "write"}
        PROVE  pc'[b] = pc[b] /\ \A c \in Owed(b)' : c \in Owed(b)
    <2>1. pc'[b] = pc[b]  BY <1>1, QuietFlight DEF Carrying, Threads
    <2>2. UNCHANGED <<relay, targets>> /\ \A c \in Conns : fd'[c] \in {fd[c], NoFd}
      BY DEF Quiet
    <2>3. \A p \in targets[b] : p[1] \in FDs  BY DEF IndInv, TypeOK, LoopType
    <2> QED BY <1>1, <2>1, <2>2, <2>3, ServerAssumption DEF Owed
  <1>2. Made' = Made /\ Sending' = Sending /\ UNCHANGED <<written, m_pBroadcastQueue, msg>>
    BY QuietFlight DEF Quiet
  <1> QED BY <1>1, <1>2, OrderFrame

(***************************************************************************)
(* The buffers.                                                            *)
(***************************************************************************)
Drained == \A c \in Conns : /\ m_cCBuff'[c] \in {m_cCBuff[c], <<>>}
                            /\ inbox'[c] \in {inbox[c], <<>>} /\ sent'[c] = sent[c]

LEMMA DrainedBuffers ==
  ASSUME IndInv, BuffersInv, Drained
  PROVE  BuffersInv' /\ Onward /\ \A s \in Conns : Buffered(s)' \subseteq Buffered(s)
  <1> SUFFICES ASSUME NEW s \in Conns
               PROVE  /\ (/\ Increasing(m_cCBuff[s]) /\ Increasing(inbox[s])
                          /\ Below(Places(m_cCBuff[s]), Places(inbox[s]))
                          /\ \A x \in Buffered(s) : x <= sent[s])'
                      /\ sent[s] <= sent'[s] /\ Buffered(s)' \subseteq Buffered(s)
    BY DEF BuffersInv, Onward
  <1>1. /\ Increasing(m_cCBuff[s]) /\ Increasing(inbox[s])
        /\ Below(Places(m_cCBuff[s]), Places(inbox[s]))
        /\ \A x \in Buffered(s) : x <= sent[s]
    BY DEF BuffersInv
  <1>2. /\ m_cCBuff'[s] \in {m_cCBuff[s], <<>>} /\ inbox'[s] \in {inbox[s], <<>>}
        /\ sent'[s] = sent[s] /\ sent[s] \in Nat
    BY DEF Drained, IndInv, TypeOK, KernelType
  <1>3. Places(<<>>) = {} /\ Increasing(<<>>)  BY DEF Places, Increasing
  <1>4. Increasing(m_cCBuff'[s]) /\ Increasing(inbox'[s])  BY <1>1, <1>2, <1>3
  <1>5. Places(m_cCBuff'[s]) \subseteq Places(m_cCBuff[s])
        /\ Places(inbox'[s]) \subseteq Places(inbox[s])
    BY <1>2, <1>3
  <1>6. Places(m_cCBuff[s])' = Places(m_cCBuff'[s]) /\ Places(inbox[s])' = Places(inbox'[s])
        /\ Increasing(m_cCBuff[s])' = Increasing(m_cCBuff'[s])
        /\ Increasing(inbox[s])' = Increasing(inbox'[s])
    BY DEF Places, Increasing
  <1>7. Buffered(s)' \subseteq Buffered(s)  BY <1>5, <1>6 DEF Buffered
  <1>8. Below(Places(m_cCBuff[s]), Places(inbox[s]))'  BY <1>1, <1>5, <1>6 DEF Below
  <1> QED BY <1>1, <1>2, <1>4, <1>6, <1>7, <1>8

LEMMA SendBuffers ==
  ASSUME IndInv, BuffersInv, NEW c \in Conns, Send(c)
  PROVE  BuffersInv' /\ Onward
  <1> DEFINE k == sent[c] + 1
  <1>1. /\ sent' = [sent EXCEPT ![c] = k] /\ m_cCBuff' = m_cCBuff
        /\ inbox' = [inbox EXCEPT ![c] = Append(inbox[c], k)]
        /\ sent[c] \in Nat /\ inbox[c] \in Seq(Chunks) /\ m_cCBuff[c] \in Seq(Chunks)
        /\ sent \in [Conns -> Nat] /\ inbox \in [Conns -> Seq(Chunks)]
    BY DEF Send, Internals, IndInv, TypeOK, KernelType, BufferType
  <1>2. k \in Chunks /\ k > sent[c]  BY <1>1 DEF Chunks
  <1> HIDE DEF k
  <1> SUFFICES ASSUME NEW s \in Conns
               PROVE  /\ (/\ Increasing(m_cCBuff[s]) /\ Increasing(inbox[s])
                          /\ Below(Places(m_cCBuff[s]), Places(inbox[s]))
                          /\ \A x \in Buffered(s) : x <= sent[s])'
                      /\ sent[s] <= sent'[s]
                      /\ \A x \in Buffered(s)' : x \in Buffered(s) \/ x > sent[s]
    BY DEF BuffersInv, Onward
  <1>3. /\ Increasing(m_cCBuff[s]) /\ Increasing(inbox[s])
        /\ Below(Places(m_cCBuff[s]), Places(inbox[s]))
        /\ \A x \in Buffered(s) : x <= sent[s] /\ x \in Nat
    BY BufferedType DEF BuffersInv, Chunks, IndInv, TypeOK
  <1>4. CASE s # c
    <2>1. sent'[s] = sent[s] /\ inbox'[s] = inbox[s] /\ m_cCBuff'[s] = m_cCBuff[s] /\ sent[s] \in Nat
      BY <1>1, <1>4
    <2>2. Buffered(s)' = Buffered(s)  BY <2>1 DEF Buffered, Places
    <2>3. Increasing(m_cCBuff[s])' /\ Increasing(inbox[s])'
      BY <1>3, <2>1 DEF Increasing
    <2>4. Below(Places(m_cCBuff[s]), Places(inbox[s]))'
      BY <1>3, <2>1 DEF Below, Places
    <2> QED BY <1>3, <2>1, <2>2, <2>3, <2>4
  <1>5. CASE s = c
    <2>1. /\ sent'[c] = k /\ inbox'[c] = Append(inbox[c], k) /\ m_cCBuff'[c] = m_cCBuff[c]
      BY <1>1
    <2>2. Places(inbox'[c]) = Places(inbox[c]) \cup {k}
      BY <1>1, <1>2, <2>1, PlacesAppend
    <2>3. \A x \in Buffered(c) : x < k
      BY <1>1, <1>2, <1>3, <1>5 DEF Chunks
    <2>4. Increasing(inbox'[c])
      <3>1. \A i \in 1 .. Len(inbox[c]) : inbox[c][i] < k
        BY <2>3 DEF Buffered, Places
      <3>2. /\ Len(inbox'[c]) = Len(inbox[c]) + 1 /\ inbox'[c][Len(inbox[c]) + 1] = k
            /\ \A i \in 1 .. Len(inbox[c]) : inbox'[c][i] = inbox[c][i]
            /\ Len(inbox[c]) \in Nat
        BY <1>1, <1>2, <2>1, AppendProperties, LenProperties
      <3>3. ASSUME NEW i \in 1 .. Len(inbox'[c]), NEW j \in 1 .. Len(inbox'[c]), i < j
            PROVE  inbox'[c][i] < inbox'[c][j]
        <4>1. i \in 1 .. Len(inbox[c])  BY <3>2, <3>3
        <4>2. CASE j \in 1 .. Len(inbox[c])
          BY <1>3, <1>5, <3>2, <3>3, <4>1, <4>2 DEF Increasing
        <4>3. CASE j = Len(inbox[c]) + 1
          BY <3>1, <3>2, <4>1, <4>3
        <4> QED BY <3>2, <4>2, <4>3
      <3> QED BY <3>3 DEF Increasing
    <2>5. Below(Places(m_cCBuff'[c]), Places(inbox'[c]))
      BY <1>3, <1>5, <2>1, <2>2, <2>3 DEF Below, Buffered
    <2>6. Buffered(s)' = Buffered(s) \cup {k}
      BY <1>5, <2>1, <2>2 DEF Buffered, Places
    <2>7. sent[s] <= sent'[s] /\ sent'[s] = k /\ k \in Nat
      BY <1>1, <1>2, <1>5, <2>1 DEF Chunks
    <2>8. \A x \in Buffered(s)' : x <= sent'[s] /\ (x \in Buffered(s) \/ x > sent[s])
      BY <1>2, <1>3, <1>5, <2>3, <2>6, <2>7
    <2>9. Increasing(m_cCBuff[s])' /\ Increasing(inbox[s])'
      <3>1. Increasing(m_cCBuff[s])'  BY <1>3, <1>5, <2>1 DEF Increasing
      <3>2. Increasing(inbox[s])'  BY <1>5, <2>4 DEF Increasing
      <3> QED BY <3>1, <3>2
    <2>10. Below(Places(m_cCBuff[s]), Places(inbox[s]))'
      BY <1>5, <2>5 DEF Below, Places
    <2> QED BY <2>7, <2>8, <2>9, <2>10
  <1> QED BY <1>4, <1>5

(* A sequence put behind another one, all of whose items are smaller.      *)
LEMMA IncreasingConcat ==
  ASSUME NEW p \in Seq(Chunks), NEW q \in Seq(Chunks), Increasing(p), Increasing(q),
         Below(Places(p), Places(q))
  PROVE  Increasing(p \o q) /\ Places(p \o q) = Places(p) \cup Places(q)
  <1> DEFINE r == p \o q
  <1>1. /\ Len(r) = Len(p) + Len(q) /\ Len(p) \in Nat /\ Len(q) \in Nat
        /\ \A i \in 1 .. Len(p) + Len(q) : r[i] = IF i <= Len(p) THEN p[i] ELSE q[i - Len(p)]
    BY ConcatProperties, LenProperties
  <1> HIDE DEF r
  <1>2. \A i \in 1 .. Len(p) : r[i] = p[i]  BY <1>1
  <1>3. \A i \in 1 .. Len(q) : r[Len(p) + i] = q[i]  BY <1>1
  <1>4. \A i \in 1 .. Len(r) : i <= Len(p) \/ (i - Len(p) \in 1 .. Len(q) /\ i = Len(p) + (i - Len(p)))
    BY <1>1
  <1>5. Places(r) = Places(p) \cup Places(q)
    <2>1. \A i \in 1 .. Len(p) : i \in 1 .. Len(r)  BY <1>1
    <2>2. \A i \in 1 .. Len(q) : Len(p) + i \in 1 .. Len(r)  BY <1>1
    <2>3. Places(p) \cup Places(q) \subseteq Places(r)
      BY <1>2, <1>3, <2>1, <2>2 DEF Places
    <2>4. \A i \in 1 .. Len(r) : r[i] \in Places(p) \cup Places(q)
      <3> TAKE i \in 1 .. Len(r)
      <3>1. CASE i <= Len(p)  BY <1>1, <1>2, <3>1 DEF Places
      <3>2. CASE i - Len(p) \in 1 .. Len(q) /\ i = Len(p) + (i - Len(p))
        BY <1>3, <3>2 DEF Places
      <3> QED BY <1>4, <3>1, <3>2
    <2> QED BY <2>3, <2>4 DEF Places
  <1>6. ASSUME NEW i \in 1 .. Len(r), NEW j \in 1 .. Len(r), i < j PROVE r[i] < r[j]
    <2>1. CASE j <= Len(p)
      <3>1. i \in 1 .. Len(p) /\ j \in 1 .. Len(p)  BY <1>1, <1>6, <2>1
      <3> QED BY <1>2, <1>6, <3>1 DEF Increasing
    <2>2. CASE i <= Len(p) /\ ~(j <= Len(p))
      <3>1. i \in 1 .. Len(p) /\ j - Len(p) \in 1 .. Len(q)  BY <1>1, <1>4, <2>2
      <3>2. r[i] = p[i] /\ r[j] = q[j - Len(p)]  BY <1>2, <1>3, <1>4, <2>2, <3>1
      <3> QED BY <3>1, <3>2 DEF Below, Places
    <2>3. CASE ~(i <= Len(p))
      <3>1. i - Len(p) \in 1 .. Len(q) /\ j - Len(p) \in 1 .. Len(q) /\ i - Len(p) < j - Len(p)
        BY <1>1, <1>6, <2>3
      <3>2. r[i] = q[i - Len(p)] /\ r[j] = q[j - Len(p)]  BY <1>1, <3>1, <2>3, <1>6
      <3> QED BY <3>1, <3>2 DEF Increasing
    <2> QED BY <1>1, <1>6, <2>1, <2>2, <2>3
  <1> QED BY <1>5, <1>6 DEF Increasing, r

LEMMA BufferedNext ==
  ASSUME NEW s
  PROVE  Buffered(s)' = Places(m_cCBuff'[s]) \cup Places(inbox'[s])
BY DEF Buffered, Places

LEMMA SliceProperties ==
  ASSUME NEW q \in Seq(Chunks), NEW a \in Nat \ {0}, NEW b \in Nat, b <= Len(q), Increasing(q)
  PROVE  /\ Increasing(SubSeq(q, a, b))
         /\ \A x \in Places(SubSeq(q, a, b)) : \E i \in a .. b : i \in 1 .. Len(q) /\ x = q[i]
  <1> DEFINE r == SubSeq(q, a, b)
  <1>1. Len(q) \in Nat /\ \A i \in a .. b : i \in 1 .. Len(q)  BY LenProperties
  <1>2. \A i \in a .. b : q[i] \in Chunks  BY <1>1, ElementOfSeq
  <1>3. /\ Len(r) = IF a <= b THEN b - a + 1 ELSE 0
        /\ \A i \in 1 .. b - a + 1 : r[i] = q[a + i - 1]
    <2>1. a \in Int /\ b \in Int  OBVIOUS
    <2> QED BY <1>2, <2>1, SubSeqProperties
  <1> HIDE DEF r
  <1>4. \A i \in 1 .. Len(r) : a + i - 1 \in a .. b /\ r[i] = q[a + i - 1]  BY <1>3
  <1>5. Increasing(r)
    <2>1. ASSUME NEW i \in 1 .. Len(r), NEW j \in 1 .. Len(r), i < j PROVE r[i] < r[j]
      <3>1. /\ a + i - 1 \in 1 .. Len(q) /\ a + j - 1 \in 1 .. Len(q) /\ a + i - 1 < a + j - 1
            /\ r[i] = q[a + i - 1] /\ r[j] = q[a + j - 1]
        BY <1>1, <1>4, <2>1
      <3> QED BY <3>1 DEF Increasing
    <2> QED BY <2>1 DEF Increasing
  <1>6. \A x \in Places(r) : \E i \in a .. b : i \in 1 .. Len(q) /\ x = q[i]
    BY <1>1, <1>4 DEF Places
  <1> QED BY <1>5, <1>6 DEF r

(* A packet is cut off the front of the buffer.                            *)
LEMMA CutBuffers ==
  ASSUME IndInv, BuffersInv, NEW r \in Receivers, ExecuteManager(r), NEW c, c = cur[r]
  PROVE  /\ BuffersInv' /\ Onward /\ \A s \in Conns : Buffered(s)' \subseteq Buffered(s)
         /\ LET packet == SubSeq(m_cCBuff[c], 1, PacketLen) IN
              /\ Increasing(packet) /\ Places(packet) \subseteq Buffered(c)
              /\ Below(Places(packet), Buffered(c)')
  <1> DEFINE q == m_cCBuff[c]
             packet == SubSeq(q, 1, PacketLen)
             rest == SubSeq(q, PacketLen + 1, Len(q))
  <1>1. /\ c \in Managers /\ c \in Conns /\ Len(q) >= PacketLen
        /\ m_cCBuff' = [m_cCBuff EXCEPT ![c] = rest] /\ inbox' = inbox /\ sent' = sent
        /\ PacketLen \in Nat \ {0}
    BY ServerAssumption DEF ExecuteManager, Conns, net
  <1>2. q \in Seq(Chunks) /\ Len(q) \in Nat /\ m_cCBuff'[c] = rest
        /\ \A s \in Conns : s # c => m_cCBuff'[s] = m_cCBuff[s]
    BY <1>1, LenProperties DEF IndInv, TypeOK, BufferType
  <1>3. /\ Increasing(q) /\ Increasing(inbox[c]) /\ Below(Places(q), Places(inbox[c]))
    BY <1>1 DEF BuffersInv
  <1> HIDE DEF q
  <1>4. /\ Increasing(packet)
        /\ \A x \in Places(packet) : \E i \in 1 .. PacketLen : i \in 1 .. Len(q) /\ x = q[i]
    <2>1. 1 \in Nat \ {0} /\ PacketLen \in Nat /\ PacketLen <= Len(q)  BY <1>1, <1>2
    <2> HIDE DEF packet
    <2>2. packet = SubSeq(q, 1, PacketLen)  BY DEF packet
    <2> QED BY <1>2, <1>3, <2>1, <2>2, SliceProperties
  <1>5. /\ Increasing(rest)
        /\ \A x \in Places(rest) : \E i \in PacketLen + 1 .. Len(q) : i \in 1 .. Len(q) /\ x = q[i]
    BY <1>1, <1>2, <1>3, SliceProperties
  <1> HIDE DEF packet, rest
  <1>6. Places(packet) \subseteq Places(q) /\ Places(rest) \subseteq Places(q)
    BY <1>4, <1>5 DEF Places
  <1>7. Below(Places(packet), Places(rest))
    <2>1. ASSUME NEW x \in Places(packet), NEW y \in Places(rest) PROVE x < y
      <3>1. PICK i \in 1 .. PacketLen : i \in 1 .. Len(q) /\ x = q[i]  BY <1>4
      <3>2. PICK j \in PacketLen + 1 .. Len(q) : j \in 1 .. Len(q) /\ y = q[j]  BY <1>5
      <3>3. i < j  BY <1>1
      <3> QED BY <1>3, <3>1, <3>2, <3>3 DEF Increasing
    <2> QED BY <2>1 DEF Below
  <1>8. Buffered(c) = Places(q) \cup Places(inbox[c])
        /\ Buffered(c)' = Places(rest) \cup Places(inbox[c])
    <2>1. Buffered(c)' = Places(m_cCBuff'[c]) \cup Places(inbox'[c])  BY BufferedNext
    <2>2. Buffered(c) = Places(m_cCBuff[c]) \cup Places(inbox[c])  BY DEF Buffered
    <2> QED BY <1>1, <1>2, <2>1, <2>2 DEF q
  <1>9. Places(packet) \subseteq Buffered(c) /\ Below(Places(packet), Buffered(c)')
    BY <1>3, <1>6, <1>7, <1>8 DEF Below
  <1>10. \A s \in Conns : Buffered(s)' \subseteq Buffered(s)
    <2> TAKE s \in Conns
    <2>1. CASE s # c
      <3>1. m_cCBuff'[s] = m_cCBuff[s] /\ inbox'[s] = inbox[s]  BY <1>1, <1>2, <2>1
      <3> QED BY <3>1, BufferedNext DEF Buffered
    <2>2. CASE s = c
      <3>1. Places(m_cCBuff'[c]) \cup Places(inbox'[c]) \subseteq Places(m_cCBuff[c]) \cup Places(inbox[c])
        BY <1>1, <1>2, <1>6 DEF q
      <3>2. Buffered(s)' = Places(m_cCBuff'[s]) \cup Places(inbox'[s])  BY BufferedNext
      <3>3. Buffered(s) = Places(m_cCBuff[s]) \cup Places(inbox[s])  BY DEF Buffered
      <3> QED BY <2>2, <3>1, <3>2, <3>3
    <2> QED BY <2>1, <2>2
  <1>11. Onward  BY <1>1, <1>10 DEF Onward, IndInv, TypeOK, KernelType
  <1>12. BuffersInv'
    <2> SUFFICES ASSUME NEW s \in Conns
                 PROVE  (/\ Increasing(m_cCBuff[s]) /\ Increasing(inbox[s])
                         /\ Below(Places(m_cCBuff[s]), Places(inbox[s]))
                         /\ \A x \in Buffered(s) : x <= sent[s])'
      BY DEF BuffersInv
    <2>1. \A x \in Buffered(s)' : x <= sent'[s]  BY <1>1, <1>10 DEF BuffersInv
    <2>2. Increasing(inbox[s])' /\ Places(inbox[s])' = Places(inbox[s])
      BY <1>1 DEF BuffersInv, Increasing, Places
    <2>3. CASE s = c
      <3>1. Increasing(m_cCBuff[s])' /\ Places(m_cCBuff[s])' = Places(rest)
        BY <1>2, <1>5, <2>3 DEF Increasing, Places
      <3> QED BY <1>3, <1>6, <2>1, <2>2, <2>3, <3>1 DEF Below
    <2>4. CASE s # c
      <3>1. Increasing(m_cCBuff[s])' /\ Places(m_cCBuff[s])' = Places(m_cCBuff[s])
        BY <1>2, <2>4 DEF BuffersInv, Increasing, Places
      <3> QED BY <2>1, <2>2, <3>1 DEF Below, BuffersInv
    <2> QED BY <2>3, <2>4
  <1> QED BY <1>4, <1>9, <1>10, <1>11, <1>12 DEF packet, q

(* The read loop puts the socket's bytes behind those of m_cCBuff.         *)
LEMMA ReadAllBuffers ==
  ASSUME IndInv, BuffersInv, NEW r \in Receivers, ReadAll(r)
  PROVE  BuffersInv' /\ Onward
  <1> PICK c : c = cur[r]  OBVIOUS
  <1>1. /\ c \in Conns /\ sent' = sent /\ inbox' = [inbox EXCEPT ![c] = <<>>]
        /\ m_cCBuff' = m_cCBuff \/ m_cCBuff' = [m_cCBuff EXCEPT ![c] = @ \o inbox[c]]
    <2>1. r \in Threads /\ pc[r] \in Holding  BY DEF ReadAll, Threads, Holding
    <2> QED BY <2>1, InHand DEF ReadAll, IndInv, TypeOK
  <1>2. CASE m_cCBuff' = m_cCBuff
    <2>1. Drained  BY <1>1, <1>2 DEF Drained, IndInv, TypeOK, BufferType
    <2> QED BY <2>1, DrainedBuffers
  <1>3. CASE m_cCBuff' = [m_cCBuff EXCEPT ![c] = @ \o inbox[c]]
    <2>1. /\ m_cCBuff'[c] = m_cCBuff[c] \o inbox[c] /\ inbox'[c] = <<>>
          /\ m_cCBuff[c] \in Seq(Chunks) /\ inbox[c] \in Seq(Chunks)
          /\ \A s \in Conns : s # c => m_cCBuff'[s] = m_cCBuff[s] /\ inbox'[s] = inbox[s]
      BY <1>1, <1>3 DEF IndInv, TypeOK, BufferType
    <2>2. /\ Increasing(m_cCBuff'[c])
          /\ Places(m_cCBuff'[c]) = Places(m_cCBuff[c]) \cup Places(inbox[c])
      BY <1>1, <2>1, IncreasingConcat DEF BuffersInv
    <2>3. Increasing(inbox'[c]) /\ Places(inbox'[c]) = {}  BY <2>1 DEF Increasing, Places
    <2>4. \A s \in Conns : Buffered(s)' = Buffered(s)
      <3> TAKE s \in Conns
      <3>1. CASE s # c
        <4>1. m_cCBuff'[s] = m_cCBuff[s] /\ inbox'[s] = inbox[s]  BY <2>1, <3>1
        <4> QED BY <4>1, BufferedNext DEF Buffered
      <3>2. CASE s = c
        <4>1. Places(m_cCBuff'[c]) \cup Places(inbox'[c]) = Places(m_cCBuff[c]) \cup Places(inbox[c])
          BY <2>2, <2>3
        <4>2. Buffered(s)' = Places(m_cCBuff'[s]) \cup Places(inbox'[s])  BY BufferedNext
        <4>3. Buffered(s) = Places(m_cCBuff[s]) \cup Places(inbox[s])  BY DEF Buffered
        <4> QED BY <3>2, <4>1, <4>2, <4>3
      <3> QED BY <3>1, <3>2
    <2>5. Onward  BY <1>1, <2>4 DEF Onward, IndInv, TypeOK, KernelType
    <2>6. BuffersInv'
      <3> SUFFICES ASSUME NEW s \in Conns
                   PROVE  (/\ Increasing(m_cCBuff[s]) /\ Increasing(inbox[s])
                           /\ Below(Places(m_cCBuff[s]), Places(inbox[s]))
                           /\ \A x \in Buffered(s) : x <= sent[s])'
        BY DEF BuffersInv
      <3>1. \A x \in Buffered(s)' : x <= sent'[s]  BY <1>1, <2>4 DEF BuffersInv
      <3>2. CASE s = c
        <4>1. Places(inbox[s])' = {} /\ Increasing(inbox[s])'
          BY <2>1, <3>2 DEF Increasing, Places
        <4>2. Increasing(m_cCBuff[s])'  BY <2>2, <3>2 DEF Increasing
        <4>3. Below(Places(m_cCBuff[s]), Places(inbox[s]))'  BY <4>1 DEF Below
        <4> QED BY <3>1, <4>1, <4>2, <4>3
      <3>3. CASE s # c
        <4>1. /\ Increasing(m_cCBuff[s])' /\ Increasing(inbox[s])'
              /\ Places(m_cCBuff[s])' = Places(m_cCBuff[s]) /\ Places(inbox[s])' = Places(inbox[s])
          BY <2>1, <3>3 DEF BuffersInv, Increasing, Places
        <4> QED BY <3>1, <4>1 DEF Below, BuffersInv
      <3> QED BY <3>2, <3>3
    <2> QED BY <2>5, <2>6
  <1> QED BY <1>1, <1>2, <1>3

(* The other steps leave the buffers alone or empty them.                  *)
LEMMA PeersOrder ==
  ASSUME IndInv, IndInv', OrderInv, Peers
  PROVE  OrderInv'
  <1>1. CASE \E c \in Conns : Send(c)
    BY <1>1, PeersQuiet, SendBuffers, QuietOrder DEF OrderInv
  <1>2. CASE ~\E c \in Conns : Send(c)
    <2>1. Drained  BY <1>2 DEF Peers, Connect, Close, Reset, Internals, Drained
    <2> QED BY <2>1, PeersQuiet, DrainedBuffers, QuietOrder DEF OrderInv
  <1> QED BY <1>1, <1>2

LEMMA SharedOrder ==
  ASSUME IndInv, IndInv', OrderInv, NEW t \in Threads, AcceptClient(t) \/ CloseClient(t)
  PROVE  OrderInv'
  <1>1. Drained
    <2>1. CASE CloseFree(t)
      <3>1. cur[t] \in Conns  BY <2>1, InHand DEF CloseFree, Holding, IndInv, TypeOK
      <3> QED BY <2>1, <3>1 DEF CloseFree, CloseSocket, Drained, IndInv, TypeOK, BufferType
    <2>2. CASE ~CloseFree(t)
      BY <2>2 DEF AcceptClient, AcceptLoad, AcceptStore, AcceptPush, AcceptAdd, AcceptAddFails,
                  CloseClient, CloseDel, CloseLoad, CloseStore, net, Drained
    <2> QED BY <2>1, <2>2
  <1> QED BY <1>1, SharedQuiet, DrainedBuffers, QuietOrder DEF OrderInv

LEMMA AcceptorOrder ==
  ASSUME IndInv, IndInv', RoutingInv, OrderInv, RefuseClient \/ AdmitClient
  PROVE  OrderInv'
  <1>1. Drained
    <2>1. CASE RefuseClient
      <3>1. cur[Acceptor] \in Conns
        BY <2>1, InHand DEF RefuseClient, Accepting, IndInv, TypeOK, Threads
      <3> QED BY <2>1, <3>1 DEF RefuseClient, CloseSocket, Drained, IndInv, TypeOK, BufferType
    <2>2. CASE AdmitClient  BY <2>2 DEF AdmitClient, net, Drained
    <2> QED BY <2>1, <2>2
  <1> QED BY <1>1, AcceptorQuiet, DrainedBuffers, QuietOrder DEF OrderInv, RoutingInv

LEMMA MainOrder ==
  ASSUME IndInv, IndInv', OrderInv,
         \/ RegisterManager \/ Polling \/ PutReceiveQueue
         \/ \E e \in batch : ErrorEvent(e) \/ ReadEvent(e)
  PROVE  OrderInv'
  <1>1. Drained
    BY DEF RegisterManager, Polling, PutReceiveQueue, ErrorEvent, ReadEvent, net, Drained
  <1> QED BY <1>1, MainQuiet, DrainedBuffers, QuietOrder DEF OrderInv

LEMMA ReceiverOrder ==
  ASSUME IndInv, IndInv', OrderInv, NEW r \in Receivers, Fetching(r)
  PROVE  OrderInv'
  <1>1. CASE ReadAll(r)
    BY <1>1, ReceiverQuiet, ReadAllBuffers, QuietOrder DEF OrderInv
  <1>2. CASE ~ReadAll(r)
    <2>1. Drained
      <3>1. CASE ReadFails(r)
        BY <3>1 DEF ReadFails, Drained, IndInv, TypeOK, BufferType
      <3>2. CASE ~ReadFails(r)
        BY <1>2, <3>2 DEF Fetching, FillFromSocket, GetReceiveQueue, Available, ExecuteDone,
                          AddEPoll, AddEPollFails, net, Drained
      <3> QED BY <3>1, <3>2
    <2> QED BY <2>1, ReceiverQuiet, DrainedBuffers, QuietOrder DEF OrderInv
  <1> QED BY <1>1, <1>2

(***************************************************************************)
(* Messages on their way.                                                  *)
(***************************************************************************)
(* A new message holds what was taken out of its sender's buffer: later    *)
(* text than that of all its messages before.                              *)
LEMMA MakeOrder ==
  ASSUME IndInv, IndInv', OrderInv, BuffersInv', Onward,
         NEW m \in Messages, NEW s \in Conns, m.from = s, Increasing(m.data),
         Places(m.data) \subseteq Buffered(s), Below(Places(m.data), Buffered(s)'),
         Made' \subseteq Made \cup {m}, Sending' \subseteq Sending,
         UNCHANGED <<written, m_pBroadcastQueue, relay, targets, fd>>,
         \A b \in Broadcasters : pc'[b] = pc[b] /\ msg'[b] = msg[b]
  PROVE  OrderInv'
  <1> USE DEF OrderInv
  <1>1. Queued' = Queued /\ Flight' \subseteq Flight \cup {m}
    BY DEF Queued, Flight, Places
  <1>2. \A c, t : Text(c, t)' = Text(c, t)  BY DEF Text
  <1>3. \A n \in Flight : Precedes(n, m)
    BY DEF Precedes, TakenInv, Earlier, Below
  <1>4. \A c \in Conns : Below(Text(c, s), Places(m.data))
    BY DEF TakenInv, Earlier, Below
  <1>5. TakenInv'
    <2>1. ASSUME NEW n \in Flight' PROVE Increasing(n.data)' /\ Earlier(Places(n.data), n.from)'
      <3>1. CASE n = m
        <4>1. \A x \in Places(m.data) : x <= sent[s] /\ x \in Int
          BY DataType DEF BuffersInv, Chunks
        <4>2. sent[s] <= sent'[s] /\ sent[s] \in Int /\ sent'[s] \in Int
          BY DEF Onward, IndInv, TypeOK, KernelType
        <4>3. \A x \in Places(m.data) : x <= sent'[s]  BY <4>1, <4>2
        <4>4. Places(n.data)' = Places(m.data) /\ Increasing(n.data)' /\ n.from = s
          BY <3>1 DEF Places, Increasing
        <4> QED BY <4>3, <4>4 DEF Earlier, Below
      <3>2. CASE n # m
        <4>1. n \in Flight /\ n \in Messages  BY <1>1, <3>2, FlightType
        <4>2. Increasing(n.data) /\ Earlier(Places(n.data), n.from)  BY <4>1 DEF TakenInv
        <4>3. \A x \in Places(n.data) : x <= sent'[n.from] /\ \A y \in Buffered(n.from)' : x < y
          BY <4>1, <4>2, DataType, EarlierOnward
        <4>4. Increasing(n.data)'  BY <4>2 DEF Increasing
        <4> QED BY <4>3, <4>4 DEF Earlier, Below, Places
      <3> QED BY <3>1, <3>2
    <2>2. ASSUME NEW c \in Conns, NEW t \in Conns PROVE Earlier(Text(c, t), t)'
      <3>1. Earlier(Text(c, t), t) /\ Text(c, t) \subseteq Chunks
        BY TextType DEF TakenInv, IndInv, TypeOK
      <3>2. \A x \in Text(c, t) : x <= sent'[t] /\ \A y \in Buffered(t)' : x < y
        BY <3>1, EarlierOnward
      <3> QED BY <1>2, <3>2 DEF Earlier, Below
    <2> QED BY <2>1, <2>2 DEF TakenInv
  <1>6. PipeInv'
    <2>1. \A i, j \in 1 .. Len(m_pBroadcastQueue') :
            i < j => Precedes(m_pBroadcastQueue'[i], m_pBroadcastQueue'[j])
      BY DEF PipeInv
    <2>2. \A k \in Queued', n \in Made' : Precedes(k, n)
      BY <1>1, <1>3 DEF PipeInv, Flight
    <2>3. \A k \in Sending', n \in Queued' \cup Made' : Precedes(k, n)
      BY <1>1, <1>3 DEF PipeInv, Flight
    <2> QED BY <2>1, <2>2, <2>3 DEF PipeInv, Precedes, Below, Places
  <1>7. SentInv'
    <2>1. \A c \in Conns, n \in Queued' \cup Made' : Below(Text(c, n.from)', Places(n.data)')
      BY <1>1, <1>2, <1>4 DEF SentInv, Below, Places
    <2>2. \A b \in Broadcasters : Owed(b)' = Owed(b)  BY DEF Owed
    <2>3. ASSUME NEW b \in Broadcasters, pc'[b] \in {"relay", "write"}, NEW c \in Owed(b)'
          PROVE  Below(Text(c, msg[b].from), Places(msg[b].data))'
      BY <1>2, <2>2, <2>3 DEF SentInv, Below, Places
    <2> QED BY <2>1, <2>3 DEF SentInv, Below
  <1>8. SenderOrder'  BY DEF SenderOrder
  <1> QED BY <1>5, <1>6, <1>7, <1>8

(* What happens to the threads' messages when a receiver makes one.        *)
LEMMA MadeNext ==
  ASSUME IndInv, NEW r \in Receivers, NEW m,
         msg' = [msg EXCEPT ![r] = m], pc' = [pc EXCEPT ![r] = "broadcast"]
  PROVE  /\ Made' \subseteq Made \cup {m} /\ Sending' = Sending
         /\ \A b \in Broadcasters : pc'[b] = pc[b] /\ msg'[b] = msg[b]
  <1>1. /\ r \in Threads /\ r \notin Broadcasters
        /\ pc'[r] = "broadcast" /\ msg'[r] = m
        /\ \A t \in Threads : t # r => pc'[t] = pc[t] /\ msg'[t] = msg[t]
    BY ServerAssumption DEF Threads, IndInv, TypeOK, HandType, MessageType
  <1>2. Made' \subseteq Made \cup {m}  BY <1>1 DEF Made, Threads
  <1>3. \A b \in Broadcasters : pc'[b] = pc[b] /\ msg'[b] = msg[b]  BY <1>1 DEF Threads
  <1>4. Sending' = Sending
    <2>1. {a \in Broadcasters : pc'[a] \in {"relay", "write"}}
            = {a \in Broadcasters : pc[a] \in {"relay", "write"}}
      BY <1>3
    <2> QED BY <1>3, <2>1 DEF Sending
  <1> QED BY <1>2, <1>3, <1>4

LEMMA ExecuteUserOrder ==
  ASSUME IndInv, IndInv', OrderInv, NEW r \in Receivers, ExecuteUser(r)
  PROVE  OrderInv'
  <1> PICK c : c = cur[r]  OBVIOUS
  <1> DEFINE m == [from |-> c, data |-> m_cCBuff[c], fd |-> fd[c], relayed |-> FALSE]
  <1>1. /\ msg' = [msg EXCEPT ![r] = m] /\ pc' = [pc EXCEPT ![r] = "broadcast"]
        /\ m_cCBuff' = [m_cCBuff EXCEPT ![c] = <<>>] /\ c \in Users
        /\ UNCHANGED <<fd, written, m_pBroadcastQueue, relay, targets, inbox, sent>>
    BY DEF ExecuteUser, Goto, net, shared
  <1>2. m.from = c /\ m.data = m_cCBuff[c] /\ c \in Conns  BY <1>1 DEF Conns
  <1> HIDE DEF m
  <1>3. m \in Messages
    <2>1. r \in Threads  BY DEF Threads
    <2>2. pc'[r] = "broadcast" /\ msg'[r] = m
      BY <1>1, <2>1 DEF IndInv, TypeOK, HandType, MessageType
    <2> QED BY <2>1, <2>2 DEF IndInv, TypeOK, MessageType
  <1>4. Drained  BY <1>1, <1>2 DEF Drained, IndInv, TypeOK, BufferType
  <1>5. BuffersInv' /\ Onward  BY <1>4, DrainedBuffers DEF OrderInv
  <1>6. Increasing(m.data) /\ Places(m.data) \subseteq Buffered(c)
    BY <1>2 DEF OrderInv, BuffersInv, Buffered
  <1>7. Below(Places(m.data), Buffered(c)')
    <2>1. m_cCBuff'[c] = <<>> /\ inbox'[c] = inbox[c]
      BY <1>1, <1>2 DEF IndInv, TypeOK, BufferType
    <2>2. Buffered(c)' = Places(inbox[c])
      <3>1. Places(m_cCBuff'[c]) = {}  BY <2>1 DEF Places
      <3> QED BY <2>1, <3>1, BufferedNext
    <2> QED BY <1>2, <2>2 DEF OrderInv, BuffersInv
  <1> QED BY <1>1, <1>2, <1>3, <1>5, <1>6, <1>7, MadeNext, MakeOrder

LEMMA ExecuteManagerOrder ==
  ASSUME IndInv, IndInv', OrderInv, NEW r \in Receivers, ExecuteManager(r)
  PROVE  OrderInv'
  <1> PICK c : c = cur[r]  OBVIOUS
  <1>1. /\ c \in Conns /\ UNCHANGED <<fd, written, m_pBroadcastQueue, relay, targets>>
    BY DEF ExecuteManager, Conns, shared
  <1>2. BuffersInv' /\ Onward  BY CutBuffers DEF OrderInv
  <1>3. CASE Quiet  BY <1>2, <1>3, QuietOrder
  <1>4. CASE ~Quiet
    <2> PICK m : m = msg'[r]  OBVIOUS
    <2>1. /\ m \in Messages /\ m.from = c /\ m.data = SubSeq(m_cCBuff[c], 1, PacketLen)
          /\ msg' = [msg EXCEPT ![r] = m] /\ pc' = [pc EXCEPT ![r] = "broadcast"]
      BY <1>4, ExecuteManagerCases
    <2>2. /\ Increasing(m.data) /\ Places(m.data) \subseteq Buffered(c)
          /\ Below(Places(m.data), Buffered(c)')
      BY <2>1, CutBuffers DEF OrderInv
    <2> QED BY <1>1, <1>2, <2>1, <2>2, MadeNext, MakeOrder
  <1> QED BY <1>3, <1>4

(* Steps that leave the buffers alone keep what is said of them.           *)
LEMMA SameTaken ==
  ASSUME OrderInv, UNCHANGED <<sent, inbox, m_cCBuff>>, Flight' \subseteq Flight,
         \A c, s \in Conns : Earlier(Text(c, s)', s)
  PROVE  BuffersInv' /\ TakenInv'
  <1>1. BuffersInv'  BY DEF OrderInv, BuffersInv, Increasing, Below, Places, Buffered
  <1>2. \A s : Buffered(s)' = Buffered(s)  BY DEF Buffered, Places
  <1>3. \A m \in Flight' : (Increasing(m.data) /\ Earlier(Places(m.data), m.from))'
    <2> TAKE m \in Flight'
    <2>1. Increasing(m.data) /\ Earlier(Places(m.data), m.from)  BY DEF OrderInv, TakenInv
    <2> QED BY <1>2, <2>1 DEF Increasing, Earlier, Below, Places
  <1>4. \A c, s \in Conns : Earlier(Text(c, s), s)'  BY <1>2 DEF Earlier, Below
  <1> QED BY <1>1, <1>3, <1>4 DEF TakenInv

LEMMA PutBroadcastQueueOrder ==
  ASSUME IndInv, IndInv', RoutingInv, OrderInv, NEW r \in Receivers, PutBroadcastQueue(r)
  PROVE  OrderInv'
  <1> USE DEF OrderInv
  <1> PICK m : m = msg[r]  OBVIOUS
  <1>1. /\ Queued' = Queued \cup {m} /\ m \in Made /\ Made' \subseteq Made
        /\ Sending' = Sending /\ r \in Threads /\ r \notin Broadcasters /\ pc'[r] = "exec"
        /\ \A s \in Threads : s # r => pc'[s] = pc[s] /\ msg'[s] = msg[s]
        /\ UNCHANGED <<fd, written, relay, targets, sent, inbox, m_cCBuff>>
    BY PutBroadcastQueueFlight
  <1>2. \A c, s : Text(c, s)' = Text(c, s)  BY <1>1 DEF Text
  <1>3. BuffersInv' /\ TakenInv'
    <2>1. Flight' \subseteq Flight  BY <1>1 DEF Flight
    <2> QED BY <1>1, <1>2, <2>1, SameTaken DEF TakenInv
  <1>4. \A n \in Made' : n.from # m.from
    <2>1. pc[r] = "broadcast" /\ m.from = cur[r]
      BY DEF PutBroadcastQueue, RoutingInv, MessageInv, Threads
    <2>2. ASSUME NEW q \in Receivers, pc'[q] = "broadcast" PROVE msg'[q].from # m.from
      <3>1. q # r /\ pc[q] = "broadcast" /\ msg'[q] = msg[q] /\ q \in Threads
        BY <1>1, <2>2 DEF Threads
      <3>2. msg[q].from = cur[q]  BY <3>1 DEF RoutingInv, MessageInv
      <3>3. cur[q] # cur[r]
        BY <1>1, <2>1, <3>1 DEF IndInv, TypeOK, HandType, SoleOwner, Elsewhere
      <3> QED BY <2>1, <3>1, <3>2, <3>3
    <2> QED BY <2>2 DEF Made
  <1>5. PipeInv'
    <2> DEFINE q == m_pBroadcastQueue
    <2>1. q' = Append(q, m) /\ q \in Seq(Messages) /\ m \in Messages
      BY <1>1, FlightType DEF PutBroadcastQueue, IndInv, TypeOK, QueueType, Flight
    <2>2. /\ Len(q') = Len(q) + 1 /\ q'[Len(q) + 1] = m /\ Len(q) \in Nat
          /\ \A i \in 1 .. Len(q) : q'[i] = q[i]
      BY <2>1, AppendProperties, LenProperties
    <2>3. \A i, j \in 1 .. Len(q') : i < j => Precedes(q'[i], q'[j])
      <3> SUFFICES ASSUME NEW i \in 1 .. Len(q'), NEW j \in 1 .. Len(q'), i < j
                   PROVE  Precedes(q'[i], q'[j])
        OBVIOUS
      <3>1. i \in 1 .. Len(q) /\ q'[i] = q[i]  BY <2>2
      <3>2. CASE j \in 1 .. Len(q)  BY <2>2, <3>1, <3>2 DEF PipeInv
      <3>3. CASE j = Len(q) + 1
        <4>1. q[i] \in Queued  BY <3>1 DEF Queued, Places
        <4> QED BY <1>1, <2>2, <3>1, <3>3, <4>1 DEF PipeInv
      <3> QED BY <2>2, <3>2, <3>3
    <2>4. \A k \in Queued', n \in Made' : Precedes(k, n)
      BY <1>1, <1>4 DEF PipeInv, Precedes
    <2>5. \A k \in Sending', n \in Queued' \cup Made' : Precedes(k, n)
      BY <1>1 DEF PipeInv
    <2> QED BY <2>3, <2>4, <2>5 DEF PipeInv, Precedes, Below, Places
  <1>6. SentInv'
    <2>1. \A c \in Conns, n \in Queued' \cup Made' : Below(Text(c, n.from)', Places(n.data)')
      BY <1>1, <1>2 DEF SentInv, Below, Places
    <2>2. ASSUME NEW b \in Broadcasters, pc'[b] \in {"relay", "write"}, NEW c \in Owed(b)'
          PROVE  Below(Text(c, msg[b].from), Places(msg[b].data))'
      <3>1. pc'[b] = pc[b] /\ msg'[b] = msg[b]  BY <1>1 DEF Threads
      <3>2. Owed(b)' = Owed(b)  BY <1>1, <3>1 DEF Owed
      <3> QED BY <1>2, <2>2, <3>1, <3>2 DEF SentInv, Below, Places
    <2> QED BY <2>1, <2>2 DEF SentInv, Below
  <1>7. SenderOrder'  BY <1>1 DEF SenderOrder
  <1> QED BY <1>3, <1>5, <1>6, <1>7

(* The only broadcaster takes the oldest message, when it has sent the one *)
(* before.                                                                 *)
LEMMA GetBroadcastQueueOrder ==
  ASSUME IndInv, IndInv', RoutingInv, OrderInv, OneBroadcaster,
         NEW b \in Broadcasters, GetBroadcastQueue(b)
  PROVE  OrderInv'
  <1> USE DEF OrderInv
  <1> DEFINE q == m_pBroadcastQueue
  <1> PICK m : m = msg'[b]  OBVIOUS
  <1>1. /\ m = Head(q) /\ m \in Queued /\ Queued' \subseteq Queued
        /\ Made' = Made /\ Sending' \subseteq Sending \cup {m} /\ pc'[b] = "relay"
        /\ UNCHANGED <<fd, written, targets, sent, inbox, m_cCBuff>>
    BY GetBroadcastQueueFlight
  <1>2. \A c, s : Text(c, s)' = Text(c, s)  BY <1>1 DEF Text
  <1>3. BuffersInv' /\ TakenInv'
    <2>1. Flight' \subseteq Flight  BY <1>1 DEF Flight
    <2> QED BY <1>1, <1>2, <2>1, SameTaken DEF TakenInv
  <1>4. Sending' \subseteq {m}
    <2>1. pc[b] = "home"  BY DEF GetBroadcastQueue
    <2>2. Sending = {}  BY <2>1 DEF Sending, OneBroadcaster
    <2> QED BY <1>1, <2>2
  <1>5. /\ q \in Seq(Messages) /\ q # <<>> /\ q' = Tail(q) /\ m = q[1] /\ 1 \in 1 .. Len(q)
        /\ Len(q') = Len(q) - 1 /\ \A i \in 1 .. Len(q') : q'[i] = q[i + 1] /\ i + 1 \in 1 .. Len(q)
    <2>1. q \in Seq(Messages) /\ q # <<>> /\ q' = Tail(q)
      BY DEF GetBroadcastQueue, IndInv, TypeOK, QueueType
    <2>2. /\ Len(Tail(q)) = Len(q) - 1 /\ Len(q) \in Nat /\ Len(q) # 0
          /\ \A i \in 1 .. Len(Tail(q)) : Tail(q)[i] = q[i + 1]
      BY <2>1, HeadTailProperties, LenProperties, EmptySeq
    <2>3. Head(q) = q[1]  BY <2>1
    <2> QED BY <1>1, <2>1, <2>2, <2>3
  <1> HIDE DEF q
  <1>6. \A i, j \in 1 .. Len(q) : i < j => Precedes(q[i], q[j])  BY DEF PipeInv, q
  <1>7. \A i, j \in 1 .. Len(q') : i < j => Precedes(q'[i], q'[j])
    <2> SUFFICES ASSUME NEW i \in 1 .. Len(q'), NEW j \in 1 .. Len(q'), i < j
                 PROVE  Precedes(q'[i], q'[j])
      OBVIOUS
    <2>1. q'[i] = q[i + 1] /\ q'[j] = q[j + 1] /\ i + 1 \in 1 .. Len(q) /\ j + 1 \in 1 .. Len(q)
      BY <1>5
    <2>2. i + 1 < j + 1  OBVIOUS
    <2> QED BY <1>6, <2>1, <2>2
  <1>8. \A n \in Queued' : Precedes(m, n)
    <2>1. \A i \in 1 .. Len(q') : Precedes(m, q'[i])
      <3> TAKE i \in 1 .. Len(q')
      <3>1. q'[i] = q[i + 1] /\ i + 1 \in 1 .. Len(q) /\ 1 < i + 1  BY <1>5
      <3> QED BY <1>5, <1>6, <3>1
    <2> QED BY <2>1 DEF Queued, Places, q
  <1>9. PipeInv'
    <2>1. \A k \in Queued', n \in Made' : Precedes(k, n)  BY <1>1 DEF PipeInv
    <2>2. \A k \in Sending', n \in Queued' \cup Made' : Precedes(k, n)
      BY <1>1, <1>4, <1>8 DEF PipeInv
    <2> QED BY <1>7, <2>1, <2>2 DEF PipeInv, Precedes, Below, Places, q
  <1>10. SentInv'
    <2>1. \A c \in Conns, n \in Queued' \cup Made' : Below(Text(c, n.from)', Places(n.data)')
      BY <1>1, <1>2 DEF SentInv, Below, Places
    <2>2. ASSUME NEW a \in Broadcasters, pc'[a] \in {"relay", "write"}, NEW c \in Owed(a)'
          PROVE  Below(Text(c, msg[a].from), Places(msg[a].data))'
      <3>1. a = b /\ msg'[a] = m  BY DEF OneBroadcaster
      <3>2. c \in Conns
        BY <1>1, <2>2, <3>1 DEF Owed, Conns, IndInv, TypeOK, LoopType
      <3>3. Below(Text(c, m.from), Places(m.data))  BY <1>1, <3>2 DEF SentInv
      <3> QED BY <1>2, <3>1, <3>3 DEF Below, Places
    <2> QED BY <2>1, <2>2 DEF SentInv, Below
  <1>11. SenderOrder'  BY <1>1 DEF SenderOrder
  <1> QED BY <1>3, <1>9, <1>10, <1>11

(* A connection is sent part of a message that it had not been sent.       *)
LEMMA WriteOrder ==
  ASSUME BufferType, OrderInv, NEW m \in Messages, NEW c \in Conns, NEW n \in 0 .. Len(m.data),
         written' = [written EXCEPT ![c] = @ \o [i \in 1 .. n |-> <<m.from, m.data[i]>>]],
         Increasing(m.data), Below(Text(c, m.from), Places(m.data))
  PROVE  /\ SenderOrder'
         /\ \A d \in Conns : d # c => \A s : Text(d, s)' = Text(d, s)
         /\ \A s : Text(c, s)' \subseteq Text(c, s) \cup IF s = m.from THEN Places(m.data) ELSE {}
  <1> DEFINE k == Len(written[c])
             w == written'[c]
  <1>1. /\ k \in Nat /\ Len(w) = k + n /\ n \in Nat /\ n <= Len(m.data) /\ Len(m.data) \in Nat
        /\ \A i \in 1 .. k : w[i] = written[c][i]
        /\ \A i \in 1 .. Len(w) : i > k => i - k \in 1 .. n /\ w[i] = <<m.from, m.data[i - k]>>
    <2>1. Len(m.data) \in Nat  BY LenProperties DEF Messages
    <2>2. n \in Nat /\ n <= Len(m.data)  BY <2>1
    <2>3. /\ Len(written[c]) \in Nat /\ Len(written'[c]) = Len(written[c]) + n
          /\ \A i \in 1 .. Len(written[c]) : written'[c][i] = written[c][i]
          /\ \A i \in 1 .. Len(written'[c]) : i > Len(written[c]) =>
               /\ i - Len(written[c]) \in 1 .. n
               /\ written'[c][i] = <<m.from, m.data[i - Len(written[c])]>>
      BY WrittenItems
    <2> QED BY <2>1, <2>2, <2>3
  <1>2. \A d \in Conns : d # c => written'[d] = written[d]  BY WrittenItems
  <1>3. \A d \in Conns : d # c => \A s : Text(d, s)' = Text(d, s)  BY <1>2 DEF Text
  <1> HIDE DEF k, w
  <1>4. ASSUME NEW i \in 1 .. Len(w), NEW j \in 1 .. Len(w), i < j, w[i][1] = w[j][1]
        PROVE  w[i][2] < w[j][2]
    <2>1. CASE j <= k
      <3>1. i \in 1 .. k /\ j \in 1 .. k  BY <1>1, <1>4, <2>1
      <3>2. w[i] = written[c][i] /\ w[j] = written[c][j]  BY <1>1, <3>1
      <3> QED BY <1>4, <3>1, <3>2 DEF OrderInv, SenderOrder, k
    <2>2. CASE i <= k /\ j > k
      <3>1. i \in 1 .. k /\ w[i] = written[c][i]  BY <1>1, <2>2
      <3>2. w[j] = <<m.from, m.data[j - k]>> /\ j - k \in 1 .. Len(m.data)  BY <1>1, <2>2
      <3>3. written[c][i][2] \in Text(c, m.from)  BY <1>4, <3>1, <3>2 DEF Text, k
      <3>4. m.data[j - k] \in Places(m.data)  BY <3>2 DEF Places
      <3> QED BY <3>1, <3>2, <3>3, <3>4 DEF Below
    <2>3. CASE i > k
      <3>1. /\ w[i] = <<m.from, m.data[i - k]>> /\ i - k \in 1 .. Len(m.data)
            /\ w[j] = <<m.from, m.data[j - k]>> /\ j - k \in 1 .. Len(m.data) /\ i - k < j - k
        BY <1>1, <1>4, <2>3
      <3> QED BY <3>1 DEF Increasing
    <2> QED BY <1>1, <2>1, <2>2, <2>3
  <1>5. SenderOrder'
    <2> SUFFICES ASSUME NEW d \in Conns, NEW i \in 1 .. Len(written'[d]),
                        NEW j \in 1 .. Len(written'[d]), i < j,
                        written'[d][i][1] = written'[d][j][1]
                 PROVE  written'[d][i][2] < written'[d][j][2]
      BY DEF SenderOrder
    <2>1. CASE d = c  BY <1>4, <2>1 DEF w
    <2>2. CASE d # c
      <3>1. written'[d] = written[d]  BY <1>2, <2>2
      <3> QED BY <3>1 DEF SenderOrder, OrderInv
    <2> QED BY <2>1, <2>2
  <1>6. ASSUME NEW s, NEW x \in Text(c, s)'
        PROVE  x \in Text(c, s) \/ (s = m.from /\ x \in Places(m.data))
    <2>1. PICK i \in 1 .. Len(w) : w[i][1] = s /\ x = w[i][2]  BY <1>6 DEF Text, w
    <2>2. CASE i <= k
      <3>1. i \in 1 .. k /\ w[i] = written[c][i]  BY <1>1, <2>2
      <3> QED BY <2>1, <3>1 DEF Text, k
    <2>3. CASE i > k
      <3>1. w[i] = <<m.from, m.data[i - k]>> /\ i - k \in 1 .. Len(m.data)  BY <1>1, <2>3
      <3> QED BY <2>1, <3>1 DEF Places
    <2> QED BY <1>1, <2>2, <2>3
  <1> QED BY <1>3, <1>5, <1>6

(* A broadcaster writes its message once to each connection.               *)
LEMMA DeliverOrder ==
  ASSUME IndInv, IndInv', RoutingInv, OrderInv, OneBroadcaster,
         NEW b \in Broadcasters, pc[b] \in {"relay", "write"},
         UNCHANGED <<fd, pc, msg, m_pBroadcastQueue, sent, inbox, m_cCBuff>>,
         Owed(b)' \subseteq Owed(b),
         \/ UNCHANGED written
         \/ \E c \in Owed(b), n \in 0 .. Len(msg[b].data) :
              /\ c \in Conns /\ c \notin Owed(b)'
              /\ written' = [written EXCEPT ![c] =
                               @ \o [i \in 1 .. n |-> <<msg[b].from, msg[b].data[i]>>]]
  PROVE  OrderInv'
  <1> USE DEF OrderInv
  <1>1. Made' = Made /\ Queued' = Queued /\ Sending' = Sending /\ Flight' = Flight
    BY DEF Made, Queued, Sending, Flight, Places
  <1>2. CASE UNCHANGED written
    <2>1. BuffersInv' /\ Onward
      <3>1. Drained  BY DEF Drained
      <3> QED BY <3>1, DrainedBuffers
    <2>2. \A a \in Broadcasters : pc'[a] \in {"relay", "write"} =>
            /\ pc[a] \in {"relay", "write"} /\ msg'[a] = msg[a]
            /\ \A c \in Owed(a)' : c \in Owed(a)
      <3>1. \A a \in Broadcasters : a = b  BY DEF OneBroadcaster
      <3>2. \A a : a = b => Owed(a)' \subseteq Owed(a)  BY DEF Owed
      <3> QED BY <3>1, <3>2
    <2> QED BY <1>1, <1>2, <2>1, <2>2, OrderFrame
  <1>3. ASSUME NEW c \in Owed(b), NEW n \in 0 .. Len(msg[b].data),
               c \in Conns, c \notin Owed(b)',
               written' = [written EXCEPT ![c] =
                             @ \o [i \in 1 .. n |-> <<msg[b].from, msg[b].data[i]>>]]
        PROVE  OrderInv'
    <2> PICK m : m = msg[b]  OBVIOUS
    <2>1. m \in Messages /\ m \in Sending /\ m \in Flight
      BY DEF IndInv, TypeOK, MessageType, Threads, Sending, Flight
    <2>2. /\ Increasing(m.data) /\ Earlier(Places(m.data), m.from)
          /\ Below(Text(c, m.from), Places(m.data))
      BY <2>1 DEF TakenInv, SentInv
    <2>3. /\ SenderOrder'
          /\ \A d \in Conns : d # c => \A s : Text(d, s)' = Text(d, s)
          /\ \A s : Text(c, s)' \subseteq Text(c, s) \cup IF s = m.from THEN Places(m.data) ELSE {}
      BY <1>3, <2>1, <2>2, WriteOrder DEF IndInv, TypeOK
    <2>4. \A d \in Conns : \A s : \A x \in Text(d, s)' :
            x \in Text(d, s) \/ (s = m.from /\ x \in Places(m.data))
      BY <2>3
    <2>5. BuffersInv' /\ TakenInv'
      <3>1. \A d, s \in Conns : Earlier(Text(d, s)', s)
        BY <2>2, <2>4 DEF TakenInv, Earlier, Below
      <3> QED BY <1>1, <3>1, SameTaken
    <2>6. PipeInv'  BY <1>1 DEF PipeInv, Precedes, Below, Places
    <2>7. \A d \in Conns, k \in Queued' \cup Made' : Below(Text(d, k.from)', Places(k.data)')
      <3> SUFFICES ASSUME NEW d \in Conns, NEW k \in Queued \cup Made,
                          NEW x \in Text(d, k.from)', NEW y \in Places(k.data)
                   PROVE  x < y
        BY <1>1 DEF Below, Places
      <3>1. CASE x \in Text(d, k.from)  BY <3>1 DEF SentInv, Below
      <3>2. CASE k.from = m.from /\ x \in Places(m.data)
        BY <2>1, <3>2 DEF PipeInv, Precedes, Below
      <3> QED BY <2>4, <3>1, <3>2
    <2>8. ASSUME NEW a \in Broadcasters, pc'[a] \in {"relay", "write"}, NEW d \in Owed(a)'
          PROVE  Below(Text(d, msg[a].from), Places(msg[a].data))'
      <3>1. a = b  BY DEF OneBroadcaster
      <3>2. d \in Owed(b)'  BY <2>8, <3>1 DEF Owed
      <3>3. d \in Owed(b) /\ d # c  BY <1>3, <3>2
      <3>4. d \in Conns  BY <3>3 DEF Owed, Conns, IndInv, TypeOK, LoopType
      <3>5. Below(Text(d, m.from), Places(m.data))  BY <3>3 DEF SentInv
      <3>6. Text(d, m.from)' = Text(d, m.from)  BY <2>3, <3>3, <3>4
      <3>7. msg'[a] = m  BY <3>1
      <3> QED BY <3>5, <3>6, <3>7 DEF Below, Places
    <2>9. SentInv'  BY <2>7, <2>8 DEF SentInv, Below
    <2> QED BY <2>3, <2>5, <2>6, <2>9
  <1> QED BY <1>2, <1>3

LEMMA RelayToManagerOrder ==
  ASSUME IndInv, IndInv', RoutingInv, ManagersOpen, OrderInv, OneBroadcaster,
         NEW b \in Broadcasters, NEW m \in Managers, RelayToManager(b, m)
  PROVE  OrderInv'
  <1>1. /\ pc[b] = "relay" /\ m \in relay[b] /\ relay' = [relay EXCEPT ![b] = @ \ {m}]
        /\ UNCHANGED <<fd, pc, msg, m_pBroadcastQueue, sent, inbox, m_cCBuff>>
        /\ Write(fd[m], msg[b]) /\ msg[b] \in Messages
    BY DEF RelayToManager, ManagersOpen, net, shared, IndInv, TypeOK, MessageType, Threads
  <1>2. Owed(b)' = (relay[b] \ {m}) \cup Users /\ m \in Owed(b) /\ m \notin Users /\ m \in Conns
    BY <1>1, ServerAssumption DEF Owed, Conns, IndInv, TypeOK, LoopType
  <1>3. Owed(b) = relay[b] \cup Users  BY <1>1 DEF Owed
  <1>4. Owed(b)' \subseteq Owed(b) /\ m \notin Owed(b)'  BY <1>2, <1>3
  <1>5. \A c \in Conns : fd[m] # NoFd /\ fd[c] = fd[m] => c = m
    BY <1>2 DEF RoutingInv, FdInv
  <1>6. \/ UNCHANGED written
        \/ \E n \in 0 .. Len(msg[b].data) :
             written' = [written EXCEPT ![m] = @ \o [i \in 1 .. n |-> <<msg[b].from, msg[b].data[i]>>]]
    <2>1. \/ UNCHANGED written
          \/ \E c \in Conns, n \in 0 .. Len(msg[b].data) :
               /\ fd[m] # NoFd /\ fd[c] = fd[m]
               /\ written' = [written EXCEPT ![c] = @ \o [i \in 1 .. n |-> <<msg[b].from, msg[b].data[i]>>]]
      <3>1. FdInv /\ Write(fd[m], msg[b]) /\ msg[b] \in Messages  BY <1>1 DEF RoutingInv
      <3> QED BY <3>1 DEF Write
    <2>2. ASSUME NEW c \in Conns, NEW n \in 0 .. Len(msg[b].data), fd[m] # NoFd, fd[c] = fd[m],
                 written' = [written EXCEPT ![c] = @ \o [i \in 1 .. n |-> <<msg[b].from, msg[b].data[i]>>]]
          PROVE  written' = [written EXCEPT ![m] = @ \o [i \in 1 .. n |-> <<msg[b].from, msg[b].data[i]>>]]
      <3>1. c = m  BY <1>5, <2>2
      <3> QED BY <2>2, <3>1
    <2> QED BY <2>1, <2>2
  <1> QED BY <1>1, <1>2, <1>4, <1>6, DeliverOrder

LEMMA WriteToTargetOrder ==
  ASSUME IndInv, IndInv', RoutingInv, OrderInv, OneBroadcaster,
         NEW b \in Broadcasters, NEW p \in targets[b], WriteToTarget(b, p)
  PROVE  OrderInv'
  <1>1. /\ pc[b] = "write" /\ targets' = [targets EXCEPT ![b] = @ \ {p}]
        /\ UNCHANGED <<fd, pc, msg, m_pBroadcastQueue, sent, inbox, m_cCBuff>>
        /\ Write(p[1], msg[b]) /\ msg[b] \in Messages
    BY DEF WriteToTarget, net, shared, IndInv, TypeOK, MessageType, Threads
  <1>2. /\ Owed(b)' = {c \in Conns : \E q \in targets[b] \ {p} : fd[c] = q[1]}
        /\ Owed(b) = {c \in Conns : \E q \in targets[b] : fd[c] = q[1]}
    BY <1>1 DEF Owed, IndInv, TypeOK, LoopType
  <1>3. Owed(b)' \subseteq Owed(b)  BY <1>2
  <1>4. \A c \in Conns : fd[c] = p[1] => c \in Owed(b) /\ c \notin Owed(b)'
    BY <1>1, <1>2 DEF RoutingInv, TargetInv
  <1>5. \/ UNCHANGED written
        \/ \E c \in Conns, n \in 0 .. Len(msg[b].data) :
             /\ fd[c] = p[1]
             /\ written' = [written EXCEPT ![c] = @ \o [i \in 1 .. n |-> <<msg[b].from, msg[b].data[i]>>]]
    <2>1. FdInv /\ Write(p[1], msg[b]) /\ msg[b] \in Messages  BY <1>1 DEF RoutingInv
    <2>2. \/ UNCHANGED written
          \/ \E c \in Conns, n \in 0 .. Len(msg[b].data) :
               /\ p[1] # NoFd /\ fd[c] = p[1]
               /\ written' = [written EXCEPT ![c] = @ \o [i \in 1 .. n |-> <<msg[b].from, msg[b].data[i]>>]]
      BY <2>1 DEF Write
    <2> QED BY <2>2
  <1> QED BY <1>1, <1>3, <1>4, <1>5, DeliverOrder

(* The copied descriptors are of users, to whom the message is due.        *)
LEMMA GetBroadcastTargetsOrder ==
  ASSUME IndInv, IndInv', RoutingInv, OrderInv, NEW b \in Broadcasters, GetBroadcastTargets(b)
  PROVE  OrderInv'
  <1>1. /\ pc[b] = "relay" /\ b \in Threads /\ b \notin Receivers
        /\ targets' = [targets EXCEPT ![b] = Targets(msg[b])] /\ pc' = [pc EXCEPT ![b] = "write"]
        /\ UNCHANGED <<fd, written, msg, m_pBroadcastQueue, relay, sent, inbox, m_cCBuff>>
    BY ServerAssumption DEF GetBroadcastTargets, Threads, Goto, net, shared
  <1>2. /\ pc'[b] = "write" /\ \A s \in Threads : s # b => pc'[s] = pc[s]
        /\ targets'[b] = Targets(msg[b])
        /\ \A a \in Broadcasters : a # b => targets'[a] = targets[a]
    BY <1>1 DEF IndInv, TypeOK, HandType, LoopType
  <1>3. Made' = Made /\ Sending' = Sending
    <2>1. {q \in Receivers : pc'[q] = "broadcast"} = {q \in Receivers : pc[q] = "broadcast"}
      BY <1>1, <1>2 DEF Threads
    <2>2. {a \in Broadcasters : pc'[a] \in {"relay", "write"}}
            = {a \in Broadcasters : pc[a] \in {"relay", "write"}}
      BY <1>1, <1>2 DEF Threads
    <2> QED BY <1>1, <2>1, <2>2 DEF Made, Sending
  <1>4. BuffersInv' /\ Onward
    <2>1. Drained  BY <1>1 DEF Drained
    <2> QED BY <2>1, DrainedBuffers DEF OrderInv
  <1>5. ASSUME NEW a \in Broadcasters, pc'[a] \in {"relay", "write"}, NEW c \in Owed(a)'
        PROVE  pc[a] \in {"relay", "write"} /\ c \in Owed(a)
    <2>1. CASE a # b
      <3>1. pc'[a] = pc[a] /\ targets'[a] = targets[a]  BY <1>2, <2>1 DEF Threads
      <3> QED BY <1>1, <1>5, <3>1 DEF Owed
    <2>2. CASE a = b
      <3>1. PICK p \in Targets(msg[b]) : fd[c] = p[1] /\ c \in Conns
        BY <1>1, <1>2, <1>5, <2>2 DEF Owed
      <3>2. PICK d \in m_lstClient : d \in Users /\ fd[c] = fd[d]  BY <3>1 DEF Targets
      <3>3. d \in Conns /\ fd[d] # NoFd
        BY DEF IndInv, NoUseAfterFree, SocketInv, Live
      <3>4. c = d  BY <3>1, <3>2, <3>3 DEF RoutingInv, FdInv
      <3> QED BY <1>1, <2>2, <3>2, <3>4 DEF Owed
    <2> QED BY <2>1, <2>2
  <1> QED BY <1>1, <1>3, <1>4, <1>5, OrderFrame

LEMMA BroadcastDoneOrder ==
  ASSUME IndInv, IndInv', OrderInv, NEW b \in Broadcasters, BroadcastDone(b)
  PROVE  OrderInv'
  <1>1. /\ pc'[b] = "home" /\ Made' = Made /\ Sending' \subseteq Sending
        /\ \A s \in Threads : s # b => pc'[s] = pc[s] /\ msg'[s] = msg[s]
        /\ UNCHANGED <<fd, written, relay, targets, sent, inbox, m_cCBuff, m_pBroadcastQueue>>
    BY BroadcastDoneFlight
  <1>2. BuffersInv' /\ Onward
    <2>1. Drained  BY <1>1 DEF Drained
    <2> QED BY <2>1, DrainedBuffers DEF OrderInv
  <1>3. ASSUME NEW a \in Broadcasters, pc'[a] \in {"relay", "write"}
        PROVE  pc'[a] = pc[a] /\ msg'[a] = msg[a] /\ Owed(a)' = Owed(a)
    <2>1. pc'[a] = pc[a] /\ msg'[a] = msg[a]  BY <1>1, <1>3 DEF Threads
    <2> QED BY <1>1, <2>1 DEF Owed
  <1> QED BY <1>1, <1>2, <1>3, OrderFrame

(* A new connection may get the descriptor of one that a message was for,  *)
(* but has been sent nothing.                                              *)
LEMMA AcceptOrder ==
  ASSUME IndInv, IndInv', RoutingInv, OrderInv, Accept
  PROVE  OrderInv'
  <1>1. PICK u \in backlog : \E f \in FDs : fd' = [fd EXCEPT ![u] = f]  BY DEF Accept
  <1>2. /\ pc[Acceptor] = "home" /\ pc' = [pc EXCEPT ![Acceptor] = "check"]
        /\ Acceptor \notin Receivers \cup Broadcasters
        /\ UNCHANGED <<written, msg, m_pBroadcastQueue, relay, targets, sent, inbox, m_cCBuff>>
    BY ServerAssumption DEF Accept, Goto, shared
  <1>3. u \in Conns /\ written[u] = <<>> /\ \A c \in Conns : c # u => fd'[c] = fd[c]
    BY <1>1 DEF RoutingInv, FdInv, IndInv, TypeOK, KernelType, Conns
  <1>4. \A t \in Receivers \cup Broadcasters : pc'[t] = pc[t]
    BY <1>2 DEF IndInv, TypeOK, HandType
  <1>5. Made' = Made /\ Sending' = Sending
    <2>1. {q \in Receivers : pc'[q] = "broadcast"} = {q \in Receivers : pc[q] = "broadcast"}
      BY <1>4
    <2>2. {a \in Broadcasters : pc'[a] \in {"relay", "write"}}
            = {a \in Broadcasters : pc[a] \in {"relay", "write"}}
      BY <1>4
    <2> QED BY <1>2, <2>1, <2>2 DEF Made, Sending
  <1>6. BuffersInv' /\ Onward
    <2>1. Drained  BY <1>2 DEF Drained
    <2> QED BY <2>1, DrainedBuffers DEF OrderInv
  <1>7. ASSUME NEW b \in Broadcasters, pc'[b] \in {"relay", "write"}, NEW c \in Owed(b)'
        PROVE  c \in Owed(b) \/ c = u
    BY <1>2, <1>3, <1>4, <1>7 DEF Owed
  <1> QED BY <1>2, <1>3, <1>4, <1>5, <1>6, <1>7, OrderFrame

LEMMA OrderInductive ==
  ASSUME IndInv, IndInv', RoutingInv, ManagersOpen, OrderInv, OneBroadcaster, [Next]_vars
  PROVE  OrderInv'
  <1>1. CASE UNCHANGED vars
    <2>1. Drained /\ Quiet  BY <1>1 DEF Drained, Quiet, vars, net, shared, Conns
    <2> QED BY <2>1, DrainedBuffers, QuietOrder DEF OrderInv
  <1>2. CASE Peers
    BY <1>2, PeersOrder
  <1>3. CASE AcceptorStep
    <2>1. Acceptor \in Threads  BY DEF Threads
    <2> QED BY <1>3, <2>1, AcceptOrder, AcceptorOrder, SharedOrder DEF AcceptorStep
  <1>4. CASE MainStep
    <2>1. Main \in Threads  BY DEF Threads
    <2> QED BY <1>4, <2>1, MainOrder, SharedOrder DEF MainStep
  <1>5. ASSUME NEW r \in Receivers, ReceiverStep(r)
        PROVE  OrderInv'
    <2>1. r \in Threads  BY DEF Threads
    <2> QED BY <1>5, <2>1, ReceiverOrder, SharedOrder, ExecuteUserOrder, ExecuteManagerOrder,
               PutBroadcastQueueOrder DEF ReceiverStep, Fetching
  <1>6. ASSUME NEW b \in Broadcasters, BroadcasterStep(b)
        PROVE  OrderInv'
    BY <1>6, GetBroadcastQueueOrder, RelayToManagerOrder, GetBroadcastTargetsOrder,
       WriteToTargetOrder, BroadcastDoneOrder DEF BroadcasterStep
  <1> QED BY <1>1, <1>2, <1>3, <1>4, <1>5, <1>6 DEF Next

LEMMA OrderInitially == Init => OrderInv
  <1> SUFFICES ASSUME Init PROVE OrderInv  OBVIOUS
  <1>1. Flight = {} /\ Made = {} /\ Queued = {} /\ Sending = {}
    BY DEF Init, Flight, Made, Queued, Sending, Places, Threads
  <1>2. \A c \in Conns : /\ inbox[c] = <<>> /\ m_cCBuff[c] = <<>> /\ written[c] = <<>>
    BY DEF Init
  <1>3. BuffersInv /\ SenderOrder
    BY <1>2 DEF BuffersInv, SenderOrder, Increasing, Below, Buffered, Places
  <1>4. TakenInv
    <2>1. \A c, s \in Conns : Text(c, s) = {}  BY <1>2 DEF Text
    <2> QED BY <1>1, <2>1 DEF TakenInv, Earlier, Below
  <1>5. PipeInv /\ SentInv
    <2>1. m_pBroadcastQueue = <<>> /\ \A b \in Broadcasters : pc[b] = "home"
      BY DEF Init, Threads
    <2> QED BY <1>1, <2>1 DEF PipeInv, SentInv
  <1> QED BY <1>3, <1>4, <1>5 DEF OrderInv

(* As long as the managers' sockets are open, one ThreadBroadcaster sends  *)
(* every connection the text of each user and manager in the order in      *)
(* which it came, and none of it twice: over full queues, input that is    *)
(* dropped, writes that end early, and descriptors that change hands.      *)
THEOREM OneBroadcasterKeepsOrder ==
  ASSUME OneBroadcaster
  PROVE  Spec /\ []ManagersOpen => []SenderOrder
  <1> DEFINE I == IndInv /\ RoutingInv /\ OrderInv
  <1>1. Init => I
    BY Initially, RoutingInitially, OrderInitially
  <1>2. I /\ ManagersOpen /\ [Next]_vars => I'
    <2> SUFFICES ASSUME I, ManagersOpen, [Next]_vars PROVE I'  OBVIOUS
    <2>1. IndInv' /\ RoutingInv'  BY Inductive, RoutingInductive
    <2> QED BY <2>1, OrderInductive
  <1>3. I => SenderOrder  BY DEF OrderInv
  <1> QED BY <1>1, <1>2, <1>3, PTL DEF Spec

-----------------------------------------------------------------------------
(***************************************************************************)
(* Who is kept.  A read event with nothing to read closes the client       *)
(* (Available), and epoll is edge triggered: a client registered, read and *)
(* registered again must be reported exactly when something has arrived.   *)
(***************************************************************************)
Steady == Conns \ MayFail

(* What waits in the socket of a steady peer fits into its buffer.         *)
InputFits ==
  \A c \in Steady : Len(inbox[c]) + Len(m_cCBuff[c]) <= CIR_BUFSIZE

(* CloseClient is never called for a peer that neither closes nor resets.  *)
SteadyKept == \A c \in Steady : client[c] # "freed"

(* Only a user who was refused is closed, and then nobody holds it.        *)
Refused(c) == /\ client[c] = "none" /\ c \notin backlog \cup unregistered
              /\ \A t \in Threads : cur[t] # c

SteadyInv ==
  \A c \in Steady :
    /\ peer[c] # "closed"
    /\ peer[c] = "reset" => Refused(c)
    /\ \A t \in Threads : cur[t] = c => pc[t] \notin {"close", "free"}
    /\ \A e \in batch : e.conn = c => ~e.err

(* From the ready list to the receiver that calls Available, a read event  *)
(* comes with something to read.                                           *)
Announced(c) == \/ c \in ready \cup {e.conn : e \in batch} \cup Places(m_pReceiveQueue)
                \/ \E t \in Threads : cur[t] = c /\ pc[t] \in {"put", "avail"}
AnnouncedInv == \A c \in Steady : Announced(c) => inbox[c] # <<>>

KeptInv == SteadyKept /\ SteadyInv /\ AnnouncedInv

(* What a step may do to steady connections.                               *)
Keeps ==
  /\ \A c \in Steady : /\ peer'[c] = peer[c]
                       /\ \/ client'[c] = client[c]
                          \/ client'[c] = "live" /\ \E t \in Threads : cur[t] = c
  /\ backlog' \subseteq backlog /\ unregistered' \subseteq unregistered
  /\ \A e \in batch' : e \in batch \/ e.conn \notin Steady \/ ~e.err
  /\ \A t \in Threads : cur'[t] \in Steady =>
       \/ cur'[t] = cur[t] /\ (pc'[t] = pc[t] \/ pc'[t] \notin {"close", "free"})
       \/ /\ cur'[t] \in backlog \cup unregistered \/ client[cur'[t]] = "live"
          /\ pc'[t] \notin {"close", "free"}

LEMMA KeepsSteady ==
  ASSUME IndInv, SteadyKept, SteadyInv, Keeps
  PROVE  SteadyKept' /\ SteadyInv'
  <1> SUFFICES ASSUME NEW c \in Steady
               PROVE  /\ client'[c] # "freed" /\ peer'[c] # "closed"
                      /\ peer'[c] = "reset" => Refused(c)'
                      /\ \A t \in Threads : cur'[t] = c => pc'[t] \notin {"close", "free"}
                      /\ \A e \in batch' : e.conn = c => ~e.err
    BY DEF SteadyKept, SteadyInv, Steady
  <1>1. /\ client[c] # "freed" /\ peer[c] # "closed"
        /\ peer[c] = "reset" => Refused(c)
        /\ \A t \in Threads : cur[t] = c => pc[t] \notin {"close", "free"}
        /\ \A e \in batch : e.conn = c => ~e.err
    BY DEF SteadyKept, SteadyInv
  <1>2. client'[c] # "freed" /\ peer'[c] # "closed"
    BY <1>1 DEF Keeps
  <1>3. ASSUME peer'[c] = "reset" PROVE Refused(c)'
    <2>1. Refused(c)  BY <1>1, <1>3 DEF Keeps
    <2>2. client'[c] = "none"  BY <2>1 DEF Keeps, Refused
    <2>3. c \notin backlog' \cup unregistered'  BY <2>1 DEF Keeps, Refused
    <2>4. \A t \in Threads : cur'[t] # c  BY <2>1 DEF Keeps, Refused
    <2> QED BY <2>2, <2>3, <2>4 DEF Refused
  <1>4. \A t \in Threads : cur'[t] = c => pc'[t] \notin {"close", "free"}
    BY <1>1 DEF Keeps
  <1>5. \A e \in batch' : e.conn = c => ~e.err
    BY <1>1 DEF Keeps
  <1> QED BY <1>2, <1>3, <1>4, <1>5

LEMMA KeepsAnnounced ==
  ASSUME AnnouncedInv, \A c \in Steady : Announced(c)' => Announced(c) /\ inbox'[c] = inbox[c]
  PROVE  AnnouncedInv'
  BY DEF AnnouncedInv, Steady

LEMMA PeersKept ==
  ASSUME IndInv, KeptInv, Peers
  PROVE  KeptInv'
  <1>1. CASE \E u \in Users : Connect(u)
    <2>1. PICK u \in Users : Connect(u)  BY <1>1
    <2>2. /\ peer[u] = "away" /\ peer' = [peer EXCEPT ![u] = "up"] /\ backlog' = backlog \cup {u}
          /\ UNCHANGED <<client, unregistered, batch, cur, pc, ready, m_pReceiveQueue, inbox>>
      BY <2>1 DEF Connect, Internals, shared
    <2>3. \A c \in Conns : c # u => peer'[c] = peer[c]
      BY <2>2 DEF IndInv, TypeOK, KernelType
    <2>4. peer'[u] = "up"
      BY <2>2 DEF IndInv, TypeOK, KernelType, Conns
    <2>5. SteadyInv'
      BY <2>2, <2>3, <2>4 DEF SteadyInv, KeptInv, Refused, Steady
    <2>6. AnnouncedInv'
      BY <2>2 DEF AnnouncedInv, KeptInv, Announced
    <2> QED BY <2>2, <2>5, <2>6 DEF KeptInv, SteadyKept
  <1>2. CASE \E c \in Conns : Send(c)
    <2>1. PICK c \in Conns : Send(c)  BY <1>2
    <2>2. /\ inbox' = [inbox EXCEPT ![c] = Append(inbox[c], sent[c] + 1)]
          /\ ready' \in {ready, ready \cup {c}}
          /\ UNCHANGED <<peer, backlog, client, unregistered, batch, cur, pc, m_pReceiveQueue>>
      BY <2>1 DEF Send, Notify, Internals, shared
    <2>3. Keeps  BY <2>2 DEF Keeps
    <2>4. inbox'[c] # <<>> /\ \A d \in Conns : d # c => inbox'[d] = inbox[d]
      <3>1. inbox[c] \in Seq(Chunks) /\ sent[c] + 1 \in Chunks /\ inbox \in [Conns -> Seq(Chunks)]
        BY DEF IndInv, TypeOK, KernelType, BufferType, Chunks
      <3>2. Append(inbox[c], sent[c] + 1) # <<>>
        BY <3>1, AppendProperties
      <3> QED BY <2>2, <3>1, <3>2
    <2>5. \A d \in Conns : d # c /\ Announced(d)' => Announced(d)
      BY <2>2 DEF Announced
    <2>6. AnnouncedInv'
      BY <2>4, <2>5 DEF AnnouncedInv, KeptInv, Steady
    <2> QED BY <2>3, <2>6, KeepsSteady DEF KeptInv
  <1>3. CASE \E c \in Conns : Close(c) \/ Reset(c)
    <2>1. PICK c \in Conns : Close(c) \/ Reset(c)  BY <1>3
    <2>2. /\ c \notin Steady /\ ready' \in {ready, ready \cup {c}}
          /\ \A d \in Conns : d # c => peer'[d] = peer[d]
          /\ UNCHANGED <<inbox, backlog, client, unregistered, batch, cur, pc, m_pReceiveQueue>>
      BY <2>1 DEF Close, Reset, Notify, Internals, shared, Steady, IndInv, TypeOK, KernelType
    <2>3. Keeps  BY <2>2 DEF Keeps, Steady
    <2>4. \A d \in Steady : Announced(d)' => Announced(d)
      BY <2>2 DEF Announced
    <2> QED BY <2>2, <2>3, <2>4, KeepsSteady, KeepsAnnounced DEF KeptInv
  <1> QED BY <1>1, <1>2, <1>3 DEF Peers

LEMMA AcceptKept ==
  ASSUME IndInv, KeptInv, Accept
  PROVE  KeptInv'
  <1>1. PICK u \in backlog : cur' = [cur EXCEPT ![Acceptor] = u] /\ backlog' = backlog \ {u}
    BY DEF Accept
  <1>2. /\ pc' = [pc EXCEPT ![Acceptor] = "check"]
        /\ UNCHANGED <<peer, inbox, client, unregistered, batch, ready, m_pReceiveQueue>>
    BY DEF Accept, Goto, shared, poll
  <1>3. cur'[Acceptor] = u /\ pc'[Acceptor] = "check"
        /\ \A t \in Threads : t # Acceptor => cur'[t] = cur[t] /\ pc'[t] = pc[t]
    BY <1>1, <1>2 DEF IndInv, TypeOK, HandType, Threads
  <1>4. Keeps  BY <1>1, <1>2, <1>3 DEF Keeps
  <1>5. \A c \in Steady : Announced(c)' => Announced(c) /\ inbox'[c] = inbox[c]
    BY <1>2, <1>3 DEF Announced
  <1> QED BY <1>4, <1>5, KeepsSteady, KeepsAnnounced DEF KeptInv

(* A user who is refused has no Client, and nobody else knows it.          *)
LEMMA RefuseClientKept ==
  ASSUME IndInv, KeptInv, RefuseClient
  PROVE  KeptInv'
  <1>0. PICK u : u = cur[Acceptor]  OBVIOUS
  <1>1. /\ pc[Acceptor] = "check" /\ Acceptor \in Threads
        /\ fd' = [fd EXCEPT ![u] = NoFd] /\ peer' = [peer EXCEPT ![u] = "reset"]
        /\ inbox' = [inbox EXCEPT ![u] = <<>>] /\ ready' = ready \ {u}
        /\ cur' = [cur EXCEPT ![Acceptor] = NoConn] /\ pc' = [pc EXCEPT ![Acceptor] = "home"]
        /\ UNCHANGED <<backlog, client, unregistered, batch, m_pReceiveQueue>>
    BY <1>0 DEF RefuseClient, CloseSocket, Done, Goto, shared, Threads
  <1>2. u \in Conns  BY <1>0, <1>1, InHand DEF IndInv, TypeOK, Accepting
  <1>3. client[u] = "none" /\ u \notin backlog \cup unregistered
    BY <1>0, <1>1, <1>2 DEF IndInv, FreshInv, Accepting
  <1>4. /\ u \notin {e.conn : e \in batch} /\ u \notin Places(m_pReceiveQueue)
        /\ \A t \in Threads : t # Acceptor => cur[t] # u
    BY <1>0, <1>1, <1>2, <1>3, ServerAssumption DEF IndInv, NoUseAfterFree, SoleOwner, Live
  <1>5. cur'[Acceptor] = NoConn /\ pc'[Acceptor] = "home"
        /\ \A t \in Threads : t # Acceptor => cur'[t] = cur[t] /\ pc'[t] = pc[t]
    BY <1>1 DEF IndInv, TypeOK, HandType
  <1>6. peer'[u] = "reset" /\ \A c \in Conns : c # u => peer'[c] = peer[c] /\ inbox'[c] = inbox[c]
    BY <1>1, <1>2 DEF IndInv, TypeOK, KernelType, BufferType
  <1>7. Refused(u)'
    BY <1>1, <1>2, <1>3, <1>4, <1>5, ServerAssumption DEF Refused
  <1>8. ~Announced(u)'
    BY <1>1, <1>2, <1>4, <1>5, ServerAssumption DEF Announced
  <1>9. \A c \in Conns : c # u /\ Announced(c)' => Announced(c)
    BY <1>1, <1>5 DEF Announced
  <1>10. AnnouncedInv'
    BY <1>6, <1>8, <1>9 DEF AnnouncedInv, KeptInv, Steady
  <1>11. \A c \in Conns : c # u /\ Refused(c) => Refused(c)'
    BY <1>1, <1>5, ServerAssumption DEF Refused
  <1>12. SteadyInv'
    <2> SUFFICES ASSUME NEW c \in Steady
                 PROVE  /\ peer'[c] # "closed" /\ (peer'[c] = "reset" => Refused(c)')
                        /\ \A t \in Threads : cur'[t] = c => pc'[t] \notin {"close", "free"}
                        /\ \A e \in batch' : e.conn = c => ~e.err
      BY DEF SteadyInv, Steady
    <2>1. c \in Conns  BY DEF Steady
    <2>2. /\ peer[c] # "closed" /\ (peer[c] = "reset" => Refused(c))
          /\ \A t \in Threads : cur[t] = c => pc[t] \notin {"close", "free"}
          /\ \A e \in batch : e.conn = c => ~e.err
      BY DEF SteadyInv, KeptInv
    <2>3. peer'[c] # "closed" /\ (peer'[c] = "reset" => Refused(c)')
      BY <1>6, <1>7, <1>11, <2>1, <2>2
    <2>4. \A t \in Threads : cur'[t] = c => pc'[t] \notin {"close", "free"}
      BY <1>5, <2>1, <2>2, ServerAssumption
    <2> QED BY <1>1, <2>2, <2>3, <2>4
  <1> QED BY <1>1, <1>10, <1>12 DEF KeptInv, SteadyKept

(* A step of one thread t that leaves the kernel alone, keeps what it has  *)
(* in hand or lets go of it, and closes nothing steady.                    *)
LEMMA ThreadKept ==
  ASSUME IndInv, KeptInv, NEW t \in Threads, NEW c, NEW p,
         \/ c = NoConn \/ c \in unregistered
         \/ c = cur[t] /\ (p \notin {"close", "free"} \/ p = pc[t] \/ cur[t] \notin Steady),
         p \notin {"put", "avail"},
         pc' = [pc EXCEPT ![t] = p], cur' = [cur EXCEPT ![t] = c],
         UNCHANGED <<peer, inbox, backlog, ready, m_pReceiveQueue, batch>>,
         unregistered' \subseteq unregistered, c \in unregistered => p \notin {"close", "free"},
         client' \in {client, [client EXCEPT ![cur[t]] = "live"]}
  PROVE  KeptInv'
  <1>1. cur'[t] = c /\ pc'[t] = p
        /\ \A s \in Threads : s # t => cur'[s] = cur[s] /\ pc'[s] = pc[s]
    BY DEF IndInv, TypeOK, HandType
  <1>2. \A d \in Conns : client'[d] = client[d] \/ (client'[d] = "live" /\ cur[t] = d)
    BY DEF IndInv, TypeOK, ServerType
  <1>3. NoConn \notin Steady  BY ServerAssumption DEF Steady
  <1>4. Keeps  BY <1>1, <1>2, <1>3 DEF Keeps, Steady
  <1>5. \A d \in Steady : Announced(d)' => Announced(d) /\ inbox'[d] = inbox[d]
    BY <1>1 DEF Announced
  <1> QED BY <1>4, <1>5, KeepsSteady, KeepsAnnounced DEF KeptInv

(* EPOLL_CTL_ADD reports a connection that has something to read.          *)
LEMMA AddClientKept ==
  ASSUME IndInv, KeptInv, NEW t \in Threads, pc[t] \in {"add", "rearm"},
         AddClient(cur[t]), Done(t),
         UNCHANGED <<peer, inbox, backlog, client, unregistered, m_pReceiveQueue, batch>>
  PROVE  KeptInv'
  <1>0. PICK c : c = cur[t]  OBVIOUS
  <1>1. c \in Conns  BY <1>0, InHand DEF IndInv, TypeOK, Holding
  <1>2. cur'[t] = NoConn /\ pc'[t] = "home"
        /\ \A s \in Threads : s # t => cur'[s] = cur[s] /\ pc'[s] = pc[s]
    BY DEF Done, Goto, IndInv, TypeOK, HandType
  <1>3. NoConn \notin Steady  BY ServerAssumption DEF Steady
  <1>4. Keeps  BY <1>2, <1>3 DEF Keeps
  <1>5. c \in Steady => peer[c] \notin {"closed", "reset"}
    BY <1>0 DEF KeptInv, SteadyInv, Refused
  <1>6. c \in Steady /\ c \in ready' => c \in ready \/ inbox[c] # <<>>
    BY <1>0, <1>5 DEF AddClient, Readable
  <1>7. \A d \in Conns : d # c /\ Announced(d)' => Announced(d)
    BY <1>0, <1>2 DEF Announced, AddClient
  <1>8. Announced(c)' => Announced(c) \/ c \in ready'
    BY <1>1, <1>2, ServerAssumption DEF Announced
  <1>9. AnnouncedInv'
    <2> SUFFICES ASSUME NEW d \in Steady, Announced(d)' PROVE inbox[d] # <<>>
      BY DEF AnnouncedInv, Steady
    <2>1. CASE d # c  BY <1>7, <2>1 DEF KeptInv, AnnouncedInv, Steady
    <2>2. CASE d = c
      <3>1. d \in ready => Announced(d)  BY DEF Announced
      <3> QED BY <1>6, <1>8, <2>2, <3>1 DEF KeptInv, AnnouncedInv
    <2> QED BY <2>1, <2>2
  <1> QED BY <1>4, <1>9, KeepsSteady DEF KeptInv

LEMMA AcceptClientKept ==
  ASSUME IndInv, KeptInv, ~AddMayFail, NEW t \in Threads, AcceptClient(t)
  PROVE  KeptInv'
  <1>1. cur' = [cur EXCEPT ![t] = cur[t]] \/ AcceptAdd(t)
    BY DEF AcceptClient, AcceptLoad, AcceptStore, AcceptPush, AcceptAddFails, IndInv, TypeOK, HandType
  <1>2. CASE AcceptAdd(t)
    BY <1>2, AddClientKept DEF AcceptAdd, net, shared
  <1>3. CASE ~AcceptAdd(t)
    <2>1. \E p \in {"accept_store", "push", "add"} : pc' = [pc EXCEPT ![t] = p]
      BY <1>3 DEF AcceptClient, AcceptLoad, AcceptStore, AcceptPush, AcceptAddFails, Goto
    <2>2. /\ UNCHANGED <<peer, inbox, backlog, ready, m_pReceiveQueue, batch, unregistered>>
          /\ client' \in {client, [client EXCEPT ![cur[t]] = "live"]}
      BY <1>3 DEF AcceptClient, AcceptLoad, AcceptStore, AcceptPush, AcceptAddFails, net, poll, shared
    <2>3. cur[t] \notin unregistered  BY DEF IndInv, FreshInv
    <2> QED BY <1>1, <1>3, <2>1, <2>2, <2>3, ThreadKept
  <1> QED BY <1>2, <1>3

(* A connection that is being closed is not steady.                        *)
LEMMA CloseClientKept ==
  ASSUME IndInv, KeptInv, NEW t \in Threads, CloseClient(t)
  PROVE  KeptInv'
  <1>1. PICK c : c = cur[t]  OBVIOUS
  <1>2. CASE CloseDel(t) \/ CloseFree(t)
    <2>1. pc[t] \in {"close", "free"} /\ c \in Conns \ Steady
      <3>1. pc[t] \in {"close", "free"}  BY <1>2 DEF CloseDel, CloseFree
      <3>2. c \in Conns  BY <1>1, <3>1, InHand DEF IndInv, TypeOK, Holding
      <3>3. c \notin Steady  BY <1>1, <3>1 DEF KeptInv, SteadyInv
      <3> QED BY <3>1, <3>2, <3>3
    <2>2. /\ cur'[t] \in {c, NoConn}
          /\ \A s \in Threads : s # t => cur'[s] = cur[s] /\ pc'[s] = pc[s]
      BY <1>1, <1>2 DEF CloseDel, CloseFree, Goto, IndInv, TypeOK, HandType
    <2>3. \A d \in Conns : d # c => /\ peer'[d] = peer[d] /\ inbox'[d] = inbox[d]
                                    /\ client'[d] = client[d]
      BY <1>1, <1>2 DEF CloseDel, CloseFree, CloseSocket, net, IndInv, TypeOK, KernelType, BufferType, ServerType
    <2>4. UNCHANGED <<backlog, unregistered, batch, m_pReceiveQueue>> /\ ready' = ready \ {c}
      BY <1>1, <1>2 DEF CloseDel, CloseFree, CloseSocket, net, shared
    <2>5. NoConn \notin Steady /\ Steady \subseteq Conns  BY ServerAssumption DEF Steady
    <2>6. Keeps
      BY <2>1, <2>2, <2>3, <2>4, <2>5 DEF Keeps
    <2>7. \A d \in Steady : Announced(d)' => Announced(d) /\ inbox'[d] = inbox[d]
      BY <2>1, <2>2, <2>3, <2>4, <2>5 DEF Announced
    <2> QED BY <2>6, <2>7, KeepsSteady, KeepsAnnounced DEF KeptInv
  <1>3. CASE CloseLoad(t) \/ CloseStore(t)
    <2>1. pc[t] \in Elsewhere /\ cur[t] = NoConn
      BY <1>3 DEF CloseLoad, CloseStore, IndInv, TypeOK, HandType, Elsewhere
    <2>2. /\ \E p \in {"uncount_store", "home"} : pc' = [pc EXCEPT ![t] = p]
          /\ cur' = [cur EXCEPT ![t] = NoConn]
          /\ UNCHANGED <<peer, inbox, backlog, ready, m_pReceiveQueue, batch, unregistered, client>>
      BY <1>3, <2>1 DEF CloseLoad, CloseStore, Goto, Done, net, poll, shared, IndInv, TypeOK, HandType
    <2>3. NoConn \notin unregistered  BY ServerAssumption DEF IndInv, TypeOK, LoopType, Conns
    <2> QED BY <2>2, <2>3, ThreadKept
  <1> QED BY <1>2, <1>3 DEF CloseClient

LEMMA AcceptorKept ==
  ASSUME IndInv, KeptInv, ~AddMayFail, AcceptorStep
  PROVE  KeptInv'
  <1>1. Acceptor \in Threads  BY DEF Threads
  <1>2. CASE AdmitClient
    <2>1. cur' = [cur EXCEPT ![Acceptor] = cur[Acceptor]] /\ pc' = [pc EXCEPT ![Acceptor] = "accept"]
          /\ UNCHANGED <<peer, inbox, backlog, ready, m_pReceiveQueue, batch, unregistered, client>>
      BY <1>2 DEF AdmitClient, Goto, net, poll, shared, IndInv, TypeOK, HandType
    <2>2. cur[Acceptor] \notin unregistered  BY <1>1 DEF IndInv, FreshInv
    <2> QED BY <1>1, <2>1, <2>2, ThreadKept
  <1> QED BY <1>1, <1>2, AcceptKept, RefuseClientKept, AcceptClientKept, CloseClientKept
       DEF AcceptorStep

(* epoll_wait and what main does with its events.                          *)
LEMMA MainKept ==
  ASSUME IndInv, KeptInv, ~AddMayFail, MainStep
  PROVE  KeptInv'
  <1>1. Main \in Threads /\ NoConn \notin Steady  BY ServerAssumption DEF Threads, Steady
  <1>2. CASE RegisterManager
    <2>1. PICK m \in unregistered : /\ unregistered' = unregistered \ {m}
                                    /\ cur' = [cur EXCEPT ![Main] = m]
      BY <1>2 DEF RegisterManager
    <2>2. pc' = [pc EXCEPT ![Main] = "accept"]
          /\ UNCHANGED <<peer, inbox, backlog, ready, m_pReceiveQueue, batch, client>>
      BY <1>2 DEF RegisterManager, Goto, net, poll, shared
    <2> QED BY <1>1, <2>1, <2>2, ThreadKept
  <1>3. CASE Polling
    <2>1. /\ batch = {} /\ batch' = {[conn |-> c, err |-> peer[c] = "reset"] : c \in ready}
          /\ ready' = {}
          /\ UNCHANGED <<peer, inbox, backlog, unregistered, m_pReceiveQueue, client, pc, cur>>
      BY <1>3 DEF Polling, net, shared
    <2>2. \A c \in ready : client[c] = "live"
      BY DEF IndInv, TypeOK, KernelType, NoUseAfterFree, Live
    <2>3. \A c \in ready : c \in Steady => peer[c] # "reset"
      BY <2>2 DEF KeptInv, SteadyInv, Refused
    <2>4. Keeps
      <3>1. ASSUME NEW e \in batch' PROVE e.conn \notin Steady \/ ~e.err
        <4>1. PICK c \in ready : e = [conn |-> c, err |-> peer[c] = "reset"]  BY <2>1
        <4>2. e.conn = c /\ e.err = (peer[c] = "reset")  BY <4>1
        <4>3. CASE c \in Steady
          <5>1. e.err = FALSE  BY <2>3, <4>2, <4>3
          <5> QED BY <5>1
        <4> QED BY <4>2, <4>3
      <3> QED BY <2>1, <3>1 DEF Keeps
    <2>5. \A c \in Steady : Announced(c)' => Announced(c)
      BY <2>1 DEF Announced
    <2> QED BY <2>1, <2>4, <2>5, KeepsSteady, KeepsAnnounced DEF KeptInv
  <1>4. CASE \E e \in batch : ErrorEvent(e)
    <2>1. PICK e \in batch : ErrorEvent(e)  BY <1>4
    <2>2. /\ e.err /\ batch' = batch \ {e}
          /\ cur' = [cur EXCEPT ![Main] = e.conn] /\ pc' = [pc EXCEPT ![Main] = "close"]
          /\ UNCHANGED <<peer, inbox, backlog, unregistered, m_pReceiveQueue, client, ready>>
      BY <2>1 DEF ErrorEvent, Goto, net, poll, shared
    <2>3. e.conn \notin Steady  BY <2>2 DEF KeptInv, SteadyInv
    <2>4. cur'[Main] = e.conn /\ pc'[Main] = "close"
          /\ \A s \in Threads : s # Main => cur'[s] = cur[s] /\ pc'[s] = pc[s]
      BY <1>1, <2>2 DEF IndInv, TypeOK, HandType
    <2>5. Keeps  BY <2>2, <2>3, <2>4 DEF Keeps
    <2>6. \A c \in Steady : Announced(c)' => Announced(c)
      BY <2>2, <2>3, <2>4 DEF Announced
    <2> QED BY <2>2, <2>5, <2>6, KeepsSteady, KeepsAnnounced DEF KeptInv
  <1>5. CASE \E e \in batch : ReadEvent(e)
    <2>1. PICK e \in batch : ReadEvent(e)  BY <1>5
    <2>2. /\ batch' = batch \ {e} /\ ready' = ready \ {e.conn}
          /\ cur' = [cur EXCEPT ![Main] = e.conn] /\ pc' = [pc EXCEPT ![Main] = "put"]
          /\ UNCHANGED <<peer, inbox, backlog, unregistered, m_pReceiveQueue, client>>
      BY <2>1 DEF ReadEvent, Goto, net, shared
    <2>3. cur'[Main] = e.conn /\ pc'[Main] = "put"
          /\ \A s \in Threads : s # Main => cur'[s] = cur[s] /\ pc'[s] = pc[s]
      BY <1>1, <2>2 DEF IndInv, TypeOK, HandType
    <2>4. client[e.conn] = "live"  BY DEF IndInv, NoUseAfterFree
    <2>5. Keeps  BY <2>2, <2>3, <2>4 DEF Keeps
    <2>6. \A c \in Steady : Announced(c)' => Announced(c)
      BY <2>2, <2>3 DEF Announced
    <2> QED BY <2>2, <2>5, <2>6, KeepsSteady, KeepsAnnounced DEF KeptInv
  <1>6. CASE PutReceiveQueue
    <2>1. PICK c : c = cur[Main]  OBVIOUS
    <2>2. /\ pc[Main] = "put" /\ m_pReceiveQueue' = Append(m_pReceiveQueue, c)
          /\ cur' = [cur EXCEPT ![Main] = NoConn] /\ pc' = [pc EXCEPT ![Main] = "home"]
          /\ UNCHANGED <<peer, inbox, backlog, unregistered, batch, client, ready>>
      BY <1>6, <2>1 DEF PutReceiveQueue, Done, Goto, net, poll
    <2>3. c \in Conns  BY <1>1, <2>1, <2>2, InHand DEF IndInv, TypeOK, Holding
    <2>4. Places(m_pReceiveQueue') = Places(m_pReceiveQueue) \cup {c}
      BY <2>2, <2>3, PlacesAppend DEF IndInv, TypeOK, QueueType
    <2>5. Places(m_pReceiveQueue)' = Places(m_pReceiveQueue')  BY DEF Places
    <2>6. cur'[Main] = NoConn /\ pc'[Main] = "home"
          /\ \A s \in Threads : s # Main => cur'[s] = cur[s] /\ pc'[s] = pc[s]
      BY <1>1, <2>2 DEF IndInv, TypeOK, HandType
    <2>7. Keeps  BY <1>1, <2>2, <2>6 DEF Keeps
    <2>8. \A d \in Steady : Announced(d)' => Announced(d)
      BY <1>1, <2>1, <2>2, <2>4, <2>5, <2>6 DEF Announced
    <2> QED BY <2>2, <2>7, <2>8, KeepsSteady, KeepsAnnounced DEF KeptInv
  <1> QED BY <1>1, <1>2, <1>3, <1>4, <1>5, <1>6, AcceptClientKept, CloseClientKept DEF MainStep

(* Available closes a client that has sent nothing, or more than there is  *)
(* room for; the read loop one whose peer has gone.                        *)
LEMMA FillFromSocketKept ==
  ASSUME IndInv, KeptInv, InputFits, NEW r \in Receivers, FillFromSocket(r)
  PROVE  KeptInv'
  <1>1. r \in Threads  BY DEF Threads
  <1>2. PICK c : c = cur[r]  OBVIOUS
  <1>3. /\ pc[r] \in {"avail", "read"} /\ cur' = cur /\ cur' = [cur EXCEPT ![r] = cur[r]]
        /\ UNCHANGED <<peer, backlog, ready, m_pReceiveQueue, batch, unregistered, client>>
    BY DEF FillFromSocket, Available, ReadAll, ReadFails, net, poll, shared, IndInv, TypeOK, HandType
  <1>4. c \in Conns  BY <1>1, <1>2, <1>3, InHand DEF IndInv, TypeOK, Holding
  <1>5. cur[r] \notin unregistered  BY <1>1 DEF IndInv, FreshInv
  <1>6. CASE Available(r)
    <2>1. PICK p \in {"close", "read"} : pc' = [pc EXCEPT ![r] = p]
      BY <1>6 DEF Available, Goto
    <2>2. c \in Steady => p = "read"
      <3> SUFFICES ASSUME c \in Steady PROVE p = "read"  OBVIOUS
      <3>1. inbox[c] # <<>>
        BY <1>1, <1>2, <1>6 DEF Available, KeptInv, AnnouncedInv, Announced
      <3>2. ~(Len(inbox[c]) > CIR_BUFSIZE - Len(m_cCBuff[c]))
        <4>1. Len(inbox[c]) \in Nat /\ Len(m_cCBuff[c]) \in Nat
          BY <1>4, LenProperties DEF IndInv, TypeOK, BufferType
        <4>2. CIR_BUFSIZE \in Nat  BY ServerAssumption
        <4>3. Len(inbox[c]) + Len(m_cCBuff[c]) <= CIR_BUFSIZE  BY DEF InputFits
        <4>4. \A x, y, z \in Nat : x + y <= z => ~(x > z - y)  OBVIOUS
        <4> QED BY <4>1, <4>2, <4>3, <4>4
      <3>3. pc' = [pc EXCEPT ![r] = "read"]
        BY <1>2, <1>6, <3>1, <3>2 DEF Available, Goto
      <3> QED BY <1>1, <2>1, <3>3 DEF IndInv, TypeOK, HandType
    <2>3. inbox' = inbox  BY <1>6 DEF Available, net
    <2> QED BY <1>1, <1>2, <1>3, <1>5, <2>1, <2>2, <2>3, ThreadKept
  <1>7. CASE ReadAll(r) \/ ReadFails(r)
    <2>1. PICK p \in {"rearm", "close", "exec"} : pc' = [pc EXCEPT ![r] = p]
      BY <1>7 DEF ReadAll, ReadFails, Goto
    <2>2. pc[r] = "read" /\ \A d \in Conns : d # c => inbox'[d] = inbox[d]
      BY <1>2, <1>7 DEF ReadAll, ReadFails, IndInv, TypeOK, BufferType
    <2>3. pc'[r] = p /\ \A s \in Threads : s # r => pc'[s] = pc[s]
      BY <1>1, <2>1 DEF IndInv, TypeOK, HandType
    <2>4. c \in Steady => p # "close"
      <3> SUFFICES ASSUME c \in Steady PROVE p # "close"  OBVIOUS
      <3>1. ~ReadFails(r)
        BY <1>1, <1>2 DEF ReadFails, KeptInv, SteadyInv, Refused
      <3>2. ~(Len(inbox[c]) > CIR_BUFSIZE - Len(m_cCBuff[c]))
        <4>1. Len(inbox[c]) \in Nat /\ Len(m_cCBuff[c]) \in Nat
          BY <1>4, LenProperties DEF IndInv, TypeOK, BufferType
        <4>2. CIR_BUFSIZE \in Nat  BY ServerAssumption
        <4>3. Len(inbox[c]) + Len(m_cCBuff[c]) <= CIR_BUFSIZE  BY DEF InputFits
        <4>4. \A x, y, z \in Nat : x + y <= z => ~(x > z - y)  OBVIOUS
        <4> QED BY <4>1, <4>2, <4>3, <4>4
      <3>3. Goto(r, "exec")  BY <1>2, <1>7, <3>1, <3>2 DEF ReadAll
      <3> QED BY <1>1, <2>3, <3>3 DEF Goto, IndInv, TypeOK, HandType
    <2>5. Keeps
      BY <1>2, <1>3, <2>3, <2>4 DEF Keeps
    <2>6. c \notin ready \cup {e.conn : e \in batch} \cup Places(m_pReceiveQueue)
      BY <1>1, <1>2, <2>2 DEF IndInv, SoleOwner, TypeOK, KernelType
    <2>7. \A s \in Threads : s # r => cur[s] # c
      BY <1>1, <1>2, <1>4, ServerAssumption DEF IndInv, SoleOwner
    <2>8. ~Announced(c)'
      BY <1>3, <2>3, <2>6, <2>7 DEF Announced
    <2>9. \A d \in Steady : Announced(d)' => Announced(d) /\ inbox'[d] = inbox[d]
      BY <1>3, <2>2, <2>3, <2>8 DEF Announced, Steady
    <2> QED BY <2>5, <2>9, KeepsSteady, KeepsAnnounced DEF KeptInv
  <1> QED BY <1>6, <1>7 DEF FillFromSocket

LEMMA ReceiverKept ==
  ASSUME IndInv, KeptInv, ~AddMayFail, InputFits, NEW r \in Receivers, ReceiverStep(r)
  PROVE  KeptInv'
  <1>1. r \in Threads /\ NoConn \notin Steady  BY ServerAssumption DEF Threads, Steady
  <1>2. CASE GetReceiveQueue(r)
    <2>1. PICK c : c = Head(m_pReceiveQueue)  OBVIOUS
    <2>2. /\ m_pReceiveQueue # <<>> /\ m_pReceiveQueue' = Tail(m_pReceiveQueue)
          /\ cur' = [cur EXCEPT ![r] = c] /\ pc' = [pc EXCEPT ![r] = "avail"]
          /\ UNCHANGED <<peer, inbox, backlog, unregistered, batch, client, ready>>
      BY <1>2, <2>1 DEF GetReceiveQueue, Goto, net, poll
    <2>3. c \in Places(m_pReceiveQueue) /\ Places(m_pReceiveQueue') \subseteq Places(m_pReceiveQueue)
      BY <2>1, <2>2, PlacesTake DEF IndInv, TypeOK, QueueType
    <2>4. Places(m_pReceiveQueue)' = Places(m_pReceiveQueue')  BY DEF Places
    <2>5. client[c] = "live"  BY <2>3 DEF IndInv, NoUseAfterFree, Live
    <2>6. cur'[r] = c /\ pc'[r] = "avail"
          /\ \A s \in Threads : s # r => cur'[s] = cur[s] /\ pc'[s] = pc[s]
      BY <1>1, <2>2 DEF IndInv, TypeOK, HandType
    <2>7. Keeps  BY <2>2, <2>5, <2>6 DEF Keeps
    <2>8. \A d \in Steady : Announced(d)' => Announced(d)
      BY <2>2, <2>3, <2>4, <2>6 DEF Announced
    <2> QED BY <2>2, <2>7, <2>8, KeepsSteady, KeepsAnnounced DEF KeptInv
  <1>3. CASE ExecuteUser(r) \/ ExecuteManager(r) \/ PutBroadcastQueue(r) \/ ExecuteDone(r)
    <2>1. PICK p \in {"exec", "broadcast", "rearm"} : pc' = [pc EXCEPT ![r] = p]
      BY <1>1, <1>3 DEF ExecuteUser, ExecuteManager, PutBroadcastQueue, ExecuteDone, Goto,
                        IndInv, TypeOK, HandType
    <2>2. /\ cur' = [cur EXCEPT ![r] = cur[r]]
          /\ UNCHANGED <<peer, inbox, backlog, ready, m_pReceiveQueue, batch, unregistered, client>>
      BY <1>3 DEF ExecuteUser, ExecuteManager, PutBroadcastQueue, ExecuteDone, net, poll, shared,
                  IndInv, TypeOK, HandType
    <2>3. cur[r] \notin unregistered  BY <1>1 DEF IndInv, FreshInv
    <2> QED BY <1>1, <2>1, <2>2, <2>3, ThreadKept
  <1>4. CASE AddEPoll(r)
    BY <1>1, <1>4, AddClientKept DEF AddEPoll, net, shared
  <1> QED BY <1>1, <1>2, <1>3, <1>4, FillFromSocketKept, CloseClientKept
       DEF ReceiverStep, AddEPollFails

LEMMA BroadcasterKept ==
  ASSUME IndInv, KeptInv, NEW b \in Broadcasters, BroadcasterStep(b)
  PROVE  KeptInv'
  <1>1. b \in Threads  BY DEF Threads
  <1>2. PICK p \in {"home", "relay", "write"} : pc' = [pc EXCEPT ![b] = p]
    BY <1>1 DEF BroadcasterStep, GetBroadcastQueue, RelayToManager, GetBroadcastTargets,
                WriteToTarget, BroadcastDone, Goto, IndInv, TypeOK, HandType
  <1>3. /\ cur' = [cur EXCEPT ![b] = cur[b]]
        /\ UNCHANGED <<peer, inbox, backlog, ready, m_pReceiveQueue, batch, unregistered, client>>
    BY DEF BroadcasterStep, GetBroadcastQueue, RelayToManager, GetBroadcastTargets,
           WriteToTarget, BroadcastDone, net, poll, shared, IndInv, TypeOK, HandType
  <1>4. cur[b] \notin unregistered  BY <1>1 DEF IndInv, FreshInv
  <1> QED BY <1>1, <1>2, <1>3, <1>4, ThreadKept

LEMMA KeptInductive ==
  ASSUME IndInv, KeptInv, ~AddMayFail, InputFits, [Next]_vars
  PROVE  KeptInv'
  <1>1. CASE UNCHANGED vars
    <2>1. Keeps  BY <1>1 DEF Keeps, vars, net, shared
    <2>2. \A c \in Steady : Announced(c)' => Announced(c) /\ inbox'[c] = inbox[c]
      BY <1>1 DEF Announced, Places, vars, net, poll, shared
    <2> QED BY <2>1, <2>2, KeepsSteady, KeepsAnnounced DEF KeptInv
  <1> QED BY <1>1, PeersKept, AcceptorKept, MainKept, ReceiverKept, BroadcasterKept DEF Next

LEMMA KeptInitially == Init => KeptInv
  <1> SUFFICES ASSUME Init PROVE KeptInv  OBVIOUS
  <1>1. /\ client = [c \in Conns |-> "none"] /\ ready = {} /\ batch = {}
        /\ m_pReceiveQueue = <<>> /\ pc = [t \in Threads |-> "home"]
        /\ \A c \in Conns : peer[c] \in {"up", "away"}
    BY DEF Init
  <1>2. SteadyKept /\ SteadyInv  BY <1>1 DEF SteadyKept, SteadyInv, Steady
  <1>3. AnnouncedInv  BY <1>1 DEF AnnouncedInv, Announced, Places
  <1> QED BY <1>2, <1>3 DEF KeptInv

LEMMA KeptAlways ==
  ASSUME ~AddMayFail
  PROVE  Spec /\ []InputFits => [](IndInv /\ KeptInv)
  <1>1. Init => IndInv /\ KeptInv  BY Initially, KeptInitially
  <1>2. IndInv /\ KeptInv /\ InputFits /\ [Next]_vars => IndInv' /\ KeptInv'
    BY Inductive, KeptInductive
  <1> QED BY <1>1, <1>2, PTL DEF Spec

(* A client whose peer neither closes nor resets its connection is never   *)
(* disconnected, as long as its input fits the buffer: no read event comes *)
(* for nothing, although receivers register, read and register it again    *)
(* while the peer keeps sending.                                           *)
THEOREM SteadyClientsKept ==
  ASSUME ~AddMayFail
  PROVE  Spec /\ []InputFits => []SteadyKept
  <1>1. KeptInv => SteadyKept  BY DEF KeptInv
  <1> QED BY KeptAlways, <1>1, PTL

(* So a server whose managers stay up keeps their sockets: this is when    *)
(* SenderLeftOut, RelayedOnce and OneBroadcasterKeepsOrder apply.          *)
THEOREM SteadyManagersOpen ==
  ASSUME ~AddMayFail, Managers \cap MayFail = {}
  PROVE  Spec /\ []InputFits => []ManagersOpen
  <1>1. SteadyKept => ManagersOpen  BY DEF SteadyKept, ManagersOpen, Steady, Conns
  <1> QED BY SteadyClientsKept, <1>1, PTL

-----------------------------------------------------------------------------
(***************************************************************************)
(* The number of connections.                                              *)
(***************************************************************************)
UsersIn == Live \cap Users

(* What a thread between load and store has loaded, and who accepts what.  *)
CountInv ==
  /\ CountExact
  /\ \A t \in Threads : pc[t] \in Updating => tmp[t] = m_iConnCount
  /\ pc[Acceptor] \in {"accept", "accept_store"} => Cardinality(UsersIn) < MaxUser
  /\ pc[Main] \in Accepting => cur[Main] \in Managers
  /\ \A t \in Threads : pc[t] \in Accepting => t \in {Main, Acceptor}

(* The counts are numbers.                                                 *)
LEMMA Finite ==
  ASSUME NEW S, S \subseteq Conns \/ S \subseteq Threads
  PROVE  IsFiniteSet(S) /\ Cardinality(S) \in Nat
  <1>1. IsFiniteSet(Conns)
    BY FiniteAssumption, FS_Union DEF Conns
  <1>2. IsFiniteSet({Main, Acceptor})
    <2>1. IsFiniteSet({} \cup {Main})  BY FS_EmptySet, FS_AddElement
    <2>2. IsFiniteSet(({} \cup {Main}) \cup {Acceptor})  BY <2>1, FS_AddElement
    <2>3. ({} \cup {Main}) \cup {Acceptor} = {Main, Acceptor}  OBVIOUS
    <2> QED BY <2>2, <2>3
  <1>3. IsFiniteSet(Threads)
    <2>1. IsFiniteSet({Main, Acceptor} \cup Receivers)
      BY <1>2, FiniteAssumption, FS_Union
    <2> QED BY <2>1, FiniteAssumption, FS_Union DEF Threads
  <1>4. IsFiniteSet(S)
    BY <1>1, <1>3, FS_Subset
  <1> QED BY <1>4, FS_CardinalityType

(* A step that neither counts nor creates or deletes a client.             *)
Uncounting ==
  /\ client' = client /\ m_iConnCount' = m_iConnCount
  /\ \A t \in Threads : pc'[t] \in {"uncount", "uncount_store"} <=> pc[t] \in {"uncount", "uncount_store"}
  /\ \A t \in Threads : pc'[t] \in Updating =>
       tmp'[t] = m_iConnCount \/ (pc[t] \in Updating /\ tmp'[t] = tmp[t])
  /\ pc'[Acceptor] \in {"accept", "accept_store"} =>
       pc[Acceptor] \in {"accept", "accept_store"} \/ m_iConnCount < MaxUser
  /\ pc'[Main] \in Accepting =>
       (pc[Main] \in Accepting /\ cur'[Main] = cur[Main]) \/ cur'[Main] \in Managers
  /\ \A t \in Threads : pc'[t] \in Accepting => pc[t] \in Accepting \/ t \in {Main, Acceptor}

LEMMA UncountingCounts ==
  ASSUME CountInv, Uncounting
  PROVE  CountInv'
  <1>1. Live' = Live /\ UsersIn' = UsersIn  BY DEF Uncounting, Live, UsersIn
  <1>2. Uncounted' = Uncounted  BY DEF Uncounting, Uncounted
  <1>3. CountExact'  BY <1>1, <1>2 DEF CountInv, CountExact, Uncounting, UsersIn
  <1>4. \A t \in Threads : pc'[t] \in Updating => tmp'[t] = m_iConnCount'
    BY DEF CountInv, Uncounting
  <1>5. m_iConnCount < MaxUser => Cardinality(UsersIn) < MaxUser
    <2>1. Cardinality(UsersIn) <= Cardinality(Live)
      <3>1. IsFiniteSet(Live)  BY Finite DEF Live
      <3> QED BY <3>1, FS_Subset DEF UsersIn
    <2>2. Cardinality(UsersIn) \in Nat /\ Cardinality(Live) \in Nat /\ Cardinality(Uncounted) \in Nat
      BY Finite DEF UsersIn, Live, Uncounted
    <2>3. m_iConnCount = Cardinality(Live) + Cardinality(Uncounted) /\ MaxUser \in Nat
      BY ServerAssumption DEF CountInv, CountExact
    <2> QED BY <2>1, <2>2, <2>3
  <1>6. pc'[Acceptor] \in {"accept", "accept_store"} => Cardinality(UsersIn') < MaxUser
    BY <1>1, <1>5 DEF CountInv, Uncounting
  <1>7. pc'[Main] \in Accepting => cur'[Main] \in Managers
    BY DEF CountInv, Uncounting
  <1>8. \A t \in Threads : pc'[t] \in Accepting => t \in {Main, Acceptor}
    BY DEF CountInv, Uncounting
  <1> QED BY <1>3, <1>4, <1>6, <1>7, <1>8 DEF CountInv

(* A thread that counts is alone between load and store.                   *)
LEMMA AcceptStoreCounts ==
  ASSUME IndInv, CountInv, UpdatesApart, NEW t \in Threads, AcceptStore(t)
  PROVE  CountInv'
  <1>1. /\ pc[t] = "accept_store" /\ m_iConnCount' = tmp[t] + 1 /\ tmp[t] = m_iConnCount
        /\ pc' = [pc EXCEPT ![t] = "push"] /\ cur' = cur
    BY DEF AcceptStore, Goto, CountInv, Updating
  <1>2. PICK c : c = cur[t]  OBVIOUS
  <1>3. c \in Conns /\ client[c] = "none" /\ client' = [client EXCEPT ![c] = "live"]
    BY <1>1, <1>2, InHand DEF AcceptStore, IndInv, TypeOK, FreshInv, Accepting
  <1>4. pc'[t] = "push" /\ \A s \in Threads : s # t => pc'[s] = pc[s] /\ pc'[s] \notin Updating
    BY <1>1 DEF UpdatesApart, Updating, IndInv, TypeOK, HandType
  <1>5. Live' = Live \cup {c} /\ c \notin Live
    BY <1>3 DEF Live, IndInv, TypeOK, ServerType
  <1>6. Uncounted' = Uncounted  BY <1>1, <1>4 DEF Uncounted
  <1>7. Cardinality(Live') = Cardinality(Live) + 1
    BY <1>5, Finite, FS_AddElement DEF Live
  <1>8. Cardinality(Live) \in Nat /\ Cardinality(Uncounted) \in Nat /\ Cardinality(UsersIn) \in Nat
    BY Finite DEF Live, Uncounted, UsersIn
  <1>9. m_iConnCount' = Cardinality(Live') + Cardinality(Uncounted')
    <2>1. m_iConnCount = Cardinality(Live) + Cardinality(Uncounted)  BY DEF CountInv, CountExact
    <2> QED BY <1>1, <1>6, <1>7, <1>8, <2>1
  <1>10. MaxUser \in Nat /\ Cardinality(UsersIn) <= MaxUser
    BY ServerAssumption DEF CountInv, CountExact, UsersIn
  <1>11. /\ Cardinality(UsersIn') <= MaxUser
         /\ pc'[Acceptor] \in {"accept", "accept_store"} => Cardinality(UsersIn') < MaxUser
    <2>1. CASE t = Acceptor
      <3>1. Cardinality(UsersIn) < MaxUser  BY <1>1, <2>1 DEF CountInv
      <3>2. Cardinality(UsersIn \cup {c}) <= Cardinality(UsersIn) + 1
        BY <1>8, Finite, FS_AddElement DEF Live, UsersIn
      <3>3. UsersIn' \in {UsersIn, UsersIn \cup {c}}  BY <1>5 DEF UsersIn
      <3>4. Cardinality(UsersIn \cup {c}) \in Nat
        BY <1>3, Finite DEF Live, UsersIn
      <3>5. Cardinality(UsersIn') <= MaxUser
        BY <1>8, <1>10, <3>1, <3>2, <3>3, <3>4
      <3>6. pc'[Acceptor] = "push"  BY <1>4, <2>1
      <3> QED BY <3>5, <3>6
    <2>2. CASE t # Acceptor
      <3>1. c \in Managers  BY <1>1, <1>2, <2>2 DEF CountInv, Accepting
      <3>2. UsersIn' = UsersIn  BY <1>5, <3>1, ServerAssumption DEF UsersIn
      <3>3. Acceptor \in Threads  BY DEF Threads
      <3> QED BY <1>4, <1>10, <2>2, <3>2, <3>3 DEF CountInv
    <2> QED BY <2>1, <2>2
  <1>12. pc'[Main] \in Accepting => cur'[Main] \in Managers
    <2>1. Main \in Threads  BY DEF Threads
    <2> QED BY <1>1, <1>4, <2>1 DEF CountInv, Accepting
  <1>13. \A s \in Threads : pc'[s] \in Accepting => s \in {Main, Acceptor}
    BY <1>4 DEF CountInv, Accepting
  <1>14. \A s \in Threads : pc'[s] \notin Updating
    BY <1>4 DEF Updating
  <1> QED BY <1>9, <1>11, <1>12, <1>13, <1>14 DEF CountInv, CountExact, UsersIn

LEMMA CloseFreeCounts ==
  ASSUME IndInv, CountInv, NEW t \in Threads, CloseFree(t)
  PROVE  CountInv'
  <1>1. /\ pc[t] = "free" /\ m_iConnCount' = m_iConnCount /\ tmp' = tmp
        /\ pc' = [pc EXCEPT ![t] = "uncount"] /\ cur' = [cur EXCEPT ![t] = NoConn]
    BY DEF CloseFree, Goto
  <1>2. PICK c : c = cur[t]  OBVIOUS
  <1>3. c \in Conns /\ client[c] = "live" /\ client' = [client EXCEPT ![c] = "freed"]
    BY <1>1, <1>2, InHand DEF CloseFree, IndInv, TypeOK, NoUseAfterFree, Holding
  <1>4. /\ pc'[t] = "uncount" /\ \A s \in Threads : s # t => pc'[s] = pc[s] /\ cur'[s] = cur[s]
    BY <1>1 DEF IndInv, TypeOK, HandType
  <1>5. Live' = Live \ {c} /\ c \in Live
    BY <1>3 DEF Live, IndInv, TypeOK, ServerType
  <1>6. Uncounted' = Uncounted \cup {t} /\ t \notin Uncounted
    BY <1>1, <1>4 DEF Uncounted
  <1>7. Cardinality(Live') = Cardinality(Live) - 1
    BY <1>5, Finite, FS_RemoveElement DEF Live
  <1>8. Cardinality(Uncounted') = Cardinality(Uncounted) + 1
    BY <1>6, Finite, FS_AddElement DEF Uncounted
  <1>9. Cardinality(Live) \in Nat /\ Cardinality(Uncounted) \in Nat
    BY Finite DEF Live, Uncounted
  <1>10. m_iConnCount' = Cardinality(Live') + Cardinality(Uncounted')
    <2>1. m_iConnCount = Cardinality(Live) + Cardinality(Uncounted)  BY DEF CountInv, CountExact
    <2> QED BY <1>1, <1>7, <1>8, <1>9, <2>1
  <1>11. Cardinality(UsersIn') <= Cardinality(UsersIn)
    <2>1. UsersIn' \subseteq UsersIn /\ IsFiniteSet(UsersIn)
      BY <1>5, Finite DEF UsersIn, Live
    <2> QED BY <2>1, FS_Subset
  <1>12. Cardinality(UsersIn') \in Nat /\ Cardinality(UsersIn) \in Nat /\ MaxUser \in Nat
    <2>1. UsersIn' \subseteq Conns  BY DEF UsersIn, Live
    <2> QED BY <2>1, Finite, ServerAssumption DEF UsersIn, Live
  <1>13. /\ Cardinality(UsersIn') <= MaxUser
         /\ pc'[Acceptor] \in {"accept", "accept_store"} => Cardinality(UsersIn') < MaxUser
    <2>1. Cardinality(UsersIn) <= MaxUser  BY DEF CountInv, CountExact, UsersIn
    <2>2. pc'[Acceptor] \in {"accept", "accept_store"} => Cardinality(UsersIn) < MaxUser
      <3>1. Acceptor \in Threads  BY DEF Threads
      <3> QED BY <1>4, <3>1 DEF CountInv
    <2> QED BY <1>11, <1>12, <2>1, <2>2
  <1>14. pc'[Main] \in Accepting => cur'[Main] \in Managers
    <2>1. Main \in Threads  BY DEF Threads
    <2> QED BY <1>4, <2>1 DEF CountInv, Accepting
  <1>15. \A s \in Threads : pc'[s] \in Accepting => s \in {Main, Acceptor}
    BY <1>4 DEF CountInv, Accepting
  <1>16. \A s \in Threads : pc'[s] \in Updating => tmp'[s] = m_iConnCount'
    BY <1>1, <1>4 DEF CountInv, Updating
  <1> QED BY <1>10, <1>13, <1>14, <1>15, <1>16 DEF CountInv, CountExact, UsersIn

LEMMA CloseStoreCounts ==
  ASSUME IndInv, CountInv, UpdatesApart, NEW t \in Threads, CloseStore(t)
  PROVE  CountInv'
  <1>1. /\ pc[t] = "uncount_store" /\ m_iConnCount' = tmp[t] - 1 /\ tmp[t] = m_iConnCount
        /\ pc' = [pc EXCEPT ![t] = "home"] /\ cur' = [cur EXCEPT ![t] = NoConn]
        /\ client' = client
    BY DEF CloseStore, Done, Goto, CountInv, Updating
  <1>2. /\ pc'[t] = "home"
        /\ \A s \in Threads : s # t => pc'[s] = pc[s] /\ cur'[s] = cur[s] /\ pc'[s] \notin Updating
    BY <1>1 DEF UpdatesApart, Updating, IndInv, TypeOK, HandType
  <1>3. Live' = Live /\ UsersIn' = UsersIn  BY <1>1 DEF Live, UsersIn
  <1>4. Uncounted' = Uncounted \ {t} /\ t \in Uncounted
    BY <1>1, <1>2 DEF Uncounted
  <1>5. Cardinality(Uncounted') = Cardinality(Uncounted) - 1
    BY <1>4, Finite, FS_RemoveElement DEF Uncounted
  <1>6. Cardinality(Live) \in Nat /\ Cardinality(Uncounted) \in Nat
    BY Finite DEF Live, Uncounted
  <1>7. m_iConnCount' = Cardinality(Live') + Cardinality(Uncounted')
    <2>1. m_iConnCount = Cardinality(Live) + Cardinality(Uncounted)  BY DEF CountInv, CountExact
    <2> QED BY <1>1, <1>3, <1>5, <1>6, <2>1
  <1>8. /\ Cardinality(UsersIn') <= MaxUser
        /\ pc'[Acceptor] \in {"accept", "accept_store"} => Cardinality(UsersIn') < MaxUser
    <2>1. Acceptor \in Threads  BY DEF Threads
    <2> QED BY <1>2, <1>3, <2>1 DEF CountInv, CountExact, UsersIn
  <1>9. pc'[Main] \in Accepting => cur'[Main] \in Managers
    <2>1. Main \in Threads  BY DEF Threads
    <2> QED BY <1>2, <2>1 DEF CountInv, Accepting
  <1>10. \A s \in Threads : pc'[s] \in Accepting => s \in {Main, Acceptor}
    BY <1>2 DEF CountInv, Accepting
  <1>11. \A s \in Threads : pc'[s] \notin Updating
    BY <1>2 DEF Updating
  <1> QED BY <1>7, <1>8, <1>9, <1>10, <1>11 DEF CountInv, CountExact, UsersIn

LEMMA AcceptClientCounts ==
  ASSUME IndInv, CountInv, UpdatesApart, NEW t \in Threads, AcceptClient(t)
  PROVE  CountInv'
  <1>1. CASE AcceptStore(t)  BY <1>1, AcceptStoreCounts
  <1>2. CASE AcceptLoad(t)
    <2>1. /\ pc[t] = "accept" /\ tmp'[t] = m_iConnCount /\ pc'[t] = "accept_store"
          /\ \A s \in Threads : s # t => tmp'[s] = tmp[s] /\ pc'[s] = pc[s]
          /\ UNCHANGED <<client, m_iConnCount, cur>>
      BY <1>2 DEF AcceptLoad, Goto, shared, IndInv, TypeOK, HandType, ServerType
    <2>2. Acceptor \in Threads /\ Main \in Threads  BY DEF Threads
    <2>3. Uncounting  BY <2>1, <2>2 DEF Uncounting, Accepting, CountInv
    <2> QED BY <2>3, UncountingCounts
  <1>3. CASE AcceptPush(t) \/ AcceptAdd(t) \/ AcceptAddFails(t)
    <2>1. /\ pc[t] \in {"push", "add"} /\ pc'[t] \in {"add", "home", "close"}
          /\ \A s \in Threads : s # t => pc'[s] = pc[s] /\ cur'[s] = cur[s]
          /\ UNCHANGED <<client, m_iConnCount, tmp>>
      BY <1>3 DEF AcceptPush, AcceptAdd, AcceptAddFails, Goto, Done, shared, IndInv, TypeOK, HandType
    <2>2. Acceptor \in Threads /\ Main \in Threads  BY DEF Threads
    <2>3. Uncounting  BY <2>1, <2>2 DEF Uncounting, Accepting, Updating
    <2> QED BY <2>3, UncountingCounts
  <1> QED BY <1>1, <1>2, <1>3 DEF AcceptClient

LEMMA CloseClientCounts ==
  ASSUME IndInv, CountInv, UpdatesApart, NEW t \in Threads, CloseClient(t)
  PROVE  CountInv'
  <1>1. CASE CloseFree(t)  BY <1>1, CloseFreeCounts
  <1>2. CASE CloseStore(t)  BY <1>2, CloseStoreCounts
  <1>3. CASE CloseDel(t) \/ CloseLoad(t)
    <2>1. /\ \/ pc[t] = "close" /\ pc'[t] = "free"
             \/ pc[t] = "uncount" /\ pc'[t] = "uncount_store" /\ tmp'[t] = m_iConnCount
          /\ \A s \in Threads : s # t => tmp'[s] = tmp[s] /\ pc'[s] = pc[s]
          /\ UNCHANGED <<client, m_iConnCount, cur>>
      BY <1>3 DEF CloseDel, CloseLoad, Goto, shared, IndInv, TypeOK, HandType, ServerType
    <2>2. Acceptor \in Threads /\ Main \in Threads  BY DEF Threads
    <2>3. Uncounting  BY <2>1, <2>2 DEF Uncounting, Accepting, Updating
    <2> QED BY <2>3, UncountingCounts
  <1> QED BY <1>1, <1>2, <1>3 DEF CloseClient

(* All other steps of a thread t, which neither count nor accept.          *)
LEMMA OtherCounts ==
  ASSUME IndInv, CountInv, NEW t \in Threads, NEW p,
         pc[t] \notin {"uncount", "uncount_store"},
         p \notin Updating \cup {"uncount", "accept"},
         p = "check" => t = Acceptor,
         pc' = [pc EXCEPT ![t] = p], \A s \in Threads : s # t => cur'[s] = cur[s],
         UNCHANGED <<client, m_iConnCount, tmp>>
  PROVE  CountInv'
  <1>1. pc'[t] = p /\ \A s \in Threads : s # t => pc'[s] = pc[s]
    BY DEF IndInv, TypeOK, HandType
  <1>2. Acceptor \in Threads /\ Main \in Threads /\ Main # Acceptor  BY DEF Threads, Main, Acceptor
  <1>3. Uncounting  BY <1>1, <1>2 DEF Uncounting, Accepting, Updating
  <1> QED BY <1>3, UncountingCounts

LEMMA AcceptorCounts ==
  ASSUME IndInv, CountInv, UpdatesApart, AcceptorStep
  PROVE  CountInv'
  <1>1. Acceptor \in Threads /\ Main \in Threads /\ Main # Acceptor
    BY DEF Threads, Main, Acceptor
  <1>2. CASE Accept
    <2>1. /\ pc[Acceptor] = "home" /\ pc' = [pc EXCEPT ![Acceptor] = "check"]
          /\ \A s \in Threads : s # Acceptor => cur'[s] = cur[s]
          /\ UNCHANGED <<client, m_iConnCount, tmp>>
      BY <1>2 DEF Accept, Goto, shared, IndInv, TypeOK, HandType
    <2> QED BY <1>1, <2>1, OtherCounts DEF Updating
  <1>3. CASE RefuseClient
    <2>1. /\ pc[Acceptor] = "check" /\ pc' = [pc EXCEPT ![Acceptor] = "home"]
          /\ \A s \in Threads : s # Acceptor => cur'[s] = cur[s]
          /\ UNCHANGED <<client, m_iConnCount, tmp>>
      BY <1>3 DEF RefuseClient, Done, Goto, shared, IndInv, TypeOK, HandType
    <2> QED BY <1>1, <2>1, OtherCounts DEF Updating
  <1>4. CASE AdmitClient
    <2>1. /\ pc[Acceptor] = "check" /\ pc'[Acceptor] = "accept" /\ m_iConnCount < MaxUser
          /\ \A s \in Threads : s # Acceptor => pc'[s] = pc[s]
          /\ UNCHANGED <<client, m_iConnCount, tmp, cur>>
      BY <1>1, <1>4 DEF AdmitClient, Goto, shared, IndInv, TypeOK, HandType
    <2>2. Uncounting  BY <1>1, <2>1 DEF Uncounting, Accepting, Updating
    <2> QED BY <2>2, UncountingCounts
  <1> QED BY <1>1, <1>2, <1>3, <1>4, AcceptClientCounts, CloseClientCounts DEF AcceptorStep

LEMMA MainCounts ==
  ASSUME IndInv, CountInv, UpdatesApart, MainStep
  PROVE  CountInv'
  <1>1. Acceptor \in Threads /\ Main \in Threads /\ Main # Acceptor
    BY DEF Threads, Main, Acceptor
  <1>2. CASE RegisterManager
    <2>1. PICK m \in unregistered : cur' = [cur EXCEPT ![Main] = m]
      BY <1>2 DEF RegisterManager
    <2>2. cur'[Main] \in Managers
      BY <1>1, <2>1 DEF IndInv, TypeOK, HandType, LoopType
    <2>3. /\ pc[Main] = "home" /\ pc'[Main] = "accept"
          /\ \A s \in Threads : s # Main => pc'[s] = pc[s]
          /\ UNCHANGED <<client, m_iConnCount, tmp>>
      BY <1>1, <1>2 DEF RegisterManager, Goto, shared, IndInv, TypeOK, HandType
    <2>4. Uncounting  BY <1>1, <2>2, <2>3 DEF Uncounting, Accepting, Updating
    <2> QED BY <2>4, UncountingCounts
  <1>3. CASE Polling
    <2>1. UNCHANGED <<client, m_iConnCount, tmp, pc, cur>>  BY <1>3 DEF Polling, shared
    <2>2. Uncounting  BY <2>1 DEF Uncounting
    <2> QED BY <2>2, UncountingCounts
  <1>4. CASE PutReceiveQueue \/ \E e \in batch : ErrorEvent(e) \/ ReadEvent(e)
    <2>1. /\ pc[Main] \in {"home", "put"}
          /\ \E p \in {"home", "close", "put"} : pc' = [pc EXCEPT ![Main] = p]
          /\ \A s \in Threads : s # Main => cur'[s] = cur[s]
          /\ UNCHANGED <<client, m_iConnCount, tmp>>
      BY <1>4 DEF PutReceiveQueue, ErrorEvent, ReadEvent, Done, Goto, shared, IndInv, TypeOK, HandType
    <2> QED BY <1>1, <2>1, OtherCounts DEF Updating
  <1> QED BY <1>1, <1>2, <1>3, <1>4, AcceptClientCounts, CloseClientCounts DEF MainStep

LEMMA ReceiverCounts ==
  ASSUME IndInv, CountInv, UpdatesApart, NEW r \in Receivers, ReceiverStep(r)
  PROVE  CountInv'
  <1>1. r \in Threads  BY DEF Threads
  <1>2. CASE ~CloseClient(r)
    <2>1. pc[r] \in {"home", "avail", "read", "exec", "broadcast", "rearm"}
      BY <1>2 DEF ReceiverStep, GetReceiveQueue, FillFromSocket, Available, ReadAll, ReadFails,
                 ExecuteUser, ExecuteManager, PutBroadcastQueue, ExecuteDone, AddEPoll, AddEPollFails
    <2>2. \E p \in {"home", "avail", "close", "read", "rearm", "exec", "broadcast"} :
             pc' = [pc EXCEPT ![r] = p]
      <3>1. CASE ExecuteManager(r)
        BY <1>1, <3>1 DEF ExecuteManager, Goto, IndInv, TypeOK, HandType
      <3>2. CASE FillFromSocket(r)
        BY <3>2 DEF FillFromSocket, Available, ReadAll, ReadFails, Goto
      <3> QED BY <1>2, <3>1, <3>2
           DEF ReceiverStep, GetReceiveQueue, ExecuteUser, PutBroadcastQueue, ExecuteDone,
               AddEPoll, AddEPollFails, Done, Goto
    <2>3. \A s \in Threads : s # r => cur'[s] = cur[s]
      BY <1>2 DEF ReceiverStep, GetReceiveQueue, FillFromSocket, Available, ReadAll, ReadFails,
                 ExecuteUser, ExecuteManager, PutBroadcastQueue, ExecuteDone, AddEPoll, AddEPollFails,
                 Done, IndInv, TypeOK, HandType
    <2>4. UNCHANGED <<client, m_iConnCount, tmp>>
      BY <1>2 DEF ReceiverStep, GetReceiveQueue, FillFromSocket, Available, ReadAll, ReadFails,
                 ExecuteUser, ExecuteManager, PutBroadcastQueue, ExecuteDone, AddEPoll, AddEPollFails,
                 shared
    <2> QED BY <1>1, <2>1, <2>2, <2>3, <2>4, OtherCounts DEF Updating
  <1> QED BY <1>1, <1>2, CloseClientCounts

LEMMA BroadcasterCounts ==
  ASSUME IndInv, CountInv, NEW b \in Broadcasters, BroadcasterStep(b)
  PROVE  CountInv'
  <1>1. b \in Threads  BY DEF Threads
  <1>2. pc[b] \in {"home", "relay", "write"}
        /\ \E p \in {"home", "relay", "write"} : pc' = [pc EXCEPT ![b] = p]
    BY <1>1 DEF BroadcasterStep, GetBroadcastQueue, RelayToManager, GetBroadcastTargets,
                WriteToTarget, BroadcastDone, Goto, IndInv, TypeOK, HandType
  <1>3. UNCHANGED <<client, m_iConnCount, tmp, cur>>
    BY DEF BroadcasterStep, GetBroadcastQueue, RelayToManager, GetBroadcastTargets,
           WriteToTarget, BroadcastDone, shared
  <1> QED BY <1>1, <1>2, <1>3, OtherCounts DEF Updating

LEMMA CountInductive ==
  ASSUME IndInv, CountInv, UpdatesApart, [Next]_vars
  PROVE  CountInv'
  <1>1. CASE UNCHANGED vars
    <2>1. Uncounting  BY <1>1 DEF Uncounting, vars, shared
    <2> QED BY <2>1, UncountingCounts
  <1>2. CASE Peers
    <2>1. UNCHANGED <<client, m_iConnCount, tmp, pc, cur>>
      BY <1>2 DEF Peers, Connect, Send, Close, Reset, Internals, shared
    <2>2. Uncounting  BY <2>1 DEF Uncounting
    <2> QED BY <2>2, UncountingCounts
  <1> QED BY <1>1, <1>2, AcceptorCounts, MainCounts, ReceiverCounts, BroadcasterCounts DEF Next

LEMMA CountInitially == Init => CountInv
  <1> SUFFICES ASSUME Init PROVE CountInv  OBVIOUS
  <1>1. m_iConnCount = 0 /\ \A t \in Threads : pc[t] = "home"  BY DEF Init
  <1>2. Live = {} /\ UsersIn = {}  BY DEF Init, Live, UsersIn
  <1>3. Uncounted = {}  BY <1>1 DEF Uncounted
  <1>4. CountExact
    BY <1>1, <1>2, <1>3, FS_EmptySet, ServerAssumption DEF CountExact, UsersIn
  <1>5. Acceptor \in Threads /\ Main \in Threads  BY DEF Threads
  <1> QED BY <1>1, <1>4, <1>5 DEF CountInv, Updating, Accepting

(* m_iConnCount is exact and the limit of users holds until two threads are *)
(* inside m_iConnCount++ or m_iConnCount-- at the same time: for any number *)
(* of threads, users and managers, and whatever fails.                      *)
THEOREM CountedExactlyAlways == Spec => CountedExactly
  <1>1. Init => IndInv /\ CountInv  BY Initially, CountInitially
  <1>2. IndInv /\ CountInv /\ UpdatesApart /\ [Next]_vars => IndInv' /\ CountInv'
    BY Inductive, CountInductive
  <1>3. IndInv /\ CountInv => CountExact  BY DEF CountInv
  <1> QED BY <1>1, <1>2, <1>3, PTL DEF Spec, CountedExactly
=============================================================================
