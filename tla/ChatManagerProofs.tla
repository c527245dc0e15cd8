-------------------------- MODULE ChatManagerProofs -------------------------
(***************************************************************************)
(* Proofs about ChatManager for every number of servers and workers, every *)
(* script and every size of the queue and the buffers: type correctness;   *)
(* that a ClientChatServer is in one pair of hands at a time and never     *)
(* used after CloseClient, whichever peers fail; and that a message is     *)
(* relayed once, in order and not back to its sender, while none fails.    *)
(***************************************************************************)
EXTENDS ChatManager, SequenceTheorems, TLAPS

USE ManagerAssumption DEF ManagerAssumption, Threads

\* A connection that accept() has not returned has no ClientChatServer.
FreshInv ==
  /\ \A c \in backlog : client[c] = "none"
  /\ \A c \in Conns : peer[c] = "away" => client[c] = "none" /\ c \notin backlog

\* Only main can have in hand a server that is still registered with epoll, and
\* epoll_wait reports a descriptor once.
WatchInv ==
  /\ \A t \in Threads : cur[t] \in interest => t = Main
  /\ \A d, e \in batch : d.conn = e.conn => d = e
  /\ \A e \in batch : e.err => e.conn # NoConn

\* A ClientChatServer that is new or about to be deleted is not in the list.
ListInv == \A t \in Threads : pc[t] \in {"add", "push", "free"} => cur[t] \notin m_lstChatServer

\* Whose hands a ClientChatServer is in.
Owned == NoUseAfterFree /\ SoleOwner /\ FreshInv /\ WatchInv /\ ListInv
Hands == KernelType /\ ManagerType /\ HandType /\ Owned

\* The chunks in the buffers: those of the socket are the last ones of the n
\* that were sent, and m_cCBuff holds later ones the further back they are.
Chunked(in, buff, n) ==
  /\ Len(buff) + Len(in) <= n
  /\ \A i \in 1 .. Len(in) : in[i] = n - Len(in) + i
  /\ \A i \in 1 .. Len(buff) : buff[i] \in i .. n
ChunkInv ==
  \A c \in Conns : /\ sent[c] <= PacketLen * (1 + Len(Script[c]))
                   /\ Chunked(inbox[c], m_cCBuff[c], sent[c])

Data == BufferType /\ SentType /\ WalkType /\ ChunkInv
IndInv == Hands /\ Data

(***************************************************************************)
(* Queues and hands                                                        *)
(***************************************************************************)
\* What EnQueue adds to the pointers in a queue.
LEMMA PlacesAppend ==
  ASSUME NEW q \in Seq(Conns), NEW c \in Conns
  PROVE  Places(Append(q, c)) = Places(q) \cup {c}
BY AppendProperties, LenProperties DEF Places

\* What DeQueue takes from them.
LEMMA PlacesTake ==
  ASSUME NEW q \in Seq(Conns), q # <<>>
  PROVE  Head(q) \in Places(q) /\ Places(Tail(q)) \subseteq Places(q)
BY HeadTailProperties, LenProperties, EmptySeq DEF Places

LEMMA PlacesType ==
  ASSUME NEW q \in Seq(Conns)
  PROVE  Places(q) \subseteq Conns
BY LenProperties, ElementOfSeq DEF Places

\* A thread with a server in hand has a live one, outside the accept queue.
LEMMA InHand ==
  ASSUME Hands, NEW t \in Threads, pc[t] \in Holding
  PROVE  cur[t] \in Conns /\ client[cur[t]] = "live" /\ cur[t] \notin backlog
<1>1. Holding \cap Elsewhere = {}  BY DEF Holding, Serving, Walking, Elsewhere
<1>2. cur[t] \in Conns  BY <1>1 DEF Hands, HandType
<1>3. client[cur[t]] = "live"  BY DEF Hands, Owned, NoUseAfterFree
<1> QED BY <1>2, <1>3 DEF Hands, Owned, FreshInv

\* A step that passes no server on: a thread goes from one label to another.
LEMMA StandHands ==
  ASSUME Hands, NEW t \in Threads, NEW l,
         UNCHANGED <<cur, client, batch, interest, m_pWorkQueue, m_lstChatServer,
                     backlog, m_iConnCount>>,
         pc' = [pc EXCEPT ![t] = l],
         \/ l = pc[t]
         \/ l \in Elsewhere /\ pc[t] \in Elsewhere
         \/ l \in Holding \ {"add", "push", "free"} /\ pc[t] \in Holding \ {"push", "close"},
         peer' \in [Conns -> {"away", "up", "closed", "reset"}],
         \A c \in Conns : peer'[c] = "away" => peer[c] = "away",
         sent' \in [Conns -> Nat], ready' \subseteq interest,
         m_uniqId' \in [Conns -> Ids \cup {NoId}], tmp' \in [Threads -> Int]
  PROVE  Hands'
<1> USE DEF Hands, Owned
<1>1. KernelType'  BY DEF KernelType
<1>2. ManagerType'  BY DEF ManagerType
<1>3. HandType'
  BY DEF HandType, Holding, Serving, Walking, Elsewhere
<1>4. NoUseAfterFree'
  BY DEF NoUseAfterFree, Live, Places, HandType, Holding, Serving, Walking, Elsewhere
<1>5. SoleOwner'
  BY DEF SoleOwner, Places, HandType, Elsewhere, KernelType
<1>6. FreshInv' /\ WatchInv'  BY DEF FreshInv, WatchInv
<1>7. ListInv'  BY DEF ListInv, HandType, Elsewhere
<1> QED BY <1>1, <1>2, <1>3, <1>4, <1>5, <1>6, <1>7

(***************************************************************************)
(* The servers and the kernel                                              *)
(***************************************************************************)
\* A connection that waits in the accept queue is in nobody's hands.
LEMMA ConnectHands ==
  ASSUME Hands, NEW c \in Conns, Connect(c)
  PROVE  Hands'
<1> USE DEF Hands, Owned, Connect, Internals, shared, heap
<1>1. KernelType'  BY DEF KernelType
<1>2. ManagerType' /\ HandType'  BY DEF ManagerType, HandType
<1>3. NoUseAfterFree' /\ SoleOwner' /\ WatchInv' /\ ListInv'
  BY DEF NoUseAfterFree, SoleOwner, WatchInv, ListInv, Places, Live
<1>4. FreshInv'  BY DEF FreshInv, KernelType
<1> QED BY <1>1, <1>2, <1>3, <1>4

\* What the peers do with a connection changes no owner.
LEMMA PeerHands ==
  ASSUME Hands, NEW c \in Conns, Send(c) \/ RecvHello(c) \/ Close(c) \/ Reset(c)
  PROVE  Hands'
<1>1. pc' = [pc EXCEPT ![Main] = pc[Main]] /\ Main \in Threads
      /\ UNCHANGED <<cur, client, batch, interest, m_pWorkQueue, m_lstChatServer,
                     backlog, m_iConnCount>>
  BY DEF Hands, HandType, Send, RecvHello, Close, Reset, Internals, shared, heap
<1>2. sent' \in [Conns -> Nat]
  <2>1. sent' = sent \/ sent' = [sent EXCEPT ![c] = @ + 1]
    BY DEF Send, RecvHello, Close, Reset
  <2>2. sent \in [Conns -> Nat] /\ sent[c] + 1 \in Nat  BY DEF Hands, KernelType
  <2> QED BY <2>1, <2>2
<1>3. /\ peer' \in [Conns -> {"away", "up", "closed", "reset"}]
      /\ \A d \in Conns : peer'[d] = "away" => peer[d] = "away"
  <2>1. peer' = peer \/ \E s \in {"closed", "reset"} : peer' = [peer EXCEPT ![c] = s]
    BY DEF Send, RecvHello, Close, Reset
  <2> QED BY <2>1 DEF Hands, KernelType
<1>4. ready' \subseteq interest
  <2>1. ready' = ready \/ Notify(c)  BY DEF Send, RecvHello, Close, Reset
  <2> QED BY <2>1 DEF Hands, KernelType, Notify
<1>5. m_uniqId' \in [Conns -> Ids \cup {NoId}] /\ tmp' \in [Threads -> Int]
  BY DEF Hands, ManagerType, Send, RecvHello, Close, Reset, Internals, heap
<1> QED BY <1>1, <1>2, <1>3, <1>4, <1>5, StandHands

(***************************************************************************)
(* The main thread                                                         *)
(***************************************************************************)
\* An event is of a registered server, which nobody has in hand.
LEMMA PollingHands == Hands /\ Polling => Hands'
<1> SUFFICES ASSUME Hands, Polling PROVE Hands'  OBVIOUS
<1> USE DEF Hands, Owned, Polling, net, heap, shared
<1>1. \A e \in batch' : \/ e.conn \in ready /\ e = [conn |-> e.conn, err |-> peer[e.conn] = "reset"]
                        \/ e = [conn |-> NoConn, err |-> FALSE]
  OBVIOUS
<1>2. ready \subseteq interest /\ interest \subseteq Conns  BY DEF KernelType
<1>3. batch' \subseteq [conn : Conns \cup {NoConn}, err : BOOLEAN]
  <2> DEFINE R == [conn : Conns \cup {NoConn}, err : BOOLEAN]
             event(c) == [conn |-> c, err |-> peer[c] = "reset"]
  <2>1. \A c \in ready, x \in BOOLEAN : [conn |-> c, err |-> x] \in R  BY <1>2
  <2>2. [conn |-> NoConn, err |-> FALSE] \in R  OBVIOUS
  <2>3. batch' = {event(c) : c \in ready} \cup {[conn |-> NoConn, err |-> FALSE] : c \in backlog}
    OBVIOUS
  <2> HIDE DEF Polling, Hands, R
  <2>4. \A c \in ready : event(c) \in R  BY <2>1, Zenon
  <2> HIDE DEF event
  <2>5. batch' \subseteq R  BY <2>2, <2>3, <2>4, Zenon
  <2> QED BY <2>5 DEF R
<1>4. KernelType' /\ ManagerType'  BY DEF KernelType, ManagerType
<1>5. HandType'  BY <1>3 DEF HandType
<1>6. NoUseAfterFree'
  BY <1>1, <1>2 DEF NoUseAfterFree, Places, Live
<1>7. SoleOwner'
  <2>1. cur[Main] = NoConn  BY DEF HandType, Elsewhere
  <2> QED BY <1>1, <1>2, <2>1 DEF SoleOwner, Places
<1>8. FreshInv' /\ ListInv'  BY DEF FreshInv, ListInv
<1>9. WatchInv'
  <2>1. ASSUME NEW d \in batch', NEW e \in batch', d.conn = e.conn
        PROVE  d = e
    <3>1. CASE d.conn = NoConn
      <4>1. NoConn \notin ready  BY <1>2
      <4> QED BY <1>1, <2>1, <3>1, <4>1
    <3>2. CASE d.conn # NoConn
      <4>1. d = [conn |-> d.conn, err |-> peer[d.conn] = "reset"]  BY <1>1, <3>2
      <4>2. e = [conn |-> e.conn, err |-> peer[e.conn] = "reset"]  BY <1>1, <2>1, <3>2
      <4> QED BY <2>1, <4>1, <4>2, Zenon
    <3> QED BY <3>1, <3>2
  <2>2. \A e \in batch' : e.err => e.conn # NoConn  BY <1>1, <1>2
  <2> QED BY <2>1, <2>2 DEF WatchInv
<1> QED BY <1>4, <1>5, <1>6, <1>7, <1>8, <1>9

\* Over the limit: the socket goes before a ClientChatServer exists.
LEMMA RefuseHands ==
  ASSUME Hands, NEW e \in batch, Refuse(e)
  PROVE  Hands'
<1> USE DEF Hands, Owned, Refuse, CloseSocket, DelClient, heap, shared
<1>0. PICK c \in backlog : backlog' = backlog \ {c} /\ CloseSocket(c)  OBVIOUS
<1>1. c \in Conns /\ client[c] = "none"  BY DEF KernelType, FreshInv
<1>2. c \notin interest  BY <1>1 DEF NoUseAfterFree, Live
<1> HIDE DEF Hands, Refuse
<1>3. interest' = interest /\ ready' = ready \ {c} /\ peer' = [peer EXCEPT ![c] = "reset"]
  BY <1>0, <1>2
<1> USE DEF Hands, Refuse
<1> HIDE DEF CloseSocket
<1>4. KernelType'  BY <1>0, <1>3 DEF KernelType
<1>5. ManagerType' /\ HandType'  BY DEF ManagerType, HandType
<1>6. NoUseAfterFree' /\ SoleOwner' /\ WatchInv' /\ ListInv'
  BY <1>3 DEF NoUseAfterFree, SoleOwner, WatchInv, ListInv, Places, Live
<1>7. FreshInv'  BY <1>0, <1>3 DEF FreshInv, KernelType
<1> QED BY <1>4, <1>5, <1>6, <1>7

\* The new ClientChatServer is in main's hands alone.
LEMMA AcceptHands ==
  ASSUME Hands, NEW e \in batch, Accept(e)
  PROVE  Hands'
<1> USE DEF Hands, Owned, Accept, Goto, poll, shared
<1>0. PICK c \in backlog : /\ backlog' = backlog \ {c}
                           /\ client' = [client EXCEPT ![c] = "live"]
                           /\ cur' = [cur EXCEPT ![Main] = c]
  OBVIOUS
<1>1. c \in Conns /\ client[c] = "none" /\ c # NoConn  BY DEF KernelType, FreshInv
<1>2. /\ pc' = [pc EXCEPT ![Main] = "add"] /\ batch' \subseteq batch
      /\ UNCHANGED <<peer, sent, interest, ready, m_pWorkQueue, m_lstChatServer, m_iConnCount,
                     tmp, m_uniqId>>
      /\ cur[Main] = NoConn
  BY DEF HandType, Elsewhere
<1> HIDE DEF Accept
<1>3. c \notin interest /\ c \notin Places(m_pWorkQueue) /\ c \notin m_lstChatServer
  BY <1>1 DEF NoUseAfterFree, Live
<1>4. \A t \in Threads : cur[t] # c
  BY <1>1 DEF NoUseAfterFree, HandType
<1>5. \A d \in batch : d.conn # c
  BY <1>1 DEF NoUseAfterFree
<1>6. KernelType' /\ ManagerType'  BY <1>0, <1>2 DEF KernelType, ManagerType
<1>7. HandType'  BY <1>0, <1>1, <1>2 DEF HandType, Holding, Elsewhere
<1>8. NoUseAfterFree'
  <2>1. \A t \in Threads : pc'[t] \in Holding => client'[cur'[t]] = "live"
    BY <1>0, <1>1, <1>2, <1>4, InHand DEF HandType, ManagerType
  <2>2. \A d \in batch' : d.conn # NoConn => client'[d.conn] = "live"
    BY <1>0, <1>2, <1>5 DEF NoUseAfterFree, HandType, ManagerType
  <2>3. Live \subseteq Live'  BY <1>0, <1>1 DEF Live, ManagerType
  <2> QED BY <1>2, <2>1, <2>2, <2>3 DEF NoUseAfterFree, Places
<1>9. SoleOwner'
  BY <1>0, <1>1, <1>2, <1>3, <1>4, <1>5 DEF SoleOwner, Places, HandType
<1>10. FreshInv'
  BY <1>0, <1>1, <1>2 DEF FreshInv, ManagerType, KernelType
<1>11. WatchInv'  BY <1>0, <1>2, <1>3 DEF WatchInv, HandType
<1>12. ListInv'  BY <1>0, <1>2, <1>3 DEF ListInv, HandType
<1> QED BY <1>6, <1>7, <1>8, <1>9, <1>10, <1>11, <1>12

LEMMA AcceptAddHands == Hands /\ AcceptAdd => Hands'
<1> SUFFICES ASSUME Hands, AcceptAdd PROVE Hands'  OBVIOUS
<1> USE DEF Hands, Owned, AcceptAdd, AddClient, Goto, net, heap, shared
<1>1. cur[Main] \in Conns /\ client[cur[Main]] = "live"  BY InHand DEF Holding
<1>2. cur[Main] \notin interest  BY DEF SoleOwner
<1>3. KernelType'  BY <1>1 DEF KernelType
<1>4. ManagerType'  BY DEF ManagerType
<1>5. HandType'  BY <1>1 DEF HandType, Holding, Elsewhere
<1>6. NoUseAfterFree'
  BY <1>1 DEF NoUseAfterFree, Live, Places, HandType, Holding
<1>7. SoleOwner'
  BY <1>1, <1>2 DEF SoleOwner, Places, HandType
<1>8. FreshInv'  BY DEF FreshInv
<1>9. WatchInv'  BY <1>1 DEF WatchInv, SoleOwner
<1>10. ListInv'  BY DEF ListInv, HandType
<1> QED BY <1>3, <1>4, <1>5, <1>6, <1>7, <1>8, <1>9, <1>10

\* delete of a ClientChatServer that only thread t can reach.
LEMMA FreeHands ==
  ASSUME Hands, NEW t \in Threads, NEW l \in Elsewhere, pc[t] \in {"add", "free"},
         client' = [client EXCEPT ![cur[t]] = "freed"], CloseSocket(cur[t]),
         cur' = [cur EXCEPT ![t] = NoConn], pc' = [pc EXCEPT ![t] = l],
         UNCHANGED <<sent, backlog, m_uniqId, m_lstChatServer, m_iConnCount, m_pWorkQueue,
                     tmp, batch>>
  PROVE  Hands'
<1> USE DEF Hands, Owned
<1>1. /\ cur[t] \in Conns /\ client[cur[t]] = "live" /\ cur[t] \notin backlog
      /\ cur[t] # NoConn
  BY InHand DEF Holding
<1>2. /\ cur[t] \notin interest /\ cur[t] \notin m_lstChatServer
      /\ cur[t] \notin Places(m_pWorkQueue)
  BY DEF SoleOwner, ListInv
<1>3. \A e \in batch : e.conn # cur[t]  BY <1>1, <1>2 DEF SoleOwner
<1>4. interest' = interest /\ ready' = ready \ {cur[t]} /\ peer' = [peer EXCEPT ![cur[t]] = "reset"]
  BY <1>2 DEF CloseSocket, DelClient
<1>5. KernelType'  BY <1>1, <1>4 DEF KernelType
<1>6. ManagerType'  BY DEF ManagerType
<1>7. HandType'  BY DEF HandType, Elsewhere
<1>8. NoUseAfterFree'
  <2>1. \A s \in Threads : pc'[s] \in Holding => s # t
    BY DEF HandType, Holding, Serving, Walking, Elsewhere
  <2>2. \A s \in Threads : pc'[s] \in Holding => client'[cur'[s]] = "live"
    <3> SUFFICES ASSUME NEW s \in Threads, pc'[s] \in Holding
                 PROVE  client'[cur'[s]] = "live"
      OBVIOUS
    <3>1. s # t /\ pc[s] \in Holding  BY <2>1 DEF HandType
    <3>2. cur'[s] = cur[s] /\ cur[s] # cur[t]  BY <1>1, <3>1 DEF HandType, SoleOwner
    <3> QED BY <3>1, <3>2, InHand DEF ManagerType
  <2>3. \A e \in batch : e.conn # NoConn => client'[e.conn] = "live"
    BY <1>1, <1>3 DEF NoUseAfterFree, ManagerType, HandType
  <2>4. \A c \in Live : c # cur[t] => c \in Live'  BY DEF Live, ManagerType
  <2> QED BY <1>2, <1>4, <2>2, <2>3, <2>4 DEF NoUseAfterFree, Places
<1>9. SoleOwner'
  <2>1. NoConn \notin interest /\ NoConn \notin Places(m_pWorkQueue)
    BY PlacesType DEF KernelType, ManagerType
  <2> QED BY <1>4, <2>1 DEF SoleOwner, Places, HandType, Elsewhere
<1>10. FreshInv'  BY <1>1, <1>4 DEF FreshInv, ManagerType, KernelType
<1>11. WatchInv'  BY <1>4 DEF WatchInv, HandType, KernelType
<1>12. ListInv'  BY DEF ListInv, HandType, ManagerType
<1> QED BY <1>5, <1>6, <1>7, <1>8, <1>9, <1>10, <1>11, <1>12

LEMMA AcceptAddFailsHands == Hands /\ AcceptAddFails => Hands'
<1>1. "home" \in Elsewhere /\ Main \in Threads  BY DEF Elsewhere
<1> QED BY <1>1, FreeHands DEF AcceptAddFails, Done, Goto, shared

LEMMA CloseFreeHands ==
  ASSUME Hands, NEW t \in Threads, CloseFree(t)
  PROVE  Hands'
<1>1. "uncount" \in Elsewhere  BY DEF Elsewhere
<1> QED BY <1>1, FreeHands DEF CloseFree, Goto, shared

\* Thread t lets go of its server, which stays where it is registered.
LEMMA ReleaseHands ==
  ASSUME Hands, NEW t \in Threads, NEW l \in Elsewhere,
         cur' = [cur EXCEPT ![t] = NoConn], pc' = [pc EXCEPT ![t] = l],
         m_lstChatServer' = m_lstChatServer
           \/ (m_lstChatServer' = m_lstChatServer \cup {cur[t]} /\ pc[t] \in Holding),
         m_iConnCount' \in Int, tmp' \in [Threads -> Int],
         UNCHANGED <<peer, sent, backlog, interest, ready, client, m_uniqId, m_pWorkQueue, batch>>
  PROVE  Hands'
<1> USE DEF Hands, Owned
<1>1. pc[t] \in Holding => cur[t] \in Conns /\ client[cur[t]] = "live"  BY InHand
<1>2. KernelType'  BY DEF KernelType
<1>3. ManagerType'  BY <1>1 DEF ManagerType
<1>4. HandType'  BY DEF HandType, Elsewhere
<1>5. NoUseAfterFree'
  <2>1. \A s \in Threads : pc'[s] \in Holding => s # t
    BY DEF HandType, Holding, Serving, Walking, Elsewhere
  <2> QED BY <1>1, <2>1 DEF NoUseAfterFree, Places, Live, HandType
<1>6. SoleOwner'
  <2>1. NoConn \notin interest /\ NoConn \notin Places(m_pWorkQueue)
    BY PlacesType DEF KernelType, ManagerType
  <2> QED BY <2>1 DEF SoleOwner, Places, HandType, Elsewhere
<1>7. FreshInv'  BY DEF FreshInv
<1>8. WatchInv'  BY DEF WatchInv, HandType, KernelType
<1>9. ListInv'
  <2> SUFFICES ASSUME NEW s \in Threads, pc'[s] \in {"add", "push", "free"}
               PROVE  cur'[s] \notin m_lstChatServer'
    BY DEF ListInv
  <2>1. s # t /\ pc[s] = pc'[s] /\ cur'[s] = cur[s]  BY DEF HandType, Elsewhere
  <2>2. cur[s] \notin m_lstChatServer  BY <2>1 DEF ListInv
  <2>3. cur[s] # NoConn  BY <2>1 DEF HandType, Elsewhere
  <2>4. cur[s] # cur[t]  BY <2>1, <2>3 DEF SoleOwner
  <2> QED BY <2>1, <2>2, <2>4
<1> QED BY <1>2, <1>3, <1>4, <1>5, <1>6, <1>7, <1>8, <1>9

\* m_lstChatServer.push_back, m_iConnCount++ or --, and an AddEPoll that failed.
LEMMA LetGoHands ==
  ASSUME Hands, NEW t \in Threads,
         (t = Main /\ AcceptPush) \/ CountStore(t) \/ AddEPollFails(t)
  PROVE  Hands'
<1>1. {"count", "home"} \subseteq Elsewhere /\ "push" \in Holding  BY DEF Elsewhere, Holding
<1>2. CASE t = Main /\ AcceptPush
  BY <1>1, <1>2, ReleaseHands DEF AcceptPush, Goto, net, poll, heap, Hands, ManagerType
<1>3. CASE CountStore(t)
  <2>1. m_iConnCount' \in Int /\ tmp' \in [Threads -> Int]
    BY <1>3 DEF CountStore, Hands, ManagerType
  <2> QED BY <1>1, <1>3, <2>1, ReleaseHands DEF CountStore, Done, Goto, net, poll, heap
<1>4. CASE AddEPollFails(t)
  BY <1>1, <1>4, ReleaseHands DEF AddEPollFails, Done, Goto, net, poll, heap, shared, Hands, ManagerType
<1> QED BY <1>2, <1>3, <1>4

LEMMA CountLoadHands ==
  ASSUME Hands, NEW t \in Threads, CountLoad(t)
  PROVE  Hands'
<1>1. \E l \in Elsewhere : pc' = [pc EXCEPT ![t] = l] /\ pc[t] \in Elsewhere
  BY DEF CountLoad, Goto, Elsewhere
<1>2. tmp' \in [Threads -> Int]  BY DEF CountLoad, Hands, ManagerType
<1> QED BY <1>1, <1>2, StandHands DEF CountLoad, net, poll, heap, shared, Hands, KernelType, ManagerType

\* Main takes an event of epoll_wait, and the server with it: the only event
\* and the only hands.
LEMMA EventHands ==
  ASSUME Hands, NEW e \in batch, ErrorEvent(e) \/ ReadEvent(e)
  PROVE  Hands'
<1> USE DEF Hands, Owned
<1>1. e.conn # NoConn /\ e.conn \in Conns /\ client[e.conn] = "live" /\ e.conn \in interest
  BY DEF ErrorEvent, ReadEvent, HandType, WatchInv, NoUseAfterFree, SoleOwner
<1>2. PICK l \in {"close", "put"} :
        /\ pc' = [pc EXCEPT ![Main] = l]
        /\ l = "close" => UNCHANGED <<interest, ready>>
        /\ l = "put" => DelClient(e.conn)
  BY DEF ErrorEvent, ReadEvent, Goto, poll
<1>3. /\ cur' = [cur EXCEPT ![Main] = e.conn] /\ batch' = batch \ {e}
      /\ UNCHANGED <<peer, sent, backlog, client, m_uniqId, m_lstChatServer, m_iConnCount,
                     m_pWorkQueue, tmp>>
      /\ pc[Main] = "home"
  BY DEF ErrorEvent, ReadEvent, net, heap, shared
<1>4. /\ interest' \subseteq interest /\ ready' \subseteq interest'
      /\ \A c \in interest : c # e.conn => c \in interest'
      /\ (l = "put" => e.conn \notin interest')
  BY <1>2 DEF DelClient, KernelType
<1>5. \A t \in Threads : t # Main => cur[t] # e.conn  BY <1>1 DEF WatchInv
<1>6. \A d \in batch' : d.conn # e.conn /\ d \in batch  BY <1>3 DEF WatchInv
<1>7. KernelType' /\ ManagerType'  BY <1>3, <1>4 DEF KernelType, ManagerType
<1>8. HandType'
  BY <1>1, <1>2, <1>3 DEF HandType, Holding, Elsewhere
<1>9. NoUseAfterFree'
  BY <1>1, <1>2, <1>3, <1>4, <1>6 DEF NoUseAfterFree, Places, Live, HandType
<1>10. SoleOwner'
  <2>1. \A s, t \in Threads : cur'[s] = cur'[t] /\ cur'[s] # NoConn => s = t
    BY <1>3, <1>5 DEF SoleOwner, HandType
  <2>2. Places(m_pWorkQueue)' = Places(m_pWorkQueue) /\ e.conn \notin Places(m_pWorkQueue)
    BY <1>1, <1>3 DEF SoleOwner, Places
  <2>3. \A t \in Threads : /\ cur'[t] \notin Places(m_pWorkQueue)'
                           /\ pc'[t] \notin {"push", "close"} => cur'[t] \notin interest'
    BY <1>2, <1>3, <1>4, <2>2 DEF SoleOwner, HandType
  <2>4. \A d \in batch' : d.conn # NoConn => d.conn \in interest' /\ d.conn # cur'[Main]
    BY <1>3, <1>4, <1>6 DEF SoleOwner, HandType
  <2>5. Places(m_pWorkQueue)' \cap interest' = {}
    BY <1>4, <2>2 DEF SoleOwner
  <2> QED BY <1>3, <2>1, <2>3, <2>4, <2>5 DEF SoleOwner
<1>11. FreshInv'  BY <1>3 DEF FreshInv
<1>12. WatchInv'  BY <1>3, <1>4 DEF WatchInv, HandType
<1>13. ListInv'  BY <1>2, <1>3 DEF ListInv, HandType
<1> QED BY <1>7, <1>8, <1>9, <1>10, <1>11, <1>12, <1>13

\* The server goes from main's hands to one slot of the queue.
LEMMA PutWorkQueueHands == Hands /\ PutWorkQueue => Hands'
<1> SUFFICES ASSUME Hands, PutWorkQueue PROVE Hands'  OBVIOUS
<1> USE DEF Hands, Owned
<1>1. /\ cur[Main] \in Conns /\ client[cur[Main]] = "live" /\ cur[Main] # NoConn
      /\ pc[Main] = "put"
  BY InHand DEF PutWorkQueue, Holding
<1>2. /\ cur' = [cur EXCEPT ![Main] = NoConn] /\ pc' = [pc EXCEPT ![Main] = "home"]
      /\ m_pWorkQueue' = Append(m_pWorkQueue, cur[Main]) /\ Len(m_pWorkQueue) < QSIZE
      /\ UNCHANGED <<peer, sent, backlog, interest, ready, client, m_uniqId, m_lstChatServer,
                     m_iConnCount, batch, tmp>>
  BY DEF PutWorkQueue, Done, Goto, net, poll, heap
<1>3. /\ cur[Main] \notin interest /\ cur[Main] \notin Places(m_pWorkQueue)
      /\ \A t \in Threads : t # Main => cur[t] # cur[Main]
  BY <1>1 DEF SoleOwner
<1>4. m_pWorkQueue \in Seq(Conns) /\ NoConn \notin Places(m_pWorkQueue)
  BY PlacesType DEF ManagerType
<1>5. /\ m_pWorkQueue' \in Seq(Conns) /\ Len(m_pWorkQueue') = Len(m_pWorkQueue) + 1
      /\ \A i \in 1 .. Len(m_pWorkQueue) : m_pWorkQueue'[i] = m_pWorkQueue[i]
      /\ m_pWorkQueue'[Len(m_pWorkQueue) + 1] = cur[Main] /\ Len(m_pWorkQueue) \in Nat
  BY <1>1, <1>2, <1>4, AppendProperties, LenProperties
<1>6. Places(m_pWorkQueue') = Places(m_pWorkQueue) \cup {cur[Main]}
  BY <1>1, <1>2, <1>4, PlacesAppend
<1>7. KernelType'  BY <1>2 DEF KernelType
<1>8. ManagerType'  BY <1>2, <1>5 DEF ManagerType
<1>9. HandType'  BY <1>2 DEF HandType, Elsewhere
<1>10. NoUseAfterFree'
  <2>1. \A s \in Threads : pc'[s] \in Holding => client'[cur'[s]] = "live"
    BY <1>2 DEF NoUseAfterFree, HandType, Holding, Serving, Walking
  <2>2. Places(m_pWorkQueue') \subseteq Live
    BY <1>1, <1>6 DEF NoUseAfterFree, Live
  <2>3. Live' = Live /\ Places(m_pWorkQueue)' = Places(m_pWorkQueue')  BY <1>2 DEF Live, Places
  <2> QED BY <1>2, <2>1, <2>2, <2>3 DEF NoUseAfterFree
<1>11. SoleOwner'
  <2>1. \A s, t \in Threads : cur'[s] = cur'[t] /\ cur'[s] # NoConn => s = t
    BY <1>2 DEF SoleOwner, HandType
  <2>2. \A i \in 1 .. Len(m_pWorkQueue) : m_pWorkQueue[i] \in Places(m_pWorkQueue)
    BY DEF Places
  <2>3. \A i, j \in 1 .. Len(m_pWorkQueue') : m_pWorkQueue'[i] = m_pWorkQueue'[j] => i = j
    <3>1. \A i \in 1 .. Len(m_pWorkQueue') :
            i \in 1 .. Len(m_pWorkQueue) \/ i = Len(m_pWorkQueue) + 1
      BY <1>5
    <3> QED BY <1>3, <1>5, <2>2, <3>1 DEF SoleOwner
  <2>4. Places(m_pWorkQueue)' = Places(m_pWorkQueue) \cup {cur[Main]}
    BY <1>6 DEF Places
  <2>5. Places(m_pWorkQueue)' \cap interest' = {}  BY <1>2, <1>3, <2>4 DEF SoleOwner
  <2>6. \A t \in Threads : /\ cur'[t] \notin Places(m_pWorkQueue)'
                           /\ pc'[t] \notin {"push", "close"} => cur'[t] \notin interest'
    BY <1>1, <1>2, <1>3, <1>4, <2>4 DEF SoleOwner, HandType, KernelType
  <2>7. \A d \in batch' : d.conn # NoConn => d.conn \in interest' /\ d.conn # cur'[Main]
    BY <1>2 DEF SoleOwner, HandType
  <2> QED BY <2>1, <2>3, <2>5, <2>6, <2>7 DEF SoleOwner
<1>12. FreshInv'  BY <1>2 DEF FreshInv
<1>13. WatchInv'  BY <1>2 DEF WatchInv, HandType, KernelType
<1>14. ListInv'  BY <1>2 DEF ListInv, HandType
<1> QED BY <1>7, <1>8, <1>9, <1>10, <1>11, <1>12, <1>13, <1>14

(***************************************************************************)
(* CloseClient                                                             *)
(***************************************************************************)
LEMMA CloseDelHands ==
  ASSUME Hands, NEW t \in Threads, CloseDel(t)
  PROVE  Hands'
<1> USE DEF Hands, Owned, CloseDel, DelClient, Goto, net, heap, shared
<1>1. cur[t] \in Conns /\ cur[t] # NoConn  BY InHand DEF Holding
<1>2. \A e \in batch : e.conn # NoConn => e.conn # cur[t]
  <2>1. CASE t = Main  BY <2>1 DEF SoleOwner
  <2>2. CASE t # Main
    <3>1. cur[t] \notin interest  BY <2>2 DEF WatchInv
    <3> QED BY <3>1 DEF SoleOwner
  <2> QED BY <2>1, <2>2
<1>3. KernelType' /\ ManagerType'  BY DEF KernelType, ManagerType
<1>4. HandType'  BY DEF HandType, Holding, Elsewhere
<1>5. NoUseAfterFree'
  BY DEF NoUseAfterFree, Places, Live, HandType, Holding
<1>6. SoleOwner'  BY <1>1, <1>2 DEF SoleOwner, Places, HandType
<1>7. FreshInv' /\ WatchInv' /\ ListInv'
  BY DEF FreshInv, WatchInv, ListInv, HandType
<1> QED BY <1>3, <1>4, <1>5, <1>6, <1>7

LEMMA CloseRemoveHands ==
  ASSUME Hands, NEW t \in Threads, CloseRemove(t)
  PROVE  Hands'
<1> USE DEF Hands, Owned, CloseRemove, Goto, net, poll, heap
<1>1. KernelType' /\ ManagerType'  BY DEF KernelType, ManagerType
<1>2. HandType'  BY DEF HandType, Holding, Elsewhere
<1>3. NoUseAfterFree'
  BY DEF NoUseAfterFree, Places, Live, HandType, Holding
<1>4. SoleOwner'  BY DEF SoleOwner, Places, HandType
<1>5. FreshInv' /\ WatchInv'  BY DEF FreshInv, WatchInv
<1>6. ListInv'  BY DEF ListInv, HandType
<1> QED BY <1>1, <1>2, <1>3, <1>4, <1>5, <1>6

(***************************************************************************)
(* ThreadWorker                                                            *)
(***************************************************************************)
\* The server goes from the head of the queue to the worker.
LEMMA GetWorkQueueHands ==
  ASSUME Hands, NEW w \in Workers, GetWorkQueue(w)
  PROVE  Hands'
<1> USE DEF Hands, Owned
<1> DEFINE q == m_pWorkQueue
           c == Head(q)
<1>1. /\ cur' = [cur EXCEPT ![w] = c] /\ pc' = [pc EXCEPT ![w] = "avail"]
      /\ q' = Tail(q) /\ q # <<>> /\ pc[w] = "home"
      /\ UNCHANGED <<peer, sent, backlog, interest, ready, client, m_uniqId, m_lstChatServer,
                     m_iConnCount, batch, tmp>>
  BY DEF GetWorkQueue, Goto, net, poll, heap
<1>2. q \in Seq(Conns) /\ Len(q) \in Nat /\ Len(q) <= QSIZE
  BY LenProperties DEF ManagerType
<1>3. /\ c = q[1] /\ c \in Conns /\ Len(q) > 0 /\ Tail(q) \in Seq(Conns)
      /\ Len(Tail(q)) = Len(q) - 1
      /\ \A i \in 1 .. Len(Tail(q)) : Tail(q)[i] = q[i + 1]
  BY <1>1, <1>2, HeadTailProperties, LenProperties, EmptySeq, ElementOfSeq
<1>4. c \in Places(q) /\ Places(Tail(q)) \subseteq Places(q)
  BY <1>1, <1>2, PlacesTake
<1>5. c \notin Places(Tail(q))
  BY <1>2, <1>3 DEF SoleOwner, Places
<1>6. client[c] = "live" /\ c \notin interest /\ \A t \in Threads : cur[t] # c
  BY <1>4 DEF NoUseAfterFree, Live, SoleOwner
<1> HIDE DEF c
<1>7. KernelType'  BY <1>1 DEF KernelType
<1>8. ManagerType'  BY <1>1, <1>2, <1>3 DEF ManagerType
<1>9. HandType'
  BY <1>1, <1>3 DEF HandType, Holding, Elsewhere
<1>10. Places(m_pWorkQueue)' = Places(Tail(q)) /\ Live' = Live
  BY <1>1 DEF Places, Live
<1>11. NoUseAfterFree'
  BY <1>1, <1>4, <1>6, <1>10 DEF NoUseAfterFree, HandType
<1>12. SoleOwner'
  <2>1. \A s, t \in Threads : cur'[s] = cur'[t] /\ cur'[s] # NoConn => s = t
    BY <1>1, <1>6 DEF SoleOwner, HandType
  <2>2. \A i, j \in 1 .. Len(q') : q'[i] = q'[j] => i = j
    BY <1>1, <1>2, <1>3 DEF SoleOwner
  <2>3. \A t \in Threads : /\ cur'[t] \notin Places(m_pWorkQueue)'
                           /\ pc'[t] \notin {"push", "close"} => cur'[t] \notin interest'
    BY <1>1, <1>4, <1>5, <1>6, <1>10 DEF SoleOwner, HandType
  <2>4. \A d \in batch' : d.conn # NoConn => d.conn \in interest' /\ d.conn # cur'[Main]
    BY <1>1 DEF SoleOwner, HandType
  <2> QED BY <1>1, <1>4, <1>10, <2>1, <2>2, <2>3, <2>4 DEF SoleOwner
<1>13. FreshInv'  BY <1>1 DEF FreshInv
<1>14. WatchInv'  BY <1>1, <1>6 DEF WatchInv, HandType
<1>15. ListInv'  BY <1>1 DEF ListInv, HandType
<1> QED BY <1>7, <1>8, <1>9, <1>11, <1>12, <1>13, <1>14, <1>15

\* The worker gives the server back to epoll and does not touch it again.
LEMMA AddEPollHands ==
  ASSUME Hands, NEW w \in Workers, AddEPoll(w)
  PROVE  Hands'
<1> USE DEF Hands, Owned
<1>1. /\ cur' = [cur EXCEPT ![w] = NoConn] /\ pc' = [pc EXCEPT ![w] = "home"]
      /\ interest' = interest \cup {cur[w]} /\ ready' \subseteq ready \cup {cur[w]}
      /\ UNCHANGED <<peer, sent, backlog, client, m_uniqId, m_lstChatServer, m_pWorkQueue,
                     m_iConnCount, batch, tmp>>
      /\ pc[w] = "rearm"
  BY DEF AddEPoll, AddClient, Done, Goto, net, heap, shared
<1>2. cur[w] \in Conns /\ client[cur[w]] = "live" /\ cur[w] # NoConn
  BY <1>1, InHand DEF Holding
<1>3. /\ cur[w] \notin Places(m_pWorkQueue)
      /\ \A t \in Threads : t # w => cur[t] # cur[w]
  BY <1>2 DEF SoleOwner
<1>4. NoConn \notin interest' /\ NoConn \notin Places(m_pWorkQueue)
  BY <1>1, <1>2, PlacesType DEF KernelType, ManagerType
<1>5. KernelType'  BY <1>1, <1>2 DEF KernelType
<1>6. ManagerType'  BY <1>1 DEF ManagerType
<1>7. HandType'  BY <1>1 DEF HandType, Elsewhere
<1>8. NoUseAfterFree'
  BY <1>1, <1>2 DEF NoUseAfterFree, Places, Live, HandType, Holding, Serving, Walking
<1>9. SoleOwner'
  BY <1>1, <1>3, <1>4 DEF SoleOwner, Places, HandType
<1>10. FreshInv'  BY <1>1 DEF FreshInv
<1>11. WatchInv'  BY <1>1, <1>3, <1>4 DEF WatchInv, HandType
<1>12. ListInv'  BY <1>1 DEF ListInv, HandType
<1> QED BY <1>5, <1>6, <1>7, <1>8, <1>9, <1>10, <1>11, <1>12

\* The number of a packet is that of its last chunk, in packets.
LEMMA DivBounds ==
  ASSUME NEW p \in Nat \ {0}, NEW n \in Nat, NEW v \in Nat, p <= v, v <= p * (1 + n)
  PROVE  v \div p \in 1 .. 1 + n
<1> HIDE ManagerAssumption
<1>1. v \div p \in Nat  OBVIOUS
<1>2. v \div p >= 1  OBVIOUS
<1>3. v \div p <= 1 + n  OBVIOUS
<1> QED BY <1>1, <1>2, <1>3

\* What ExecuteCommand finds is a packet that the server has sent.
LEMMA PacketType ==
  ASSUME KernelType, Data, NEW c \in Conns, Len(m_cCBuff[c]) >= PacketLen
  PROVE  LET n == m_cCBuff[c][PacketLen] \div PacketLen
         IN  PacketOf(c, n) \in Packets /\ (n # 1 => PacketOf(c, n).cmd \in Commands)
<1> DEFINE v == m_cCBuff[c][PacketLen]
           n == v \div PacketLen
<1>1. Script[c] \in Seq(Commands) /\ Len(Script[c]) \in Nat  BY LenProperties
<1>2. sent[c] <= PacketLen * (1 + Len(Script[c])) /\ v \in PacketLen .. sent[c]
  BY LenProperties DEF Data, ChunkInv, Chunked, BufferType
<1>3. v \in Nat /\ sent[c] \in Int /\ PacketLen <= v /\ v <= sent[c]  BY <1>2 DEF KernelType
<1> HIDE DEF v
<1>4. n \in 1 .. 1 + Len(Script[c])
  <2>1. \A x \in Int : v <= sent[c] /\ sent[c] <= x => v <= x  BY <1>3
  <2>2. v <= PacketLen * (1 + Len(Script[c]))  BY <1>1, <1>2, <1>3, <2>1
  <2> QED BY <1>1, <1>3, <2>2, DivBounds
<1> HIDE DEF n
<1>5. n # 1 => n - 1 \in 1 .. Len(Script[c])  BY <1>1, <1>4
<1>6. n # 1 => Script[c][n - 1] \in Commands  BY <1>1, <1>5, ElementOfSeq
<1>7. n \in Chunks  BY <1>1, <1>4 DEF Chunks
<1>8. PacketOf(c, n) \in Packets /\ (n # 1 => PacketOf(c, n).cmd \in Commands)
  BY <1>6, <1>7 DEF PacketOf, Packets
<1> QED BY <1>8 DEF n, v

\* The labels of ThreadWorker::Run between GetWorkQueue and AddEPoll.
Inner == {"avail", "read", "exec", "rearm"} \cup Serving

\* A worker reads, executes, answers and relays with the one server in hand.
LEMMA WorkHands ==
  ASSUME IndInv, NEW w \in Workers,
         \/ FillFromSocket(w) \/ ExecuteCommand(w) \/ ExecuteDone(w)
         \/ WorkChatServerHello(w) \/ WorkDSMPing(w) \/ MessageBroadcast(w)
  PROVE  Hands'
<1> USE DEF IndInv
<1>1. /\ UNCHANGED <<cur, client, batch, interest, m_pWorkQueue, m_lstChatServer,
                     backlog, m_iConnCount, peer, sent, ready, tmp>>
      /\ pc[w] \in Inner
  BY DEF FillFromSocket, Available, ReadAll, ReadFails, ExecuteCommand, ExecuteDone,
     WorkChatServerHello, WorkDSMPing, MessageBroadcast, BroadcastBegin, BroadcastVisit,
     BroadcastNext, BroadcastEnd, net, poll, heap, shared, Inner, Serving, Walking
<1>2. Inner \subseteq Holding \ {"push", "close"}  BY DEF Inner, Holding, Serving, Walking
<1>3. cur[w] \in Conns  BY <1>1, <1>2, InHand
<1>4. \E l \in Inner \cup {"close"} : pc' = [pc EXCEPT ![w] = l]
  <2>1. CASE FillFromSocket(w) \/ ExecuteDone(w)
    BY <2>1 DEF FillFromSocket, Available, ReadAll, ReadFails, ExecuteDone, Goto, Inner
  <2>2. CASE ExecuteCommand(w)
    <3>1. \E p \in Packets : Goto(w, p.cmd)
      BY <1>3, <2>2, PacketType DEF ExecuteCommand, Hands
    <3>2. \A p \in Packets : p.cmd \in Inner
      BY DEF Packets, Commands, Inner, Serving, Walking
    <3> QED BY <3>1, <3>2 DEF Goto
  <2>3. CASE WorkChatServerHello(w) \/ WorkDSMPing(w) \/ MessageBroadcast(w)
    BY <2>3 DEF WorkChatServerHello, WorkDSMPing, MessageBroadcast, BroadcastBegin, BroadcastVisit,
       BroadcastNext, BroadcastEnd, Advance, CaseDone, Goto, Inner, Serving, Walking
  <2> QED BY <2>1, <2>2, <2>3
<1>5. m_uniqId' \in [Conns -> Ids \cup {NoId}]
  <2>1. UNCHANGED m_uniqId \/ m_uniqId' = [m_uniqId EXCEPT ![cur[w]] = HelloId[cur[w]]]
    BY DEF FillFromSocket, Available, ReadAll, ReadFails, ExecuteCommand, ExecuteDone,
     WorkChatServerHello, WorkDSMPing, MessageBroadcast, BroadcastBegin, BroadcastVisit,
     BroadcastNext, BroadcastEnd, heap
  <2> QED BY <1>3, <2>1 DEF Hands, ManagerType
<1>6. "close" \in Holding /\ {"add", "push", "free"} \cap (Inner \cup {"close"}) = {}
  BY DEF Inner, Holding, Serving, Walking
<1> QED BY <1>1, <1>2, <1>4, <1>5, <1>6, StandHands DEF Hands, KernelType, ManagerType

(***************************************************************************)
(* The buffers and the packets                                             *)
(***************************************************************************)
\* Each part of Data depends on a few variables only.
LEMMA DataFrame ==
  /\ BufferType /\ UNCHANGED <<inbox, m_cCBuff>> => BufferType'
  /\ SentType /\ UNCHANGED <<written, answer>> => SentType'
  /\ ChunkInv /\ UNCHANGED <<inbox, m_cCBuff, sent>> => ChunkInv'
<1>1. BufferType /\ UNCHANGED <<inbox, m_cCBuff>> => BufferType'  BY DEF BufferType
<1>2. SentType /\ UNCHANGED <<written, answer>> => SentType'  BY DEF SentType
<1>3. ChunkInv /\ UNCHANGED <<inbox, m_cCBuff, sent>> => ChunkInv'  BY DEF ChunkInv
<1> QED BY <1>1, <1>2, <1>3

\* A worker that does not serve a packet may be anywhere.
LEMMA WalkFrame ==
  ASSUME WalkType, UNCHANGED <<packet, iter, seen>>,
         \A w \in Workers : pc'[w] \in Serving => pc[w] \in Serving,
         \A w \in Workers : pc'[w] \in {"visit", "next"} => pc[w] \in {"visit", "next"}
  PROVE  WalkType'
BY DEF WalkType

\* A step of thread t to a label where no packet is served.
LEMMA LeaveFrame ==
  ASSUME HandType, WalkType, UNCHANGED <<packet, iter, seen>>, NEW t \in Threads,
         NEW l, l \notin Serving, pc' = [pc EXCEPT ![t] = l]
  PROVE  WalkType'
<1>1. \A w \in Workers : pc'[w] = IF w = t THEN l ELSE pc[w]  BY DEF HandType
<1>2. {"visit", "next"} \subseteq Serving  BY DEF Serving, Walking
<1> QED BY <1>1, <1>2, WalkFrame

\* What a delete, send, Put and GetPacket do to the chunks.
LEMMA ChunkedMoves ==
  ASSUME NEW in \in Seq(Chunks), NEW buff \in Seq(Chunks), NEW n \in Nat, Chunked(in, buff, n)
  PROVE  /\ Chunked(<<>>, buff, n) /\ Chunked(<<>>, <<>>, n)
         /\ Chunked(Append(in, n + 1), buff, n + 1)
         /\ Chunked(<<>>, buff \o in, n)
         /\ \A p \in Nat : p <= Len(buff) => Chunked(in, SubSeq(buff, p + 1, Len(buff)), n)
<1> HIDE ManagerAssumption
<1>1. Len(in) \in Nat /\ Len(buff) \in Nat /\ Len(<<>>) = 0  BY LenProperties
<1>2. Chunked(<<>>, buff, n) /\ Chunked(<<>>, <<>>, n)  BY <1>1 DEF Chunked
<1>3. Chunked(Append(in, n + 1), buff, n + 1)
  <2>1. n + 1 \in Chunks  BY DEF Chunks
  <2>2. /\ Len(Append(in, n + 1)) = Len(in) + 1
        /\ \A i \in 1 .. Len(in) : Append(in, n + 1)[i] = in[i]
        /\ Append(in, n + 1)[Len(in) + 1] = n + 1
    BY <1>1, <2>1, AppendProperties
  <2> DEFINE more == Append(in, n + 1)
  <2> HIDE DEF more
  <2>3. ASSUME NEW i \in 1 .. Len(more)
        PROVE  more[i] = n + 1 - Len(more) + i
    <3>1. i \in 1 .. Len(in) \/ i = Len(in) + 1  BY <1>1, <2>2 DEF more
    <3>2. Len(more) = Len(in) + 1  BY <2>2 DEF more
    <3>3. CASE i \in 1 .. Len(in)
      <4>1. more[i] = n - Len(in) + i  BY <2>2, <3>3 DEF more, Chunked
      <4> QED BY <1>1, <3>2, <4>1
    <3>4. CASE i = Len(in) + 1
      BY <1>1, <2>2, <3>2, <3>4 DEF more
    <3> QED BY <3>1, <3>3, <3>4
  <2>4. \A i \in 1 .. Len(buff) : buff[i] \in i .. n + 1  BY DEF Chunked
  <2>5. Len(buff) + Len(more) <= n + 1  BY <1>1, <2>2 DEF Chunked, more
  <2>6. Chunked(more, buff, n + 1)  BY <2>3, <2>4, <2>5 DEF Chunked
  <2> QED BY <2>6 DEF more
<1>4. Chunked(<<>>, buff \o in, n)
  <2>1. /\ Len(buff \o in) = Len(buff) + Len(in)
        /\ \A i \in 1 .. Len(buff) + Len(in) :
             (buff \o in)[i] = IF i <= Len(buff) THEN buff[i] ELSE in[i - Len(buff)]
    BY ConcatProperties
  <2>2. ASSUME NEW i \in 1 .. Len(buff) + Len(in)
        PROVE  (buff \o in)[i] \in i .. n
    <3>1. CASE i <= Len(buff)  BY <1>1, <2>1, <3>1 DEF Chunked
    <3>2. CASE ~(i <= Len(buff))
      <4>1. i - Len(buff) \in 1 .. Len(in)  BY <1>1, <3>2
      <4>2. (buff \o in)[i] = n - Len(in) + (i - Len(buff))
        BY <2>1, <3>2, <4>1 DEF Chunked
      <4> QED BY <1>1, <4>1, <4>2 DEF Chunked
    <3> QED BY <3>1, <3>2
  <2> QED BY <1>1, <2>1, <2>2 DEF Chunked
<1>5. ASSUME NEW p \in Nat, p <= Len(buff)
      PROVE  Chunked(in, SubSeq(buff, p + 1, Len(buff)), n)
  <2>1. /\ Len(SubSeq(buff, p + 1, Len(buff))) = Len(buff) - p
        /\ \A i \in 1 .. Len(buff) - p : SubSeq(buff, p + 1, Len(buff))[i] = buff[p + i]
    BY <1>1, <1>5
  <2>2. ASSUME NEW i \in 1 .. Len(buff) - p
        PROVE  buff[p + i] \in i .. n
    <3>1. p + i \in 1 .. Len(buff)  BY <1>1
    <3>2. buff[p + i] \in p + i .. n  BY <3>1 DEF Chunked
    <3> QED BY <3>2
  <2> QED BY <1>1, <1>5, <2>1, <2>2 DEF Chunked
<1> QED BY <1>2, <1>3, <1>4, <1>5

\* The buffers of a connection are emptied.
LEMMA EmptyBuffer ==
  ASSUME KernelType, BufferType, ChunkInv, NEW c \in Conns,
         inbox' = [inbox EXCEPT ![c] = <<>>],
         m_cCBuff' = m_cCBuff \/ m_cCBuff' = [m_cCBuff EXCEPT ![c] = <<>>],
         UNCHANGED sent
  PROVE  BufferType' /\ ChunkInv'
<1>1. <<>> \in Seq(Chunks)  BY EmptySeq
<1>2. BufferType'  BY <1>1 DEF BufferType
<1>3. Chunked(<<>>, m_cCBuff[c], sent[c]) /\ Chunked(<<>>, <<>>, sent[c])
  BY ChunkedMoves DEF BufferType, KernelType, ChunkInv
<1>4. ChunkInv'  BY <1>3 DEF ChunkInv, BufferType
<1> QED BY <1>2, <1>4

\* A packet is written to a connection.
LEMMA WriteType ==
  ASSUME SentType, NEW c \in Conns, NEW p \in Packets, Write(c, p), UNCHANGED answer
  PROVE  SentType'
<1>1. written[c] \in Seq(Packets)  BY DEF SentType
<1>2. Append(written[c], p) \in Seq(Packets)  BY <1>1, AppendProperties
<1> QED BY <1>2 DEF SentType, Write

LEMMA PeerData ==
  ASSUME IndInv, NEW c \in Conns,
         Connect(c) \/ Send(c) \/ RecvHello(c) \/ Close(c) \/ Reset(c)
  PROVE  Data'
<1> USE DEF IndInv, Data
<1>1. UNCHANGED <<m_cCBuff, written, pc, packet, iter, seen>>
  BY DEF Connect, Send, RecvHello, Close, Reset, Internals, heap, local
<1>2. WalkType'  BY <1>1, WalkFrame
<1>3. CASE Send(c)
  <2>1. inbox[c] \in Seq(Chunks) /\ m_cCBuff[c] \in Seq(Chunks) /\ sent[c] \in Nat
    BY DEF BufferType, Hands, KernelType
  <2>2. Chunked(Append(inbox[c], sent[c] + 1), m_cCBuff[c], sent[c] + 1)
    BY <2>1, ChunkedMoves DEF ChunkInv
  <2>3. sent[c] + 1 <= PacketLen * (1 + Len(Script[c]))
    <3>1. sent[c] < PacketLen * (1 + Len(Script[c]))  BY <1>3 DEF Send
    <3>2. \A x \in Int : sent[c] < x => sent[c] + 1 <= x  BY <2>1
    <3>3. PacketLen * (1 + Len(Script[c])) \in Int  BY LenProperties
    <3> QED BY <3>1, <3>2, <3>3
  <2>4. /\ sent' = [sent EXCEPT ![c] = sent[c] + 1]
        /\ inbox' = [inbox EXCEPT ![c] = Append(inbox[c], sent[c] + 1)]
        /\ UNCHANGED answer
    BY <1>3 DEF Send
  <2>5. ChunkInv'
    BY <1>1, <2>2, <2>3, <2>4 DEF ChunkInv, BufferType, Hands, KernelType
  <2>6. Append(inbox[c], sent[c] + 1) \in Seq(Chunks)
    BY <2>1, AppendProperties DEF Chunks
  <2>7. BufferType'  BY <1>1, <2>4, <2>6 DEF BufferType
  <2> QED BY <1>1, <1>2, <2>4, <2>5, <2>7, DataFrame
<1>4. CASE RecvHello(c)
  <2>1. written[c] \in Seq(Packets) /\ written[c] # <<>>  BY <1>4 DEF RecvHello, SentType
  <2>2. Head(written[c]) \in Packets
    BY <2>1, HeadTailProperties
  <2>3. SentType'  BY <1>1, <1>4, <2>2 DEF RecvHello, SentType
  <2> QED BY <1>1, <1>2, <1>4, <2>3, DataFrame DEF RecvHello
<1>5. CASE Connect(c) \/ Close(c) \/ Reset(c)
  BY <1>1, <1>2, <1>5, DataFrame DEF Connect, Close, Reset
<1> QED BY <1>3, <1>4, <1>5

LEMMA CloseData ==
  ASSUME IndInv, NEW t \in Threads, CloseClient(t)
  PROVE  Data'
<1> USE DEF IndInv, Data
<1>0. KernelType /\ HandType  BY DEF Hands
<1>1. \E l \in {"remove", "free", "uncount", "count_store", "uncount_store", "home"} :
        pc' = [pc EXCEPT ![t] = l]
  BY DEF CloseClient, CloseDel, CloseRemove, CloseFree, CountLoad, CountStore, Done, Goto
<1>2. UNCHANGED <<sent, written, answer, packet, iter, seen>>
  BY DEF CloseClient, CloseDel, CloseRemove, CloseFree, CountLoad, CountStore, net, local
<1>3. WalkType'  BY <1>0, <1>1, <1>2, LeaveFrame DEF Serving, Walking
<1>4. CASE CloseFree(t)
  <2>1. cur[t] \in Conns  BY <1>4, InHand DEF CloseFree, Holding
  <2>2. BufferType' /\ ChunkInv'
    BY <1>0, <1>2, <1>4, <2>1, EmptyBuffer DEF CloseFree, CloseSocket
  <2> QED BY <1>2, <1>3, <2>2, DataFrame
<1>5. CASE CloseDel(t) \/ CloseRemove(t) \/ CountLoad(t) \/ CountStore(t)
  <2>1. UNCHANGED <<inbox, m_cCBuff>>
    BY <1>5 DEF CloseDel, CloseRemove, CountLoad, CountStore, net, heap
  <2> QED BY <1>2, <1>3, <2>1, DataFrame
<1> QED BY <1>4, <1>5 DEF CloseClient

LEMMA MainData == IndInv /\ MainStep => Data'
<1> SUFFICES ASSUME IndInv, MainStep PROVE Data'  OBVIOUS
<1> USE DEF IndInv, Data
<1>0. Main \in Threads /\ KernelType /\ HandType  BY DEF Hands
<1>1. CASE Polling
  BY <1>1, WalkFrame, DataFrame DEF Polling, net, heap, local
<1>2. ASSUME NEW e \in batch, Refuse(e) PROVE Data'
  <2>1. PICK c \in backlog : CloseSocket(c)  BY <1>2 DEF Refuse
  <2>2. c \in Conns  BY <1>0 DEF KernelType
  <2>3. BufferType' /\ ChunkInv'
    BY <1>0, <1>2, <2>1, <2>2, EmptyBuffer DEF Refuse, CloseSocket, heap
  <2> QED BY <1>2, <2>3, WalkFrame, DataFrame DEF Refuse, local
<1>3. ASSUME NEW e \in batch, Accept(e) \/ ErrorEvent(e) \/ ReadEvent(e) PROVE Data'
  <2>1. \E l \in {"add", "close", "put"} : pc' = [pc EXCEPT ![Main] = l]
    BY <1>3 DEF Accept, ErrorEvent, ReadEvent, Goto
  <2>2. WalkType'
    BY <1>0, <1>3, <2>1, LeaveFrame DEF Accept, ErrorEvent, ReadEvent, local, Serving, Walking
  <2> QED BY <1>3, <2>2, DataFrame DEF Accept, ErrorEvent, ReadEvent, net, heap
<1>4. CASE AcceptAdd \/ AcceptPush \/ PutWorkQueue
  <2>1. \E l \in {"push", "count", "home"} : pc' = [pc EXCEPT ![Main] = l]
    BY <1>4 DEF AcceptAdd, AcceptPush, PutWorkQueue, Done, Goto
  <2>2. WalkType'
    BY <1>0, <1>4, <2>1, LeaveFrame DEF AcceptAdd, AcceptPush, PutWorkQueue, local, Serving, Walking
  <2> QED BY <1>4, <2>2, DataFrame DEF AcceptAdd, AcceptPush, PutWorkQueue, net, heap
<1>5. CASE AcceptAddFails
  <2>1. cur[Main] \in Conns  BY <1>0, <1>5, InHand DEF AcceptAddFails, Holding
  <2>2. BufferType' /\ ChunkInv'
    BY <1>0, <1>5, <2>1, EmptyBuffer DEF AcceptAddFails, CloseSocket
  <2>3. WalkType'
    BY <1>0, <1>5, LeaveFrame DEF AcceptAddFails, Done, Goto, local, Serving, Walking
  <2> QED BY <1>5, <2>2, <2>3, DataFrame DEF AcceptAddFails
<1>6. CASE CloseClient(Main)  BY <1>0, <1>6, CloseData
<1> QED BY <1>1, <1>2, <1>3, <1>4, <1>5, <1>6 DEF MainStep

\* A worker between two packets: the socket's bytes go to m_cCBuff, or are lost.
LEMMA FillData ==
  ASSUME IndInv, NEW w \in Workers,
         \/ GetWorkQueue(w) \/ FillFromSocket(w) \/ ExecuteDone(w)
         \/ AddEPoll(w) \/ AddEPollFails(w)
  PROVE  Data'
<1> USE DEF IndInv, Data
<1>0. KernelType /\ HandType /\ w \in Threads  BY DEF Hands
<1>1. \E l \in {"avail", "close", "read", "rearm", "exec", "home"} : pc' = [pc EXCEPT ![w] = l]
  BY DEF GetWorkQueue, FillFromSocket, Available, ReadAll, ReadFails, ExecuteDone, AddEPoll,
     AddEPollFails, Done, Goto
<1>2. UNCHANGED <<sent, written, answer, packet, iter, seen>>
  BY DEF GetWorkQueue, FillFromSocket, Available, ReadAll, ReadFails, ExecuteDone, AddEPoll,
     AddEPollFails, net, local
<1>3. WalkType'  BY <1>0, <1>1, <1>2, LeaveFrame DEF Serving, Walking
<1>4. CASE ReadAll(w) \/ ReadFails(w)
  <2> DEFINE c == cur[w]
  <2>1. c \in Conns  BY <1>0, <1>4, InHand DEF ReadAll, ReadFails, Holding
  <2>2. CASE UNCHANGED m_cCBuff
    <3>1. BufferType' /\ ChunkInv'
      BY <1>0, <1>2, <1>4, <2>1, <2>2, EmptyBuffer DEF ReadAll, ReadFails
    <3> QED BY <1>2, <1>3, <3>1, DataFrame
  <2>3. CASE m_cCBuff' = [m_cCBuff EXCEPT ![c] = @ \o inbox[c]]
    <3>1. inbox[c] \in Seq(Chunks) /\ m_cCBuff[c] \in Seq(Chunks) /\ sent[c] \in Nat
      BY <1>0, <2>1 DEF BufferType, KernelType
    <3>2. Chunked(<<>>, m_cCBuff[c] \o inbox[c], sent[c])
      BY <2>1, <3>1, ChunkedMoves DEF ChunkInv
    <3>3. m_cCBuff[c] \o inbox[c] \in Seq(Chunks) /\ <<>> \in Seq(Chunks)
      BY <3>1, ConcatProperties, EmptySeq
    <3>4. inbox' = [inbox EXCEPT ![c] = <<>>]  BY <1>4 DEF ReadAll, ReadFails
    <3>5. BufferType'  BY <2>3, <3>3, <3>4 DEF BufferType
    <3>6. ChunkInv'  BY <1>2, <2>3, <3>2, <3>4 DEF ChunkInv, BufferType
    <3> QED BY <1>2, <1>3, <3>5, <3>6, DataFrame
  <2> QED BY <1>4, <2>2, <2>3 DEF ReadAll, ReadFails, heap
<1>5. CASE GetWorkQueue(w) \/ Available(w) \/ ExecuteDone(w) \/ AddEPoll(w) \/ AddEPollFails(w)
  <2>1. UNCHANGED <<inbox, m_cCBuff>>
    BY <1>5 DEF GetWorkQueue, Available, ExecuteDone, AddEPoll, AddEPollFails, net, heap
  <2> QED BY <1>2, <1>3, <2>1, DataFrame
<1> QED BY <1>4, <1>5 DEF FillFromSocket

LEMMA ExecuteData ==
  ASSUME IndInv, NEW w \in Workers, ExecuteCommand(w)
  PROVE  Data'
<1> USE DEF IndInv, Data
<1> DEFINE c == cur[w]
           p == PacketOf(c, m_cCBuff[c][PacketLen] \div PacketLen)
<1>1. /\ KernelType /\ HandType /\ w \in Threads
      /\ pc[w] = "exec" /\ Len(m_cCBuff[c]) >= PacketLen
      /\ packet' = [packet EXCEPT ![w] = p] /\ pc' = [pc EXCEPT ![w] = p.cmd]
      /\ m_cCBuff' = [m_cCBuff EXCEPT ![c] = SubSeq(m_cCBuff[c], PacketLen + 1, Len(m_cCBuff[c]))]
      /\ UNCHANGED <<inbox, sent, written, answer, iter, seen>>
  BY DEF ExecuteCommand, Goto, net, Hands
<1>2. c \in Conns  BY <1>1, InHand DEF Holding
<1>3. p \in Packets  BY <1>1, <1>2, PacketType
<1> HIDE DEF p
<1>4. inbox[c] \in Seq(Chunks) /\ m_cCBuff[c] \in Seq(Chunks) /\ sent[c] \in Nat
  BY <1>1, <1>2 DEF BufferType, KernelType
<1> DEFINE rest == SubSeq(m_cCBuff[c], PacketLen + 1, Len(m_cCBuff[c]))
<1>5. PacketLen \in Nat /\ PacketLen <= Len(m_cCBuff[c])  BY <1>1, <1>4, LenProperties
<1>6. Chunked(inbox[c], rest, sent[c])
  BY <1>2, <1>4, <1>5, ChunkedMoves DEF ChunkInv
<1>7. rest \in Seq(Chunks)
  <2>1. Len(m_cCBuff[c]) \in Nat  BY <1>4, LenProperties
  <2>2. \A i \in PacketLen + 1 .. Len(m_cCBuff[c]) : m_cCBuff[c][i] \in Chunks
    BY <1>4, <1>5, <2>1, ElementOfSeq
  <2> QED BY <1>4, <1>5, <2>1, <2>2, SubSeqProperties
<1> HIDE DEF rest
<1>8. m_cCBuff' = [m_cCBuff EXCEPT ![c] = rest]  BY <1>1 DEF rest
<1>9. BufferType'
  <2>1. UNCHANGED inbox  BY <1>1
  <2> QED BY <1>7, <1>8, <2>1 DEF BufferType
<1>10. ChunkInv'  BY <1>1, <1>6, <1>8 DEF ChunkInv, BufferType
<1>11. WalkType'
  <2>1. p.cmd \notin {"visit", "next"}  BY <1>3 DEF Packets, Commands
  <2> QED BY <1>1, <1>3, <2>1 DEF WalkType, HandType
<1> QED BY <1>1, <1>9, <1>10, <1>11, DataFrame

\* The answers to hello and ping, and the end of a case of ExecuteCommand.
LEMMA AnswerData ==
  ASSUME IndInv, NEW w \in Workers,
         WorkChatServerHello(w) \/ WorkDSMPing(w) \/ BroadcastEnd(w)
  PROVE  Data'
<1> USE DEF IndInv, Data
<1>1. /\ w \in Threads /\ HandType /\ pc[w] \in Serving
      /\ packet' = [packet EXCEPT ![w] = NoPacket] /\ pc' = [pc EXCEPT ![w] = "exec"]
      /\ UNCHANGED <<inbox, m_cCBuff, sent, answer, iter>>
      /\ UNCHANGED seen \/ seen' = [seen EXCEPT ![w] = {}]
  BY DEF WorkChatServerHello, WorkDSMPing, BroadcastEnd, CaseDone, Goto, net, heap, Hands, Serving,
     Walking
<1>2. cur[w] \in Conns  BY <1>1, InHand DEF Holding
<1>3. packet[w] \in Packets  BY <1>1 DEF WalkType
<1>4. written' = written \/ Write(cur[w], packet[w])
  BY DEF WorkChatServerHello, WorkDSMPing, BroadcastEnd
<1>5. SentType'  BY <1>1, <1>2, <1>3, <1>4, WriteType, DataFrame
<1>6. WalkType'
  BY <1>1 DEF WalkType, HandType, Serving, Walking
<1> QED BY <1>1, <1>5, <1>6, DataFrame

\* The walk along m_lstChatServer.
LEMMA BroadcastData ==
  ASSUME IndInv, NEW w \in Workers,
         BroadcastBegin(w) \/ BroadcastVisit(w) \/ BroadcastNext(w)
  PROVE  Data'
<1> USE DEF IndInv, Data
<1>1. /\ w \in Threads /\ HandType /\ pc[w] \in Serving
      /\ UNCHANGED <<inbox, m_cCBuff, sent, answer, packet>>
  BY DEF BroadcastBegin, BroadcastVisit, BroadcastNext, net, heap, local, Hands, Serving, Walking
<1>2. packet[w] \in Packets  BY <1>1 DEF WalkType
<1>3. m_lstChatServer \subseteq Conns  BY DEF Hands, ManagerType
<1>4. CASE BroadcastVisit(w)
  <2>1. iter[w] \in Conns  BY <1>4 DEF BroadcastVisit, WalkType
  <2>2. written' = written \/ \E d \in Conns : Write(d, packet[w])
    BY <1>4, <2>1 DEF BroadcastVisit
  <2>3. SentType'  BY <1>1, <1>2, <2>2, WriteType, DataFrame
  <2>4. WalkType'
    BY <1>1, <1>4 DEF BroadcastVisit, Goto, local, WalkType, HandType, Serving, Walking
  <2> QED BY <1>1, <2>3, <2>4, DataFrame
<1>5. CASE BroadcastBegin(w) \/ BroadcastNext(w)
  <2>1. UNCHANGED written  BY <1>5 DEF BroadcastBegin, BroadcastNext
  <2>2. \E S : Advance(w, S)  BY <1>5 DEF BroadcastBegin, BroadcastNext
  <2>3. \/ pc' = [pc EXCEPT ![w] = "end"] /\ iter' = [iter EXCEPT ![w] = NoConn]
        \/ \E c \in Conns : pc' = [pc EXCEPT ![w] = "visit"] /\ iter' = [iter EXCEPT ![w] = c]
    BY <1>3, <2>2 DEF Advance, Goto
  <2>4. seen' \in [Workers -> SUBSET Conns]
    <3>1. CASE seen' = [seen EXCEPT ![w] = seen[w] \cup {iter[w]}] /\ pc[w] = "next"
      BY <3>1 DEF WalkType
    <3> QED BY <1>5, <3>1 DEF BroadcastBegin, BroadcastNext, WalkType
  <2>5. WalkType'
    <3>1. CASE pc' = [pc EXCEPT ![w] = "end"] /\ iter' = [iter EXCEPT ![w] = NoConn]
      BY <1>1, <1>2, <2>4, <3>1 DEF WalkType, HandType
    <3>2. ASSUME NEW c \in Conns, pc' = [pc EXCEPT ![w] = "visit"], iter' = [iter EXCEPT ![w] = c]
          PROVE  WalkType'
      BY <1>1, <1>2, <2>4, <3>2 DEF WalkType, HandType
    <3> QED BY <2>3, <3>1, <3>2
  <2> QED BY <1>1, <2>1, <2>5, DataFrame
<1> QED BY <1>4, <1>5

(***************************************************************************)
(* The invariant                                                           *)
(***************************************************************************)
LEMMA InitInv == Init => IndInv
<1> SUFFICES ASSUME Init PROVE IndInv  OBVIOUS
<1> USE DEF Init
<1>1. KernelType /\ HandType  BY DEF KernelType, HandType, Elsewhere
<1>2. ManagerType
  <2>1. m_pWorkQueue \in Seq(Conns) /\ Len(m_pWorkQueue) = 0  BY EmptySeq
  <2> QED BY <2>1 DEF ManagerType
<1>3. Places(m_pWorkQueue) = {}  BY EmptySeq DEF Places
<1>4. NoUseAfterFree  BY <1>3 DEF NoUseAfterFree, Holding, Serving, Walking
<1>5. SoleOwner  BY <1>3, EmptySeq DEF SoleOwner
<1>6. FreshInv /\ WatchInv /\ ListInv  BY DEF FreshInv, WatchInv, ListInv
<1>7. BufferType /\ SentType
  <2>1. <<>> \in Seq(Chunks) /\ <<>> \in Seq(Packets)  BY EmptySeq
  <2> QED BY <2>1 DEF BufferType, SentType
<1>8. WalkType  BY DEF WalkType, Serving, Walking
<1>9. ChunkInv
  <2>1. \A c \in Conns : 0 <= PacketLen * (1 + Len(Script[c]))
    <3> TAKE c \in Conns
    <3>1. Len(Script[c]) \in Nat  BY LenProperties
    <3> QED BY <3>1
  <2>2. Chunked(<<>>, <<>>, 0)  BY DEF Chunked
  <2> QED BY <2>1, <2>2 DEF ChunkInv
<1> QED BY <1>1, <1>2, <1>4, <1>5, <1>6, <1>7, <1>8, <1>9 DEF IndInv, Hands, Owned, Data

LEMMA NextInv == IndInv /\ [Next]_vars => IndInv'
<1> SUFFICES ASSUME IndInv, [Next]_vars PROVE IndInv'  OBVIOUS
<1>0. Hands /\ Main \in Threads /\ Workers \subseteq Threads  BY DEF IndInv
<1>1. CASE Servers
  BY <1>0, <1>1, ConnectHands, PeerHands, PeerData DEF Servers, IndInv
<1>2. ASSUME NEW t \in Threads, CloseClient(t) PROVE IndInv'
  <2>1. Hands'
    BY <1>0, <1>2, CloseDelHands, CloseRemoveHands, CloseFreeHands, CountLoadHands, LetGoHands
    DEF CloseClient
  <2> QED BY <1>2, <2>1, CloseData DEF IndInv
<1>3. CASE MainStep
  <2>1. Hands'
    <3>1. CASE Polling  BY <1>0, <3>1, PollingHands
    <3>2. ASSUME NEW e \in batch, Refuse(e) \/ Accept(e) \/ ErrorEvent(e) \/ ReadEvent(e)
          PROVE  Hands'
      BY <1>0, <3>2, RefuseHands, AcceptHands, EventHands
    <3>3. CASE AcceptAdd \/ AcceptAddFails \/ AcceptPush \/ PutWorkQueue
      BY <1>0, <3>3, AcceptAddHands, AcceptAddFailsHands, LetGoHands, PutWorkQueueHands
    <3>4. CASE CloseClient(Main)  BY <1>0, <1>2, <3>4 DEF IndInv
    <3> QED BY <1>3, <3>1, <3>2, <3>3, <3>4 DEF MainStep
  <2> QED BY <1>3, <2>1, MainData DEF IndInv
<1>4. ASSUME NEW w \in Workers, WorkerStep(w) PROVE IndInv'
  <2>1. CASE GetWorkQueue(w) \/ AddEPoll(w) \/ AddEPollFails(w)
    <3>1. Hands'  BY <1>0, <2>1, GetWorkQueueHands, AddEPollHands, LetGoHands
    <3> QED BY <2>1, <3>1, FillData DEF IndInv
  <2>2. CASE FillFromSocket(w) \/ ExecuteDone(w)
    BY <2>2, WorkHands, FillData DEF IndInv
  <2>3. CASE ExecuteCommand(w)  BY <2>3, WorkHands, ExecuteData DEF IndInv
  <2>4. CASE WorkChatServerHello(w) \/ WorkDSMPing(w)
    BY <2>4, WorkHands, AnswerData DEF IndInv
  <2>5. CASE MessageBroadcast(w)
    BY <2>5, WorkHands, AnswerData, BroadcastData DEF IndInv, MessageBroadcast
  <2>6. CASE CloseClient(w)  BY <1>0, <1>2, <2>6
  <2> QED BY <1>4, <2>1, <2>2, <2>3, <2>4, <2>5, <2>6 DEF WorkerStep
<1>5. CASE UNCHANGED vars
  <2> USE <1>5 DEF vars, net, poll, heap, shared, local
  <2>1. KernelType' /\ ManagerType' /\ HandType'
    BY <1>0 DEF Hands, KernelType, ManagerType, HandType
  <2>2. NoUseAfterFree'  BY <1>0 DEF Hands, Owned, NoUseAfterFree, Places, Live
  <2>3. SoleOwner'  BY <1>0 DEF Hands, Owned, SoleOwner, Places
  <2>4. FreshInv' /\ WatchInv' /\ ListInv'
    BY <1>0 DEF Hands, Owned, FreshInv, WatchInv, ListInv
  <2>5. Data'  BY DataFrame, WalkFrame DEF IndInv, Data
  <2> QED BY <2>1, <2>2, <2>3, <2>4, <2>5 DEF IndInv, Hands, Owned
<1> QED BY <1>1, <1>3, <1>4, <1>5 DEF Next

LEMMA Invariance == Spec => []IndInv
BY InitInv, NextInv, PTL DEF Spec

(***************************************************************************)
(* The theorems                                                            *)
(***************************************************************************)
\* Every variable has its type; in particular what ExecuteCommand takes from the
\* buffer is always a packet the server has sent, even after input was lost
\* (ClientChatServer.cpp:103, CircularBuff.cpp:361).
THEOREM TypeCorrect == Spec => []TypeOK
<1>1. IndInv => TypeOK  BY DEF IndInv, Hands, Data, TypeOK
<1> QED BY <1>1, Invariance, PTL

\* No thread, queue, list, event or registration holds a ClientChatServer that
\* CloseClient has deleted, for any number of servers and workers, any failing
\* peers and any failing EPOLL_CTL_ADD (ChatManager.cpp:253, ThreadWorker.cpp:53).
THEOREM NeverUsedAfterFree == Spec => []NoUseAfterFree
<1>1. IndInv => NoUseAfterFree  BY DEF IndInv, Hands, Owned
<1> QED BY <1>1, Invariance, PTL

\* A ClientChatServer is in one pair of hands: no two workers serve the same one,
\* no two threads delete it (ChatManager.cpp:253, ThreadWorker.cpp:53).
THEOREM OneOwner == Spec => []SoleOwner
<1>1. IndInv => SoleOwner  BY DEF IndInv, Hands, Owned
<1> QED BY <1>1, Invariance, PTL

-----------------------------------------------------------------------------
(***************************************************************************)
(* What is relayed: no server gets its own message back, and every server  *)
(* gets another one's messages in order and none twice.  Both fail after a *)
(* connection has broken (an iterator of MessageBroadcast may then point   *)
(* to a deleted client) or input was dropped (the stream is out of step),  *)
(* so they are shown of a manager that is Undisturbed.                     *)
(***************************************************************************)
\* No server's input outgrows its buffer, and no connection that is in use has
\* broken.
Undisturbed ==
  \A c \in Conns : /\ Len(m_cCBuff[c]) + Len(inbox[c]) <= CIR_BUFSIZE
                   /\ client[c] = "live" => peer[c] = "up"

\* Somebody is about to read from c.
Expected(c) ==
  \/ c \in ready \/ c \in Places(m_pWorkQueue)
  \/ \E e \in batch : e.conn = c
  \/ \E t \in Threads : cur[t] = c /\ pc[t] \in {"put", "avail"}

Closing == {"close", "remove", "free"}

\* No server is closed: none has an error, and Available() finds something.
NothingClosed ==
  /\ \A t \in Threads : pc[t] \notin Closing
  /\ \A e \in batch : ~e.err
  /\ \A c \in Conns : Expected(c) => inbox[c] # <<>>

\* The chunks of c that have left its buffer, and the packets they make up.
Taken(c) == sent[c] - Len(inbox[c]) - Len(m_cCBuff[c])
Gone(c) == Taken(c) \div PacketLen

\* The buffer of an intact connection starts with the first chunk of a packet.
StreamInv ==
  \A c \in Conns : peer[c] # "reset" =>
    /\ Taken(c) = PacketLen * Gone(c)
    /\ \A i \in 1 .. Len(m_cCBuff[c]) : m_cCBuff[c][i] = Taken(c) + i

\* The packet that is served is the last one taken from the worker's server,
\* and of the command whose case the worker is in.
CaseInv ==
  \A w \in Workers : pc[w] \in Serving =>
    /\ packet[w].from = cur[w] /\ packet[w].num = Gone(cur[w])
    /\ packet[w].cmd = IF pc[w] \in Walking THEN "broadcast" ELSE pc[w]
    /\ pc[w] \in Walking => m_uniqId[cur[w]] = HelloId[cur[w]]

\* A server's m_uniqId is set when its first packet has been served.
HelloInv ==
  /\ \A c \in Conns : m_uniqId[c] \in {NoId, HelloId[c]}
  /\ \A c \in Conns : peer[c] # "reset" /\ m_uniqId[c] = NoId =>
       Gone(c) = 0 \/ \E w \in Workers : cur[w] = c /\ pc[w] = "hello"

\* A walk visits members of the list that it has not left behind.
WalkInv ==
  \A w \in Workers :
    /\ pc[w] \in {"visit", "next"} => iter[w] \in m_lstChatServer
    /\ pc[w] = "visit" => iter[w] \notin seen[w]
    /\ pc[w] \notin {"visit", "next", "end"} => seen[w] = {}

\* The members that worker w has dealt with, and the packets c was sent.
Passed(w) == IF pc[w] = "next" THEN seen[w] \cup {iter[w]} ELSE seen[w]
Relayed(c) == {written[c][i] : i \in 1 .. Len(written[c])}

\* A packet is relayed after it was taken, and a server that the walk has not
\* dealt with has been sent only earlier packets of the same sender.
OrderInv ==
  /\ \A c \in Conns : \A p \in Relayed(c) :
       peer[p.from] # "reset" => p.num <= Gone(p.from)
  /\ \A w \in Workers : pc[w] \in Serving =>
       \A c \in Conns \ Passed(w) : \A p \in Relayed(c) :
         p.from = cur[w] => p.num < packet[w].num

Relays == CaseInv /\ HelloInv /\ WalkInv /\ OrderInv /\ SenderOrder /\ NotBackToSender
RelayInv == NothingClosed /\ StreamInv /\ Relays

(***************************************************************************)
(* Frames                                                                  *)
(***************************************************************************)
\* A worker that serves a packet has a live server in hand, alone.
LEMMA ServedIsUp ==
  ASSUME Hands, Undisturbed, NEW w \in Workers, pc[w] \in Holding
  PROVE  /\ cur[w] \in Conns /\ peer[cur[w]] = "up" /\ cur[w] # NoConn
         /\ \A v \in Workers : cur[v] = cur[w] => v = w
<1>1. cur[w] \in Conns /\ client[cur[w]] = "live"  BY InHand
<1> QED BY <1>1 DEF Undisturbed, Hands, Owned, SoleOwner

LEMMA GoneType ==
  ASSUME KernelType, BufferType, NEW c \in Conns
  PROVE  Taken(c) \in Int /\ Gone(c) \in Int
<1>1. sent[c] \in Int /\ Len(inbox[c]) \in Int /\ Len(m_cCBuff[c]) \in Int
  BY LenProperties DEF KernelType, BufferType
<1>2. Taken(c) \in Int  BY <1>1 DEF Taken
<1>3. \A x \in Int : x \div PacketLen \in Int  OBVIOUS
<1> QED BY <1>2, <1>3 DEF Gone

\* A step that takes nothing out of a buffer.
LEMMA StreamFrame ==
  ASSUME StreamInv,
         \A c \in Conns : peer'[c] # "reset" =>
           peer[c] # "reset" /\ Taken(c)' = Taken(c) /\ m_cCBuff'[c] = m_cCBuff[c]
  PROVE  StreamInv'
<1> SUFFICES ASSUME NEW c \in Conns, peer'[c] # "reset"
             PROVE  /\ Taken(c)' = PacketLen * Gone(c)'
                    /\ \A i \in 1 .. Len(m_cCBuff'[c]) : m_cCBuff'[c][i] = Taken(c)' + i
  BY DEF StreamInv
<1>1. Gone(c)' = Gone(c)  BY DEF Gone
<1> QED BY <1>1 DEF StreamInv

\* A step outside the cases of ExecuteCommand.
LEMMA RelaysFrame ==
  ASSUME Hands, Hands', Undisturbed', Relays,
         \A c \in Conns : peer'[c] # "reset" => peer[c] # "reset" /\ Taken(c)' = Taken(c),
         \A s \in Threads : \/ pc'[s] = pc[s] /\ cur'[s] = cur[s]
                            \/ pc[s] \notin Serving /\ pc'[s] \notin Serving,
         UNCHANGED <<written, packet, iter, seen, m_uniqId>>,
         m_lstChatServer \subseteq m_lstChatServer',
         \A w \in Workers : packet[w] \in Packets \cup {NoPacket},
         SentType
  PROVE  Relays'
<1> USE DEF Relays
<1>1. \A c \in Conns : peer'[c] # "reset" => peer[c] # "reset" /\ Gone(c)' = Gone(c)
  BY DEF Gone
<1>2. \A w \in Workers : pc'[w] \in Serving => pc'[w] = pc[w] /\ cur'[w] = cur[w]
  OBVIOUS
<1>3. \A w \in Workers : pc[w] \in Serving => pc'[w] = pc[w] /\ cur'[w] = cur[w]
  OBVIOUS
<1>4. Serving \subseteq Holding /\ {"hello", "visit", "next", "end"} \subseteq Serving
  BY DEF Holding, Serving, Walking
<1>5. \A w \in Workers : pc'[w] \in Serving => cur'[w] \in Conns /\ peer'[cur'[w]] # "reset"
  <2> SUFFICES ASSUME NEW w \in Workers, pc'[w] \in Serving
               PROVE  cur'[w] \in Conns /\ peer'[cur'[w]] # "reset"
    OBVIOUS
  <2>1. (pc[w] \in Holding)'  BY <1>4
  <2>2. (cur[w] \in Conns /\ client[cur[w]] = "live")'
    BY <2>1 DEF Hands, Owned, NoUseAfterFree, HandType, Holding, Serving, Walking, Elsewhere
  <2> QED BY <2>2 DEF Undisturbed
<1>6. CaseInv'
  <2> SUFFICES ASSUME NEW w \in Workers, pc'[w] \in Serving
               PROVE  /\ packet'[w].from = cur'[w] /\ packet'[w].num = Gone(cur[w])'
                      /\ packet'[w].cmd = IF pc'[w] \in Walking THEN "broadcast" ELSE pc'[w]
                      /\ pc'[w] \in Walking => m_uniqId'[cur'[w]] = HelloId[cur'[w]]
    BY DEF CaseInv
  <2>1. pc'[w] = pc[w] /\ cur'[w] = cur[w] /\ cur[w] \in Conns  BY <1>2, <1>5
  <2>2. Gone(cur[w])' = Gone(cur[w])
    <3>1. PICK c \in Conns : c = cur[w]  BY <2>1
    <3>2. Gone(c)' = Gone(c)  BY <1>1, <1>5, <2>1, <3>1
    <3> QED BY <2>1, <3>1, <3>2 DEF Gone, Taken
  <2> QED BY <2>1, <2>2 DEF CaseInv
<1>7. HelloInv'
  <2> SUFFICES ASSUME NEW c \in Conns, peer'[c] # "reset", m_uniqId[c] = NoId
               PROVE  Gone(c)' = 0 \/ \E w \in Workers : cur'[w] = c /\ pc'[w] = "hello"
    BY DEF HelloInv
  <2>1. Gone(c)' = Gone(c) /\ peer[c] # "reset"  BY <1>1
  <2>2. Gone(c) = 0 \/ \E w \in Workers : cur[w] = c /\ pc[w] = "hello"
    BY <2>1 DEF HelloInv
  <2>3. \A w \in Workers : pc[w] = "hello" => pc'[w] = "hello" /\ cur'[w] = cur[w]
    BY <1>3, <1>4
  <2> QED BY <2>1, <2>2, <2>3
<1>8. WalkInv'  BY <1>2, <1>3, <1>4 DEF WalkInv
<1>9. \A c \in Conns : Relayed(c)' = Relayed(c) /\ Relayed(c) \subseteq Packets
  <2> TAKE c \in Conns
  <2>1. Relayed(c)' = Relayed(c)  BY DEF Relayed
  <2>2. written[c] \in Seq(Packets)  BY DEF SentType
  <2> QED BY <2>1, <2>2, ElementOfSeq, LenProperties DEF Relayed
<1>10. OrderInv'
  <2>1. ASSUME NEW c \in Conns, NEW p \in Relayed(c)', peer'[p.from] # "reset"
        PROVE  p.num <= Gone(p.from)'
    <3>1. p \in Relayed(c) /\ p.from \in Conns  BY <1>9 DEF Packets
    <3> QED BY <1>1, <2>1, <3>1 DEF OrderInv
  <2>2. ASSUME NEW w \in Workers, pc'[w] \in Serving, NEW c \in Conns, c \notin Passed(w)',
               NEW p \in Relayed(c)', p.from = cur'[w]
        PROVE  p.num < packet'[w].num
    BY <1>2, <1>9, <2>2 DEF OrderInv, Passed
  <2> QED BY <2>1, <2>2 DEF OrderInv
<1>11. SenderOrder' /\ NotBackToSender'  BY DEF SenderOrder, NotBackToSender
<1> QED BY <1>6, <1>7, <1>8, <1>10, <1>11

(***************************************************************************)
(* Nothing is closed                                                       *)
(***************************************************************************)
LEMMA ClosedFrame ==
  ASSUME NothingClosed, \A e \in batch' : ~e.err,
         \A s \in Threads : pc'[s] = pc[s] \/ pc'[s] \notin Closing,
         \A c \in Conns : Expected(c)' => (Expected(c) /\ inbox'[c] = inbox[c]) \/ inbox'[c] # <<>>
  PROVE  NothingClosed'
BY DEF NothingClosed

\* A step after which nobody expects input that was not expected before.
LEMMA QuietFrame ==
  ASSUME NothingClosed, UNCHANGED m_pWorkQueue, batch' \subseteq batch,
         \A s \in Threads : \/ pc'[s] = pc[s] /\ cur'[s] = cur[s]
                            \/ pc'[s] \notin Closing \cup {"put", "avail"},
         \A c \in Conns : c \in ready' => c \in ready \/ inbox'[c] # <<>>,
         \A c \in Conns : inbox'[c] = inbox[c] \/ inbox'[c] # <<>> \/ ~Expected(c)'
  PROVE  NothingClosed'
<1>1. \A c \in Conns : Expected(c)' => Expected(c) \/ inbox'[c] # <<>>
  BY DEF Expected, Places
<1> QED BY <1>1, ClosedFrame DEF NothingClosed

LEMMA AppendNotEmpty ==
  ASSUME NEW q \in Seq(Chunks), NEW x \in Chunks
  PROVE  Append(q, x) # <<>>
<1> HIDE ManagerAssumption
<1>1. SUFFICES ASSUME Append(q, x) = <<>> PROVE FALSE  OBVIOUS
<1>2. Len(Append(q, x)) = Len(q) + 1  BY AppendProperties
<1>3. Len(q) \in Nat  BY LenProperties
<1>4. Len(<<>>) = 0  BY EmptySeq
<1>5. Len(Append(q, x)) = 0  BY <1>1, <1>4, Zenon
<1> QED BY <1>2, <1>3, <1>5

LEMMA PeersClosed ==
  ASSUME IndInv, Hands', NothingClosed, Undisturbed', NEW c \in Conns,
         Connect(c) \/ Send(c) \/ RecvHello(c) \/ Close(c) \/ Reset(c)
  PROVE  NothingClosed'
<1>1. UNCHANGED <<m_pWorkQueue, batch, pc, cur, interest, client>>
  BY DEF Connect, Send, RecvHello, Close, Reset, Internals, shared, heap
<1>2. CASE Send(c)
  <2>1. inbox[c] \in Seq(Chunks) /\ inbox \in [Conns -> Seq(Chunks)] /\ sent[c] + 1 \in Chunks
    BY DEF IndInv, Data, BufferType, Hands, KernelType, Chunks
  <2>2. Append(inbox[c], sent[c] + 1) # <<>>  BY <2>1, AppendNotEmpty
  <2>3. \A d \in Conns : inbox'[d] = inbox[d] \/ inbox'[d] # <<>>  BY <1>2, <2>1, <2>2 DEF Send
  <2>4. inbox'[c] # <<>>  BY <1>2, <2>1, <2>2 DEF Send
  <2>5. \A d \in Conns : d \in ready' => d \in ready \/ inbox'[d] # <<>>
    BY <1>2, <2>4 DEF Send, Notify
  <2> QED BY <1>1, <2>3, <2>5, QuietFrame
<1>3. CASE Close(c) \/ Reset(c)
  <2>1. peer'[c] # "up"  BY <1>3 DEF Close, Reset, IndInv, Hands, KernelType
  <2>2. client[c] # "live"  BY <1>1, <2>1 DEF Undisturbed
  <2>3. c \notin interest  BY <2>2 DEF IndInv, Hands, Owned, NoUseAfterFree, Live
  <2>4. UNCHANGED <<inbox, ready>>  BY <1>3, <2>3 DEF Close, Reset, Notify
  <2> QED BY <1>1, <2>4, QuietFrame
<1>4. CASE Connect(c) \/ RecvHello(c)
  <2>1. UNCHANGED <<inbox, ready>>  BY <1>4 DEF Connect, RecvHello
  <2> QED BY <1>1, <2>1, QuietFrame
<1> QED BY <1>2, <1>3, <1>4

\* A registered server that is ready has sent something.
LEMMA AddFinds ==
  ASSUME Undisturbed, NEW c \in Conns, client[c] = "live", AddClient(c)
  PROVE  \A d \in Conns : d \in ready' => d \in ready \/ inbox[d] # <<>>
BY DEF Undisturbed, AddClient, Readable

LEMMA MainClosed ==
  ASSUME IndInv, Hands', NothingClosed, Undisturbed, MainStep
  PROVE  NothingClosed'
<1> USE DEF IndInv
<1>0. Main \in Threads /\ pc[Main] \notin Closing  BY DEF NothingClosed
<1>1. CASE Polling
  <2>1. \A e \in batch' : \/ e.conn \in ready /\ e.err = (peer[e.conn] = "reset")
                          \/ e.conn = NoConn /\ e.err = FALSE
    BY <1>1 DEF Polling
  <2>2. \A c \in ready : c \in Conns /\ peer[c] = "up"
    BY DEF Hands, KernelType, Owned, NoUseAfterFree, Live, Undisturbed
  <2>3. UNCHANGED <<m_pWorkQueue, pc, cur, inbox>> /\ ready' = {}
    BY <1>1 DEF Polling, shared, net
  <2>4. \A e \in batch' : ~e.err  BY <2>1, <2>2
  <2>5. \A c \in Conns : Expected(c)' => Expected(c)
    BY <2>1, <2>3 DEF Expected, Places
  <2> QED BY <2>3, <2>4, <2>5, ClosedFrame
<1>2. ASSUME NEW e \in batch, Refuse(e) PROVE NothingClosed'
  <2>1. PICK c \in backlog : CloseSocket(c)  BY <1>2 DEF Refuse
  <2>2. c \in Conns /\ client[c] = "none"  BY DEF Hands, KernelType, Owned, FreshInv
  <2>3. UNCHANGED <<m_pWorkQueue, pc, cur, client>> /\ batch' \subseteq batch
    BY <1>2 DEF Refuse, shared, heap
  <2>4. ready' \subseteq ready /\ c \notin ready' /\ \A d \in Conns : d # c => inbox'[d] = inbox[d]
    BY <2>1 DEF CloseSocket, DelClient, Data, BufferType
  <2>5. ~Expected(c)'
    <3>1. (client[c] = "none" /\ c \notin ready /\ c # NoConn)'  BY <2>2, <2>3, <2>4
    <3>2. ((\A t \in Threads : pc[t] \in {"put", "avail"} => client[cur[t]] = "live")
           /\ (\A d \in batch : d.conn # NoConn => client[d.conn] = "live")
           /\ Places(m_pWorkQueue) \subseteq Live)'
      BY DEF Hands, Owned, NoUseAfterFree, Holding
    <3> QED BY <3>1, <3>2 DEF Expected, Live
  <2> QED BY <2>3, <2>4, <2>5, QuietFrame
<1>3. ASSUME NEW e \in batch, Accept(e) PROVE NothingClosed'
  <2>1. /\ UNCHANGED <<m_pWorkQueue, ready, inbox>> /\ batch' \subseteq batch
        /\ \A s \in Threads : pc'[s] = "add" \/ (pc'[s] = pc[s] /\ cur'[s] = cur[s])
    BY <1>3 DEF Accept, Goto, poll, shared, Hands, HandType
  <2> QED BY <2>1, QuietFrame DEF Closing
<1>4. ASSUME NEW e \in batch, ErrorEvent(e) PROVE NothingClosed'
  BY <1>4 DEF ErrorEvent, NothingClosed
<1>5. ASSUME NEW e \in batch, ReadEvent(e) PROVE NothingClosed'
  <2>1. /\ UNCHANGED <<m_pWorkQueue, inbox>> /\ batch' \subseteq batch /\ ready' \subseteq ready
        /\ \A s \in Threads : \/ pc'[s] = pc[s] /\ cur'[s] = cur[s]
                              \/ pc'[s] = "put" /\ cur'[s] = e.conn
    BY <1>5 DEF ReadEvent, Goto, DelClient, net, shared, Hands, HandType
  <2>2. \A c \in Conns : Expected(c)' => Expected(c)
    BY <2>1 DEF Expected, Places
  <2> QED BY <2>1, <2>2, ClosedFrame DEF NothingClosed, Closing
<1>6. CASE AcceptAdd
  <2>1. /\ UNCHANGED <<m_pWorkQueue, inbox, batch>>
        /\ \A s \in Threads : pc'[s] = "push" \/ (pc'[s] = pc[s] /\ cur'[s] = cur[s])
    BY <1>6 DEF AcceptAdd, Goto, net, shared, Hands, HandType
  <2>2. cur[Main] \in Conns /\ client[cur[Main]] = "live"
    BY <1>0, <1>6, InHand DEF AcceptAdd, Holding
  <2>3. \A d \in Conns : d \in ready' => d \in ready \/ inbox'[d] # <<>>
    BY <1>6, <2>1, <2>2, AddFinds DEF AcceptAdd
  <2> QED BY <2>1, <2>3, QuietFrame DEF Closing
<1>7. CASE AcceptAddFails
  <2>0. cur[Main] \in Conns  BY <1>0, <1>7, InHand DEF AcceptAddFails, Holding
  <2>1. PICK c \in Conns : c = cur[Main] /\ c # NoConn  BY <2>0
  <2>2. /\ UNCHANGED <<m_pWorkQueue, batch>> /\ client' = [client EXCEPT ![c] = "freed"]
        /\ \A s \in Threads : \/ pc'[s] = "home"
                              \/ pc'[s] = pc[s] /\ cur'[s] = cur[s]
        /\ CloseSocket(c)
    BY <1>7, <2>1 DEF AcceptAddFails, Done, Goto, shared, Hands, HandType
  <2>3. ready' \subseteq ready /\ c \notin ready' /\ \A d \in Conns : d # c => inbox'[d] = inbox[d]
    BY <2>2 DEF CloseSocket, DelClient, Data, BufferType
  <2>4. client'[c] = "freed"  BY <2>1, <2>2 DEF Hands, ManagerType
  <2>5. ~Expected(c)'
    <3>1. /\ \A t \in Threads : pc'[t] \in {"put", "avail"} => client'[cur'[t]] = "live"
          /\ \A d \in batch' : d.conn # NoConn => client'[d.conn] = "live"
          /\ Places(m_pWorkQueue)' \subseteq Live'
      BY DEF Hands, Owned, NoUseAfterFree, Holding
    <3> QED BY <2>1, <2>3, <2>4, <3>1 DEF Expected, Live
  <2> QED BY <2>2, <2>3, <2>5, QuietFrame DEF Closing
<1>8. CASE AcceptPush \/ CountLoad(Main) \/ CountStore(Main)
  <2>1. /\ UNCHANGED <<m_pWorkQueue, inbox, batch, ready>>
        /\ \A s \in Threads : \/ pc'[s] \in Elsewhere
                              \/ pc'[s] = pc[s] /\ cur'[s] = cur[s]
    BY <1>8 DEF AcceptPush, CountLoad, CountStore, Done, Goto, net, poll, shared, Hands, HandType,
       Elsewhere
  <2> QED BY <2>1, QuietFrame DEF Closing, Elsewhere
<1>9. CASE PutWorkQueue
  <2>1. /\ UNCHANGED <<inbox, batch, ready>> /\ pc[Main] = "put"
        /\ \A s \in Threads : \/ pc'[s] = "home"
                              \/ pc'[s] = pc[s] /\ cur'[s] = cur[s]
        /\ m_pWorkQueue' = Append(m_pWorkQueue, cur[Main])
    BY <1>9 DEF PutWorkQueue, Done, Goto, net, poll, Hands, HandType
  <2>2. cur[Main] \in Conns /\ m_pWorkQueue \in Seq(Conns)
    BY <1>0, <2>1, InHand DEF Hands, ManagerType, Holding
  <2>3. Places(m_pWorkQueue)' = Places(m_pWorkQueue) \cup {cur[Main]}
    BY <2>1, <2>2, PlacesAppend DEF Places
  <2>4. \A c \in Conns : Expected(c)' => Expected(c)
    BY <1>0, <2>1, <2>3 DEF Expected
  <2> QED BY <2>1, <2>4, ClosedFrame DEF NothingClosed, Closing
<1>10. CASE CloseDel(Main) \/ CloseRemove(Main) \/ CloseFree(Main)
  BY <1>0, <1>10 DEF CloseDel, CloseRemove, CloseFree, Closing
<1> QED BY <1>1, <1>2, <1>3, <1>4, <1>5, <1>6, <1>7, <1>8, <1>9, <1>10 DEF MainStep, CloseClient

\* A packet's command is the label of a case.
LEMMA CaseLabel ==
  ASSUME IndInv, NEW w \in Workers, ExecuteCommand(w)
  PROVE  \E l \in Serving \ {"visit", "next", "end"} : pc' = [pc EXCEPT ![w] = l]
<1>1. pc[w] = "exec" /\ w \in Threads  BY DEF ExecuteCommand
<1>2. cur[w] \in Conns  BY <1>1, InHand DEF IndInv, Holding
<1>3. \E p \in Packets : Goto(w, p.cmd)
  BY <1>2, PacketType DEF ExecuteCommand, IndInv, Hands
<1>4. \A p \in Packets : p.cmd \in Serving \ {"visit", "next", "end"}
  BY DEF Packets, Commands, Serving, Walking
<1> QED BY <1>3, <1>4 DEF Goto

LEMMA Fits ==
  ASSUME NEW a \in Nat, NEW b \in Nat, NEW z \in Nat, a + b <= z
  PROVE  ~(b > z - a)
<1> HIDE ManagerAssumption
<1> QED OBVIOUS

LEMMA WorkerClosed ==
  ASSUME IndInv, Hands', NothingClosed, Undisturbed, NEW w \in Workers, WorkerStep(w)
  PROVE  NothingClosed'
<1> USE DEF IndInv
<1>0. w \in Threads /\ pc[w] \notin Closing  BY DEF NothingClosed
<1>1. CASE GetWorkQueue(w)
  <2>1. /\ UNCHANGED <<inbox, batch, ready>> /\ m_pWorkQueue # <<>>
        /\ \A s \in Threads : \/ pc'[s] = "avail" /\ cur'[s] = Head(m_pWorkQueue)
                              \/ pc'[s] = pc[s] /\ cur'[s] = cur[s]
        /\ m_pWorkQueue' = Tail(m_pWorkQueue)
    BY <1>1 DEF GetWorkQueue, Goto, net, poll, Hands, HandType
  <2>2. m_pWorkQueue \in Seq(Conns)  BY DEF Hands, ManagerType
  <2>3. /\ Places(m_pWorkQueue)' \subseteq Places(m_pWorkQueue)
        /\ Head(m_pWorkQueue) \in Places(m_pWorkQueue)
    <3>1. Places(m_pWorkQueue)' = Places(Tail(m_pWorkQueue))  BY <2>1 DEF Places
    <3> QED BY <2>1, <2>2, <3>1, PlacesTake
  <2>4. \A c \in Conns : Expected(c)' => Expected(c)
    BY <2>1, <2>3 DEF Expected
  <2> QED BY <2>1, <2>4, ClosedFrame DEF NothingClosed, Closing
<1>2. CASE Available(w)
  <2> DEFINE c == cur[w]
  <2>1. c \in Conns /\ pc[w] = "avail"  BY <1>0, <1>2, InHand DEF Available, Holding
  <2>2. inbox[c] # <<>>  BY <1>0, <2>1 DEF NothingClosed, Expected
  <2>3. ~(Len(inbox[c]) > CIR_BUFSIZE - Len(m_cCBuff[c]))
    <3>1. Len(inbox[c]) \in Nat /\ Len(m_cCBuff[c]) \in Nat
      BY <2>1, LenProperties DEF Data, BufferType
    <3>2. Len(m_cCBuff[c]) + Len(inbox[c]) <= CIR_BUFSIZE  BY <2>1 DEF Undisturbed
    <3> HIDE DEF c
    <3>3. CIR_BUFSIZE \in Nat  OBVIOUS
    <3> QED BY <3>1, <3>2, <3>3, Fits
  <2>4. /\ UNCHANGED <<m_pWorkQueue, inbox, batch, ready>>
        /\ \A s \in Threads : pc'[s] = "read" \/ (pc'[s] = pc[s] /\ cur'[s] = cur[s])
    BY <1>2, <2>2, <2>3 DEF Available, Goto, net, poll, shared, Hands, HandType
  <2> QED BY <2>4, QuietFrame DEF Closing
<1>3. CASE ReadAll(w) \/ ReadFails(w)
  <2>0. pc[w] = "read"  BY <1>3 DEF ReadAll, ReadFails
  <2>1. cur[w] \in Conns /\ client[cur[w]] = "live"  BY <1>0, <2>0, InHand DEF Holding
  <2>2. PICK c \in Conns : c = cur[w] /\ peer[c] = "up"  BY <2>1 DEF Undisturbed
  <2>3. ~(Len(inbox[c]) > CIR_BUFSIZE - Len(m_cCBuff[c]))
    <3>1. Len(inbox[c]) \in Nat /\ Len(m_cCBuff[c]) \in Nat
      BY LenProperties DEF Data, BufferType
    <3>2. Len(m_cCBuff[c]) + Len(inbox[c]) <= CIR_BUFSIZE  BY DEF Undisturbed
    <3>3. CIR_BUFSIZE \in Nat  OBVIOUS
    <3> QED BY <3>1, <3>2, <3>3, Fits
  <2>4. /\ UNCHANGED <<m_pWorkQueue, batch, ready, cur, interest>>
        /\ pc' = [pc EXCEPT ![w] = "exec"]
        /\ \A d \in Conns : d # c => inbox'[d] = inbox[d]
    BY <1>3, <2>2, <2>3 DEF ReadAll, ReadFails, Goto, poll, shared, Data, BufferType
  <2>5. ~Expected(c)'
    <3>1. /\ c # NoConn /\ cur'[w] = c /\ pc'[w] = "exec"
          /\ \A t \in Threads : cur'[t] = c => t = w
          /\ c \notin interest' /\ c \notin Places(m_pWorkQueue)'
          /\ \A e \in batch' : e.conn # NoConn => e.conn \in interest'
      BY <1>0, <2>2, <2>4 DEF Hands, HandType, Owned, SoleOwner
    <3>2. ready' \subseteq interest'  BY DEF Hands, KernelType
    <3> QED BY <3>1, <3>2 DEF Expected
  <2>6. \A s \in Threads : pc'[s] = "exec" \/ (pc'[s] = pc[s] /\ cur'[s] = cur[s])
    BY <2>4 DEF Hands, HandType
  <2> QED BY <2>4, <2>5, <2>6, QuietFrame DEF Closing
<1>4. CASE ExecuteCommand(w)
  <2>1. PICK l \in Serving : pc' = [pc EXCEPT ![w] = l]  BY <1>4, CaseLabel
  <2>2. UNCHANGED <<m_pWorkQueue, inbox, batch, ready, cur>>
    BY <1>4 DEF ExecuteCommand, net, poll, shared
  <2>3. \A s \in Threads : pc'[s] \in Serving \/ (pc'[s] = pc[s] /\ cur'[s] = cur[s])
    BY <2>1, <2>2 DEF Hands, HandType
  <2> QED BY <2>2, <2>3, QuietFrame DEF Closing, Serving, Walking
<1>5. CASE \/ ExecuteDone(w) \/ WorkChatServerHello(w) \/ WorkDSMPing(w)
           \/ MessageBroadcast(w) \/ AddEPollFails(w) \/ CountLoad(w) \/ CountStore(w)
  <2>1. UNCHANGED <<m_pWorkQueue, inbox, batch, ready>>
    BY <1>5 DEF ExecuteDone, WorkChatServerHello, WorkDSMPing, MessageBroadcast, BroadcastBegin,
       BroadcastVisit, BroadcastNext, BroadcastEnd, AddEPollFails, CountLoad, CountStore, net,
       poll, shared
  <2>2. \E l \in Serving \cup Elsewhere \cup {"exec", "rearm"} : pc' = [pc EXCEPT ![w] = l]
    BY <1>5 DEF ExecuteDone, WorkChatServerHello, WorkDSMPing, MessageBroadcast, BroadcastBegin,
       BroadcastVisit, BroadcastNext, BroadcastEnd, AddEPollFails, CountLoad, CountStore, Advance,
       CaseDone, Done, Goto, Serving, Walking, Elsewhere
  <2>3. \A s \in Threads : s # w => cur'[s] = cur[s]
    BY <1>5 DEF ExecuteDone, WorkChatServerHello, WorkDSMPing, MessageBroadcast, BroadcastBegin,
       BroadcastVisit, BroadcastNext, BroadcastEnd, AddEPollFails, CountLoad, CountStore, Done,
       Hands, HandType
  <2>4. \A s \in Threads : \/ pc'[s] = pc[s] /\ cur'[s] = cur[s]
                           \/ pc'[s] \in Serving \cup Elsewhere \cup {"exec", "rearm"}
    BY <2>2, <2>3 DEF Hands, HandType
  <2> QED BY <2>1, <2>4, QuietFrame DEF Closing, Serving, Walking, Elsewhere
<1>6. CASE AddEPoll(w)
  <2>1. /\ UNCHANGED <<m_pWorkQueue, inbox, batch>>
        /\ \A s \in Threads : pc'[s] = "home" \/ (pc'[s] = pc[s] /\ cur'[s] = cur[s])
    BY <1>6 DEF AddEPoll, Done, Goto, net, shared, Hands, HandType
  <2>2. cur[w] \in Conns /\ client[cur[w]] = "live"
    BY <1>0, <1>6, InHand DEF AddEPoll, Holding
  <2>3. \A d \in Conns : d \in ready' => d \in ready \/ inbox'[d] # <<>>
    BY <1>6, <2>1, <2>2, AddFinds DEF AddEPoll
  <2> QED BY <2>1, <2>3, QuietFrame DEF Closing
<1>7. CASE CloseDel(w) \/ CloseRemove(w) \/ CloseFree(w)
  BY <1>0, <1>7 DEF CloseDel, CloseRemove, CloseFree, Closing
<1> QED BY <1>1, <1>2, <1>3, <1>4, <1>5, <1>6, <1>7
        DEF WorkerStep, CloseClient, FillFromSocket

(***************************************************************************)
(* Steps outside the cases of ExecuteCommand                               *)
(***************************************************************************)
\* The streams and what was relayed stay as they are.
LEMMA CalmStep ==
  ASSUME IndInv, Hands', Undisturbed', StreamInv, Relays,
         \A c \in Conns : peer'[c] # "reset" =>
           peer[c] # "reset" /\ Taken(c)' = Taken(c) /\ m_cCBuff'[c] = m_cCBuff[c],
         \A s \in Threads : \/ pc'[s] = pc[s] /\ cur'[s] = cur[s]
                            \/ pc[s] \notin Serving /\ pc'[s] \notin Serving,
         UNCHANGED <<written, packet, iter, seen, m_uniqId>>,
         m_lstChatServer \subseteq m_lstChatServer'
  PROVE  StreamInv' /\ Relays'
<1>1. StreamInv'  BY StreamFrame
<1>2. SentType /\ \A w \in Workers : packet[w] \in Packets \cup {NoPacket}
  BY DEF IndInv, Data, WalkType
<1>3. Relays'  BY <1>2, RelaysFrame DEF IndInv
<1> QED BY <1>1, <1>3

LEMMA PeersRelay ==
  ASSUME IndInv, Hands', Undisturbed', StreamInv, Relays, NEW c \in Conns,
         Connect(c) \/ Send(c) \/ RecvHello(c) \/ Close(c) \/ Reset(c)
  PROVE  StreamInv' /\ Relays'
<1>1. UNCHANGED <<pc, cur, written, packet, iter, seen, m_uniqId, m_lstChatServer, m_cCBuff>>
  BY DEF Connect, Send, RecvHello, Close, Reset, Internals, shared, heap, local
<1>2. \A d \in Conns : peer'[d] # "reset" => peer[d] # "reset"
  BY DEF Connect, Send, RecvHello, Close, Reset, IndInv, Hands, KernelType
<1>3. \A d \in Conns : Taken(d)' = Taken(d)
  <2>1. CASE Send(c)
    <3> TAKE d \in Conns
    <3>1. /\ sent' = [sent EXCEPT ![c] = sent[c] + 1]
          /\ inbox' = [inbox EXCEPT ![c] = Append(inbox[c], sent[c] + 1)]
      BY <2>1 DEF Send
    <3>2. inbox \in [Conns -> Seq(Chunks)] /\ sent \in [Conns -> Nat] /\ m_cCBuff[c] \in Seq(Chunks)
      BY DEF IndInv, Data, BufferType, Hands, KernelType
    <3>3. CASE d # c  BY <1>1, <3>1, <3>2, <3>3 DEF Taken
    <3>4. CASE d = c
      <4>1. sent[c] + 1 \in Chunks  BY <3>2 DEF Chunks
      <4>2. Len(Append(inbox[c], sent[c] + 1)) = Len(inbox[c]) + 1
        BY <3>2, <4>1, AppendProperties
      <4>3. Len(inbox'[c]) = Len(inbox[c]) + 1 /\ sent'[c] = sent[c] + 1
        BY <3>1, <3>2, <4>2
      <4>4. Len(inbox[c]) \in Nat /\ Len(m_cCBuff[c]) \in Nat /\ sent[c] \in Nat
        BY <3>2, LenProperties
      <4>5. Taken(c)' = sent'[c] - Len(inbox'[c]) - Len(m_cCBuff[c])  BY <1>1 DEF Taken
      <4> HIDE ManagerAssumption
      <4>6. Taken(c)' = (sent[c] + 1) - (Len(inbox[c]) + 1) - Len(m_cCBuff[c])
        BY <4>3, <4>5, Zenon
      <4>7. Taken(c)' = sent[c] - Len(inbox[c]) - Len(m_cCBuff[c])  BY <4>4, <4>6
      <4> QED BY <3>4, <4>7 DEF Taken
    <3> QED BY <3>3, <3>4
  <2>2. CASE Connect(c) \/ RecvHello(c) \/ Close(c) \/ Reset(c)
    BY <1>1, <2>2 DEF Connect, RecvHello, Close, Reset, Taken
  <2> QED BY <2>1, <2>2
<1> QED BY <1>1, <1>2, <1>3, CalmStep

\* Main moves servers around; a socket it deletes is not intact any more.
LEMMA MainRelay ==
  ASSUME IndInv, Hands', NothingClosed, Undisturbed', StreamInv, Relays, MainStep
  PROVE  StreamInv' /\ Relays'
<1> USE DEF IndInv
<1>0. Main \in Threads /\ pc[Main] \notin Closing /\ \A e \in batch : ~e.err
  BY DEF NothingClosed
<1>1. CASE \/ Polling \/ (\E e \in batch : Accept(e) \/ ReadEvent(e))
           \/ AcceptAdd \/ AcceptPush \/ PutWorkQueue \/ CountLoad(Main) \/ CountStore(Main)
  <2>1. /\ UNCHANGED <<peer, sent, inbox, m_cCBuff, written, packet, iter, seen, m_uniqId>>
        /\ m_lstChatServer \subseteq m_lstChatServer'
        /\ pc[Main] \notin Serving
    BY <1>1 DEF Polling, Accept, ReadEvent, AcceptAdd, AcceptPush, PutWorkQueue, CountLoad,
       CountStore, net, heap, shared, local, Serving, Walking
  <2>2. /\ \A s \in Threads : s # Main => pc'[s] = pc[s] /\ cur'[s] = cur[s]
        /\ pc'[Main] \in {"home", "add", "put", "push", "count", "count_store", "uncount_store"}
    BY <1>1 DEF Polling, Accept, ReadEvent, AcceptAdd, AcceptPush, PutWorkQueue, CountLoad,
       CountStore, Done, Goto, Hands, HandType
  <2>3. \A c \in Conns : Taken(c)' = Taken(c)  BY <2>1 DEF Taken
  <2>4. pc'[Main] \notin Serving  BY <2>2 DEF Serving, Walking
  <2> QED BY <2>1, <2>2, <2>3, <2>4, CalmStep
<1>2. CASE (\E e \in batch : Refuse(e)) \/ AcceptAddFails
  <2>1. PICK c \in Conns : CloseSocket(c)
    <3>1. CASE \E e \in batch : Refuse(e)
      BY <3>1 DEF Refuse, Hands, KernelType
    <3>2. CASE AcceptAddFails
      BY <1>0, <3>2, InHand DEF AcceptAddFails, Holding
    <3> QED BY <1>2, <3>1, <3>2
  <2>2. \A d \in Conns : peer'[d] # "reset" => d # c /\ peer[d] # "reset" /\ inbox'[d] = inbox[d]
    BY <2>1 DEF CloseSocket, Hands, KernelType, Data, BufferType
  <2>3. UNCHANGED <<sent, m_cCBuff, written, packet, iter, seen, m_uniqId, m_lstChatServer>>
    BY <1>2 DEF Refuse, AcceptAddFails, heap, shared, local
  <2>4. \A d \in Conns : peer'[d] # "reset" => Taken(d)' = Taken(d)
    BY <2>2, <2>3 DEF Taken
  <2>5. \A s \in Threads : \/ pc'[s] = pc[s] /\ cur'[s] = cur[s]
                           \/ pc[s] \notin Serving /\ pc'[s] \notin Serving
    BY <1>2 DEF Refuse, AcceptAddFails, Done, Goto, Hands, HandType, Serving, Walking
  <2> QED BY <2>2, <2>3, <2>4, <2>5, CalmStep
<1>3. CASE \/ (\E e \in batch : ErrorEvent(e))
           \/ CloseDel(Main) \/ CloseRemove(Main) \/ CloseFree(Main)
  BY <1>0, <1>3 DEF ErrorEvent, CloseDel, CloseRemove, CloseFree, Closing
<1> QED BY <1>1, <1>2, <1>3 DEF MainStep, CloseClient

\* Put moves the chunks of the socket behind those of the buffer.
LEMMA ReadAllStream ==
  ASSUME IndInv, StreamInv, NEW c \in Conns, UNCHANGED <<sent, peer>>,
         inbox' = [inbox EXCEPT ![c] = <<>>],
         m_cCBuff' = [m_cCBuff EXCEPT ![c] = m_cCBuff[c] \o inbox[c]]
  PROVE  StreamInv' /\ \A d \in Conns : Taken(d)' = Taken(d)
<1> DEFINE in == inbox[c]
           buff == m_cCBuff[c]
<1>1. /\ inbox \in [Conns -> Seq(Chunks)] /\ m_cCBuff \in [Conns -> Seq(Chunks)]
      /\ sent[c] \in Nat
  BY DEF IndInv, Data, BufferType, Hands, KernelType
<1>2. Len(in) \in Nat /\ Len(buff) \in Nat /\ Len(<<>>) = 0  BY <1>1, LenProperties
<1>3. /\ Len(buff \o in) = Len(buff) + Len(in)
      /\ \A i \in 1 .. Len(buff) + Len(in) :
           (buff \o in)[i] = IF i <= Len(buff) THEN buff[i] ELSE in[i - Len(buff)]
  BY <1>1, ConcatProperties
<1>4. inbox'[c] = <<>> /\ m_cCBuff'[c] = buff \o in  BY <1>1
<1>5. \A d \in Conns : d # c => inbox'[d] = inbox[d] /\ m_cCBuff'[d] = m_cCBuff[d]  BY <1>1
<1>6. \A i \in 1 .. Len(in) : in[i] = sent[c] - Len(in) + i
  BY DEF IndInv, Data, ChunkInv, Chunked
<1>7. Taken(c)' = Taken(c)
  <2>1. Taken(c)' = sent[c] - 0 - (Len(buff) + Len(in))  BY <1>2, <1>3, <1>4 DEF Taken
  <2>2. Taken(c) = sent[c] - Len(in) - Len(buff)  BY DEF Taken
  <2> QED BY <1>1, <1>2, <2>1, <2>2
<1>8. \A d \in Conns : Taken(d)' = Taken(d)
  <2> TAKE d \in Conns
  <2>1. CASE d # c  BY <1>5, <2>1 DEF Taken
  <2> QED BY <1>7, <2>1
<1>9. ASSUME NEW i \in 1 .. Len(buff) + Len(in), peer[c] # "reset"
      PROVE  (buff \o in)[i] = Taken(c) + i
  <2>1. CASE i <= Len(buff)
    BY <1>2, <1>3, <1>9, <2>1 DEF StreamInv
  <2>2. CASE ~(i <= Len(buff))
    <3>0. \A a, b \in Nat : \A k \in 1 .. a + b : ~(k <= a) => k - a \in 1 .. b
      OBVIOUS
    <3>1. i - Len(buff) \in 1 .. Len(in)  BY <1>2, <2>2, <3>0, Zenon
    <3>2. (buff \o in)[i] = sent[c] - Len(in) + (i - Len(buff))  BY <1>3, <1>6, <2>2, <3>1
    <3>3. Taken(c) = sent[c] - Len(in) - Len(buff)  BY DEF Taken
    <3> QED BY <1>1, <1>2, <3>2, <3>3
  <2> QED BY <2>1, <2>2
<1>10. ASSUME NEW d \in Conns, peer'[d] # "reset"
       PROVE  /\ Taken(d)' = PacketLen * Gone(d)'
              /\ \A i \in 1 .. Len(m_cCBuff'[d]) : m_cCBuff'[d][i] = Taken(d)' + i
  <2>1. Taken(d)' = Taken(d) /\ Gone(d)' = Gone(d)  BY <1>8 DEF Gone
  <2>2. Taken(d)' = PacketLen * Gone(d)'  BY <1>10, <2>1 DEF StreamInv
  <2>3. CASE d = c
    <3>1. Len(m_cCBuff'[c]) = Len(buff) + Len(in) /\ peer[c] # "reset"  BY <1>3, <1>4, <1>10, <2>3
    <3>2. \A i \in 1 .. Len(m_cCBuff'[c]) : m_cCBuff'[c][i] = Taken(c) + i
      BY <1>4, <1>9, <3>1
    <3> QED BY <1>7, <2>2, <2>3, <3>2
  <2>4. CASE d # c  BY <1>5, <1>10, <2>1, <2>2, <2>4 DEF StreamInv
  <2> QED BY <2>3, <2>4
<1> QED BY <1>8, <1>10 DEF StreamInv

LEMMA WorkerCalm ==
  ASSUME IndInv, Hands', NothingClosed, Undisturbed, Undisturbed', StreamInv, Relays,
         NEW w \in Workers,
         \/ GetWorkQueue(w) \/ FillFromSocket(w) \/ ExecuteDone(w)
         \/ AddEPoll(w) \/ AddEPollFails(w) \/ CloseClient(w)
  PROVE  StreamInv' /\ Relays'
<1> USE DEF IndInv
<1>0. w \in Threads /\ pc[w] \notin Closing  BY DEF NothingClosed
<1>1. CASE \/ GetWorkQueue(w) \/ Available(w) \/ ExecuteDone(w)
           \/ AddEPoll(w) \/ AddEPollFails(w) \/ CountLoad(w) \/ CountStore(w)
  <2>1. /\ UNCHANGED <<peer, sent, inbox, m_cCBuff, written, packet, iter, seen, m_uniqId,
                       m_lstChatServer>>
        /\ pc[w] \notin Serving
    BY <1>1 DEF GetWorkQueue, Available, ExecuteDone, AddEPoll, AddEPollFails, CountLoad,
       CountStore, net, heap, shared, local, Serving, Walking
  <2>2. /\ \A s \in Threads : s # w => pc'[s] = pc[s] /\ cur'[s] = cur[s]
        /\ pc'[w] \in {"avail", "close", "read", "rearm", "home", "count_store", "uncount_store"}
    BY <1>1 DEF GetWorkQueue, Available, ExecuteDone, AddEPoll, AddEPollFails, CountLoad,
       CountStore, Done, Goto, Hands, HandType
  <2>3. \A c \in Conns : Taken(c)' = Taken(c)  BY <2>1 DEF Taken
  <2>4. pc'[w] \notin Serving  BY <2>2 DEF Serving, Walking
  <2> QED BY <2>1, <2>2, <2>3, <2>4, CalmStep
<1>2. CASE ReadAll(w) \/ ReadFails(w)
  <2>0. pc[w] = "read"  BY <1>2 DEF ReadAll, ReadFails
  <2>1. cur[w] \in Conns /\ client[cur[w]] = "live"  BY <1>0, <2>0, InHand DEF Holding
  <2>2. PICK c \in Conns : c = cur[w] /\ peer[c] = "up"  BY <2>1 DEF Undisturbed
  <2>3. ~(Len(inbox[c]) > CIR_BUFSIZE - Len(m_cCBuff[c]))
    <3>1. Len(inbox[c]) \in Nat /\ Len(m_cCBuff[c]) \in Nat
      BY LenProperties DEF Data, BufferType
    <3>2. Len(m_cCBuff[c]) + Len(inbox[c]) <= CIR_BUFSIZE  BY DEF Undisturbed
    <3>3. CIR_BUFSIZE \in Nat  OBVIOUS
    <3> QED BY <3>1, <3>2, <3>3, Fits
  <2>4. /\ UNCHANGED <<peer, sent, written, packet, iter, seen, m_uniqId, m_lstChatServer, cur>>
        /\ pc' = [pc EXCEPT ![w] = "exec"]
        /\ inbox' = [inbox EXCEPT ![c] = <<>>]
        /\ m_cCBuff' = [m_cCBuff EXCEPT ![c] = m_cCBuff[c] \o inbox[c]]
    BY <1>2, <2>2, <2>3 DEF ReadAll, ReadFails, Goto, shared, local
  <2>5. StreamInv' /\ \A d \in Conns : Taken(d)' = Taken(d)  BY <2>4, ReadAllStream
  <2>6. \A s \in Threads : \/ pc'[s] = pc[s] /\ cur'[s] = cur[s]
                           \/ pc[s] \notin Serving /\ pc'[s] \notin Serving
    BY <2>0, <2>4 DEF Hands, HandType, Serving, Walking
  <2>7. SentType /\ \A v \in Workers : packet[v] \in Packets \cup {NoPacket}
    BY DEF Data, WalkType
  <2> QED BY <2>4, <2>5, <2>6, <2>7, RelaysFrame
<1>3. CASE CloseDel(w) \/ CloseRemove(w) \/ CloseFree(w)
  BY <1>0, <1>3 DEF CloseDel, CloseRemove, CloseFree, Closing
<1> QED BY <1>1, <1>2, <1>3 DEF FillFromSocket, CloseClient

(***************************************************************************)
(* ExecuteCommand takes the next packet                                    *)
(***************************************************************************)
\* Chunk p * k + p ends packet k + 1.
LEMMA NextPacket ==
  ASSUME NEW p \in Nat \ {0}, NEW k \in Int, NEW n \in Int, n = p * k
  PROVE  /\ (n + p) \div p = k + 1
         /\ n + p = p * ((n + p) \div p)
<1> HIDE ManagerAssumption
<1>1. n + p = p * (k + 1)  OBVIOUS
<1>2. \A x \in Int : (p * x) \div p = x  OBVIOUS
<1>3. k + 1 \in Int  OBVIOUS
<1>4. (p * (k + 1)) \div p = k + 1  BY <1>2, <1>3
<1> QED BY <1>1, <1>4

\* The chunks that are left in the buffer stay in step.
LEMMA TakeStream ==
  ASSUME IndInv, StreamInv, NEW c \in Conns, peer[c] # "reset",
         Len(m_cCBuff[c]) >= PacketLen, UNCHANGED <<peer, sent, inbox>>,
         m_cCBuff' = [m_cCBuff EXCEPT ![c] = SubSeq(m_cCBuff[c], PacketLen + 1, Len(m_cCBuff[c]))]
  PROVE  /\ StreamInv' /\ m_cCBuff[c][PacketLen] \div PacketLen = Gone(c) + 1
         /\ Gone(c)' = Gone(c) + 1
         /\ \A d \in Conns \ {c} : Gone(d)' = Gone(d)
<1> DEFINE buff == m_cCBuff[c]
           rest == SubSeq(buff, PacketLen + 1, Len(buff))
<1>1. /\ m_cCBuff \in [Conns -> Seq(Chunks)] /\ PacketLen \in Nat \ {0}
      /\ KernelType /\ BufferType
  BY DEF IndInv, Data, BufferType, Hands
<1>2. Len(buff) \in Nat /\ Taken(c) \in Int /\ Gone(c) \in Int
      /\ sent[c] \in Nat /\ Len(inbox[c]) \in Nat
  BY <1>1, LenProperties, GoneType DEF KernelType, BufferType
<1>3. Taken(c) = PacketLen * Gone(c) /\ \A i \in 1 .. Len(buff) : buff[i] = Taken(c) + i
  BY DEF StreamInv
<1>4. m_cCBuff'[c] = rest /\ \A d \in Conns : d # c => m_cCBuff'[d] = m_cCBuff[d]  BY <1>1
<1>5. /\ Len(rest) = Len(buff) - PacketLen
      /\ \A i \in 1 .. Len(buff) - PacketLen : rest[i] = buff[PacketLen + i]
  <2>1. buff \in Seq(Chunks) /\ PacketLen <= Len(buff)  BY <1>1, <1>2
  <2> HIDE ManagerAssumption
  <2> QED BY <1>1, <1>2, <2>1
<1>6. Taken(c)' = Taken(c) + PacketLen
  <2>1. Taken(c)' = sent[c] - Len(inbox[c]) - Len(rest)  BY <1>4 DEF Taken
  <2>2. Taken(c) = sent[c] - Len(inbox[c]) - Len(buff)  BY DEF Taken
  <2> HIDE ManagerAssumption DEF rest, buff
  <2> QED BY <1>1, <1>2, <1>5, <2>1, <2>2
<1>7. /\ (Taken(c) + PacketLen) \div PacketLen = Gone(c) + 1
      /\ Taken(c) + PacketLen = PacketLen * ((Taken(c) + PacketLen) \div PacketLen)
  BY <1>1, <1>2, <1>3, NextPacket
<1>8. Gone(c)' = Gone(c) + 1
  <2>1. Gone(c)' = Taken(c)' \div PacketLen  BY DEF Gone
  <2> QED BY <1>6, <1>7, <2>1, Zenon
<1>9. m_cCBuff[c][PacketLen] \div PacketLen = Gone(c) + 1
  <2>1. PacketLen \in 1 .. Len(buff)  BY <1>1, <1>2
  <2>2. m_cCBuff[c][PacketLen] = Taken(c) + PacketLen  BY <1>3, <2>1
  <2> QED BY <1>7, <2>2, Zenon
<1>10. \A d \in Conns \ {c} : Taken(d)' = Taken(d) /\ Gone(d)' = Gone(d)
  <2> TAKE d \in Conns \ {c}
  <2>1. Taken(d)' = Taken(d)  BY <1>4 DEF Taken
  <2> QED BY <2>1 DEF Gone
<1>11. ASSUME NEW d \in Conns, peer'[d] # "reset"
       PROVE  /\ Taken(d)' = PacketLen * Gone(d)'
              /\ \A i \in 1 .. Len(m_cCBuff'[d]) : m_cCBuff'[d][i] = Taken(d)' + i
  <2>1. CASE d # c  BY <1>4, <1>10, <1>11, <2>1 DEF StreamInv
  <2>2. CASE d = c
    <3>1. Taken(c)' = PacketLen * Gone(c)'
      <4>1. Gone(c)' = Taken(c)' \div PacketLen  BY DEF Gone
      <4> QED BY <1>6, <1>7, <4>1, Zenon
    <3>2. ASSUME NEW i \in 1 .. Len(rest)
          PROVE  rest[i] = Taken(c)' + i
      <4> HIDE ManagerAssumption DEF rest, buff
      <4>1. i \in 1 .. Len(buff) - PacketLen /\ PacketLen + i \in 1 .. Len(buff)
        BY <1>1, <1>2, <1>5
      <4>2. rest[i] = Taken(c) + (PacketLen + i)  BY <1>3, <1>5, <4>1
      <4> QED BY <1>1, <1>2, <1>6, <4>1, <4>2
    <3> QED BY <1>4, <2>2, <3>1, <3>2
  <2> QED BY <2>1, <2>2
<1> QED BY <1>8, <1>9, <1>10, <1>11 DEF StreamInv

LEMMA SentPackets ==
  ASSUME SentType, NEW c \in Conns
  PROVE  Relayed(c) \subseteq Packets
<1>1. written[c] \in Seq(Packets)  BY DEF SentType
<1> QED BY <1>1, ElementOfSeq, LenProperties DEF Relayed

LEMMA ExecuteRelay ==
  ASSUME IndInv, Undisturbed, StreamInv, Relays, NEW w \in Workers, ExecuteCommand(w)
  PROVE  StreamInv' /\ Relays'
<1> USE DEF Relays
<1>1. w \in Threads /\ pc[w] = "exec" /\ Hands /\ KernelType /\ BufferType /\ SentType
      /\ HandType /\ WalkType
  BY DEF ExecuteCommand, IndInv, Hands, Data
<1>2. /\ cur[w] \in Conns /\ peer[cur[w]] = "up" /\ cur[w] # NoConn
      /\ \A v \in Workers : cur[v] = cur[w] => v = w
  BY <1>1, ServedIsUp DEF Holding
<1>3. PICK c \in Conns : c = cur[w] /\ peer[c] = "up"  BY <1>2
<1>4. /\ StreamInv' /\ m_cCBuff[c][PacketLen] \div PacketLen = Gone(c) + 1
      /\ Gone(c)' = Gone(c) + 1
      /\ \A d \in Conns \ {c} : Gone(d)' = Gone(d)
  BY <1>3, TakeStream DEF ExecuteCommand, net
<1> DEFINE n == Gone(c) + 1
           p == PacketOf(c, n)
<1>5. /\ packet' = [packet EXCEPT ![w] = p] /\ pc' = [pc EXCEPT ![w] = p.cmd]
      /\ UNCHANGED <<cur, written, peer, m_uniqId, m_lstChatServer, iter, seen>>
  BY <1>3, <1>4 DEF ExecuteCommand, Goto, net, shared
<1>6. p.cmd \in Serving \ {"visit", "next", "end"} /\ p.from = c /\ p.num = n
  <2>1. PICK l \in Serving \ {"visit", "next", "end"} : pc' = [pc EXCEPT ![w] = l]  BY CaseLabel
  <2>2. pc'[w] = l /\ pc'[w] = p.cmd  BY <1>1, <1>5, <2>1 DEF HandType
  <2>3. p.from = c /\ p.num = n  BY DEF PacketOf
  <2> QED BY <2>2, <2>3
<1>7. Gone(c) \in Int  BY <1>1, GoneType
<1>8. p.cmd = "hello" <=> Gone(c) = 0
  <2>1. n = 1 <=> Gone(c) = 0  BY <1>7
  <2>2. n = 1 => p.cmd = "hello"  BY DEF PacketOf
  <2>3. Len(m_cCBuff[c]) >= PacketLen  BY <1>3 DEF ExecuteCommand
  <2>4. n # 1 => PacketOf(c, n).cmd \in Commands
    BY <1>4, <2>3, PacketType DEF IndInv, Hands
  <2> QED BY <2>1, <2>2, <2>4 DEF Commands
<1> HIDE DEF p, n
<1>9. \A v \in Workers : v # w => pc'[v] = pc[v] /\ packet'[v] = packet[v]
  BY <1>1, <1>5 DEF HandType, WalkType
<1>10. pc'[w] = p.cmd /\ packet'[w] = p  BY <1>1, <1>5 DEF HandType, WalkType
<1>11. \A v \in Workers : pc[v] \in Serving => v # w /\ cur[v] # c /\ cur[v] \in Conns
  BY <1>1, <1>2, <1>3, InHand DEF Serving, Walking, Holding
<1>12. CaseInv'
  <2> SUFFICES ASSUME NEW v \in Workers, pc'[v] \in Serving
               PROVE  /\ packet'[v].from = cur'[v] /\ packet'[v].num = Gone(cur[v])'
                      /\ packet'[v].cmd = IF pc'[v] \in Walking THEN "broadcast" ELSE pc'[v]
                      /\ pc'[v] \in Walking => m_uniqId'[cur'[v]] = HelloId[cur'[v]]
    BY DEF CaseInv
  <2>1. CASE v # w
    <3>1. PICK d \in Conns \ {c} : d = cur[v] /\ d = cur'[v]  BY <1>5, <1>9, <1>11, <2>1
    <3>2. Gone(d)' = Gone(d)  BY <1>4
    <3>3. Gone(cur[v])' = Gone(d)'  BY <3>1 DEF Gone, Taken
    <3>4. Gone(cur[v]) = Gone(d)  BY <3>1
    <3> QED BY <1>5, <1>9, <2>1, <3>1, <3>2, <3>3, <3>4 DEF CaseInv
  <2>2. CASE v = w
    <3>1. Gone(cur[v])' = Gone(c)'  BY <1>3, <1>5, <2>2 DEF Gone, Taken
    <3>2. packet'[v].from = cur'[v] /\ packet'[v].num = Gone(cur[v])'
      BY <1>3, <1>4, <1>5, <1>6, <1>10, <2>2, <3>1 DEF n
    <3>3. p.cmd \in Walking => p.cmd = "broadcast"  BY <1>6 DEF Walking
    <3>4. p.cmd \in Walking => m_uniqId[c] = HelloId[c]
      <4>1. p.cmd \in Walking => Gone(c) # 0  BY <1>8 DEF Walking
      <4>2. ~ \E v2 \in Workers : cur[v2] = c /\ pc[v2] = "hello"  BY <1>11 DEF Serving
      <4> QED BY <1>3, <4>1, <4>2 DEF HelloInv
    <3> QED BY <1>3, <1>5, <1>10, <2>2, <3>2, <3>3, <3>4
  <2> QED BY <2>1, <2>2
<1>13. HelloInv'
  <2> SUFFICES ASSUME NEW d \in Conns, peer[d] # "reset", m_uniqId[d] = NoId
               PROVE  Gone(d)' = 0 \/ \E v \in Workers : cur'[v] = d /\ pc'[v] = "hello"
    BY <1>5 DEF HelloInv
  <2>0. Gone(d) = 0 \/ \E v \in Workers : cur[v] = d /\ pc[v] = "hello"  BY DEF HelloInv
  <2>1. CASE d = c
    <3>1. Gone(c) = 0  BY <1>11, <2>0, <2>1 DEF Serving
    <3>2. cur'[w] = c /\ pc'[w] = "hello"  BY <1>3, <1>5, <1>8, <1>10, <3>1
    <3> QED BY <2>1, <3>2
  <2>2. CASE d # c
    <3>1. \A v \in Workers : pc[v] = "hello" => pc'[v] = "hello"  BY <1>9, <1>11 DEF Serving
    <3> QED BY <1>4, <1>5, <2>0, <2>2, <3>1
  <2> QED BY <2>1, <2>2
<1>14. WalkInv'
  <2>1. seen[w] = {} /\ pc'[w] \notin {"visit", "next", "end"}  BY <1>1, <1>6, <1>10 DEF WalkInv
  <2> QED BY <1>5, <1>9, <2>1 DEF WalkInv
<1>15. \A d \in Conns : Relayed(d)' = Relayed(d) /\ Relayed(d) \subseteq Packets
  BY <1>1, <1>5, SentPackets DEF Relayed
<1>16. OrderInv'
  <2>1. ASSUME NEW d \in Conns, NEW q \in Relayed(d), peer[q.from] # "reset"
        PROVE  q.num <= Gone(q.from)' /\ (q.from = c => q.num < n)
    <3>1. q.from \in Conns /\ q.num \in Int /\ q.num <= Gone(q.from)
      BY <1>15, <2>1 DEF OrderInv, Packets, Chunks
    <3>2. CASE q.from = c
      <4>1. q.num <= Gone(c)  BY <3>1, <3>2
      <4>2. q.num < n /\ q.num <= Gone(c) + 1  BY <1>7, <3>1, <4>1 DEF n
      <4>3. Gone(q.from)' = Gone(c)'  BY <3>2 DEF Gone, Taken
      <4> QED BY <1>4, <4>2, <4>3
    <3>3. CASE q.from # c  BY <1>4, <3>1, <3>3
    <3> QED BY <3>2, <3>3
  <2>2. ASSUME NEW v \in Workers, pc'[v] \in Serving, NEW d \in Conns, d \notin Passed(v)',
               NEW q \in Relayed(d), q.from = cur'[v]
        PROVE  q.num < packet'[v].num
    <3>1. CASE v = w
      <4>1. q.from = c  BY <1>3, <1>5, <2>2, <3>1
      <4> QED BY <1>3, <1>6, <1>10, <2>1, <3>1, <4>1
    <3>2. CASE v # w
      BY <1>5, <1>9, <2>2, <3>2 DEF OrderInv, Passed
    <3> QED BY <3>1, <3>2
  <2> QED BY <1>5, <1>15, <2>1, <2>2 DEF OrderInv
<1>17. SenderOrder' /\ NotBackToSender'  BY <1>5 DEF SenderOrder, NotBackToSender
<1> QED BY <1>4, <1>12, <1>13, <1>14, <1>16, <1>17

(***************************************************************************)
(* The cases of ExecuteCommand                                             *)
(***************************************************************************)
\* The properties, by what each server was sent.
OwnId(c) == HelloId[c] = BroadcastId[c] /\ HelloId[c] < 2^(IntBits - 1)
LEMMA ByRelayed ==
  LET Right == \A c \in Conns : OwnId(c) =>
                 \A p \in Relayed(c) : p.cmd = "broadcast" => p.from # c
  IN  (NotBackToSender <=> Right) /\ (NotBackToSender' <=> Right')
<1>1. \A c \in Conns : \A i \in 1 .. Len(written[c]) : written[c][i] \in Relayed(c)
  BY DEF Relayed
<1>2. \A c \in Conns : \A i \in 1 .. Len(written'[c]) : written'[c][i] \in Relayed(c)'
  BY DEF Relayed
<1>3. NotBackToSender <=> \A c \in Conns : OwnId(c) =>
        \A p \in Relayed(c) : p.cmd = "broadcast" => p.from # c
  BY <1>1 DEF NotBackToSender, Relayed, OwnId
<1>4. NotBackToSender' <=> \A c \in Conns : OwnId(c) =>
        \A p \in Relayed(c)' : p.cmd = "broadcast" => p.from # c
  BY <1>2 DEF NotBackToSender, Relayed, OwnId
<1> QED BY <1>3, <1>4 DEF OwnId

\* A packet is written to d, to which only earlier ones of its sender were.
LEMMA WriteOrder ==
  ASSUME SentType, SenderOrder, NEW d \in Conns, NEW p \in Packets,
         \/ written' = written
         \/ Write(d, p) /\ \A q \in Relayed(d) : q.from = p.from => q.num < p.num
  PROVE  /\ SenderOrder'
         /\ \A c \in Conns : Relayed(c)' \subseteq Relayed(c) \cup (IF c = d THEN {p} ELSE {})
<1>1. CASE written' = written
  BY <1>1 DEF SenderOrder, Relayed
<1>2. CASE /\ written' = [written EXCEPT ![d] = Append(written[d], p)]
           /\ \A q \in Relayed(d) : q.from = p.from => q.num < p.num
  <2>1. written \in [Conns -> Seq(Packets)] /\ written[d] \in Seq(Packets)  BY DEF SentType
  <2> DEFINE old == written[d]
             new == Append(old, p)
  <2>2. /\ Len(new) = Len(old) + 1 /\ Len(old) \in Nat /\ new[Len(old) + 1] = p
        /\ \A i \in 1 .. Len(old) : new[i] = old[i]
    BY <2>1, AppendProperties, LenProperties
  <2>3. written'[d] = new /\ \A c \in Conns : c # d => written'[c] = written[c]  BY <1>2, <2>1
  <2>4. \A i \in 1 .. Len(new) : i \in 1 .. Len(old) \/ i = Len(old) + 1
    <3> HIDE ManagerAssumption DEF new, old
    <3> QED BY <2>2
  <2>5. \A i \in 1 .. Len(old) : old[i] \in Relayed(d)  BY DEF Relayed
  <2> HIDE DEF new
  <2>6. ASSUME NEW i \in 1 .. Len(new), NEW j \in 1 .. Len(new), i < j, new[i].from = new[j].from
        PROVE  new[i].num < new[j].num
    <3>1. i \in 1 .. Len(old)  BY <2>2, <2>4, <2>6
    <3>2. CASE j \in 1 .. Len(old)  BY <2>2, <2>6, <3>1, <3>2 DEF SenderOrder
    <3>3. CASE j = Len(old) + 1
      <4>1. new[j] = p /\ new[i] = old[i] /\ old[i] \in Relayed(d)  BY <2>2, <2>5, <3>1, <3>3
      <4> QED BY <1>2, <2>6, <4>1
    <3> QED BY <2>4, <3>2, <3>3
  <2>7. SenderOrder'  BY <2>3, <2>6 DEF SenderOrder
  <2>8. Relayed(d)' \subseteq Relayed(d) \cup {p}
    <3>1. \A i \in 1 .. Len(new) : new[i] \in Relayed(d) \cup {p}  BY <2>2, <2>4, <2>5
    <3>2. Relayed(d)' = {new[i] : i \in 1 .. Len(new)}  BY <2>3 DEF Relayed
    <3> QED BY <3>1, <3>2
  <2>9. \A c \in Conns : c # d => Relayed(c)' = Relayed(c)  BY <2>3 DEF Relayed
  <2> QED BY <2>7, <2>8, <2>9
<1> QED BY <1>1, <1>2 DEF Write

\* What worker w has relayed in a step of a case is the packet it serves, to a
\* server that it has not dealt with; the rest of the invariant follows.
LEMMA ServeStep ==
  ASSUME IndInv, Undisturbed, StreamInv, Relays, NEW w \in Workers, pc[w] \in Serving,
         NEW d \in Conns,
         \/ written' = written
         \/ /\ Write(d, packet[w]) /\ d \notin Passed(w)
            /\ d \in Passed(w)' \/ pc'[w] \notin Serving
            /\ packet[w].cmd = "broadcast" /\ OwnId(d) => d # cur[w],
         \A v \in Workers : v # w =>
           pc'[v] = pc[v] /\ packet'[v] = packet[v] /\ seen'[v] = seen[v] /\ iter'[v] = iter[v],
         pc'[w] \in Serving => packet'[w] = packet[w] /\ Passed(w) \subseteq Passed(w)',
         UNCHANGED <<cur, peer, sent, inbox, m_cCBuff>>,
         CaseInv', HelloInv', WalkInv'
  PROVE  StreamInv' /\ Relays'
<1> USE DEF Relays
<1>1. Hands /\ SentType /\ WalkType  BY DEF IndInv, Data
<1>2. StreamInv'  BY DEF StreamInv, Taken, Gone
<1>3. packet[w] \in Packets /\ packet[w].from = cur[w] /\ packet[w].num = Gone(cur[w])
  BY <1>1 DEF CaseInv, WalkType
<1>4. d \notin Passed(w) =>
        \A q \in Relayed(d) : q.from = packet[w].from => q.num < packet[w].num
  BY <1>3 DEF OrderInv
<1>5. /\ SenderOrder'
      /\ \A c \in Conns : Relayed(c)' \subseteq Relayed(c) \cup (IF c = d THEN {packet[w]} ELSE {})
  BY <1>1, <1>3, <1>4, WriteOrder
<1>6. written' = written => \A c \in Conns : Relayed(c)' = Relayed(c)  BY DEF Relayed
<1>7. \A c \in Conns : Relayed(c) \subseteq Packets  BY <1>1, SentPackets
<1>8. \A c \in Conns : Gone(c)' = Gone(c)  BY DEF Gone, Taken
<1>9. OrderInv'
  <2>1. ASSUME NEW c \in Conns, NEW p \in Relayed(c)', peer[p.from] # "reset"
        PROVE  p.num <= Gone(p.from)'
    <3>1. p \in Relayed(c) \/ p = packet[w]  BY <1>5
    <3>2. p.from \in Conns  BY <1>3, <1>7, <3>1 DEF Packets
    <3>3. p.num <= Gone(p.from)
      <4>1. CASE p \in Relayed(c)  BY <2>1, <4>1 DEF OrderInv
      <4>2. CASE p = packet[w]
        <5>1. p.num = Gone(p.from) /\ p.num \in Int  BY <1>3, <4>2 DEF Packets, Chunks
        <5> QED BY <5>1
      <4> QED BY <3>1, <4>1, <4>2
    <3> QED BY <1>8, <3>2, <3>3
  <2>2. ASSUME NEW v \in Workers, pc'[v] \in Serving, NEW c \in Conns, c \notin Passed(v)',
               NEW p \in Relayed(c)', p.from = cur[v]
        PROVE  p.num < packet'[v].num
    <3>1. CASE v = w
      <4>1. c \notin Passed(w) /\ packet'[w] = packet[w]  BY <2>2, <3>1
      <4>2. p \in Relayed(c)
        <5>1. CASE written' = written  BY <1>6, <5>1
        <5>2. CASE d \in Passed(w)'  BY <1>5, <2>2, <3>1, <5>2
        <5> QED BY <2>2, <3>1, <5>1, <5>2
      <4> QED BY <2>2, <3>1, <4>1, <4>2 DEF OrderInv
    <3>2. CASE v # w
      <4>1. pc'[v] = pc[v] /\ packet'[v] = packet[v] /\ Passed(v)' = Passed(v)
        BY <3>2 DEF Passed
      <4>2. cur[v] # cur[w]
        <5>1. pc[v] \in Holding  BY <2>2, <4>1 DEF Holding
        <5> QED BY <1>1, <3>2, <5>1, ServedIsUp
      <4>3. p \in Relayed(c)  BY <1>3, <1>5, <2>2, <4>2
      <4> QED BY <2>2, <4>1, <4>3 DEF OrderInv
    <3> QED BY <3>1, <3>2
  <2> QED BY <2>1, <2>2 DEF OrderInv
<1>10. NotBackToSender'
  <2>1. SUFFICES ASSUME NEW c \in Conns, OwnId(c), NEW p \in Relayed(c)',
                        p.cmd = "broadcast", p.from = c
                 PROVE  FALSE
    BY ByRelayed
  <2>2. p \notin Relayed(c)  BY <2>1, ByRelayed
  <2>3. c = d /\ p = packet[w] /\ written' # written  BY <1>5, <1>6, <2>1, <2>2
  <2> QED BY <1>3, <2>1, <2>3
<1> QED BY <1>2, <1>5, <1>9, <1>10

\* What a step of thread w alone leaves of the others.
LEMMA OthersServe ==
  ASSUME IndInv, NEW w \in Workers, NEW l, pc' = [pc EXCEPT ![w] = l],
         UNCHANGED cur
  PROVE  /\ pc'[w] = l /\ \A v \in Workers : v # w => pc'[v] = pc[v]
         /\ cur \in [Threads -> Conns \cup {NoConn}]
BY DEF IndInv, Hands, HandType

\* The cases of hello, ping and an unknown command, and the end of a walk.
LEMMA AnswerRelay ==
  ASSUME IndInv, Undisturbed, StreamInv, Relays, NEW w \in Workers,
         WorkChatServerHello(w) \/ WorkDSMPing(w) \/ BroadcastEnd(w)
  PROVE  StreamInv' /\ Relays'
<1> USE DEF Relays
<1>1. /\ pc[w] \in {"hello", "ping", "unknown", "end"}
      /\ packet' = [packet EXCEPT ![w] = NoPacket] /\ pc' = [pc EXCEPT ![w] = "exec"]
      /\ UNCHANGED <<peer, sent, inbox, m_cCBuff, cur, iter, m_lstChatServer>>
      /\ seen' = IF pc[w] = "end" THEN [seen EXCEPT ![w] = {}] ELSE seen
  BY DEF WorkChatServerHello, WorkDSMPing, BroadcastEnd, CaseDone, Goto, net, heap, shared
<1>2. Hands /\ WalkType /\ w \in Threads /\ pc[w] \in Serving /\ pc[w] \in Holding
  BY <1>1 DEF IndInv, Data, Serving, Walking, Holding
<1>3. /\ cur[w] \in Conns /\ peer[cur[w]] = "up" /\ cur[w] # NoConn
      /\ \A v \in Workers : cur[v] = cur[w] => v = w
  BY <1>2, ServedIsUp
<1>4. pc'[w] = "exec" /\ \A v \in Workers : v # w => pc'[v] = pc[v]  BY <1>1, OthersServe
<1>5. \A v \in Workers : v # w => packet'[v] = packet[v] /\ seen'[v] = seen[v] /\ iter'[v] = iter[v]
  BY <1>1 DEF WalkType
<1>6. m_uniqId' = IF pc[w] = "hello" THEN [m_uniqId EXCEPT ![cur[w]] = HelloId[cur[w]]]
                                     ELSE m_uniqId
  BY DEF WorkChatServerHello, WorkDSMPing, BroadcastEnd, heap
<1>7. m_uniqId \in [Conns -> Ids \cup {NoId}]  BY <1>2 DEF Hands, ManagerType
<1>8. pc'[w] \notin Serving  BY <1>4 DEF Serving, Walking
<1>9. \A c \in Conns : Gone(c)' = Gone(c)  BY <1>1 DEF Gone, Taken
<1>10. CaseInv'
  <2> SUFFICES ASSUME NEW v \in Workers, pc'[v] \in Serving
               PROVE  /\ packet'[v].from = cur'[v] /\ packet'[v].num = Gone(cur[v])'
                      /\ packet'[v].cmd = IF pc'[v] \in Walking THEN "broadcast" ELSE pc'[v]
                      /\ pc'[v] \in Walking => m_uniqId'[cur'[v]] = HelloId[cur'[v]]
    BY DEF CaseInv
  <2>1. v # w /\ pc'[v] = pc[v] /\ packet'[v] = packet[v] /\ cur'[v] = cur[v]
    BY <1>1, <1>4, <1>5, <1>8
  <2>2. cur[v] \in Conns /\ cur[v] # cur[w]
    BY <1>2, <1>3, <2>1, InHand DEF Holding
  <2>3. Gone(cur[v])' = Gone(cur[v])  BY <1>1 DEF Gone, Taken
  <2>4. m_uniqId'[cur[v]] = m_uniqId[cur[v]]  BY <1>6, <1>7, <2>2
  <2> QED BY <2>1, <2>3, <2>4 DEF CaseInv
<1>11. HelloInv'
  <2>1. \A c \in Conns : m_uniqId'[c] \in {NoId, HelloId[c]}
    BY <1>6, <1>7 DEF HelloInv
  <2>2. ASSUME NEW c \in Conns, peer[c] # "reset", m_uniqId'[c] = NoId
        PROVE  Gone(c)' = 0 \/ \E v \in Workers : cur'[v] = c /\ pc'[v] = "hello"
    <3>1. m_uniqId[c] = NoId /\ (pc[w] = "hello" => c # cur[w])
      BY <1>6, <1>7, <2>2
    <3>2. Gone(c) = 0 \/ \E v \in Workers : cur[v] = c /\ pc[v] = "hello"
      BY <2>2, <3>1 DEF HelloInv
    <3>3. CASE Gone(c) = 0  BY <1>9, <3>3
    <3>4. ASSUME NEW v \in Workers, cur[v] = c, pc[v] = "hello"
          PROVE  cur'[v] = c /\ pc'[v] = "hello"
      BY <1>1, <1>4, <3>1, <3>4
    <3> QED BY <3>2, <3>3, <3>4
  <2> QED BY <1>1, <2>1, <2>2 DEF HelloInv
<1>12. WalkInv'
  <2>1. seen'[w] = {}  BY <1>1, <1>2 DEF WalkInv, WalkType
  <2> QED BY <1>1, <1>4, <1>5, <2>1 DEF WalkInv
<1>13. pc[w] # "end" => seen[w] = {} /\ packet[w].cmd # "broadcast"
  BY <1>1, <1>2 DEF WalkInv, CaseInv, Walking
<1>14. written' = written \/ (Write(cur[w], packet[w]) /\ pc[w] # "end")
  BY DEF WorkChatServerHello, WorkDSMPing, BroadcastEnd
<1>15. \/ written' = written
       \/ /\ Write(cur[w], packet[w]) /\ cur[w] \notin Passed(w)
          /\ cur[w] \in Passed(w)' \/ pc'[w] \notin Serving
          /\ packet[w].cmd = "broadcast" /\ OwnId(cur[w]) => cur[w] # cur[w]
  BY <1>1, <1>8, <1>13, <1>14 DEF Passed
<1> QED BY <1>1, <1>2, <1>3, <1>4, <1>5, <1>8, <1>10, <1>11, <1>12, <1>15, ServeStep

\* GetUniqId() gives back an id that an int can hold.
LEMMA SmallId ==
  ASSUME NEW c \in Conns, m_uniqId[c] = HelloId[c], HelloId[c] < 2^(IntBits - 1)
  PROVE  GetUniqId(c) = HelloId[c]
<1> DEFINE h == HelloId[c]
           half == 2^(IntBits - 1)
<1>1. h \in Nat /\ half \in Int  BY DEF Ids
<1>2. 2^IntBits = 2 * half  BY PowerAssumption
<1> HIDE DEF h, half
<1>3. h < half  BY DEF h, half
<1>4. 2 * half \in Nat /\ h < 2 * half  BY <1>1, <1>3
<1>5. h % (2 * half) = h
  <2> HIDE ManagerAssumption
  <2>1. \A a, b \in Nat : a < b => a % b = a  OBVIOUS
  <2> QED BY <1>1, <1>4, <2>1
<1>6. h % 2^IntBits = h  BY <1>2, <1>5, Zenon
<1>7. h % 2^IntBits < 2^(IntBits - 1)  BY <1>3, <1>6 DEF half
<1> QED BY <1>6, <1>7 DEF GetUniqId, h

\* The walk leaves the sender out, and every other member behind.
LEMMA BroadcastRelay ==
  ASSUME IndInv, Undisturbed, StreamInv, Relays, NEW w \in Workers,
         BroadcastBegin(w) \/ BroadcastVisit(w) \/ BroadcastNext(w)
  PROVE  StreamInv' /\ Relays'
<1> USE DEF Relays
<1>1. /\ pc[w] \in {"broadcast", "visit", "next"}
      /\ UNCHANGED <<peer, sent, inbox, m_cCBuff, cur, packet, m_uniqId, m_lstChatServer>>
  BY DEF BroadcastBegin, BroadcastVisit, BroadcastNext, net, heap, shared, local
<1>2. Hands /\ WalkType /\ w \in Threads /\ pc[w] \in Walking /\ pc[w] \in Serving
      /\ pc[w] \in Holding
  BY <1>1 DEF IndInv, Data, Serving, Walking, Holding
<1>3. /\ cur[w] \in Conns /\ peer[cur[w]] = "up" /\ cur[w] # NoConn
      /\ \A v \in Workers : cur[v] = cur[w] => v = w
  BY <1>2, ServedIsUp
<1>4. PICK l \in {"visit", "next", "end"} : pc' = [pc EXCEPT ![w] = l]
  BY DEF BroadcastBegin, BroadcastVisit, BroadcastNext, Advance, Goto
<1>5. pc'[w] = l /\ \A v \in Workers : v # w => pc'[v] = pc[v]  BY <1>1, <1>4, OthersServe
<1>6. l \in Walking /\ l \in Serving  BY DEF Walking, Serving
<1>7. CaseInv'
  <2> SUFFICES ASSUME NEW v \in Workers, pc'[v] \in Serving
               PROVE  /\ packet[v].from = cur[v] /\ packet[v].num = Gone(cur[v])'
                      /\ packet[v].cmd = IF pc'[v] \in Walking THEN "broadcast" ELSE pc'[v]
                      /\ pc'[v] \in Walking => m_uniqId[cur[v]] = HelloId[cur[v]]
    BY <1>1 DEF CaseInv
  <2>1. Gone(cur[v])' = Gone(cur[v])  BY <1>1 DEF Gone, Taken
  <2>2. CASE v = w  BY <1>2, <1>5, <1>6, <2>1, <2>2 DEF CaseInv
  <2>3. CASE v # w  BY <1>5, <2>1, <2>3 DEF CaseInv
  <2> QED BY <2>2, <2>3
<1>8. HelloInv'
  <2>1. \A c \in Conns : Gone(c)' = Gone(c)  BY <1>1 DEF Gone, Taken
  <2>2. \A v \in Workers : pc[v] = "hello" => pc'[v] = "hello"  BY <1>1, <1>5
  <2>3. ASSUME NEW c \in Conns, peer[c] # "reset", m_uniqId[c] = NoId
        PROVE  Gone(c)' = 0 \/ \E v \in Workers : cur[v] = c /\ pc'[v] = "hello"
    BY <2>1, <2>2, <2>3 DEF HelloInv
  <2> QED BY <1>1, <2>3 DEF HelloInv
<1>9. CASE BroadcastVisit(w)
  <2>1. l = "next" /\ pc[w] = "visit" /\ UNCHANGED <<iter, seen>>
    <3>1. pc' = [pc EXCEPT ![w] = "next"] /\ pc[w] = "visit" /\ UNCHANGED <<iter, seen>>
      BY <1>9 DEF BroadcastVisit, Goto, local
    <3>2. pc'[w] = "next"  BY <1>2, <3>1 DEF Hands, HandType
    <3> QED BY <1>5, <3>1, <3>2
  <2>2. /\ iter[w] \in Conns /\ iter[w] \in m_lstChatServer /\ iter[w] \notin seen[w]
        /\ client[iter[w]] = "live"
    BY <1>2, <2>1 DEF WalkInv, Hands, ManagerType, Owned, NoUseAfterFree, Live
  <2>3. iter[w] \notin Passed(w) /\ iter[w] \in Passed(w)' /\ Passed(w) \subseteq Passed(w)'
    BY <1>5, <2>1, <2>2 DEF Passed
  <2>4. WalkInv'  BY <1>1, <1>5, <2>1, <2>2 DEF WalkInv
  <2>5. written' = written \/ (Write(iter[w], packet[w]) /\ IsOther(iter[w], packet[w]))
    BY <1>9, <2>2 DEF BroadcastVisit
  <2>6. IsOther(iter[w], packet[w]) /\ OwnId(iter[w]) => iter[w] # cur[w]
    <3>1. SUFFICES ASSUME iter[w] = cur[w], OwnId(cur[w]) PROVE ~IsOther(cur[w], packet[w])
      OBVIOUS
    <3>2. packet[w].from = cur[w] /\ m_uniqId[cur[w]] = HelloId[cur[w]]
      BY <1>2 DEF CaseInv
    <3>3. HelloId[cur[w]] \in Ids /\ HelloId[cur[w]] # NoId  BY <1>3
    <3>4. ~Unset(cur[w])  BY <2>2, <3>1, <3>2, <3>3 DEF Unset
    <3>5. GetUniqId(cur[w]) = BroadcastId[packet[w].from]
      BY <1>3, <3>1, <3>2, SmallId DEF OwnId
    <3> QED BY <3>4, <3>5 DEF IsOther
  <2>7. \/ written' = written
        \/ /\ Write(iter[w], packet[w]) /\ iter[w] \notin Passed(w)
           /\ iter[w] \in Passed(w)' \/ pc'[w] \notin Serving
           /\ packet[w].cmd = "broadcast" /\ OwnId(iter[w]) => iter[w] # cur[w]
    BY <2>3, <2>5, <2>6
  <2>8. /\ \A v \in Workers : v # w => /\ pc'[v] = pc[v] /\ packet'[v] = packet[v]
                                       /\ seen'[v] = seen[v] /\ iter'[v] = iter[v]
        /\ pc'[w] \in Serving => packet'[w] = packet[w] /\ Passed(w) \subseteq Passed(w)'
    BY <1>1, <1>5, <2>1, <2>3
  <2> QED BY <1>1, <1>2, <1>7, <1>8, <2>2, <2>4, <2>7, <2>8, ServeStep
<1>10. CASE BroadcastBegin(w) \/ BroadcastNext(w)
  <2>1. PICK done : /\ Advance(w, done) /\ seen' = [seen EXCEPT ![w] = done]
                    /\ done = Passed(w)
    <3>1. CASE BroadcastBegin(w)
      <4>1. seen[w] = {} /\ pc[w] = "broadcast"  BY <3>1 DEF BroadcastBegin, WalkInv
      <4>2. Advance(w, {}) /\ seen' = seen  BY <3>1 DEF BroadcastBegin
      <4>3. seen = [seen EXCEPT ![w] = {}]  BY <1>2, <4>1 DEF WalkType
      <4> QED BY <4>1, <4>2, <4>3 DEF Passed
    <3>2. CASE BroadcastNext(w)
      <4>1. pc[w] = "next" /\ iter[w] \in m_lstChatServer  BY <3>2 DEF BroadcastNext, WalkInv
      <4> QED BY <3>2, <4>1 DEF BroadcastNext, Passed
    <3> QED BY <1>10, <3>1, <3>2
  <2>2. written' = written  BY <1>10 DEF BroadcastBegin, BroadcastNext
  <2>3. /\ l \in {"visit", "end"}
        /\ \A v \in Workers : v # w => iter'[v] = iter[v] /\ seen'[v] = seen[v]
        /\ seen'[w] = done
        /\ l = "visit" => iter'[w] \in m_lstChatServer \ done
    <3>1. \/ iter' = [iter EXCEPT ![w] = NoConn] /\ Goto(w, "end")
          \/ \E c \in m_lstChatServer \ done : iter' = [iter EXCEPT ![w] = c] /\ Goto(w, "visit")
      BY <2>1 DEF Advance
    <3>2. l \in {"visit", "end"}
      BY <1>2, <1>5, <3>1 DEF Goto, Hands, HandType
    <3>3. l = "visit" => iter'[w] \in m_lstChatServer \ done
      BY <1>2, <1>5, <3>1 DEF Goto, Hands, HandType, WalkType
    <3> QED BY <1>2, <2>1, <3>1, <3>2, <3>3 DEF WalkType
  <2>4. Passed(w)' = Passed(w)  BY <1>5, <2>1, <2>3 DEF Passed
  <2>5. WalkInv'  BY <1>1, <1>5, <2>3 DEF WalkInv
  <2>6. /\ \A v \in Workers : v # w => /\ pc'[v] = pc[v] /\ packet'[v] = packet[v]
                                       /\ seen'[v] = seen[v] /\ iter'[v] = iter[v]
        /\ pc'[w] \in Serving => packet'[w] = packet[w] /\ Passed(w) \subseteq Passed(w)'
    BY <1>1, <1>5, <2>3, <2>4
  <2> QED BY <1>1, <1>2, <1>3, <1>7, <1>8, <2>2, <2>5, <2>6, ServeStep
<1> QED BY <1>9, <1>10

(***************************************************************************)
(* The invariant and the theorems                                          *)
(***************************************************************************)
LEMMA InitRelay == Init => RelayInv
<1> SUFFICES ASSUME Init PROVE RelayInv  OBVIOUS
<1> USE DEF Init
<1>1. Places(m_pWorkQueue) = {}  BY EmptySeq DEF Places
<1>2. NothingClosed  BY <1>1 DEF NothingClosed, Expected, Closing
<1>3. \A c \in Conns : Len(m_cCBuff[c]) = 0 /\ Taken(c) = 0 /\ Gone(c) = 0
  <2>1. Len(<<>>) = 0  BY EmptySeq
  <2>2. ASSUME NEW c \in Conns PROVE Len(m_cCBuff[c]) = 0 /\ Taken(c) = 0
    <3>1. inbox[c] = <<>> /\ m_cCBuff[c] = <<>> /\ sent[c] = 0  OBVIOUS
    <3> HIDE ManagerAssumption DEF Init
    <3>2. Len(m_cCBuff[c]) = 0 /\ Len(inbox[c]) = 0  BY <2>1, <3>1, Zenon
    <3>3. Taken(c) = 0 - 0 - 0  BY <3>1, <3>2, Zenon DEF Taken
    <3> QED BY <3>2, <3>3
  <2>3. 0 \div PacketLen = 0  OBVIOUS
  <2> QED BY <2>2, <2>3 DEF Gone
<1>4. StreamInv
  <2>1. PacketLen * 0 = 0  OBVIOUS
  <2> QED BY <1>3, <2>1 DEF StreamInv
<1>5. \A c \in Conns : Relayed(c) = {} /\ Len(written[c]) = 0
  <2> TAKE c \in Conns
  <2>1. written[c] = <<>>  OBVIOUS
  <2>2. Len(<<>>) = 0  BY EmptySeq
  <2> HIDE ManagerAssumption DEF Init
  <2>3. Len(written[c]) = 0  BY <2>1, <2>2, Zenon
  <2> QED BY <2>3 DEF Relayed
<1>6. CaseInv /\ HelloInv /\ WalkInv
  BY <1>3 DEF CaseInv, HelloInv, WalkInv, Serving, Walking
<1>7. OrderInv /\ SenderOrder /\ NotBackToSender
  BY <1>5 DEF OrderInv, SenderOrder, NotBackToSender
<1> QED BY <1>2, <1>4, <1>6, <1>7 DEF RelayInv, Relays

LEMMA NextRelay ==
  IndInv /\ IndInv' /\ Undisturbed /\ Undisturbed' /\ RelayInv /\ [Next]_vars => RelayInv'
<1> SUFFICES ASSUME IndInv, IndInv', Undisturbed, Undisturbed', RelayInv, [Next]_vars
             PROVE  RelayInv'
  OBVIOUS
<1>0. Hands' /\ NothingClosed /\ StreamInv /\ Relays  BY DEF RelayInv, IndInv
<1>1. CASE Servers
  BY <1>0, <1>1, PeersClosed, PeersRelay DEF Servers, RelayInv
<1>2. CASE MainStep
  BY <1>0, <1>2, MainClosed, MainRelay DEF RelayInv
<1>3. ASSUME NEW w \in Workers, WorkerStep(w) PROVE RelayInv'
  <2>1. NothingClosed'  BY <1>0, <1>3, WorkerClosed
  <2>2. StreamInv' /\ Relays'
    BY <1>0, <1>3, WorkerCalm, ExecuteRelay, AnswerRelay, BroadcastRelay
    DEF WorkerStep, MessageBroadcast
  <2> QED BY <2>1, <2>2 DEF RelayInv
<1>4. CASE UNCHANGED vars
  <2> USE <1>4 DEF vars, net, poll, heap, shared, local
  <2>1. NothingClosed'  BY <1>0, QuietFrame
  <2>2. \A c \in Conns : Taken(c)' = Taken(c)  BY DEF Taken
  <2>3. StreamInv' /\ Relays'  BY <1>0, <2>2, CalmStep
  <2> QED BY <2>1, <2>3 DEF RelayInv
<1> QED BY <1>1, <1>2, <1>3, <1>4 DEF Next

LEMMA RelayInvariance == Spec /\ []Undisturbed => []RelayInv
BY InitRelay, NextRelay, Invariance, PTL DEF Spec

\* As long as no connection in use breaks and no input outgrows its buffer, a
\* server whose hello and messages carry the same id, one that an int can hold,
\* is never sent its own message back (ChatManager.cpp:295, ClientChatServer.cpp:55).
THEOREM SenderLeftOut == Spec /\ []Undisturbed => []NotBackToSender
<1>1. RelayInv => NotBackToSender  BY DEF RelayInv, Relays
<1> QED BY <1>1, RelayInvariance, PTL

\* Under the same condition every server is sent another one's messages in the
\* order in which they were sent and none twice, though any worker may relay any
\* of them and the list grows meanwhile (ChatManager.cpp:283, ThreadWorker.cpp:65).
THEOREM RelayedInOrder == Spec /\ []Undisturbed => []SenderOrder
<1>1. RelayInv => SenderOrder  BY DEF RelayInv, Relays
<1> QED BY <1>1, RelayInvariance, PTL
=============================================================================
