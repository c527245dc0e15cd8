---------------------------- MODULE ChatManager -----------------------------
(***************************************************************************)
(* One ChatManager process: the main thread that accepts chat servers and  *)
(* polls epoll, and the ThreadWorkers that answer their packets and relay  *)
(* their messages to the other servers.                                    *)
(*                                                                         *)
(* The manager hands ClientChatServers around as ChatServer does Clients.  *)
(* What differs: a server is in m_lstChatServer from accept on, before its *)
(* hello; MessageBroadcast walks that list without m_lockClient; and       *)
(* removal from the list and deletion are separate steps of CloseClient.   *)
(*                                                                         *)
(* A server sends packets, each in PacketLen chunks: first its hello, then *)
(* what Script says.  Chunks and packets of a connection are numbered.     *)
(* m_pWorkQueue is the bounded FIFO that CircularQueue implements.         *)
(* m_lstChatServer is a set: a walk visits its members in some order, the  *)
(* ones that join it meanwhile included (push_back puts them at the end).  *)
(***************************************************************************)
EXTENDS Integers, Sequences

CONSTANTS
  Conns,          \* connections that ChatServer processes open
  Workers,        \* the ThreadWorkers
  Script,         \* per connection, the commands that follow the hello
  HelloId,        \* per connection, the uniqId in its hello, and
  BroadcastId,    \* the uniqId in its cmd_CHAT_BROADCAST packets
  NoConn, NoPacket, NoId,
  IntBits,        \* the bits of an int
  QSIZE, CIR_BUFSIZE,
  MaxUser,        \* GetMaxUser()
  PacketLen,      \* bound: chunks in which a packet arrives
  MayFail,        \* bound: the connections whose peers may close or reset
  AddMayFail      \* whether EPOLL_CTL_ADD may fail

Main == "main"
Threads == {Main} \cup Workers
Commands == {"broadcast", "ping", "unknown"}
Ids == Nat

ASSUME ManagerAssumption ==
  /\ NoConn \notin Conns /\ NoId \notin Ids
  /\ Main \notin Workers
  /\ Script \in [Conns -> Seq(Commands)]
  /\ HelloId \in [Conns -> Ids] /\ BroadcastId \in [Conns -> Ids]
  /\ {IntBits, QSIZE, CIR_BUFSIZE, PacketLen} \subseteq Nat \ {0}
  /\ MaxUser \in Nat
  /\ MayFail \subseteq Conns /\ AddMayFail \in BOOLEAN

\* Arithmetic: one bit more doubles the values.
ASSUME PowerAssumption == 2^IntBits = 2 * 2^(IntBits - 1)

Chunks == Nat \ {0}
Packets == [cmd : Commands \cup {"hello"}, from : Conns, num : Chunks]

VARIABLES
  \* the network, the kernel and the servers' side
  peer,       \* "away", "up", "closed" (orderly) or "reset"
  sent,       \* chunks the server has sent
  inbox,      \* the socket's receive buffer
  backlog,    \* connections accept() has not returned yet
  interest,   \* connections registered with epoll, and
  ready,      \* those on its ready list
  written,    \* the packets written completely to each connection
  answer,     \* what the server took for the answer to its hello
  \* the heap and the members of ChatManager
  client,     \* the ClientChatServer: "none", "live" or "freed"
  m_cCBuff, m_uniqId,
  m_lstChatServer, m_iConnCount, m_pWorkQueue,
  \* the threads
  pc, cur,    \* where each thread is, and its pClient
  tmp,        \* the m_iConnCount a thread has loaded
  batch,      \* main: events not handled yet; NoConn is the server socket
  packet,     \* worker: tPacket
  iter, seen  \* worker: where MessageBroadcast is in m_lstChatServer, and
              \* the members it has left behind

net == <<peer, sent, inbox, backlog, answer>>
poll == <<interest, ready>>
heap == <<client, m_cCBuff, m_uniqId>>
shared == <<m_lstChatServer, m_iConnCount, m_pWorkQueue>>
local == <<packet, iter, seen>>
vars == <<net, poll, written, heap, shared, pc, cur, tmp, batch, local>>

Goto(t, label) == pc' = [pc EXCEPT ![t] = label]
Done(t) == Goto(t, "home") /\ cur' = [cur EXCEPT ![t] = NoConn]

\* DoFork has bound the server socket, Run has spawned the workers.
Init ==
  /\ peer = [c \in Conns |-> "away"]
  /\ sent = [c \in Conns |-> 0]
  /\ inbox = [c \in Conns |-> <<>>]
  /\ backlog = {} /\ interest = {} /\ ready = {}
  /\ written = [c \in Conns |-> <<>>]
  /\ answer = [c \in Conns |-> NoPacket]
  /\ client = [c \in Conns |-> "none"]
  /\ m_cCBuff = [c \in Conns |-> <<>>]
  /\ m_uniqId = [c \in Conns |-> NoId]
  /\ m_lstChatServer = {} /\ m_iConnCount = 0 /\ m_pWorkQueue = <<>>
  /\ pc = [t \in Threads |-> "home"]
  /\ cur = [t \in Threads |-> NoConn]
  /\ tmp = [t \in Threads |-> 0]
  /\ batch = {}
  /\ packet = [w \in Workers |-> NoPacket]
  /\ iter = [w \in Workers |-> NoConn]
  /\ seen = [w \in Workers |-> {}]

-----------------------------------------------------------------------------
(* The servers (ChatServer::NegotiationWithManager) and the kernel.        *)

Internals == <<interest, written, heap, shared, pc, cur, tmp, batch, local>>

Readable(c) == inbox[c] # <<>> \/ peer[c] \in {"closed", "reset"}
Notify(c) == ready' = IF c \in interest THEN ready \cup {c} ELSE ready

\* EPOLL_CTL_DEL.  (close removes a descriptor as well.)
DelClient(c) == interest' = interest \ {c} /\ ready' = ready \ {c}

\* The n-th packet of a connection.
PacketOf(c, n) ==
  [cmd |-> IF n = 1 THEN "hello" ELSE Script[c][n - 1], from |-> c, num |-> n]

Connect(c) ==
  /\ peer[c] = "away"
  /\ peer' = [peer EXCEPT ![c] = "up"]
  /\ backlog' = backlog \cup {c}
  /\ UNCHANGED <<sent, inbox, answer, ready, Internals>>

\* The server sends the next chunk: of its hello, or of a later packet once
\* NegotiationWithManager has returned.
Send(c) ==
  /\ peer[c] = "up"
  /\ sent[c] < PacketLen \/ answer[c] # NoPacket
  /\ sent[c] < PacketLen * (1 + Len(Script[c]))
  /\ sent' = [sent EXCEPT ![c] = @ + 1]
  /\ inbox' = [inbox EXCEPT ![c] = Append(@, sent[c] + 1)]
  /\ Notify(c)
  /\ UNCHANGED <<peer, backlog, answer, Internals>>

\* Recv: the first packet that arrives is taken for cmd_HELLO_DSM_DS and
\* SetMaxUser takes the limit from it.
RecvHello(c) ==
  /\ peer[c] = "up"
  /\ sent[c] >= PacketLen /\ answer[c] = NoPacket /\ written[c] # <<>>
  /\ answer' = [answer EXCEPT ![c] = Head(written[c])]
  /\ UNCHANGED <<peer, sent, inbox, backlog, ready, Internals>>

\* The server closes its end: it ends, or Recv has timed out.
Close(c) ==
  /\ c \in MayFail /\ peer[c] = "up"
  /\ peer' = [peer EXCEPT ![c] = "closed"]
  /\ Notify(c)
  /\ UNCHANGED <<sent, inbox, backlog, answer, Internals>>

Reset(c) ==
  /\ c \in MayFail /\ peer[c] \in {"up", "closed"}
  /\ peer' = [peer EXCEPT ![c] = "reset"]
  /\ Notify(c)
  /\ UNCHANGED <<sent, inbox, backlog, answer, Internals>>

\* Socket::Write on a non-blocking socket: the packet is taken completely, or
\* not (EAGAIN ends the loop, and what was written of it is a torso).
Write(c, p) ==
  \/ UNCHANGED written
  \/ peer[c] = "up" /\ written' = [written EXCEPT ![c] = Append(@, p)]

\* delete of a Socket.
CloseSocket(c) ==
  /\ peer' = [peer EXCEPT ![c] = "reset"]
  /\ inbox' = [inbox EXCEPT ![c] = <<>>]
  /\ DelClient(c)

-----------------------------------------------------------------------------
(* ChatManager::Run, the main thread.                                      *)

\* epoll_wait.  The server socket is level triggered.
Polling ==
  /\ pc[Main] = "home" /\ batch = {}
  /\ ready # {} \/ backlog # {}
  /\ batch' = {[conn |-> c, err |-> peer[c] = "reset"] : c \in ready}
              \cup {[conn |-> NoConn, err |-> FALSE] : c \in backlog}
  /\ ready' = {}
  /\ UNCHANGED <<net, interest, written, heap, shared, pc, cur, tmp, local>>

\* A server is accepted and refused: m_iConnCount >= GetMaxUser().
Refuse(e) ==
  /\ pc[Main] = "home" /\ e \in batch /\ e.conn = NoConn
  /\ m_iConnCount >= MaxUser
  /\ batch' = batch \ {e}
  /\ \E c \in backlog : backlog' = backlog \ {c} /\ CloseSocket(c)
  /\ UNCHANGED <<sent, answer, written, heap, shared, pc, cur, tmp, local>>

\* A server is accepted: new ClientChatServer, whose m_uniqId is not set.
Accept(e) ==
  /\ pc[Main] = "home" /\ e \in batch /\ e.conn = NoConn
  /\ m_iConnCount < MaxUser
  /\ batch' = batch \ {e}
  /\ \E c \in backlog :
       /\ backlog' = backlog \ {c}
       /\ client' = [client EXCEPT ![c] = "live"]
       /\ cur' = [cur EXCEPT ![Main] = c]
  /\ Goto(Main, "add")
  /\ UNCHANGED <<peer, sent, inbox, answer, poll, written, m_cCBuff, m_uniqId,
                 shared, tmp, local>>

\* Mutant: epoll reports only what happens after EPOLL_CTL_ADD.
AddClientEdgeOnly(c) ==
  /\ interest' = interest \cup {c}
  /\ UNCHANGED ready

\* IOMP_EPoll::AddClient succeeds: epoll reports what is already there.
AddClient(c) ==
  /\ interest' = interest \cup {c}
  /\ ready' = IF Readable(c) THEN ready \cup {c} ELSE ready

AcceptAdd ==
  /\ pc[Main] = "add"
  /\ AddClient(cur[Main])
  /\ Goto(Main, "push")
  /\ UNCHANGED <<net, written, heap, shared, cur, tmp, batch, local>>

\* AddClient fails: delete pNewClient.
AcceptAddFails ==
  /\ AddMayFail
  /\ pc[Main] = "add"
  /\ client' = [client EXCEPT ![cur[Main]] = "freed"]
  /\ CloseSocket(cur[Main])
  /\ Done(Main)
  /\ UNCHANGED <<sent, backlog, answer, written, m_cCBuff, m_uniqId, shared,
                 tmp, batch, local>>

\* m_lstChatServer.push_back under m_lockClient.
AcceptPush ==
  /\ pc[Main] = "push"
  /\ m_lstChatServer' = m_lstChatServer \cup {cur[Main]}
  /\ cur' = [cur EXCEPT ![Main] = NoConn]
  /\ Goto(Main, "count")
  /\ UNCHANGED <<net, poll, written, heap, m_iConnCount, m_pWorkQueue, tmp,
                 batch, local>>

\* m_iConnCount++ (from "count") and -- (from "uncount"): the load.
CountLoad(t) ==
  /\ pc[t] \in {"count", "uncount"}
  /\ tmp' = [tmp EXCEPT ![t] = m_iConnCount]
  /\ Goto(t, IF pc[t] = "count" THEN "count_store" ELSE "uncount_store")
  /\ UNCHANGED <<net, poll, written, heap, shared, cur, batch, local>>

CountStore(t) ==
  /\ pc[t] \in {"count_store", "uncount_store"}
  /\ m_iConnCount' = IF pc[t] = "count_store" THEN tmp[t] + 1 ELSE tmp[t] - 1
  /\ tmp' = [tmp EXCEPT ![t] = 0]
  /\ Done(t)
  /\ UNCHANGED <<net, poll, written, heap, m_lstChatServer, m_pWorkQueue,
                 batch, local>>

\* EPOLLERR or EPOLLHUP: CloseClient.
ErrorEvent(e) ==
  /\ pc[Main] = "home" /\ e \in batch /\ e.err
  /\ batch' = batch \ {e}
  /\ cur' = [cur EXCEPT ![Main] = e.conn]
  /\ Goto(Main, "close")
  /\ UNCHANGED <<net, poll, written, heap, shared, tmp, local>>

\* EPOLLIN: DelClient, then PutWorkQueue.
ReadEvent(e) ==
  /\ pc[Main] = "home" /\ e \in batch /\ ~e.err /\ e.conn # NoConn
  /\ batch' = batch \ {e}
  /\ DelClient(e.conn)
  /\ cur' = [cur EXCEPT ![Main] = e.conn]
  /\ Goto(Main, "put")
  /\ UNCHANGED <<net, written, heap, shared, tmp, local>>

\* Mutant: EnQueue does not wait for a free slot.
PutWorkQueueNoWait ==
  /\ pc[Main] = "put"
  /\ m_pWorkQueue' = Append(m_pWorkQueue, cur[Main])
  /\ Done(Main)
  /\ UNCHANGED <<net, poll, written, heap, m_lstChatServer, m_iConnCount, tmp,
                 batch, local>>

PutWorkQueue ==
  /\ pc[Main] = "put"
  /\ Len(m_pWorkQueue) < QSIZE
  /\ m_pWorkQueue' = Append(m_pWorkQueue, cur[Main])
  /\ Done(Main)
  /\ UNCHANGED <<net, poll, written, heap, m_lstChatServer, m_iConnCount, tmp,
                 batch, local>>

-----------------------------------------------------------------------------
(* ChatManager::CloseClient, called by main and by the workers.            *)

CloseDel(t) ==
  /\ pc[t] = "close"
  /\ DelClient(cur[t])
  /\ Goto(t, "remove")
  /\ UNCHANGED <<net, written, heap, shared, cur, tmp, batch, local>>

\* Mutant: the client stays in the list.
CloseRemoveKeeps(t) ==
  /\ pc[t] = "remove"
  /\ Goto(t, "free")
  /\ UNCHANGED <<net, poll, written, heap, shared, cur, tmp, batch, local>>

\* m_lstChatServer.remove under m_lockClient.
CloseRemove(t) ==
  /\ pc[t] = "remove"
  /\ m_lstChatServer' = m_lstChatServer \ {cur[t]}
  /\ Goto(t, "free")
  /\ UNCHANGED <<net, poll, written, heap, m_iConnCount, m_pWorkQueue, cur, tmp,
                 batch, local>>

\* SetState(STATE_CLOSED), delete _pClient.
CloseFree(t) ==
  /\ pc[t] = "free"
  /\ client' = [client EXCEPT ![cur[t]] = "freed"]
  /\ m_cCBuff' = [m_cCBuff EXCEPT ![cur[t]] = <<>>]
  /\ CloseSocket(cur[t])
  /\ cur' = [cur EXCEPT ![t] = NoConn]
  /\ Goto(t, "uncount")
  /\ UNCHANGED <<sent, backlog, answer, written, m_uniqId, shared, tmp, batch,
                 local>>

-----------------------------------------------------------------------------
(* ThreadWorker::Run.                                                      *)

GetWorkQueue(w) ==
  /\ pc[w] = "home"
  /\ m_pWorkQueue # <<>>
  /\ cur' = [cur EXCEPT ![w] = Head(m_pWorkQueue)]
  /\ m_pWorkQueue' = Tail(m_pWorkQueue)
  /\ Goto(w, "avail")
  /\ UNCHANGED <<net, poll, written, heap, m_lstChatServer, m_iConnCount, tmp,
                 batch, local>>

\* CircularBuff::Put(Socket): Available() says nothing, or more than there is
\* room for: USER_CLOSE.
Available(w) ==
  LET c == cur[w] IN
  /\ pc[w] = "avail"
  /\ Goto(w, IF \/ inbox[c] = <<>>
                \/ Len(inbox[c]) > CIR_BUFSIZE - Len(m_cCBuff[c])
             THEN "close" ELSE "read")
  /\ UNCHANGED <<net, poll, written, heap, shared, cur, tmp, batch, local>>

\* The read loop ends in EAGAIN (at end of file perhaps in an old one).  What
\* has outgrown the room meanwhile is dropped: the loop notices ("size is
\* big"), or Put(buf_in, sizen) returns -1.
ReadAll(w) ==
  LET c == cur[w] IN
  /\ pc[w] = "read" /\ peer[c] # "reset"
  /\ inbox' = [inbox EXCEPT ![c] = <<>>]
  /\ IF Len(inbox[c]) > CIR_BUFSIZE - Len(m_cCBuff[c])
     THEN (Goto(w, "rearm") \/ Goto(w, "close")) /\ UNCHANGED m_cCBuff
     ELSE /\ m_cCBuff' = [m_cCBuff EXCEPT ![c] = @ \o inbox[c]]
          /\ Goto(w, "exec")
  /\ UNCHANGED <<peer, sent, backlog, answer, poll, written, client, m_uniqId,
                 shared, cur, tmp, batch, local>>

\* The read loop ends in another error or in end of file: USER_CLOSE.
ReadFails(w) ==
  LET c == cur[w] IN
  /\ pc[w] = "read" /\ peer[c] \in {"closed", "reset"}
  /\ inbox' = [inbox EXCEPT ![c] = <<>>]
  /\ Goto(w, "close")
  /\ UNCHANGED <<peer, sent, backlog, answer, poll, written, heap, shared, cur,
                 tmp, batch, local>>

\* Mutant: GetPacket copies the packet and leaves it in the buffer.
ExecuteCommandPeek(w) ==
  LET c == cur[w]
      p == PacketOf(c, m_cCBuff[c][PacketLen] \div PacketLen)
  IN
  /\ pc[w] = "exec" /\ Len(m_cCBuff[c]) >= PacketLen
  /\ packet' = [packet EXCEPT ![w] = p]
  /\ Goto(w, p.cmd)
  /\ UNCHANGED <<net, poll, written, heap, shared, cur, tmp, batch, iter, seen>>

\* ClientChatServer::ExecuteCommand: a whole packet is buffered; the worker
\* goes on at the case of its command.
ExecuteCommand(w) ==
  LET c == cur[w]
      p == PacketOf(c, m_cCBuff[c][PacketLen] \div PacketLen)
  IN
  /\ pc[w] = "exec" /\ Len(m_cCBuff[c]) >= PacketLen
  /\ packet' = [packet EXCEPT ![w] = p]
  /\ m_cCBuff' = [m_cCBuff EXCEPT ![c] = SubSeq(@, PacketLen + 1, Len(@))]
  /\ Goto(w, p.cmd)
  /\ UNCHANGED <<net, poll, written, client, m_uniqId, shared, cur, tmp, batch,
                 iter, seen>>

\* IsValidPacket() is 0, or ExecuteCommand has found a part of a packet and
\* returned -1: break.
ExecuteDone(w) ==
  /\ pc[w] = "exec" /\ Len(m_cCBuff[cur[w]]) < PacketLen
  /\ Goto(w, "rearm")
  /\ UNCHANGED <<net, poll, written, heap, shared, cur, tmp, batch, local>>

\* The end of a case of ExecuteCommand.
CaseDone(w) ==
  /\ packet' = [packet EXCEPT ![w] = NoPacket]
  /\ Goto(w, "exec")

\* WorkChatServerHello: SetDS, m_uniqId, the answer.
WorkChatServerHello(w) ==
  /\ pc[w] = "hello"
  /\ m_uniqId' = [m_uniqId EXCEPT ![cur[w]] = HelloId[cur[w]]]
  /\ Write(cur[w], packet[w])
  /\ CaseDone(w)
  /\ UNCHANGED <<net, poll, client, m_cCBuff, shared, cur, tmp, batch, iter,
                 seen>>

\* WorkDSMPing answers; an unknown command is logged.
WorkDSMPing(w) ==
  /\ pc[w] \in {"ping", "unknown"}
  /\ IF pc[w] = "ping" THEN Write(cur[w], packet[w]) ELSE UNCHANGED written
  /\ CaseDone(w)
  /\ UNCHANGED <<net, poll, heap, shared, cur, tmp, batch, iter, seen>>

\* MessageBroadcast, without m_lockClient: iter = begin() or iter++.  The
\* node of a client that was removed meanwhile is freed memory: the walk goes
\* on anywhere.
Advance(w, done) ==
  \/ /\ m_lstChatServer \ done = {}
     /\ iter' = [iter EXCEPT ![w] = NoConn]
     /\ Goto(w, "end")
  \/ \E c \in m_lstChatServer \ done :
       /\ iter' = [iter EXCEPT ![w] = c]
       /\ Goto(w, "visit")

BroadcastBegin(w) ==
  /\ pc[w] = "broadcast"
  /\ Advance(w, {})
  /\ UNCHANGED <<net, poll, written, heap, shared, cur, tmp, batch, packet, seen>>

BroadcastNext(w) ==
  /\ pc[w] = "next"
  /\ LET done == seen[w] \cup {iter[w]} IN
       \/ seen' = [seen EXCEPT ![w] = done] /\ Advance(w, done)
       \/ /\ iter[w] \notin m_lstChatServer
          /\ UNCHANGED seen
          /\ Advance(w, {}) \/ Advance(w, Conns)
  /\ UNCHANGED <<net, poll, written, heap, shared, cur, tmp, batch, packet>>

\* GetUniqId() returns an int, compared with the uint64_t of the packet.
GetUniqId(c) ==
  LET low == m_uniqId[c] % 2^IntBits IN
  IF low < 2^(IntBits - 1) THEN low ELSE low + 2^(2 * IntBits) - 2^IntBits

\* The test for the sender.  A client without hello has no m_uniqId yet and a
\* deleted one has any: both outcomes are possible.
Unset(c) == m_uniqId[c] = NoId \/ client[c] = "freed"

\* Mutant: the sender is not left out.
IsOtherAlways(c, p) == TRUE

IsSender(c, p) == ~Unset(c) => GetUniqId(c) = BroadcastId[p.from]
IsOther(c, p) == ~Unset(c) => GetUniqId(c) # BroadcastId[p.from]

BroadcastVisit(w) ==
  LET c == iter[w] IN
  /\ pc[w] = "visit"
  /\ \/ IsSender(c, packet[w]) /\ UNCHANGED written
     \/ /\ IsOther(c, packet[w])
        /\ \E d \in IF client[c] = "freed" THEN Conns ELSE {c} : Write(d, packet[w])
  /\ Goto(w, "next")
  /\ UNCHANGED <<net, poll, heap, shared, cur, tmp, batch, local>>

BroadcastEnd(w) ==
  /\ pc[w] = "end"
  /\ seen' = [seen EXCEPT ![w] = {}]
  /\ CaseDone(w)
  /\ UNCHANGED <<net, poll, written, heap, shared, cur, tmp, batch, iter>>

\* Mutant: the client is registered again, and read once more.
AddEPollReadAgain(w) ==
  /\ pc[w] = "rearm"
  /\ AddClient(cur[w])
  /\ Goto(w, "avail")
  /\ UNCHANGED <<net, written, heap, shared, cur, tmp, batch, local>>

AddEPoll(w) ==
  /\ pc[w] = "rearm"
  /\ AddClient(cur[w])
  /\ Done(w)
  /\ UNCHANGED <<net, written, heap, shared, tmp, batch, local>>

\* AddEPoll ignores AddClient's failure.
AddEPollFails(w) ==
  /\ AddMayFail
  /\ pc[w] = "rearm"
  /\ Done(w)
  /\ UNCHANGED <<net, poll, written, heap, shared, tmp, batch, local>>

-----------------------------------------------------------------------------
Servers == \E c \in Conns :
             Connect(c) \/ Send(c) \/ RecvHello(c) \/ Close(c) \/ Reset(c)

CloseClient(t) == \/ CloseDel(t) \/ CloseRemove(t) \/ CloseFree(t)
                  \/ CountLoad(t) \/ CountStore(t)

MainStep == \/ Polling
            \/ \E e \in batch : \/ Refuse(e) \/ Accept(e)
                                \/ ErrorEvent(e) \/ ReadEvent(e)
            \/ AcceptAdd \/ AcceptAddFails \/ AcceptPush
            \/ PutWorkQueue
            \/ CloseClient(Main)

FillFromSocket(w) == Available(w) \/ ReadAll(w) \/ ReadFails(w)

MessageBroadcast(w) == \/ BroadcastBegin(w) \/ BroadcastVisit(w)
                       \/ BroadcastNext(w) \/ BroadcastEnd(w)

WorkerStep(w) == \/ GetWorkQueue(w) \/ FillFromSocket(w)
                 \/ ExecuteCommand(w) \/ ExecuteDone(w)
                 \/ WorkChatServerHello(w) \/ WorkDSMPing(w)
                 \/ MessageBroadcast(w)
                 \/ AddEPoll(w) \/ AddEPollFails(w)
                 \/ CloseClient(w)

Next == Servers \/ MainStep \/ \E w \in Workers : WorkerStep(w)

Spec == Init /\ [][Next]_vars

\* The operating system runs every thread that can run.
FairSpec == Spec /\ WF_vars(MainStep) /\ \A w \in Workers : WF_vars(WorkerStep(w))

-----------------------------------------------------------------------------
(* Properties.                                                             *)

Walking == {"broadcast", "visit", "next", "end"}
Serving == {"hello", "ping", "unknown"} \cup Walking
Holding == {"add", "push", "put", "close", "remove", "free", "avail", "read",
            "exec", "rearm"} \cup Serving
Elsewhere == {"home", "count", "count_store", "uncount", "uncount_store"}

Places(q) == {q[i] : i \in 1 .. Len(q)}
Live == {c \in Conns : client[c] = "live"}

KernelType ==
  /\ peer \in [Conns -> {"away", "up", "closed", "reset"}]
  /\ sent \in [Conns -> Nat]
  /\ backlog \subseteq Conns
  /\ interest \subseteq Conns /\ ready \subseteq interest

BufferType ==
  /\ inbox \in [Conns -> Seq(Chunks)]
  /\ m_cCBuff \in [Conns -> Seq(Chunks)]

SentType ==
  /\ written \in [Conns -> Seq(Packets)]
  /\ answer \in [Conns -> Packets \cup {NoPacket}]

ManagerType ==
  /\ client \in [Conns -> {"none", "live", "freed"}]
  /\ m_uniqId \in [Conns -> Ids \cup {NoId}]
  /\ m_lstChatServer \subseteq Conns
  /\ m_iConnCount \in Int /\ tmp \in [Threads -> Int]
  /\ m_pWorkQueue \in Seq(Conns) /\ Len(m_pWorkQueue) <= QSIZE

HandType ==
  /\ pc \in [Threads -> Holding \cup Elsewhere]
  /\ cur \in [Threads -> Conns \cup {NoConn}]
  /\ \A t \in Threads : cur[t] = NoConn <=> pc[t] \in Elsewhere
  /\ batch \subseteq [conn : Conns \cup {NoConn}, err : BOOLEAN]

WalkType ==
  /\ packet \in [Workers -> Packets \cup {NoPacket}]
  /\ \A w \in Workers : pc[w] \in Serving => packet[w] \in Packets
  /\ iter \in [Workers -> Conns \cup {NoConn}]
  /\ \A w \in Workers : pc[w] \in {"visit", "next"} => iter[w] \in Conns
  /\ seen \in [Workers -> SUBSET Conns]

\* Every variable has its type; the queue respects QSIZE; a thread has a
\* server in hand exactly where the code has one in a local variable.
TypeOK == /\ KernelType /\ BufferType /\ SentType /\ ManagerType
          /\ HandType /\ WalkType

\* No thread that works on a ClientChatServer, no queue, list, pending event
\* or epoll registration holds one that CloseClient has deleted.  (The
\* iterators of MessageBroadcast, which takes no lock, do: README.)
NoUseAfterFree ==
  /\ \A t \in Threads : pc[t] \in Holding => client[cur[t]] = "live"
  /\ \A e \in batch : e.conn # NoConn => client[e.conn] = "live"
  /\ interest \cup Places(m_pWorkQueue) \cup m_lstChatServer \subseteq Live

\* A ClientChatServer is in at most one pair of hands: one thread, one slot
\* of m_pWorkQueue or the epoll set, where main may have an event of it.  Two
\* workers never serve, and no two threads ever delete, the same one.
SoleOwner ==
  /\ \A s, t \in Threads : cur[s] = cur[t] /\ cur[s] # NoConn => s = t
  /\ \A i, j \in 1 .. Len(m_pWorkQueue) :
       m_pWorkQueue[i] = m_pWorkQueue[j] => i = j
  /\ Places(m_pWorkQueue) \cap interest = {}
  /\ \A t \in Threads : /\ cur[t] \notin Places(m_pWorkQueue)
                        /\ pc[t] \notin {"push", "close"} => cur[t] \notin interest
  /\ \A e \in batch : e.conn # NoConn => e.conn \in interest /\ e.conn # cur[Main]

\* A server whose hello and messages carry the same uniqId, one that an int
\* can hold, is never sent its own message back.
NotBackToSender ==
  \A c \in Conns :
    HelloId[c] = BroadcastId[c] /\ HelloId[c] < 2^(IntBits - 1)
      => \A i \in 1 .. Len(written[c]) :
           written[c][i].cmd = "broadcast" => written[c][i].from # c

\* Every server is sent another one's messages in the order in which they
\* were sent and none of them twice, whichever workers relay them.
SenderOrder ==
  \A c \in Conns : \A i, j \in 1 .. Len(written[c]) :
    i < j /\ written[c][i].from = written[c][j].from
      => written[c][i].num < written[c][j].num

\* What a server has sent is read and its whole packets are executed, and
\* only a part of a packet may stay in the buffer: no server is forgotten
\* between epoll, the queue and the workers.
InputProcessed ==
  \A c \in Conns :
    client[c] = "live" /\ inbox[c] # <<>>
      ~> inbox[c] = <<>> /\ Len(m_cCBuff[c]) < PacketLen
=============================================================================
