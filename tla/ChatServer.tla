----------------------------- MODULE ChatServer -----------------------------
(***************************************************************************)
(* One ChatServer process: the main thread that polls epoll, the acceptor, *)
(* the receivers and the broadcasters, with everything they share.         *)
(*                                                                         *)
(* A Client travels through the process as a bare pointer: from AcceptClient *)
(* to the epoll set, from there through main and m_pReceiveQueue to a      *)
(* receiver, and back to the epoll set; CloseClient deletes it wherever it *)
(* is.  No lock protects a Client (m_lockClient protects the list only).   *)
(*                                                                         *)
(* The two queues are bounded FIFOs whose EnQueue blocks when full and     *)
(* whose DeQueue blocks when empty: that is what CircularQueue implements. *)
(* A critical section of m_lockClient is one step.  m_iConnCount is read   *)
(* and written without a lock, in two steps.  Lists whose order no thread  *)
(* observes (m_lstClient, m_lstChatManagerSocket, a copy of descriptors,   *)
(* the array epoll_wait fills) are sets.                                   *)
(*                                                                         *)
(* What a peer sends is a sequence of numbered chunks; a connection is     *)
(* used once, its descriptor is handed out again after close().            *)
(***************************************************************************)
EXTENDS Integers, Sequences, FiniteSets

CONSTANTS
  Users,          \* connections that chat users open
  Managers,       \* the sockets of m_lstChatManagerSocket
  Receivers, Broadcasters,  \* the ThreadReceivers and ThreadBroadcasters
  NoConn, NoMsg, NoFd,      \* nothing in a local variable; a closed socket
  FDs,            \* the descriptors the kernel has for sockets
  QSIZE,          \* slots of a CircularQueue
  CIR_BUFSIZE,    \* chunks a CircularBuff holds
  MaxUser,        \* m_iMaxUser, from the manager's hello
  PacketLen,      \* chunks in which a manager's packet arrives
  OtherCommands,  \* the packets of managers that are not cmd_CHAT_BROADCAST
  MaxSend,        \* bound: how many chunks each peer sends
  MayFail,        \* bound: the connections whose peers may close or reset
  AddMayFail      \* whether EPOLL_CTL_ADD may fail (ENOMEM, ENOSPC)

Conns == Users \cup Managers
Main == "main"
Acceptor == "acceptor"
Threads == {Main, Acceptor} \cup Receivers \cup Broadcasters

ASSUME ServerAssumption ==
  /\ Users \cap Managers = {}
  /\ NoConn \notin Conns
  /\ Main \notin Receivers \cup Broadcasters
  /\ Acceptor \notin Receivers \cup Broadcasters
  /\ Receivers \cap Broadcasters = {}
  /\ FDs \subseteq Nat /\ NoFd \notin FDs
  /\ {QSIZE, CIR_BUFSIZE, PacketLen} \subseteq Nat \ {0}
  /\ MaxUser \in Nat /\ MaxSend \in [Conns -> Nat]
  /\ MayFail \subseteq Conns /\ AddMayFail \in BOOLEAN

\* Threads are spawned, and connections opened, one by one.
ASSUME FiniteAssumption ==
  /\ IsFiniteSet(Users) /\ IsFiniteSet(Managers)
  /\ IsFiniteSet(Receivers) /\ IsFiniteSet(Broadcasters)

Chunks == Nat \ {0}
Messages == [from : Conns, data : Seq(Chunks), fd : FDs, relayed : BOOLEAN]

VARIABLES
  \* the network and the kernel
  peer,       \* "away", "up", "closed" (orderly) or "reset"
  sent,       \* chunks the peer has sent
  inbox,      \* the socket's receive buffer
  backlog,    \* connections accept() has not returned yet
  fd,         \* the descriptor of the connection's socket, or NoFd
  interest,   \* connections registered with epoll, and
  ready,      \* those on its ready list
  written,    \* what has been written to each connection: <<sender, chunk>>
  \* the heap and the members of ChatServer
  client,     \* the connection's Client: "none", "live" or "freed"
  m_cCBuff,   \* its CircularBuff
  m_lstClient, m_iConnCount, m_pReceiveQueue, m_pBroadcastQueue,
  \* the threads
  pc,         \* where each thread is
  cur,        \* pClient (or pClientSocket)
  tmp,        \* the m_iConnCount a thread has loaded
  msg,        \* the BroadcastMessage of a receiver or broadcaster
  unregistered, \* main: managers RegisterManager has not reached
  batch,      \* main: events epoll_wait returned, not handled yet
  relay,      \* broadcaster: managers still to write to
  targets     \* broadcaster: the copied descriptors still to write to, each
              \* with the connection it was copied from (history only)

net == <<peer, sent, inbox, backlog>>
poll == <<interest, ready>>
shared == <<m_lstClient, m_iConnCount, m_pReceiveQueue, m_pBroadcastQueue>>
vars == <<net, fd, poll, written, client, m_cCBuff, shared, pc, cur, tmp, msg,
          unregistered, batch, relay, targets>>

Goto(t, label) == pc' = [pc EXCEPT ![t] = label]

\* The end of the loop body of a thread's Run: it holds no client any more.
Done(t) == Goto(t, "home") /\ cur' = [cur EXCEPT ![t] = NoConn]

\* ConnectToMgr has opened the managers' sockets, the threads are spawned and
\* main is about to call RegisterManager.
Init ==
  /\ peer = [c \in Conns |-> IF c \in Managers THEN "up" ELSE "away"]
  /\ sent = [c \in Conns |-> 0]
  /\ inbox = [c \in Conns |-> <<>>]
  /\ backlog = {}
  /\ fd \in [Conns -> FDs \cup {NoFd}]
  /\ \A c \in Conns : fd[c] = NoFd <=> c \in Users
  /\ \A m \in Managers : \A f \in FDs :
       f < fd[m] => \E n \in Managers : fd[n] = f
  /\ \A m, n \in Managers : fd[m] = fd[n] => m = n
  /\ interest = {} /\ ready = {}
  /\ written = [c \in Conns |-> <<>>]
  /\ client = [c \in Conns |-> "none"]
  /\ m_cCBuff = [c \in Conns |-> <<>>]
  /\ m_lstClient = {}
  /\ m_iConnCount = 0
  /\ m_pReceiveQueue = <<>>
  /\ m_pBroadcastQueue = <<>>
  /\ pc = [t \in Threads |-> "home"]
  /\ cur = [t \in Threads |-> NoConn]
  /\ tmp = [t \in Threads |-> 0]
  /\ msg = [t \in Threads |-> NoMsg]
  /\ unregistered = Managers
  /\ batch = {}
  /\ relay = [b \in Broadcasters |-> {}]
  /\ targets = [b \in Broadcasters |-> {}]

-----------------------------------------------------------------------------
(* The peers and the kernel.                                               *)

\* epoll reports end of file as EPOLLIN.
Readable(c) == inbox[c] # <<>> \/ peer[c] \in {"closed", "reset"}

\* Edge triggered: something new happened on the socket of c.
Notify(c) == ready' = IF c \in interest THEN ready \cup {c} ELSE ready

Internals == <<fd, interest, written, client, m_cCBuff, shared, pc, cur, tmp,
               msg, unregistered, batch, relay, targets>>

\* A user's TCP connection is established: it waits in the accept queue.
Connect(u) ==
  /\ peer[u] = "away"
  /\ peer' = [peer EXCEPT ![u] = "up"]
  /\ backlog' = backlog \cup {u}
  /\ UNCHANGED <<sent, inbox, ready, Internals>>

\* A peer sends its next chunk.
Send(c) ==
  /\ peer[c] = "up"
  /\ sent[c] < MaxSend[c]
  /\ sent' = [sent EXCEPT ![c] = @ + 1]
  /\ inbox' = [inbox EXCEPT ![c] = Append(@, sent[c] + 1)]
  /\ Notify(c)
  /\ UNCHANGED <<peer, backlog, Internals>>

\* A peer closes its end: everything it sent can still be read, then EOF.
Close(c) ==
  /\ c \in MayFail
  /\ peer[c] = "up"
  /\ peer' = [peer EXCEPT ![c] = "closed"]
  /\ Notify(c)
  /\ UNCHANGED <<sent, inbox, backlog, Internals>>

\* A reset arrives: EPOLLERR and EPOLLHUP, and read() fails.
Reset(c) ==
  /\ c \in MayFail
  /\ peer[c] \in {"up", "closed"}
  /\ peer' = [peer EXCEPT ![c] = "reset"]
  /\ Notify(c)
  /\ UNCHANGED <<sent, inbox, backlog, Internals>>

\* write() of a message to a descriptor, which is non-blocking: the socket
\* may take all of it, a part or nothing (EAGAIN ends CNPUtil::Write), and
\* takes nothing when the peer has gone.  A closed descriptor is EBADF.
Write(f, m) ==
  \/ /\ f = NoFd \/ \A c \in Conns : fd[c] = f => peer[c] # "up"
     /\ UNCHANGED written
  \/ \E c \in Conns, n \in 0 .. Len(m.data) :
       /\ f # NoFd /\ fd[c] = f /\ peer[c] = "up"
       /\ written' = [written EXCEPT ![c] =
                        @ \o [i \in 1 .. n |-> <<m.from, m.data[i]>>]]

\* delete of a Socket: close() frees the descriptor, which also leaves epoll.
CloseSocket(c) ==
  /\ fd' = [fd EXCEPT ![c] = NoFd]
  /\ peer' = [peer EXCEPT ![c] = "reset"]
  /\ inbox' = [inbox EXCEPT ![c] = <<>>]
  /\ interest' = interest \ {c}
  /\ ready' = ready \ {c}

-----------------------------------------------------------------------------
(* ThreadAcceptor::Run.                                                    *)

\* select, then accept: the kernel hands out the lowest free descriptor.
Accept ==
  /\ pc[Acceptor] = "home"
  /\ \E u \in backlog, f \in FDs :
       /\ \A c \in Conns : fd[c] # f
       /\ \A g \in FDs : g < f => \E c \in Conns : fd[c] = g
       /\ backlog' = backlog \ {u}
       /\ fd' = [fd EXCEPT ![u] = f]
       /\ cur' = [cur EXCEPT ![Acceptor] = u]
  /\ Goto(Acceptor, "check")
  /\ UNCHANGED <<peer, sent, inbox, poll, written, client, m_cCBuff, shared,
                 tmp, msg, unregistered, batch, relay, targets>>

\* GetCurrentUserCount() >= GetMaxUser(): the socket is deleted.
RefuseClient ==
  /\ pc[Acceptor] = "check"
  /\ m_iConnCount >= MaxUser
  /\ CloseSocket(cur[Acceptor])
  /\ Done(Acceptor)
  /\ UNCHANGED <<sent, backlog, written, client, m_cCBuff, shared, tmp, msg,
                 unregistered, batch, relay, targets>>

AdmitClient ==
  /\ pc[Acceptor] = "check"
  /\ m_iConnCount < MaxUser
  /\ Goto(Acceptor, "accept")
  /\ UNCHANGED <<net, fd, poll, written, client, m_cCBuff, shared, cur, tmp,
                 msg, unregistered, batch, relay, targets>>

-----------------------------------------------------------------------------
(* ChatServer::AcceptClient, called by the acceptor and by RegisterManager. *)

\* m_iConnCount++, the load.
AcceptLoad(t) ==
  /\ pc[t] = "accept"
  /\ tmp' = [tmp EXCEPT ![t] = m_iConnCount]
  /\ Goto(t, "accept_store")
  /\ UNCHANGED <<net, fd, poll, written, client, m_cCBuff, shared, cur, msg,
                 unregistered, batch, relay, targets>>

\* m_iConnCount++, the store; new ChatUser.
AcceptStore(t) ==
  /\ pc[t] = "accept_store"
  /\ m_iConnCount' = tmp[t] + 1
  /\ tmp' = [tmp EXCEPT ![t] = 0]
  /\ client' = [client EXCEPT ![cur[t]] = "live"]
  /\ Goto(t, "push")
  /\ UNCHANGED <<net, fd, poll, written, m_cCBuff, m_lstClient,
                 m_pReceiveQueue, m_pBroadcastQueue, cur, msg, unregistered,
                 batch, relay, targets>>

\* m_lstClient.push_back under m_lockClient.
AcceptPush(t) ==
  /\ pc[t] = "push"
  /\ m_lstClient' = m_lstClient \cup {cur[t]}
  /\ Goto(t, "add")
  /\ UNCHANGED <<net, fd, poll, written, client, m_cCBuff, m_iConnCount,
                 m_pReceiveQueue, m_pBroadcastQueue, cur, tmp, msg,
                 unregistered, batch, relay, targets>>

\* Mutant: epoll reports only what happens after EPOLL_CTL_ADD.
AddClientEdgeOnly(c) ==
  /\ interest' = interest \cup {c}
  /\ UNCHANGED ready

\* IOMP_EPoll::AddClient succeeds: epoll reports what is already there.
AddClient(c) ==
  /\ interest' = interest \cup {c}
  /\ ready' = IF Readable(c) THEN ready \cup {c} ELSE ready

AcceptAdd(t) ==
  /\ pc[t] = "add"
  /\ AddClient(cur[t])
  /\ Done(t)
  /\ UNCHANGED <<net, fd, written, client, m_cCBuff, shared, tmp, msg,
                 unregistered, batch, relay, targets>>

\* AddClient fails: CloseClient.
AcceptAddFails(t) ==
  /\ AddMayFail
  /\ pc[t] = "add"
  /\ Goto(t, "close")
  /\ UNCHANGED <<net, fd, poll, written, client, m_cCBuff, shared, cur, tmp,
                 msg, unregistered, batch, relay, targets>>

-----------------------------------------------------------------------------
(* ChatServer::CloseClient, called by main, receivers and AcceptClient.    *)

\* IOMP_EPoll::DelClient.
CloseDel(t) ==
  /\ pc[t] = "close"
  /\ interest' = interest \ {cur[t]}
  /\ ready' = ready \ {cur[t]}
  /\ Goto(t, "free")
  /\ UNCHANGED <<net, fd, written, client, m_cCBuff, shared, cur, tmp, msg,
                 unregistered, batch, relay, targets>>

\* Mutant: m_lstClient.remove is missing.
CloseFreeKeepsList(t) ==
  /\ pc[t] = "free"
  /\ client' = [client EXCEPT ![cur[t]] = "freed"]
  /\ m_cCBuff' = [m_cCBuff EXCEPT ![cur[t]] = <<>>]
  /\ CloseSocket(cur[t])
  /\ cur' = [cur EXCEPT ![t] = NoConn]
  /\ Goto(t, "uncount")
  /\ UNCHANGED <<sent, backlog, written, shared, tmp, msg, unregistered,
                 batch, relay, targets>>

\* Under m_lockClient: m_lstClient.remove, delete _pClient (and its socket).
CloseFree(t) ==
  /\ pc[t] = "free"
  /\ m_lstClient' = m_lstClient \ {cur[t]}
  /\ client' = [client EXCEPT ![cur[t]] = "freed"]
  /\ m_cCBuff' = [m_cCBuff EXCEPT ![cur[t]] = <<>>]
  /\ CloseSocket(cur[t])
  /\ cur' = [cur EXCEPT ![t] = NoConn]
  /\ Goto(t, "uncount")
  /\ UNCHANGED <<sent, backlog, written, m_iConnCount, m_pReceiveQueue,
                 m_pBroadcastQueue, tmp, msg, unregistered, batch, relay,
                 targets>>

\* m_iConnCount--, the load and the store.
CloseLoad(t) ==
  /\ pc[t] = "uncount"
  /\ tmp' = [tmp EXCEPT ![t] = m_iConnCount]
  /\ Goto(t, "uncount_store")
  /\ UNCHANGED <<net, fd, poll, written, client, m_cCBuff, shared, cur, msg,
                 unregistered, batch, relay, targets>>

\* Mutant: the decrement is missing.
CloseStoreMissing(t) ==
  /\ pc[t] = "uncount_store"
  /\ tmp' = [tmp EXCEPT ![t] = 0]
  /\ Done(t)
  /\ UNCHANGED <<net, fd, poll, written, client, m_cCBuff, shared, msg,
                 unregistered, batch, relay, targets>>

CloseStore(t) ==
  /\ pc[t] = "uncount_store"
  /\ m_iConnCount' = tmp[t] - 1
  /\ tmp' = [tmp EXCEPT ![t] = 0]
  /\ Done(t)
  /\ UNCHANGED <<net, fd, poll, written, client, m_cCBuff, m_lstClient,
                 m_pReceiveQueue, m_pBroadcastQueue, msg, unregistered, batch,
                 relay, targets>>

-----------------------------------------------------------------------------
(* ChatServer::Run, the main thread.                                       *)

\* RegisterManager: AcceptClient for every manager socket, before the loop.
RegisterManager ==
  /\ pc[Main] = "home"
  /\ \E m \in unregistered :
       /\ unregistered' = unregistered \ {m}
       /\ cur' = [cur EXCEPT ![Main] = m]
  /\ Goto(Main, "accept")
  /\ UNCHANGED <<net, fd, poll, written, client, m_cCBuff, shared, tmp, msg,
                 batch, relay, targets>>

\* epoll_wait returns every ready connection and empties the ready list.
Polling ==
  /\ pc[Main] = "home" /\ unregistered = {} /\ batch = {}
  /\ ready # {}
  /\ batch' = {[conn |-> c, err |-> peer[c] = "reset"] : c \in ready}
  /\ ready' = {}
  /\ UNCHANGED <<net, fd, interest, written, client, m_cCBuff, shared, pc,
                 cur, tmp, msg, unregistered, relay, targets>>

\* EPOLLERR or EPOLLHUP: CloseClient.
ErrorEvent(e) ==
  /\ pc[Main] = "home" /\ e \in batch /\ e.err
  /\ batch' = batch \ {e}
  /\ cur' = [cur EXCEPT ![Main] = e.conn]
  /\ Goto(Main, "close")
  /\ UNCHANGED <<net, fd, poll, written, client, m_cCBuff, shared, tmp, msg,
                 unregistered, relay, targets>>

\* EPOLLIN: DelClient, then PutReceiveQueue.
ReadEvent(e) ==
  /\ pc[Main] = "home" /\ e \in batch /\ ~e.err
  /\ batch' = batch \ {e}
  /\ interest' = interest \ {e.conn}
  /\ ready' = ready \ {e.conn}
  /\ cur' = [cur EXCEPT ![Main] = e.conn]
  /\ Goto(Main, "put")
  /\ UNCHANGED <<net, fd, written, client, m_cCBuff, shared, tmp, msg,
                 unregistered, relay, targets>>

PutReceiveQueue ==
  /\ pc[Main] = "put"
  /\ Len(m_pReceiveQueue) < QSIZE
  /\ m_pReceiveQueue' = Append(m_pReceiveQueue, cur[Main])
  /\ Done(Main)
  /\ UNCHANGED <<net, fd, poll, written, client, m_cCBuff, m_lstClient,
                 m_iConnCount, m_pBroadcastQueue, tmp, msg, unregistered,
                 batch, relay, targets>>

-----------------------------------------------------------------------------
(* ThreadReceiver::Run.                                                    *)

GetReceiveQueue(r) ==
  /\ pc[r] = "home"
  /\ m_pReceiveQueue # <<>>
  /\ cur' = [cur EXCEPT ![r] = Head(m_pReceiveQueue)]
  /\ m_pReceiveQueue' = Tail(m_pReceiveQueue)
  /\ Goto(r, "avail")
  /\ UNCHANGED <<net, fd, poll, written, client, m_cCBuff, m_lstClient,
                 m_iConnCount, m_pBroadcastQueue, tmp, msg, unregistered,
                 batch, relay, targets>>

\* CircularBuff::Put(Socket): Available() says nothing, or more than there is
\* room for: USER_CLOSE, and the receiver closes the client.
Available(r) ==
  LET c == cur[r] IN
  /\ pc[r] = "avail"
  /\ Goto(r, IF \/ inbox[c] = <<>>
                \/ Len(inbox[c]) > CIR_BUFSIZE - Len(m_cCBuff[c])
             THEN "close" ELSE "read")
  /\ UNCHANGED <<net, fd, poll, written, client, m_cCBuff, shared, cur, tmp,
                 msg, unregistered, batch, relay, targets>>

\* CircularBuff::Put(Socket), the read loop, ends in EAGAIN.  At end of file
\* read() returns 0 and leaves errno as it was, so the loop may take an old
\* EAGAIN for its own.  What has outgrown the room meanwhile is dropped: the
\* loop notices ("size is big"), or Put(buf_in, sizen) returns -1.
ReadAll(r) ==
  LET c == cur[r] IN
  /\ pc[r] = "read"
  /\ peer[c] # "reset"
  /\ inbox' = [inbox EXCEPT ![c] = <<>>]
  /\ IF Len(inbox[c]) > CIR_BUFSIZE - Len(m_cCBuff[c])
     THEN (Goto(r, "rearm") \/ Goto(r, "close")) /\ UNCHANGED m_cCBuff
     ELSE /\ m_cCBuff' = [m_cCBuff EXCEPT ![c] = @ \o inbox[c]]
          /\ Goto(r, "exec")
  /\ UNCHANGED <<peer, sent, backlog, fd, poll, written, client, shared, cur,
                 tmp, msg, unregistered, batch, relay, targets>>

\* The read loop ends in another error or in end of file: USER_CLOSE, and
\* what was read is lost.
ReadFails(r) ==
  LET c == cur[r] IN
  /\ pc[r] = "read"
  /\ peer[c] \in {"closed", "reset"}
  /\ inbox' = [inbox EXCEPT ![c] = <<>>]
  /\ Goto(r, "close")
  /\ UNCHANGED <<peer, sent, backlog, fd, poll, written, client, m_cCBuff,
                 shared, cur, tmp, msg, unregistered, batch, relay, targets>>

\* Mutant: the client is registered again before its message is queued.
ExecuteUserEarlyAdd(r) ==
  LET c == cur[r] IN
  /\ pc[r] = "exec" /\ c \in Users /\ m_cCBuff[c] # <<>>
  /\ msg' = [msg EXCEPT ![r] = [from |-> c, data |-> m_cCBuff[c],
                                fd |-> fd[c], relayed |-> FALSE]]
  /\ m_cCBuff' = [m_cCBuff EXCEPT ![c] = <<>>]
  /\ AddClient(c)
  /\ Goto(r, "broadcast")
  /\ UNCHANGED <<net, fd, written, client, shared, cur, tmp, unregistered,
                 batch, relay, targets>>

\* ChatUser::ExecuteCommand of a user: everything buffered is one message.
ExecuteUser(r) ==
  LET c == cur[r] IN
  /\ pc[r] = "exec" /\ c \in Users /\ m_cCBuff[c] # <<>>
  /\ msg' = [msg EXCEPT ![r] = [from |-> c, data |-> m_cCBuff[c],
                                fd |-> fd[c], relayed |-> FALSE]]
  /\ m_cCBuff' = [m_cCBuff EXCEPT ![c] = <<>>]
  /\ Goto(r, "broadcast")
  /\ UNCHANGED <<net, fd, poll, written, client, shared, cur, tmp,
                 unregistered, batch, relay, targets>>

\* ChatUser::ExecuteCommand of a manager's client: one packet.  When the
\* buffer holds a part of it GetPacket fails, and Run's loop calls again.
ExecuteManager(r) ==
  LET c == cur[r]
      packet == SubSeq(m_cCBuff[c], 1, PacketLen)
  IN
  /\ pc[r] = "exec" /\ c \in Managers /\ Len(m_cCBuff[c]) >= PacketLen
  /\ m_cCBuff' = [m_cCBuff EXCEPT ![c] = SubSeq(@, PacketLen + 1, Len(@))]
  /\ IF <<c, packet[1]>> \in OtherCommands
     THEN UNCHANGED <<msg, pc>>
     ELSE /\ msg' = [msg EXCEPT ![r] = [from |-> c, data |-> packet,
                                        fd |-> fd[c], relayed |-> TRUE]]
          /\ Goto(r, "broadcast")
  /\ UNCHANGED <<net, fd, poll, written, client, shared, cur, tmp,
                 unregistered, batch, relay, targets>>

\* Mutant: EnQueue does not wait for room.
PutBroadcastQueueUnchecked(r) ==
  /\ pc[r] = "broadcast"
  /\ m_pBroadcastQueue' = Append(m_pBroadcastQueue, msg[r])
  /\ msg' = [msg EXCEPT ![r] = NoMsg]
  /\ Goto(r, "exec")
  /\ UNCHANGED <<net, fd, poll, written, client, m_cCBuff, m_lstClient,
                 m_iConnCount, m_pReceiveQueue, cur, tmp, unregistered, batch,
                 relay, targets>>

\* ChatUser::MessageBroadcast.
PutBroadcastQueue(r) ==
  /\ pc[r] = "broadcast"
  /\ Len(m_pBroadcastQueue) < QSIZE
  /\ m_pBroadcastQueue' = Append(m_pBroadcastQueue, msg[r])
  /\ msg' = [msg EXCEPT ![r] = NoMsg]
  /\ Goto(r, "exec")
  /\ UNCHANGED <<net, fd, poll, written, client, m_cCBuff, m_lstClient,
                 m_iConnCount, m_pReceiveQueue, cur, tmp, unregistered, batch,
                 relay, targets>>

\* IsValidPacket() is 0: the loop is over.
ExecuteDone(r) ==
  /\ pc[r] = "exec"
  /\ m_cCBuff[cur[r]] = <<>>
  /\ Goto(r, "rearm")
  /\ UNCHANGED <<net, fd, poll, written, client, m_cCBuff, shared, cur, tmp,
                 msg, unregistered, batch, relay, targets>>

\* Mutant: the receiver registers the client and then reads it once more.
AddEPollReadAgain(r) ==
  /\ pc[r] = "rearm"
  /\ AddClient(cur[r])
  /\ Goto(r, "avail")
  /\ UNCHANGED <<net, fd, written, client, m_cCBuff, shared, cur, tmp, msg,
                 unregistered, batch, relay, targets>>

AddEPoll(r) ==
  /\ pc[r] = "rearm"
  /\ AddClient(cur[r])
  /\ Done(r)
  /\ UNCHANGED <<net, fd, written, client, m_cCBuff, shared, tmp, msg,
                 unregistered, batch, relay, targets>>

\* AddEPoll ignores AddClient's failure: no thread knows the client any more.
AddEPollFails(r) ==
  /\ AddMayFail
  /\ pc[r] = "rearm"
  /\ Done(r)
  /\ UNCHANGED <<net, fd, poll, written, client, m_cCBuff, shared, tmp, msg,
                 unregistered, batch, relay, targets>>

-----------------------------------------------------------------------------
(* ThreadBroadcaster::Run and ChatServer::MessageBroadcast.                *)

\* Mutant: the test for RELAYED_MESSAGE is missing.
GetBroadcastQueueRelayAll(b) ==
  /\ pc[b] = "home"
  /\ m_pBroadcastQueue # <<>>
  /\ msg' = [msg EXCEPT ![b] = Head(m_pBroadcastQueue)]
  /\ relay' = [relay EXCEPT ![b] = Managers]
  /\ m_pBroadcastQueue' = Tail(m_pBroadcastQueue)
  /\ Goto(b, "relay")
  /\ UNCHANGED <<net, fd, poll, written, client, m_cCBuff, m_lstClient,
                 m_iConnCount, m_pReceiveQueue, cur, tmp, unregistered, batch,
                 targets>>

\* A RELAYED_MESSAGE skips MessageBroadcastToManagers.
GetBroadcastQueue(b) ==
  /\ pc[b] = "home"
  /\ m_pBroadcastQueue # <<>>
  /\ LET m == Head(m_pBroadcastQueue) IN
       /\ msg' = [msg EXCEPT ![b] = m]
       /\ relay' = [relay EXCEPT ![b] = IF m.relayed THEN {} ELSE Managers]
  /\ m_pBroadcastQueue' = Tail(m_pBroadcastQueue)
  /\ Goto(b, "relay")
  /\ UNCHANGED <<net, fd, poll, written, client, m_cCBuff, m_lstClient,
                 m_iConnCount, m_pReceiveQueue, cur, tmp, unregistered, batch,
                 targets>>

\* MessageBroadcastToManagers, one socket.  CloseClient may have deleted the
\* socket: the list still has it, and the descriptor is then whatever the
\* freed memory holds.
RelayToManager(b, m) ==
  /\ pc[b] = "relay" /\ m \in relay[b]
  /\ relay' = [relay EXCEPT ![b] = @ \ {m}]
  /\ \E f \in IF client[m] = "freed" THEN FDs \cup {NoFd} ELSE {fd[m]} :
       Write(f, msg[b])
  /\ UNCHANGED <<net, fd, poll, client, m_cCBuff, shared, pc, cur, tmp, msg,
                 unregistered, batch, targets>>

\* Mutant: the sender is not left out.
TargetsWithSender(m) == {<<fd[c], c>> : c \in m_lstClient \cap Users}

\* The users of m_lstClient, without the owner of the message's descriptor.
Targets(m) ==
  {<<fd[c], c>> : c \in {d \in m_lstClient : d \in Users /\ fd[d] # m.fd}}

\* GetBroadcastTargets, under m_lockClient.
GetBroadcastTargets(b) ==
  /\ pc[b] = "relay" /\ relay[b] = {}
  /\ targets' = [targets EXCEPT ![b] = Targets(msg[b])]
  /\ Goto(b, "write")
  /\ UNCHANGED <<net, fd, poll, written, client, m_cCBuff, shared, cur, tmp,
                 msg, unregistered, batch, relay>>

\* Mutant: a failed write is tried again.
WriteToTargetRetry(b, p) ==
  /\ pc[b] = "write" /\ p \in targets[b]
  /\ \E c \in Conns : fd[c] = p[1] /\ peer[c] = "up"
  /\ targets' = [targets EXCEPT ![b] = @ \ {p}]
  /\ Write(p[1], msg[b])
  /\ UNCHANGED <<net, fd, poll, client, m_cCBuff, shared, pc, cur, tmp, msg,
                 unregistered, batch, relay>>

\* CNPUtil::Write to one copied descriptor.
WriteToTarget(b, p) ==
  /\ pc[b] = "write" /\ p \in targets[b]
  /\ targets' = [targets EXCEPT ![b] = @ \ {p}]
  /\ Write(p[1], msg[b])
  /\ UNCHANGED <<net, fd, poll, client, m_cCBuff, shared, pc, cur, tmp, msg,
                 unregistered, batch, relay>>

\* delete message.
BroadcastDone(b) ==
  /\ pc[b] = "write" /\ targets[b] = {}
  /\ msg' = [msg EXCEPT ![b] = NoMsg]
  /\ Goto(b, "home")
  /\ UNCHANGED <<net, fd, poll, written, client, m_cCBuff, shared, cur, tmp,
                 unregistered, batch, relay, targets>>

-----------------------------------------------------------------------------
Peers == \/ \E u \in Users : Connect(u)
         \/ \E c \in Conns : Send(c) \/ Close(c) \/ Reset(c)

AcceptClient(t) == AcceptLoad(t) \/ AcceptStore(t) \/ AcceptPush(t)
                   \/ AcceptAdd(t) \/ AcceptAddFails(t)

CloseClient(t) == CloseDel(t) \/ CloseFree(t) \/ CloseLoad(t) \/ CloseStore(t)

AcceptorStep == \/ Accept \/ RefuseClient \/ AdmitClient
                \/ AcceptClient(Acceptor) \/ CloseClient(Acceptor)

MainStep == \/ RegisterManager \/ Polling
            \/ \E e \in batch : ErrorEvent(e) \/ ReadEvent(e)
            \/ PutReceiveQueue
            \/ AcceptClient(Main) \/ CloseClient(Main)

FillFromSocket(r) == Available(r) \/ ReadAll(r) \/ ReadFails(r)

ReceiverStep(r) ==
  \/ GetReceiveQueue(r) \/ FillFromSocket(r)
  \/ ExecuteUser(r) \/ ExecuteManager(r) \/ PutBroadcastQueue(r)
  \/ ExecuteDone(r) \/ AddEPoll(r) \/ AddEPollFails(r)
  \/ CloseClient(r)

BroadcasterStep(b) ==
  \/ GetBroadcastQueue(b)
  \/ \E m \in Managers : RelayToManager(b, m)
  \/ GetBroadcastTargets(b)
  \/ \E p \in targets[b] : WriteToTarget(b, p)
  \/ BroadcastDone(b)

Next == \/ Peers \/ AcceptorStep \/ MainStep
        \/ \E r \in Receivers : ReceiverStep(r)
        \/ \E b \in Broadcasters : BroadcasterStep(b)

Spec == Init /\ [][Next]_vars

\* The operating system runs every thread that can run.
Fairness == /\ WF_vars(AcceptorStep)
            /\ WF_vars(MainStep)
            /\ \A r \in Receivers : WF_vars(ReceiverStep(r))
            /\ \A b \in Broadcasters : WF_vars(BroadcasterStep(b))

FairSpec == Spec /\ Fairness

-----------------------------------------------------------------------------
(* Properties.                                                             *)

Accepting == {"check", "accept", "accept_store"}
Holding == {"push", "add", "close", "free", "put", "avail", "read", "exec",
            "broadcast", "rearm"}
Elsewhere == {"home", "uncount", "uncount_store", "relay", "write"}

Places(q) == {q[i] : i \in 1 .. Len(q)}
Live == {c \in Conns : client[c] = "live"}

KernelType ==
  /\ peer \in [Conns -> {"away", "up", "closed", "reset"}]
  /\ sent \in [Conns -> Nat]
  /\ backlog \subseteq Users
  /\ fd \in [Conns -> FDs \cup {NoFd}]
  /\ interest \subseteq Conns /\ ready \subseteq interest

BufferType ==
  /\ inbox \in [Conns -> Seq(Chunks)]
  /\ m_cCBuff \in [Conns -> Seq(Chunks)]
  /\ written \in [Conns -> Seq(Conns \X Chunks)]

ServerType ==
  /\ client \in [Conns -> {"none", "live", "freed"}]
  /\ m_lstClient \subseteq Conns
  /\ m_iConnCount \in Int /\ tmp \in [Threads -> Int]

QueueType ==
  /\ m_pReceiveQueue \in Seq(Conns) /\ Len(m_pReceiveQueue) <= QSIZE
  /\ m_pBroadcastQueue \in Seq(Messages) /\ Len(m_pBroadcastQueue) <= QSIZE

HandType ==
  /\ pc \in [Threads -> Accepting \cup Holding \cup Elsewhere]
  /\ cur \in [Threads -> Conns \cup {NoConn}]
  /\ \A t \in Threads : cur[t] = NoConn <=> pc[t] \in Elsewhere

MessageType ==
  /\ msg \in [Threads -> Messages \cup {NoMsg}]
  /\ \A t \in Threads : pc[t] \in {"broadcast", "relay", "write"}
                          => msg[t] \in Messages

LoopType ==
  /\ unregistered \subseteq Managers
  /\ batch \subseteq [conn : Conns, err : BOOLEAN]
  /\ relay \in [Broadcasters -> SUBSET Managers]
  /\ targets \in [Broadcasters -> SUBSET (FDs \X Users)]

\* Every variable has its type; both queues respect QSIZE; a thread has a
\* connection in hand exactly where the code has one in a local variable.
TypeOK == /\ KernelType /\ BufferType /\ ServerType /\ QueueType
          /\ HandType /\ MessageType /\ LoopType

\* No thread, queue, list or epoll registration holds a pointer to a Client
\* that CloseClient has deleted, although only m_lstClient is locked.
NoUseAfterFree ==
  /\ \A t \in Threads : pc[t] \in Holding => client[cur[t]] = "live"
  /\ \A e \in batch : client[e.conn] = "live"
  /\ interest \cup Places(m_pReceiveQueue) \cup m_lstClient \subseteq Live

\* A Client is in at most one pair of hands: one thread, one slot of
\* m_pReceiveQueue or the epoll set (where main may have an event of it).
\* This is what lets CloseClient and the receivers work without a lock.
SoleOwner ==
  /\ \A s, t \in Threads : cur[s] = cur[t] /\ cur[s] # NoConn => s = t
  /\ \A i, j \in 1 .. Len(m_pReceiveQueue) :
       m_pReceiveQueue[i] = m_pReceiveQueue[j] => i = j
  /\ Places(m_pReceiveQueue) \cap interest = {}
  /\ \A t \in Threads : /\ cur[t] \notin Places(m_pReceiveQueue)
                        /\ pc[t] # "close" => cur[t] \notin interest
  /\ \A e \in batch : e.conn \in interest /\ e.conn # cur[Main]

\* A user is never sent its own text: MessageBroadcast recognises the sender
\* by its descriptor, which other connections may have had before.
NoEcho ==
  \A c \in Conns : \A i \in 1 .. Len(written[c]) : written[c][i][1] # c

\* What a manager sends is broadcast to users and never relayed to managers
\* ("but not to be relayed to other managers!", ChatUser::ExecuteCommand).
NoRelayLoop ==
  \A m \in Managers : \A i \in 1 .. Len(written[m]) :
    written[m][i][1] \in Users

\* With one broadcaster every connection is sent a sender's text in the order
\* in which it was sent, and no part of it twice: whichever receivers built its
\* messages, and with writes that take only a part of one.
SenderOrder ==
  \A c \in Conns : \A i, j \in 1 .. Len(written[c]) :
    i < j /\ written[c][i][1] = written[c][j][1]
      => written[c][i][2] < written[c][j][2]

\* No two threads are inside m_iConnCount++ or m_iConnCount-- at once.
Updating == {"accept_store", "uncount_store"}
UpdatesApart ==
  \A s, t \in Threads : pc[s] \in Updating /\ pc[t] \in Updating => s = t

\* m_iConnCount counts the clients there are, and those that CloseClient has
\* deleted and not counted yet; at most MaxUser users are connected.
Uncounted == {t \in Threads : pc[t] \in {"uncount", "uncount_store"}}
CountExact ==
  /\ m_iConnCount = Cardinality(Live) + Cardinality(Uncounted)
  /\ Cardinality(Live \cap Users) <= MaxUser

\* Losing an update is the only way in which the count goes wrong and the
\* limit of ThreadAcceptor::Run is passed: everything else that happens between
\* its test and AcceptClient (managers that register, clients that are closed)
\* leaves both right.
CountedExactly == []UpdatesApart => []CountExact

\* Receiver r calls ExecuteCommand on a part of a manager's packet, and does
\* not read the rest: its loop never ends (ThreadReceiver.cpp:68).
LoopsOnPart(r) ==
  /\ pc[r] = "exec" /\ cur[r] \in Managers
  /\ m_cCBuff[cur[r]] # <<>> /\ Len(m_cCBuff[cur[r]]) < PacketLen

\* What a connected peer has sent is read, or its connection is closed, and
\* what was read is broadcast: no client is forgotten between the threads,
\* unless a receiver loops on a part of a packet.
InputProcessed ==
  \A c \in Conns :
    client[c] = "live" /\ inbox[c] # <<>>
      ~> \/ inbox[c] = <<>> /\ m_cCBuff[c] = <<>>
         \/ \E r \in Receivers : LoopsOnPart(r)

\* Thread t has a message with chunk n of c in hand; a broadcaster has written it
\* to the managers and to every user it had copied.
Carries(t, c, n) ==
  msg[t] # NoMsg /\ msg[t].from = c /\ \E i \in 1 .. Len(msg[t].data) : msg[t].data[i] = n
WrittenOut(c, n) ==
  \E b \in Broadcasters : Carries(b, c, n) /\ pc[b] = "write" /\ targets[b] = {}

\* Every message a receiver has built is taken by a broadcaster and written to the
\* last of its recipients, whoever of them has gone meanwhile: nothing is left in
\* the bounded queues, and no stage waits for ever for the next one.
MessagesBroadcast ==
  \A c \in Conns : \A n \in 1 .. MaxSend[c] :
    (\E r \in Receivers : Carries(r, c, n)) ~> WrittenOut(c, n)

\* A copied descriptor still belongs to the user it was copied from, or to
\* nobody, until the message has been written to it.
RightRecipient ==
  \A b \in Broadcasters : \A p \in targets[b] :
    \A c \in Conns : fd[c] = p[1] => c = p[2]
=============================================================================
