# TLA+ models of thunder-chat

thunder-chat is a multi-process, multi-threaded chat server. A **ChatManager**
process forks one or more **ChatServer** processes and supervises them. Users
connect to a ChatServer; a line a user types is sent to every other user of
that server and, through the managers, to the users of all other servers.

This directory holds TLA+ models of the parts that are hard to test, the TLC
configurations that check small instances of them, and proofs, checked by
TLAPS, of the results that hold for every instance. The build that is modelled
is the Linux one: `IOMP_EPoll`, edge triggered (`_USE_ET`), with `_DEBUG`.

## The system

| Part | State | Operations | Talks to |
|---|---|---|---|
| `CircularQueue` | ring of `QSIZE` pointers, `start_idx`, `num_full`, a mutex, two condition variables | `EnQueue` (blocks when full), `DeQueue` (blocks when empty) | every thread of a ChatServer |
| `CircularBuff` | ring of bytes, `m_iHead`, `m_iTail`, `m_iUseBufferSize` | `Put`, `Get`, `GetHeader`, `Put(Socket*)` | one per `Client` |
| ChatServer main thread | epoll set, array of events, list of clients under `m_lockClient`, `m_iConnCount`, manager sockets | `RegisterManager`, `Polling`, `CloseClient`, `PutReceiveQueue` | queue to the receivers |
| `ThreadAcceptor` | - | `accept`, the limit on users, `AcceptClient` | epoll, client list |
| `ThreadReceiver` (5) | the client in hand | `FillFromSocket`, `ExecuteCommand`, `AddEPoll`, `CloseClient` | queue to the broadcasters, epoll |
| `ThreadBroadcaster` (5) | the message in hand, copied descriptors | relay to managers, copy of targets, writes | sockets |
| `ChatManager`, `ThreadWorker` | epoll set, list of chat servers, children | hello, relay of `cmd_CHAT_BROADCAST`, `WatchChildProcess` | ChatServers |
| `main`, `Process`, `DoFork` | listening sockets, children | `SpawnProcess`, `WatchChildProcess`, `SpawnChildProcess` | operating system |
| start of a ChatServer | manager sockets, `m_uniqId`, threads | `ConnectToMgr`, `NegotiationWithManager`, `Spawn`, `RegisterManager` | managers |
| `CNPLog` | descriptor, day, mutex; the log file and `old_log/` | `SetFileName`, `Log`, rotation | everyone |
| `Properties`, `ServerInfo*` | map of the configuration, its numbers | `Load`, `GetProperty`, `split` | start-up |
| `Socket`, `ClientSocket` | descriptor, blocking mode | `Connect`, `NonBlockConnect`, `Read`, `Write`, `Send`, `Recv`, `SendTo`, `RecvFrom` | everyone |
| `BroadcastMessage`, `T_PACKET` | text, size, header | building and cutting packets | servers, managers |
| `CNPUtil` | SHA-256 context | `sha256_*`, `URLDecode`, formatting helpers | - |
| `chat_client.c`, `clients.c` | buffers of a message | `send_message`, `receive` | ChatServer |

What is hard here:

* a `Client` is a bare pointer that travels from the acceptor to epoll, to main,
  through a queue to a receiver and back, and is deleted wherever it happens to
  be when its connection ends; only the list of clients is locked;
* epoll is edge triggered and the client is taken out of the epoll set while a
  receiver works on it: input that arrives meanwhile must not be forgotten;
* two bounded queues in a row block their producers;
* `m_iConnCount` is updated by several threads without a lock;
* broadcasters write to *numbers* of descriptors that other threads close and
  that the kernel hands out again;
* packets of managers arrive in parts; writes to non-blocking sockets end early;
* servers and managers die and are started again; a restart forks from a process with
  threads, and copies locked mutexes and open sockets; signal handlers log;
* every step of the log's rotation, of a negotiation and of a thread's start may fail,
  and most results are ignored.

## Modules

| Module | Models |
|---|---|
| `BoundedQueue` | what a queue promises: a FIFO of at most `QSIZE` items |
| `CircularQueue` | `CircularQueue.cpp`, one action per statement that other threads can observe |
| `ByteStream` | what a receive buffer promises: a stream of bytes |
| `CircularBuff` | `CircularBuff.cpp`: `Put`, `Get`, `GetHeader` with every branch of the wrap-around |
| `ChatServer` | a ChatServer process: main, acceptor, receivers, broadcasters, epoll, sockets and descriptors |
| `ChatManager` | a ChatManager process: main, workers, epoll, the hello and the relay between servers |
| `Supervisor` | `main`, `Process`, `DoFork`, the manager's loop, and a server's `Run` up to `RegisterManager` |
| `NPLog` | `CNPLog`: the log file, its rotation and its mutex |
| `Socket` | the Socket wrappers over one connection, system call by system call |
| `Framing` | `BroadcastMessage` and `T_PACKET` as pure functions |
| `Properties` | `Properties.cpp`, `ServerInfoDN*.cpp` and `split` as pure functions |
| `NPUtil` | SHA-256 streaming and `URLDecode` as pure functions |
| `ChatClient` | the two clients; extends `Framing` |
| `MC*` | instances for TLC; `MCAlgorithms` feeds the pure functions all small inputs |
| `CircularQueueProofs`, `CircularBuffProofs`, `ChatServerProofs`, `ChatManagerProofs`, `SupervisorProofs`, `NPLogProofs`, `SocketProofs`, `AlgorithmProofs` | theorems and proofs |

### CircularQueue

A thread is at a label of `pc`; `Lock` and `Unlock` are the mutex,
`EnQueueWait`/`DeQueueWait` release it and sleep in `notfull`/`notempty`,
`EnQueueSignal`/`DeQueueSignal` wake any one sleeper, `SpuriousWakeup` is
POSIX's licence. A woken thread competes for the mutex again and re-tests its
loop condition. Callers call for ever, so no bound is needed.

`ImplementsFIFO` maps the ring to the abstract sequence (`Contents`), with the
item appended when it is counted and removed when `start_idx` moves.

### CircularBuff

The allocation has one byte more than `m_iBufferSize`, as `NewBuffer` makes it.
A `memcpy` beyond the allocation yields `Undefined` bytes. `MaxPut`,
`MaxBacklog` and `MaxGet` bound what one call puts, what the buffer holds and
what one call asks for; a `Put` that does not fit is refused by the code itself
and always allowed. `ImplementsStream` maps the ring to the sequence of bytes
it holds.

### ChatServer

State: for every connection its peer (`peer`, `sent`, `inbox`, `backlog`), the
descriptor of its socket (`fd`), its place in epoll (`interest`, `ready`), its
`Client` (`client`, `m_cCBuff`) and what was written to it (`written`); the
members of `ChatServer`; and for every thread its place, the client or message in
hand and its local copies. One action stands for each piece of code between two
points where other threads can interfere:

* `m_lockClient` sections are single steps (`AcceptPush`, `CloseFree`,
  `GetBroadcastTargets`);
* `m_iConnCount++` and `--` are a load and a store, as the compiler may make
  them, because nothing makes them atomic;
* `CircularBuff::Put(Socket*)` is `Available` and then the read loop, with the
  peer free to act in between. At end of file `read` leaves `errno` alone, so
  the loop may see an old `EAGAIN` (`ReadAll`) or not (`ReadFails`);
* queues are sequences of at most `QSIZE` entries with blocking ends. That is
  the abstract queue which `CircularQueue` is proved to implement (`FIFO`);
* text is a sequence of numbered chunks: a user's message is whatever was
  buffered, a manager's packet is `PacketLen` chunks.

Lists whose order no thread can observe are sets. The kernel hands out the
lowest free descriptor. A write may take any prefix of a message. Use of a
deleted manager socket is undefined behaviour: the write goes to any descriptor
or to none.

Constants that bound the model: `MaxSend` (chunks per peer), `MayFail` (which
peers may close or reset), and the flag `AddMayFail` for failing `EPOLL_CTL_ADD`.
A connection is used once; a user who comes back is another connection.

### ChatManager

The manager hands its `ClientChatServer`s around as ChatServer does its `Client`s,
through one queue and the `ThreadWorker`s, and the model is cut in the same way. What
is different, and modelled:

* main accepts and polls; `m_lstChatServer` contains a server from accept on,
  before its hello was read. Until then `m_uniqId` is uninitialised, and whether
  `MessageBroadcast` takes the server for the sender is a choice (`Unset`);
* `GetUniqId` returns the 64-bit id as an `int` of `IntBits` bits, sign extended for
  the comparison;
* `MessageBroadcast` walks the list without `m_lockClient`: `BroadcastBegin`,
  `BroadcastVisit` and `BroadcastNext` are separate steps. An iterator whose node was
  removed goes on anywhere, and a write through a deleted client goes anywhere;
* `CloseClient` is `DelClient`, removal from the list, deletion, and the count;
* an incomplete packet ends the loop (`ExecuteDone`), unlike in ThreadReceiver.

The servers' side is `NegotiationWithManager`: `Connect`, the hello (`Send`), and
`RecvHello`, which takes the first packet it gets for the answer. A server sends its
hello and then the commands of `Script`, each in `PacketLen` chunks.

### Supervisor

`mpc` is the place of the manager's main thread: the loop of `SpawnProcess`, `Run`, and
then `WatchChildProcess` and `Polling` by turns; `st` is the place of each server
process. What is modelled of the operating system is what the code depends on:

* `fork` copies `CNPLog::m_Lock`. `WorkerLock` is a worker inside `Log`; a server forked
  then starts with a locked mutex and hangs in `FirstLog`. The first forks happen before
  there are workers (`CleanFirstForks`);
* `waitpid(WUNTRACED | WNOHANG)` reports dead and stopped children. `WatchStopped`
  starts a server for a child that has only stopped;
* a dead manager leaves its servers running with the listening socket they inherited, so
  that `Bind` of a new manager fails until they are gone;
* `sig_handler` logs. Inside `Log` that is a deadlock of the thread with itself (`stuck`
  for the manager, "hung" for a server);
* a negotiation ends with NULL, with a socket at end of file, or with an answer; the own
  manager answers only while its threads can log. `m_uniqId` is `now + p` (time + pid) and
  drawn anew in each negotiation. A NULL in the list crashes `RegisterManager`;
* after a failed `pthread_create`, `GetThreadID` reads address 0 (`GetThreadIDCrashes`).

A manager that answered in an earlier second knows the server by an id that is not in its packets
and sends its messages back to it (ChatServer.cpp:180). `OldIdsExplained` says which managers of a list this
concerns: a beginning of it, never the last one.

`Recovers` says that once nothing dies, stops or fails any more, all children end up
serving, unless the manager is gone or stuck, or the child hangs or is stopped. Its
exceptions are the known ways in which this supervision does not work.

### NPLog

A file is the set of the numbers of its lines. One action per system call whose failure
the code treats differently: `mkdir`, the count of the backups, `rename`, `fopen`. The
process may be killed between any two and started again; people remove files. `LossExplained`
lists all the ways in which a written line is lost; `InOrder` says that the names of the
backups tell the order of the lines. `FileSize` is -1 for a missing file and compared as
an unsigned number of `SizeBits` bits.

### Socket

One connection, one caller, a kernel with a send buffer of `RoomMax` bytes. Bytes are
numbered, so counts stand for prefixes. `Accounted` relates what callers were told to what the
kernel moved; `WholeOrTold` says when a short result is an end of file. What a caller has
to know, and the model shows: a `Read` that returns -1 after a part has dropped that
part, and a `Write` that returns -1 has sent a part of a message; `NonBlockConnect` returns 0 for a
refused connection; a blocking `Send` may block beyond its three
seconds, for `select` only waits for some room (`CallsReturn` therefore leaves the blocking
`Read`, `Write` and `Send` out); `SetBlock` changes nothing. `Assert(false, ...)` only logs
(`NPDebug.cpp`), so the code behind it runs.

### Framing, Properties, NPUtil, ChatClient

Pure operators. Sizes are scaled constants, characters are tokens or numbers; the widths
of the length field (`LengthBits`) and of the SHA-256 counters (`Word`) are kept. The
compression function of SHA-256 is left uninterpreted: a context is the sequence of blocks it
has consumed. `AddMap` copies name and value with `strncpy` into buffers of `MAX_KEY_SIZE` and
`MAX_VALUE_SIZE` bytes (512, while a line may have 1023): a text that fills its buffer is cut
and has no NUL, and is read on into whatever the memory holds (`Copied`, `Beyond`;
Properties.cpp:117). What such a file says is undefined, so `ConfigAsWritten` is about files whose
names and values fit (`Defined`). Each has a reference definition that does not follow the code: the last line of a
file that gives a key (`Number`), the padding of FIPS 180-2 (`Padded`), the inverse of the
decoding (`Encoded`), the text that was typed.

## Runs

| Run | Instance | Shows |
|---|---|---|
| `queue` | 2 producers, 2 consumers, 2 items, `QSIZE` 2 | FIFO refinement, no lost wakeup, items leave, a full queue opens again |
| `buffer` | 6 bytes, backlog 3, requests of 2 | byte stream across every wrap-around |
| `server` | 2 users, 1 manager, 2 receivers, 1 broadcaster, `QSIZE` 2, buffers of 2 chunks, 3 chunks of a user | no relay loop, order per sender |
| `server_owner` | 2 users that both write and may leave, 2 receivers, failing `EPOLL_CTL_ADD`, buffer of 1 chunk, `QSIZE` 1 | no use after free, one owner per client, no echo through a descriptor handed out again, the count of users exact until two updates overlap |
| `server_live` | 1 user, 1 manager, packets in two parts, queues of 1 | input is processed but for the loop on a part of a packet, every message built is written out |
| `server_recipient` | 3 users | **violation**: written to a reused descriptor |
| `manager` | 2 servers that both broadcast, 2 workers, packets in two parts | nothing back to its sender, order per sender and at most once, input is processed |
| `manager_owner` | 3 servers, room for 2, 2 workers, failures, buffer of 1 chunk | no use after free, one owner per server |
| `supervisor` | 1 server, 2 pids, 1 worker, own and remote manager, 1 stop | the number of servers, one generation at a time, who knows a server by an old id, clean first forks, recovery |
| `log` | 2 days a month, 3 days, 4 lines, 2 starts, files of 1 line | order of the backups, which lines are lost, the lock is released |
| `socket` | calls of up to 3 bytes, send buffer of 2, 1 signal | results account for all bytes, a short result is told, connections are decided, calls return |
| `algorithms` | all inputs of up to 4 to 9 pieces | configuration, split, SHA-256, URLDecode, relayed texts, client |

Why the bounds are enough. Two threads on each end of a queue are the least
with which a signal can go to the wrong one, one or two slots make full and
empty states and wrap-around frequent. Six bytes allow every combination of head,
tail, wrapped and unwrapped contents for requests of up to two bytes. In
ChatServer two users are the least with a sender and a recipient; a user that
leaves frees a descriptor that the next one gets; two receivers are the least
that could hold the same client, or queue two messages of one sender side by side; `QSIZE` 1 makes main
and the receivers block, `QSIZE` 2 lets messages of one sender wait behind each other. In
ChatManager two servers are the least with a sender and a recipient, and two
packets per sender the least that can change places. `IntBits` 4 with ids below 8
keeps the sign extension in the model and the ids on its safe side, where today's
ids (time + pid) are until 2038. In Supervisor two pids are the least with which a
server and the one that replaces it, or an orphan and a new child, can meet; a list of the own
and a remote manager has an earlier and a last entry; the theorems lift these bounds. In
NPLog the day of the month repeats after two days, so that `m_iDay` can be the same on
different days, and two starts allow a crash in the middle of a rotation and the rotation
of the next start. In Socket a call longer than the send buffer has to be written in parts.
In MCAlgorithms the pieces are chosen around each border: empty and overlong lines, names and values
that just fit `AddMap`'s buffers and that do not, blocks
filled exactly, one short and one over, bytes on both sides of 160, texts of 1 byte and of
the largest size, lines and names longer than their buffers.

Runs about delivery keep the peers whose deletion is undefined behaviour alive: the
managers in `server`, all servers in `manager`. What happens otherwise is in the models, and
the properties leave room for it:

* after a manager's connection fails, `m_lstChatManagerSocket` keeps the deleted socket and the
  next message is written through it (`RelayToManager`, ChatServer.cpp:397);
* `ChatManager::MessageBroadcast` walks its list without the lock and may reach a server that
  another thread has deleted (`BroadcastNext`, ChatManager.cpp:291);
* a server is listed before its hello is read, so a relayed message may reach it first; the
  server reads it as the answer to its hello (`RecvHello`, ChatManager.cpp:497);
* a receiver that has a part of a manager's packet loops on it without reading the rest
  (ThreadReceiver.cpp:68). `InputProcessed` of ChatServer names this exception (`LoopsOnPart`)
  and excludes every other reason for unread input;
* `CircularBuff::Get` reads past the end when backlog plus request reach the size of the ring
  (CircularBuff.cpp:204), a backlog of about half of its 1024000 bytes. The bounds of `buffer` and
  the hypothesis of `StreamBelowLimit` are exactly the other case;
* `Properties::AddMap` reads a name or value of 512 bytes or more beyond its buffer
  (Properties.cpp:117). `ConfigRead` is about files without such a line before the first that is
  too long for `getline`, and fails for the others.

`m_iConnCount` is not exact in either process. A load of an increment and a load of
a decrement can meet, one update is lost, and with a limit of 2 and four
connections TLC finds three admitted. The actions are in both models (`AcceptLoad`,
`CountLoad`). That two updates overlap is the only way in which a ChatServer gets there:
`CountedExactly` says that in a behaviour in which they never do (`UpdatesApart`), the count is the
number of clients and of those about to be counted out, and the users never exceed the
limit. For the manager it is not stated.

`SenderOrder` is checked with two receivers and one broadcaster. With several, as in the shipped
`ChatServer.properties`, two messages of one sender may overtake each other: the
queue is FIFO but the broadcasters are not. No document promises the order, so
this is noted here and not stated as a violation.

`CHECK_DEADLOCK FALSE` in all runs but `queue` and `buffer`: when all peers have used their
connections and sent their chunks an idle server has nothing to do; the supervision rests
when its manager is down and its port taken, the log and a socket when nobody calls; the inputs of
`algorithms` are finite.

Fairness (`FairSpec`) is weak fairness of each thread: the operating system
runs every thread that can run. Consumers of a queue call `DeQueue` in an
endless loop, as the `Run` methods do; from some time on no waiter wakes
without cause. Nothing is assumed about who gets a free mutex or which waiter a
signal wakes, and peers and producers are never forced to act.

In Supervisor the main thread (`MainStep`), each server (`ServerStep`) and a worker inside
`Log` (`WorkerUnlock`) are weakly fair; `LogLock` is strongly fair: the workers
take and release `m_Lock` again and again, and main, which asks for it each time, gets it at
some time. Deaths and signals are never forced and not bounded in number (stops are, by
`MaxExtra`, since each adds a server), so `Recovers` speaks of behaviours in which they end. In NPLog a thread inside `Log` goes on (`LogStep`); in
Socket a call goes on (`CallStep`) and a handshake ends one way or the other (`Resolve`): the
kernel gives up after its retries.

The violation (`server_recipient`) is described under "findings" in `PROJECT.json` with the
lines of the code and of the comment it contradicts.

## Proofs

For every number of threads, items and slots (`CircularQueueProofs`):
`TypeCorrect`, `NoWakeupLost` and `FIFO`, the refinement of `BoundedQueue`. The
inductive invariant adds to the types that the mutex excludes (`LockInv`), that
the wait sets are the sleeping threads (`WaitInv`), what a thread knows between
its statements (`BusyInv`) and that used slots hold items (`RingInv`). The
modulo arithmetic of the ring is confined to a few lemmas (`SlotIsMod`).

For every size and every alphabet (`CircularBuffProofs`): `TypeCorrect`, and
`StreamBelowLimit`: if `MaxBacklog + MaxGet < Size`, the buffer implements
`ByteStream`. The hypothesis is exactly what keeps `Get`'s test from choosing
the wrong branch.

For every number of users, managers, receivers, broadcasters and descriptors and
every `QSIZE` (`ChatServerProofs`): `TypeCorrect`, `ClientsNotUsedAfterFree` and
`ClientsHaveOneOwner`. Neither ownership property is inductive alone. `IndInv`
takes both together and adds that open sockets have descriptors (`SocketInv`), that
a connection without a `Client` is in no hands but those of the thread about
to create it (`FreshInv`), and that only main can hold a client that is still
registered, with one pending event per client (`WatchInv`). Each action has
a lemma; `Frame` disposes of the parts of the invariant whose variables it
leaves alone.

`SenderLeftOut`, `RelayedOnce` and `OneBroadcasterKeepsOrder`, of every behaviour in which no
manager's socket is closed (`ManagersOpen`; users come and go, and their descriptors are handed out
again). After a manager's connection has failed, `m_lstChatManagerSocket` still holds the deleted
socket, and what is relayed through it may reach anyone, the sender included. In the run
`server` every reachable state is `ManagersOpen`. `RoutingInv` needs no such condition, and is
inductive with `IndInv`: descriptors of open sockets differ and managers keep theirs
(`FdInv`); a message in a receiver's hand, in the queue or being sent carries the descriptor of its sender,
or the sender's socket is closed (`MessageInv`); the copied descriptors are neither the message's
nor a manager's, and each was copied once (`TargetInv`). A descriptor handed out again is one that
belonged to nobody, so it can be the copy for a user who has left, but never the sender's.
The order adds `OrderInv`, which follows the text from the peer to the sockets: in the buffers of
its sender (`BuffersInv`), behind all that was taken out of them (`TakenInv`), through the receiver, the
queue and the broadcaster without overtaking (`PipeInv`), and behind what was written before
to every connection the message is still to be written to (`SentInv`). That there is one broadcaster is
the hypothesis of the theorem (see the note on `SenderOrder` above); receivers may be many, because the one that
holds a client queues its message before it gives the client back.

`CountedExactlyAlways`, of every behaviour in which no two threads are between load and store of
`m_iConnCount` at once, and for finite sets of connections and threads. `CountInv` says that a
thread that has loaded the count has loaded the present one; that there is room for the user the
acceptor has let in, from the test to the store; and that main accepts managers only, which the limit
does not keep out.

`SteadyClientsKept`: a client whose peer neither closes nor resets the connection (`Steady`) is
never disconnected, in behaviours where what waits in its socket fits the buffer (`InputFits`) and
if `EPOLL_CTL_ADD` does not fail. A receiver closes a client that it finds with nothing to read, so this
says that edge-triggered epoll never reports a connection for nothing, although
receivers register, read and register it again while the peer sends. `AnnouncedInv` follows the
event from the ready list through main and the queue to the receiver: whoever has it, there
is something to read. `SteadyInv` says that such a peer is only ever cut off when it is refused, before
it has a `Client`. `SteadyManagersOpen` is the corollary for the managers: it reduces `ManagersOpen` to a
condition on the environment. TLC has checked `KeptInv` (with `InputFits` as the constraint) before it
was proved, with 2 users, 2 receivers, buffers of 1 and 2 chunks and 2 chunks per peer.

For every set of pids and workers, every `DN_CNT` and every list of managers
(`SupervisorProofs`): `TypeCorrect`, `OneGeneration`, `FirstForksClean`, `OldIdsAlwaysExplained` and
`ServersCounted`. What makes them inductive: `SpawnLeft` (the loop of `SpawnProcess` has
servers left exactly while it runs), `OrphansLive` and `DownAlone` (without a manager there is no
child, only orphans, and all orphans live: so `Bind` can succeed only when there are none),
`LockCopies` (a locked copy exists only before the first `Log`: so none is left when a manager
binds), and `Negotiations` (the ids under which the managers of the list know a server are in the order
of the list, and none is newer than `m_uniqId`, which is not newer than the clock: so an old id
can only stand before the present ones). `ServerShape` reduces the steps of a server to
three: it moves on, it ends, or it keeps its state; none changes the set of children. The count
then changes only with a fork (one more child, one fewer owed) and a report of `waitpid`. The clock
is assumed not to go back; nothing is assumed of how often servers stop, or of the workers.

For every number of servers and workers, every script and every size (`ChatManagerProofs`):
`TypeCorrect`, `NeverUsedAfterFree` and `OneOwner`. The invariant has two halves. `Hands` is the
argument of `ChatServerProofs`, with `ListInv` in addition: a server that is new or about to be
deleted is not in `m_lstChatServer`, which the walk reads without the lock. `Data` types the
buffers and needs `ChunkInv`: the chunks of a socket are the last ones sent, and those of
`m_cCBuff` lie further on the further back they are. Without it a packet put together from the
buffer need not be one of the script, for input that was dropped leaves a gap.

The same module: `SenderLeftOut` and `RelayedInOrder`, of every behaviour in which the
manager stays `Undisturbed`: no input outgrows its buffer, and the peer of every live client is
up. Both properties fail without this. After a break an iterator may point to a deleted server and
the write then goes anywhere; after an overflow the rest of the stream is no longer cut where the
packets begin. It is no assumption about the schedule: in the run `manager` every reachable
state is `Undisturbed`, so there the properties hold outright. The invariant says that nothing is
closed (`NothingClosed`), that the buffers continue the stream where the last packet ended
(`StreamInv`), that `m_uniqId` is what the first packet of the server said, as soon as that packet
has been served (`HelloInv`: without it a walk could miss its sender), and that a packet was taken
before it is relayed, and a server not yet visited by the walk has only earlier packets
(`OrderInv`).

For every length of a month, size limit and number of restarts (`NPLogProofs`): `TypeCorrect`,
`BackupsInOrder` and `LossesExplained`. A line is numbered when `Log` takes it, so all the files
hold smaller ones (`LineInv`); the backups of a day are numbered below their count (`NumberInv`),
so the count is a new number, unless somebody has removed one (`gaps`); no backup is dated after the
day `BackupLogFile` works with (`DateInv`); and `FdInv` says to which file the descriptor belongs
between the steps of a rotation.

For every send buffer and bound (`SocketProofs`): `TypeCorrect` (of `TypeOK`, which is in no run),
`BytesAccounted`, `WholeCounts` and `ConnectsDecided`. They are inductive together with `NothingMoved`: only the calls that loop over
parts (`Read`, `Write`, the blocking `Send`) hold bytes they have not reported.

For inputs of any length and for every size of a message, packet, buffer, block and word
(`AlgorithmProofs`), by induction over the input:

* `EveryTextRelayed`: the texts that a server packs, the manager cuts out of its stream and the other
  server cuts out again are the texts that were sent, each in its place. `PacketsOfStream` is the
  core: a stream is cut where it was put together, for no packet is empty and each tells
  its length. The length field needs `PDUBODYSIZE < 2 ^ LengthBits`;
* `EveryCutStreams`: however a message is cut into calls of `sha256_update`, the blocks that are
  compressed are those of the padded message. `Absorbed` says what a context is after some
  calls: the whole blocks so far are compressed, the rest lies at the beginning of the buffer, and
  `total` is the length in two words. The code takes the remainder by `Block` from the low
  word, which is right because `Block` divides `Word` (`WordFacts`);
* `DecodeInverts`: `URLDecode` inverts the encoding when all bytes are below 160 and refuses every
  other text. A refusal stays one (`RefusedStays`), and an escape takes the decoder through its
  states back to the first (`DecodedEscaped`);
* `EverythingTypedSent` and `EverythingSentShown`: `Sending` is the invariant of the loop of
  `send_message` (what was sent and what is left are what was typed), and each turn consumes
  something. The second uses `EveryTextRelayed` for the way to the other server, and the first NUL of
  what arrives (`ShownUpToNUL`) or its absence (`ShownBeyond`);
* `EveryFileRead`, of files whose names and values fit, and `EveryListSplit`: `KeyHeld` is the invariant of `Load` (the map holds what the
  last line said that gives the key); trimming leaves the name (`TrimName`) and the digits
  (`DigitsTrim`) alone; `Splitting` is the invariant of `split`.

`TextsRelayedAlways`, `UtilitiesRightAlways`, `TypedShownAlways` and `ConfigReadAlways` state these of
the specification that the run `algorithms` explores, without its bound on the number of pieces
(`InputInv`: the input is a sequence of pieces of its topic). The induction theorems
of the library have an operator for a parameter, which the provers cannot instantiate. The principle
used here is about sets, which they can: `SetInduction` and `SeqInduction`, derived from `WFMin`
and `NatLessThanWellFounded`. What `FoldLeft` and `FlattenSeq` do with one more element is proved
from the definitions of the community modules (`FoldLeftAppend`, `FlattenAppend`), which choose a
recursive function: that it exists and is unique is an induction of its own.

The assumptions on the constants are `QueueAssumption`, `BuffAssumption`, `ServerAssumption`,
`FiniteAssumption`, `ManagerAssumption`, `SupervisorAssumption`, `LogAssumption`,
`SocketAssumption`, `FramingAssumption`, `NPUtilAssumption`, `ClientAssumption`,
`PropertiesAssumption` and `MCAlgorithmsAssumption` (the chunks of the run fit into a word), which TLC
evaluates in the runs of their modules. `PowerAssumption` (a power of two is twice the one before) is
a fact of arithmetic, stated as an assumption because the provers have no theory of exponents.

Only model-checked: liveness (`ItemsLeave`, `FullQueueReopens`, `InputProcessed`,
`MessagesBroadcast`, `Recovers`, `LockReleased`, `CallsReturn`), which is out of the prover's reach. Every
other property of the passing runs is the property of a theorem.

## Plan

Done: the queue, the buffer, the ChatServer process, the ChatManager process, the supervision,
the log, the sockets and the pure functions, with the theorems above.

* `SteadyClientsKept` for the ChatManager process, server by server: `NothingClosed` says it of all
  servers at once.
* A composition of two ChatServers and two ChatManagers, in which an earlier manager of the
  list knows a server by an old `m_uniqId`: at most how often a message reaches a user.

## Not modelled

* `HealthCheckUsers` and `ThreadTic`: nothing starts them in the build. `PostData` (libcurl),
  `LogWithOutLineFeed`, `DeleteDir`, `SetProperty`, `Flush`, the variants of `Process` with pipes:
  no caller. The bandwidths of `ServerInfoDN`: read and never used.
* `IOMP_KQUEUE`, `IOMP_Select`: other back ends. `EventQueue`, `SendQueue`, `CloseQueue`,
  `QoSQueue`, `ConnectList`, `ProcessManager`: not in the build. `SharedMemory`,
  `Mutex`, `Semaphore`, `MessageQ`, `Singleton`: not used by a running process. The first two
  groups make up most of what the map does not cover.
* The helpers of `CNPUtil` for dates, phone numbers, HTTP lines and strings: they format text and
  keep no state. The rounds of SHA-256: a fixed computation on one block.
* The end of threads: none ends. The order in which a restarted server inherits the manager's
  other descriptors (its epoll handle and its connections to servers stay open in the child): no
  code uses them there.
* The text of log lines, addresses, access times.
