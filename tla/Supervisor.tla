----------------------------- MODULE Supervisor -----------------------------
(***************************************************************************)
(* The supervision of the ChatServer processes: main() and DoFork bind the *)
(* listening sockets and fork DN_CNT servers (SpawnProcess), then the      *)
(* manager's main thread alternates between WatchChildProcess, which       *)
(* starts a new server for every child that waitpid reports, and Polling.  *)
(* A new server goes through ChatServer::Run up to RegisterManager: its    *)
(* first log line, a negotiation with every manager of DNMGR_SERVER_IPs,   *)
(* its threads, and the registration of the sockets.                       *)
(*                                                                         *)
(* A fork copies CNPLog::m_Lock as it is: locked, when a worker of the     *)
(* manager is inside Log.  A signal handler that logs waits for ever when  *)
(* the interrupted thread is itself inside Log.  The listening sockets are *)
(* inherited, so servers that outlive their manager keep its ports.        *)
(***************************************************************************)
EXTENDS Integers, Sequences, FiniteSets

CONSTANTS
  Pids,         \* process ids the kernel hands out to servers
  Workers,      \* ThreadWorkers of the manager
  Main,         \* the manager's main thread
  NoThread,     \* CNPLog::m_Lock is free
  DN_CNT,       \* servers to start
  ManagerList,  \* DNMGR_SERVER_IPs: "own" is the manager that forks, or "remote"
  MaxExtra,     \* bound: children that stop during the life of one manager
  MaxTime       \* bound: seconds of the clock

ASSUME SupervisorAssumption ==
  /\ Pids \subseteq Nat /\ IsFiniteSet(Pids)
  /\ Main # NoThread /\ Main \notin Workers /\ NoThread \notin Workers
  /\ DN_CNT \in Nat \ {0} /\ MaxExtra \in Nat /\ MaxTime \in Nat
  /\ ManagerList \in Seq({"own", "remote"}) /\ ManagerList # <<>>

VARIABLES
  mpc,         \* where the manager's main thread is, "down" without a manager
  after,       \* where main goes on after its Log
  left,        \* servers the loop of SpawnProcess has still to fork
  held,        \* holder of the manager's CNPLog::m_Lock
  stuck,       \* the holder waits for m_Lock itself, in sig_handler
  st,          \* where each server process is
  lockCopy,    \* the server's own m_Lock was locked when it was forked
  socks,       \* m_lstChatManagerSocket of each server
  m_uniqId,    \* m_uniqId of each server
  stopped,     \* servers stopped by a signal
  unreported,  \* stopped servers waitpid has not reported
  orphan,      \* servers whose manager is gone
  now,         \* the clock, in seconds
  lost,        \* history: forks that failed
  extra        \* history: servers started for a child that had only stopped

mgrVars == <<mpc, after, left, held, stuck, lost, extra>>
srvVars == <<st, lockCopy, socks, m_uniqId, stopped, unreported, orphan>>
vars == <<mgrVars, srvVars, now>>

ManagerStates ==
  {"down", "spawn", "run", "watch", "log", "logging", "fork", "poll"}
ServerStates ==
  {"none", "start", "hello", "threads", "register", "serving", "hung", "zombie"}

\* What NegotiationWithManager returns: NULL, a socket whose hello was answered
\* under the id it sent, or a socket at end of file (Recv returned 0).
Null == [peer |-> "null", id |-> 0]
Closed == [peer |-> "closed", id |-> 0]
Hello(id) == [peer |-> "hello", id |-> id]
Sockets == [peer : {"null", "closed", "hello"}, id : Nat]

Live == {p \in Pids : st[p] \notin {"none", "zombie"}}
Mine == {p \in Pids : st[p] # "none" /\ p \notin orphan}

(***************************************************************************)
(* main, DoFork and SpawnProcess                                           *)
(***************************************************************************)
Init ==
  /\ mpc = "down" /\ after = "watch" /\ left = 0
  /\ held = NoThread /\ stuck = FALSE
  /\ st = [p \in Pids |-> "none"]
  /\ lockCopy = [p \in Pids |-> FALSE]
  /\ socks = [p \in Pids |-> <<>>]
  /\ m_uniqId = [p \in Pids |-> 0]
  /\ stopped = {} /\ unreported = {} /\ orphan = {}
  /\ now = 0 /\ lost = 0 /\ extra = 0

\* Mutant: the port may be shared.
BindShared == TRUE

\* bind fails while a process has the port open, and DoFork then returns: the
\* servers of an earlier manager have inherited its listening sockets.
Bind == Live = {}

\* main up to the loop of SpawnProcess.
Start ==
  /\ mpc = "down" /\ Bind
  /\ mpc' = "spawn" /\ left' = DN_CNT
  /\ held' = NoThread /\ stuck' = FALSE /\ lost' = 0 /\ extra' = 0
  /\ UNCHANGED <<after, srvVars, now>>

\* fork(): the child starts with a copy of the parent's memory.
Fork(p) ==
  /\ st[p] = "none"
  /\ st' = [st EXCEPT ![p] = "start"]
  /\ lockCopy' = [lockCopy EXCEPT ![p] = (held # NoThread)]
  /\ UNCHANGED <<socks, m_uniqId, stopped, unreported, orphan>>

\* Mutant: i <= _iProcessCnt.
SpawnProcessOneMore(p) ==
  /\ mpc = "spawn"
  /\ Fork(p)
  /\ left' = left - 1
  /\ mpc' = IF left = 0 THEN "run" ELSE "spawn"
  /\ UNCHANGED <<after, held, stuck, lost, extra, now>>

\* One iteration of SpawnProcess; it returns at the first failed fork, and
\* DoFork goes on to Run whatever it returns.
SpawnProcess(p) ==
  /\ mpc = "spawn"
  /\ Fork(p)
  /\ left' = left - 1
  /\ mpc' = IF left = 1 THEN "run" ELSE "spawn"
  /\ UNCHANGED <<after, held, stuck, lost, extra, now>>

SpawnProcessFails ==
  /\ mpc = "spawn"
  /\ mpc' = "run" /\ left' = 0 /\ lost' = lost + left
  /\ UNCHANGED <<after, held, stuck, extra, srvVars, now>>

\* ChatManager::Run up to its loop: the log file, the workers, a line for each.
RunStart ==
  /\ mpc = "run"
  /\ mpc' = "log" /\ after' = "watch"
  /\ UNCHANGED <<left, held, stuck, lost, extra, srvVars, now>>

\* Run returns when SetFileName fails, and main ends; or the manager is killed.
\* Its children become orphans, and the ones that are dead disappear; stopped ones
\* are continued by the kernel, for setpgrp gave each a group of its own.
ManagerExits ==
  /\ mpc # "down"
  /\ mpc' = "down" /\ after' = "watch" /\ left' = 0
  /\ held' = NoThread /\ stuck' = FALSE
  /\ st' = [p \in Pids |-> IF st[p] = "zombie" THEN "none" ELSE st[p]]
  /\ orphan' = Live /\ stopped' = {} /\ unreported' = {}
  /\ UNCHANGED <<lockCopy, socks, m_uniqId, now, lost, extra>>

(***************************************************************************)
(* CNPLog::m_Lock and the signal handler of the manager                    *)
(***************************************************************************)
\* Mutant: the workers are started before SpawnProcess.
WorkersRunEarly == mpc # "down"

WorkersRun == mpc \notin {"down", "spawn", "run"}

LogLock ==
  /\ mpc = "log" /\ held = NoThread
  /\ held' = Main /\ mpc' = "logging"
  /\ UNCHANGED <<after, left, stuck, lost, extra, srvVars, now>>

LogUnlock ==
  /\ mpc = "logging" /\ ~stuck
  /\ held' = NoThread /\ mpc' = after
  /\ UNCHANGED <<after, left, stuck, lost, extra, srvVars, now>>

WorkerLock(w) ==
  /\ WorkersRun /\ held = NoThread
  /\ held' = w
  /\ UNCHANGED <<mpc, after, left, stuck, lost, extra, srvVars, now>>

WorkerUnlock(w) ==
  /\ held = w /\ ~stuck
  /\ held' = NoThread
  /\ UNCHANGED <<mpc, after, left, stuck, lost, extra, srvVars, now>>

\* sig_handler calls Log in the thread that is inside Log: m_Lock is not
\* recursive.
sig_handler ==
  /\ held # NoThread /\ ~stuck
  /\ stuck' = TRUE
  /\ UNCHANGED <<mpc, after, left, held, lost, extra, srvVars, now>>

(***************************************************************************)
(* The loop of ChatManager::Run                                            *)
(***************************************************************************)
Zombies == {p \in Mine : st[p] = "zombie"}

\* waitpid(-1, WUNTRACED | WNOHANG) has nothing to report.
WatchNothing ==
  /\ mpc = "watch" /\ Zombies = {} /\ unreported = {}
  /\ mpc' = "poll"
  /\ UNCHANGED <<after, left, held, stuck, lost, extra, srvVars, now>>

\* Mutant: the death is logged and nothing is started.
WatchExitedNoRestart(p) ==
  /\ mpc = "watch" /\ p \in Zombies
  /\ mpc' = "log" /\ after' = "watch"
  /\ st' = [st EXCEPT ![p] = "none"]
  /\ UNCHANGED <<left, held, stuck, lost, extra, now,
                 lockCopy, socks, m_uniqId, stopped, unreported, orphan>>

\* It reports a dead child, which is logged before the restart.
WatchExited(p) ==
  /\ mpc = "watch" /\ p \in Zombies
  /\ mpc' = "log" /\ after' = "fork"
  /\ st' = [st EXCEPT ![p] = "none"]
  /\ UNCHANGED <<left, held, stuck, lost, extra, now,
                 lockCopy, socks, m_uniqId, stopped, unreported, orphan>>

\* It reports a stopped child: neither test holds, nothing is logged, and a
\* server is started all the same.
WatchStopped(p) ==
  /\ mpc = "watch" /\ p \in unreported
  /\ mpc' = "fork" /\ extra' = extra + 1
  /\ unreported' = unreported \ {p}
  /\ UNCHANGED <<after, left, held, stuck, lost, now,
                 st, lockCopy, socks, m_uniqId, stopped, orphan>>

SpawnChildProcess(p) ==
  /\ mpc = "fork"
  /\ Fork(p)
  /\ mpc' = "poll"
  /\ UNCHANGED <<after, left, held, stuck, lost, extra, now>>

\* The result of WatchChildProcess is ignored: this server is gone for good.
SpawnChildProcessFails ==
  /\ mpc = "fork"
  /\ mpc' = "poll" /\ lost' = lost + 1
  /\ UNCHANGED <<after, left, held, stuck, extra, srvVars, now>>

\* Mutant: Polling waits without a timeout, until a server connects.
PollNoTimeout ==
  /\ mpc = "poll" /\ \E p \in Pids : st[p] = "hello"
  /\ mpc' = "log" /\ after' = "watch"
  /\ UNCHANGED <<left, held, stuck, lost, extra, srvVars, now>>

\* Polling times out, or the events are handled, which logs.
Poll ==
  /\ mpc = "poll"
  /\ \/ mpc' = "watch" /\ UNCHANGED after
     \/ mpc' = "log" /\ after' = "watch"
  /\ UNCHANGED <<left, held, stuck, lost, extra, srvVars, now>>

(***************************************************************************)
(* A server: ChatServer::Run up to its loop                                *)
(***************************************************************************)
CanRun(p) == p \in Live /\ p \notin stopped

\* The end of process p: a zombie until the manager waits for it; init
\* collects an orphan.
Exit(p) ==
  /\ st' = [st EXCEPT ![p] = IF p \in orphan THEN "none" ELSE "zombie"]
  /\ lockCopy' = [lockCopy EXCEPT ![p] = FALSE]
  /\ socks' = [socks EXCEPT ![p] = <<>>]
  /\ m_uniqId' = [m_uniqId EXCEPT ![p] = 0]
  /\ stopped' = stopped \ {p}
  /\ unreported' = unreported \ {p}
  /\ orphan' = orphan \ {p}

\* SetFileName, sleep, and the first Log: it waits for ever for a lock that
\* was copied locked, for the thread that held it was not copied.
FirstLog(p) ==
  /\ CanRun(p) /\ st[p] = "start"
  /\ st' = [st EXCEPT ![p] = IF lockCopy[p] THEN "hung" ELSE "hello"]
  /\ lockCopy' = [lockCopy EXCEPT ![p] = FALSE]
  /\ UNCHANGED <<mgrVars, socks, m_uniqId, stopped, unreported, orphan, now>>

\* What one negotiation can end with.  Connect, Write and Recv fail for many
\* reasons (timeout, signal, reset).  The own manager answers only while its
\* threads run and can log.
Answers(m) ==
  IF m = "own" /\ (~WorkersRun \/ stuck)
  THEN {"null"} ELSE {"null", "closed", "hello"}

\* Mutant: the hello is written before the new m_uniqId is drawn.
NegotiationWithManagerOldId(p, r) ==
  /\ CanRun(p) /\ st[p] = "hello"
  /\ r \in Answers(ManagerList[Len(socks[p]) + 1])
  /\ m_uniqId' = [m_uniqId EXCEPT ![p] = now + p]
  /\ socks' = [socks EXCEPT ![p] = Append(@,
       CASE r = "null" -> Null [] r = "closed" -> Closed [] r = "hello" -> Hello(m_uniqId[p]))]
  /\ st' = [st EXCEPT ![p] =
       IF Len(socks[p]) + 1 = Len(ManagerList) THEN "threads" ELSE "hello"]
  /\ UNCHANGED <<mgrVars, lockCopy, stopped, unreported, orphan, now>>

\* One round of ConnectToMgr: NegotiationWithManager draws a new m_uniqId.
NegotiationWithManager(p, r) ==
  /\ CanRun(p) /\ st[p] = "hello"
  /\ r \in Answers(ManagerList[Len(socks[p]) + 1])
  /\ m_uniqId' = [m_uniqId EXCEPT ![p] = now + p]
  /\ socks' = [socks EXCEPT ![p] = Append(@,
       CASE r = "null" -> Null [] r = "closed" -> Closed [] r = "hello" -> Hello(now + p))]
  /\ st' = [st EXCEPT ![p] =
       IF Len(socks[p]) + 1 = Len(ManagerList) THEN "threads" ELSE "hello"]
  /\ UNCHANGED <<mgrVars, lockCopy, stopped, unreported, orphan, now>>

\* The acceptor, the receivers and the broadcasters are started.  The results
\* of Spawn are ignored.
SpawnThreads(p) ==
  /\ CanRun(p) /\ st[p] = "threads"
  /\ st' = [st EXCEPT ![p] = "register"]
  /\ UNCHANGED <<mgrVars, lockCopy, socks, m_uniqId, stopped, unreported, orphan, now>>

\* pthread_create fails, and GetThreadID then reads the memory m_ThreadID, 0 by
\* default, points to.  (When it can be read, a thread is missing and
\* SpawnThreads goes on.)
GetThreadIDCrashes(p) ==
  /\ CanRun(p) /\ st[p] = "threads"
  /\ Exit(p)
  /\ UNCHANGED <<mgrVars, now>>

NullSocket(p) == \E i \in 1 .. Len(socks[p]) : socks[p][i] = Null

\* RegisterManager gives each socket to AcceptClient, which reads the
\* descriptor of a NULL.
RegisterManager(p) ==
  /\ CanRun(p) /\ st[p] = "register" /\ ~NullSocket(p)
  /\ st' = [st EXCEPT ![p] = "serving"]
  /\ UNCHANGED <<mgrVars, lockCopy, socks, m_uniqId, stopped, unreported, orphan, now>>

RegisterManagerCrashes(p) ==
  /\ CanRun(p) /\ st[p] = "register" /\ NullSocket(p)
  /\ Exit(p)
  /\ UNCHANGED <<mgrVars, now>>

(***************************************************************************)
(* What happens to a server                                                *)
(***************************************************************************)
\* It is killed or crashes.
Dies(p) ==
  /\ p \in Live
  /\ Exit(p)
  /\ UNCHANGED <<mgrVars, now>>

\* sig_handler runs in a thread of the server that is inside Log.
ServerSignal(p) ==
  /\ CanRun(p) /\ st[p] \in {"hello", "threads", "register", "serving"}
  /\ st' = [st EXCEPT ![p] = "hung"]
  /\ UNCHANGED <<mgrVars, lockCopy, socks, m_uniqId, stopped, unreported, orphan, now>>

Stops(p) ==
  /\ CanRun(p)
  /\ extra + Cardinality(unreported) < MaxExtra
  /\ stopped' = stopped \cup {p}
  /\ unreported' = IF p \in orphan THEN unreported ELSE unreported \cup {p}
  /\ UNCHANGED <<mgrVars, st, lockCopy, socks, m_uniqId, orphan, now>>

\* waitpid has nothing to report of a child that goes on before it is asked.
Continues(p) ==
  /\ p \in stopped
  /\ stopped' = stopped \ {p} /\ unreported' = unreported \ {p}
  /\ UNCHANGED <<mgrVars, st, lockCopy, socks, m_uniqId, orphan, now>>

Tick ==
  /\ now < MaxTime
  /\ now' = now + 1
  /\ UNCHANGED <<mgrVars, srvVars>>

(***************************************************************************)
(* The specification                                                       *)
(***************************************************************************)
MainStep ==
  \/ SpawnProcessFails \/ RunStart \/ LogUnlock
  \/ WatchNothing \/ SpawnChildProcessFails \/ Poll
  \/ \E p \in Pids : \/ SpawnProcess(p) \/ WatchExited(p) \/ WatchStopped(p)
                     \/ SpawnChildProcess(p)

ServerStep(p) ==
  \/ FirstLog(p) \/ SpawnThreads(p) \/ RegisterManager(p) \/ RegisterManagerCrashes(p)
  \/ \E r \in {"null", "closed", "hello"} : NegotiationWithManager(p, r)

Next ==
  \/ Start \/ MainStep \/ LogLock \/ ManagerExits \/ sig_handler \/ Tick
  \/ \E w \in Workers : WorkerLock(w) \/ WorkerUnlock(w)
  \/ \E p \in Pids : \/ ServerStep(p) \/ GetThreadIDCrashes(p) \/ Dies(p) \/ ServerSignal(p)
                     \/ Stops(p) \/ Continues(p)

Spec == Init /\ [][Next]_vars

\* Threads and processes that can run do run; a thread that keeps asking for a
\* mutex that is released again and again gets it.
Fairness ==
  /\ WF_vars(MainStep) /\ SF_vars(LogLock)
  /\ \A w \in Workers : WF_vars(WorkerUnlock(w))
  /\ \A p \in Pids : WF_vars(ServerStep(p))

FairSpec == Spec /\ Fairness

(***************************************************************************)
(* Properties                                                              *)
(***************************************************************************)
TypeOK ==
  /\ mpc \in ManagerStates /\ after \in {"watch", "fork"} /\ left \in 0 .. DN_CNT
  /\ held \in {Main, NoThread} \cup Workers /\ stuck \in BOOLEAN
  /\ st \in [Pids -> ServerStates]
  /\ lockCopy \in [Pids -> BOOLEAN]
  /\ socks \in [Pids -> Seq(Sockets)]
  /\ m_uniqId \in [Pids -> Nat]
  /\ stopped \in SUBSET Pids /\ unreported \in SUBSET Pids /\ orphan \in SUBSET Pids
  /\ now \in 0 .. MaxTime /\ lost \in Nat /\ extra \in Nat

\* Servers WatchChildProcess and SpawnProcess have still to start.
Owed == left + (IF mpc = "fork" \/ (mpc \in {"log", "logging"} /\ after = "fork")
                THEN 1 ELSE 0)

\* The number of children never drifts: every child that waitpid reports is
\* replaced by one, in any order of deaths, stops and restarts, so that the
\* manager has DN_CNT children but for failed forks, those it is about to start
\* and one more for each child that had only stopped (Process.cpp:156).
ServersConserved ==
  mpc # "down" => Cardinality(Mine) + Owed + lost = DN_CNT + extra

\* Servers of two managers never run at the same time: a manager that is
\* started while servers of an earlier one live gives up in Bind and leaves
\* those servers alone (ChatManager.cpp:DoFork).
NoTwoGenerations == (mpc # "down") => orphan = {}

\* A manager sends a server its own messages back when it knows the server by
\* another id than its packets carry, and NegotiationWithManager draws m_uniqId
\* anew for every manager (ChatServer.cpp:180).  That concerns only managers that
\* answered in an earlier second, never the last of the list; and of the managers
\* before such a one none knows the new id either.
OldIdsExplained ==
  \A p \in Pids : \A i \in 1 .. Len(socks[p]) :
    LET s == socks[p][i] IN
    s.peer = "hello" /\ s.id # m_uniqId[p] =>
      /\ s.id < m_uniqId[p] /\ i < Len(socks[p])
      /\ \A j \in 1 .. i : socks[p][j].peer = "hello" => socks[p][j].id # m_uniqId[p]

\* SpawnProcess forks before the manager has threads that log: its servers
\* never inherit a locked m_Lock.  (A restarted one may.)
CleanFirstForks ==
  mpc \in {"spawn", "run"} => held = NoThread /\ \A p \in Pids : ~lockCopy[p]

\* What disturbs the supervision from outside.
Disturb ==
  \/ sig_handler \/ ManagerExits \/ SpawnProcessFails \/ SpawnChildProcessFails
  \/ \E p \in Pids :
       \/ Dies(p) \/ ServerSignal(p) \/ Stops(p) \/ GetThreadIDCrashes(p)
       \/ \E r \in {"null", "closed"} : NegotiationWithManager(p, r)

Recovered ==
  \/ mpc = "down" \/ stuck
  \/ \A p \in Mine : st[p] \in {"serving", "hung"} \/ p \in stopped

\* When nothing dies, stops or fails any more, every server that had died is
\* replaced by one that serves: unless the manager is gone or caught in its
\* signal handler, or the new server inherited a locked m_Lock and hangs.
Recovers == []<><<Disturb>>_vars \/ <>[]Recovered
=============================================================================
