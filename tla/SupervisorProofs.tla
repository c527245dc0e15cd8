-------------------------- MODULE SupervisorProofs --------------------------
(***************************************************************************)
(* Proofs about Supervisor, for any number of processes, workers, servers  *)
(* to start and managers, any clock and any number of stopped children.    *)
(***************************************************************************)
EXTENDS Supervisor, FiniteSetTheorems, TLAPS

(***************************************************************************)
(* The inductive invariant                                                 *)
(***************************************************************************)
SpawnLeft == IF mpc = "spawn" THEN left \in 1 .. DN_CNT ELSE left = 0

\* Only a live process can be an orphan, and without a manager all are.
OrphansLive == orphan \subseteq Live
DownAlone == mpc = "down" => Mine = {}

\* A locked copy of m_Lock is met, or forgotten, at the first Log.
LockCopies == \A p \in Pids : lockCopy[p] => st[p] = "start"

\* The ids under which managers know a server: none is later than m_uniqId, nor
\* m_uniqId than the clock, they follow the list, and that of its last is m_uniqId.
NegotiationOf(p) ==
  /\ socks[p] # <<>> => m_uniqId[p] <= now + p
  /\ \A i \in 1 .. Len(socks[p]) : socks[p][i].peer = "hello" =>
       /\ socks[p][i].id <= m_uniqId[p]
       /\ i = Len(socks[p]) => socks[p][i].id = m_uniqId[p]
       /\ \A j \in 1 .. i : socks[p][j].peer = "hello" => socks[p][j].id <= socks[p][i].id

Negotiations == \A p \in Pids : NegotiationOf(p)

MgrInv == TypeOK /\ SpawnLeft
ProcInv == OrphansLive /\ DownAlone /\ NoTwoGenerations
LockInv == LockCopies /\ CleanFirstForks

USE SupervisorAssumption DEF SupervisorAssumption

(***************************************************************************)
(* Types                                                                   *)
(***************************************************************************)
LEMMA InitMgr == Init => MgrInv
<1> SUFFICES ASSUME Init PROVE MgrInv  OBVIOUS
<1>1. TypeOK
  <2>1. <<>> \in Seq(Sockets)  OBVIOUS
  <2>2. socks \in [Pids -> Seq(Sockets)] /\ m_uniqId \in [Pids -> Nat]
    BY <2>1 DEF Init
  <2>3. st \in [Pids -> ServerStates] /\ lockCopy \in [Pids -> BOOLEAN]
    BY DEF Init, ServerStates
  <2>4. stuck \in BOOLEAN /\ held \in {Main, NoThread} \cup Workers
    BY DEF Init
  <2>5. left \in 0 .. DN_CNT /\ now \in 0 .. MaxTime /\ lost \in Nat /\ extra \in Nat
    BY DEF Init
  <2> QED BY <2>2, <2>3, <2>4, <2>5 DEF Init, TypeOK, ManagerStates
<1>2. SpawnLeft
  BY DEF Init, SpawnLeft
<1> QED BY <1>1, <1>2 DEF MgrInv

LEMMA MainType == MgrInv /\ MainStep => MgrInv'
<1> SUFFICES ASSUME MgrInv, MainStep PROVE MgrInv'  OBVIOUS
<1> USE DEF MgrInv, TypeOK, SpawnLeft, mgrVars, srvVars, ManagerStates, ServerStates
<1>1. CASE SpawnProcessFails  BY <1>1 DEF SpawnProcessFails
<1>2. CASE RunStart  BY <1>2 DEF RunStart
<1>3. CASE LogUnlock  BY <1>3 DEF LogUnlock
<1>4. CASE WatchNothing  BY <1>4 DEF WatchNothing
<1>5. CASE SpawnChildProcessFails  BY <1>5 DEF SpawnChildProcessFails
<1>6. CASE Poll  BY <1>6 DEF Poll
<1>7. ASSUME NEW p \in Pids, SpawnProcess(p) PROVE MgrInv'
  <2>1. left' \in 0 .. DN_CNT /\ (mpc' = "spawn" => left' \in 1 .. DN_CNT)
        /\ (mpc' # "spawn" => left' = 0)
    BY <1>7 DEF SpawnProcess
  <2>2. st' \in [Pids -> ServerStates] /\ lockCopy' \in [Pids -> BOOLEAN]
    BY <1>7 DEF SpawnProcess, Fork
  <2> QED BY <1>7, <2>1, <2>2 DEF SpawnProcess, Fork
<1>8. ASSUME NEW p \in Pids, WatchExited(p) PROVE MgrInv'
  BY <1>8 DEF WatchExited
<1>9. ASSUME NEW p \in Pids, WatchStopped(p) PROVE MgrInv'
  BY <1>9 DEF WatchStopped
<1>10. ASSUME NEW p \in Pids, SpawnChildProcess(p) PROVE MgrInv'
  <2>1. st' \in [Pids -> ServerStates] /\ lockCopy' \in [Pids -> BOOLEAN]
    BY <1>10 DEF SpawnChildProcess, Fork
  <2> QED BY <1>10, <2>1 DEF SpawnChildProcess, Fork
<1> QED BY <1>1, <1>2, <1>3, <1>4, <1>5, <1>6, <1>7, <1>8, <1>9, <1>10 DEF MainStep

\* The steps of the manager that fork nothing, and the clock.
OtherStep ==
  \/ Start \/ LogLock \/ ManagerExits \/ sig_handler \/ Tick
  \/ \E w \in Workers : WorkerLock(w) \/ WorkerUnlock(w)

LEMMA OtherType == MgrInv /\ OtherStep => MgrInv'
<1> SUFFICES ASSUME MgrInv, OtherStep PROVE MgrInv'  OBVIOUS
<1> USE DEF MgrInv, TypeOK, SpawnLeft, mgrVars, srvVars, ManagerStates, ServerStates
<1>1. CASE Start
  <2>1. stuck' \in BOOLEAN  BY <1>1 DEF Start
  <2> QED BY <1>1, <2>1 DEF Start
<1>2. CASE LogLock  BY <1>2 DEF LogLock
<1>3. CASE ManagerExits
  <2>1. stuck' \in BOOLEAN  BY <1>3 DEF ManagerExits
  <2>2. st' \in [Pids -> ServerStates] /\ orphan' \in SUBSET Pids
    BY <1>3 DEF ManagerExits, Live
  <2> QED BY <1>3, <2>1, <2>2 DEF ManagerExits
<1>4. CASE sig_handler  BY <1>4 DEF sig_handler
<1>5. CASE Tick  BY <1>5 DEF Tick
<1>6. ASSUME NEW w \in Workers, WorkerLock(w) PROVE MgrInv'  BY <1>6 DEF WorkerLock
<1>7. ASSUME NEW w \in Workers, WorkerUnlock(w) PROVE MgrInv'  BY <1>7 DEF WorkerUnlock
<1> QED BY <1>1, <1>2, <1>3, <1>4, <1>5, <1>6, <1>7 DEF OtherStep

LEMMA ExitType ==
  ASSUME MgrInv, NEW p \in Pids, Exit(p), UNCHANGED <<mgrVars, now>>
  PROVE  MgrInv'
<1>1. <<>> \in Seq(Sockets)  OBVIOUS
<1>2. st' \in [Pids -> ServerStates] /\ lockCopy' \in [Pids -> BOOLEAN]
  BY DEF MgrInv, TypeOK, Exit, ServerStates
<1>3. socks' \in [Pids -> Seq(Sockets)] /\ m_uniqId' \in [Pids -> Nat]
  BY <1>1 DEF MgrInv, TypeOK, Exit
<1>4. stopped' \in SUBSET Pids /\ unreported' \in SUBSET Pids /\ orphan' \in SUBSET Pids
  BY DEF MgrInv, TypeOK, Exit
<1> QED BY <1>2, <1>3, <1>4 DEF MgrInv, TypeOK, SpawnLeft, mgrVars

LEMMA NegotiationType ==
  ASSUME MgrInv, NEW p \in Pids, NEW r \in {"null", "closed", "hello"},
         NegotiationWithManager(p, r)
  PROVE  MgrInv'
<1> USE DEF MgrInv, TypeOK, NegotiationWithManager
<1>1. now + p \in Nat  OBVIOUS
<1> DEFINE s == CASE r = "null" -> Null [] r = "closed" -> Closed [] r = "hello" -> Hello(now + p)
<1>2. s \in Sockets
  <2>1. CASE r = "null"  BY <2>1 DEF Null, Sockets
  <2>2. CASE r = "closed"  BY <2>2 DEF Closed, Sockets
  <2>3. CASE r = "hello"  BY <1>1, <2>3 DEF Hello, Sockets
  <2> QED BY <2>1, <2>2, <2>3
<1>3. socks' = [socks EXCEPT ![p] = Append(socks[p], s)]  OBVIOUS
<1> HIDE DEF s
<1>4. Append(socks[p], s) \in Seq(Sockets)  BY <1>2
<1>5. socks' \in [Pids -> Seq(Sockets)]  BY <1>3, <1>4
<1>6. st' \in [Pids -> ServerStates] /\ m_uniqId' \in [Pids -> Nat]
  BY <1>1 DEF ServerStates
<1> QED BY <1>5, <1>6 DEF SpawnLeft, mgrVars

\* The steps of server p and what happens to it.
StepOf(p) ==
  \/ ServerStep(p) \/ GetThreadIDCrashes(p) \/ Dies(p) \/ ServerSignal(p)
  \/ Stops(p) \/ Continues(p)

LEMMA ServerType == ASSUME MgrInv, NEW p \in Pids, StepOf(p) PROVE MgrInv'
<1> USE DEF MgrInv, TypeOK, SpawnLeft, mgrVars
<1>1. CASE FirstLog(p)
  <2>1. st' \in [Pids -> ServerStates] /\ lockCopy' \in [Pids -> BOOLEAN]
    BY <1>1 DEF FirstLog, ServerStates
  <2> QED BY <1>1, <2>1 DEF FirstLog
<1>2. CASE SpawnThreads(p)  BY <1>2 DEF SpawnThreads, ServerStates
<1>3. CASE RegisterManager(p)  BY <1>3 DEF RegisterManager, ServerStates
<1>4. CASE RegisterManagerCrashes(p)  BY <1>4, ExitType DEF RegisterManagerCrashes
<1>5. CASE GetThreadIDCrashes(p)  BY <1>5, ExitType DEF GetThreadIDCrashes
<1>6. CASE Dies(p)  BY <1>6, ExitType DEF Dies
<1>7. CASE ServerSignal(p)  BY <1>7 DEF ServerSignal, ServerStates
<1>8. CASE Stops(p)  BY <1>8 DEF Stops
<1>9. CASE Continues(p)  BY <1>9 DEF Continues
<1>10. ASSUME NEW r \in {"null", "closed", "hello"}, NegotiationWithManager(p, r)
       PROVE  MgrInv'
  BY <1>10, NegotiationType
<1> QED BY <1>1, <1>2, <1>3, <1>4, <1>5, <1>6, <1>7, <1>8, <1>9, <1>10
        DEF StepOf, ServerStep

LEMMA NextCases ==
  Next <=> MainStep \/ OtherStep \/ \E p \in Pids : StepOf(p)
BY DEF Next, OtherStep, StepOf

LEMMA StutterMgr == MgrInv /\ UNCHANGED vars => MgrInv'
BY DEF MgrInv, TypeOK, SpawnLeft, vars, mgrVars, srvVars

LEMMA NextMgr == MgrInv /\ [Next]_vars => MgrInv'
BY MainType, OtherType, ServerType, NextCases, StutterMgr

\* Every variable keeps its type: the processes, sockets and lock holders of
\* Supervisor stay the ones its handlers can produce, and SpawnProcess never
\* counts below zero.
THEOREM TypeCorrect == Spec => []TypeOK
<1>1. MgrInv => TypeOK  BY DEF MgrInv
<1> QED BY InitMgr, NextMgr, <1>1, PTL DEF Spec

(***************************************************************************)
(* The three ways a step of a server changes the set of processes          *)
(***************************************************************************)
Moves(p) ==
  /\ p \in Live
  /\ \E s \in ServerStates \ {"none", "zombie"} : st' = [st EXCEPT ![p] = s]
  /\ UNCHANGED <<orphan, mgrVars>>

Ends(p) == p \in Live /\ Exit(p) /\ UNCHANGED mgrVars

LEMMA ServerShape ==
  ASSUME TypeOK, NEW p \in Pids, StepOf(p)
  PROVE  Moves(p) \/ Ends(p) \/ UNCHANGED <<st, orphan, mgrVars>>
<1> USE DEF CanRun, Moves, Ends, ServerStates
<1>1. CASE FirstLog(p)  BY <1>1 DEF FirstLog
<1>2. CASE SpawnThreads(p)  BY <1>2 DEF SpawnThreads
<1>3. CASE RegisterManager(p)  BY <1>3 DEF RegisterManager
<1>4. CASE RegisterManagerCrashes(p)  BY <1>4 DEF RegisterManagerCrashes
<1>5. CASE GetThreadIDCrashes(p)  BY <1>5 DEF GetThreadIDCrashes
<1>6. CASE Dies(p)  BY <1>6 DEF Dies
<1>7. CASE ServerSignal(p)  BY <1>7 DEF ServerSignal
<1>8. CASE Stops(p)  BY <1>8 DEF Stops
<1>9. CASE Continues(p)  BY <1>9 DEF Continues
<1>10. ASSUME NEW r \in {"null", "closed", "hello"}, NegotiationWithManager(p, r)
       PROVE  Moves(p)
  BY <1>10 DEF NegotiationWithManager
<1> QED BY <1>1, <1>2, <1>3, <1>4, <1>5, <1>6, <1>7, <1>8, <1>9, <1>10
        DEF StepOf, ServerStep

(***************************************************************************)
(* Generations of servers                                                  *)
(***************************************************************************)
LEMMA ServerProc ==
  ASSUME TypeOK, ProcInv, NEW p \in Pids, StepOf(p)
  PROVE  ProcInv' /\ Mine' = Mine
<1> USE DEF ProcInv, OrphansLive, DownAlone, NoTwoGenerations, Live, Mine, mgrVars
<1>1. CASE Moves(p)
  <2>1. PICK s \in ServerStates \ {"none", "zombie"} : st' = [st EXCEPT ![p] = s]
    BY <1>1 DEF Moves
  <2>2. Mine' = Mine /\ Live' = Live  BY <1>1, <2>1 DEF Moves, TypeOK, ServerStates
  <2> QED BY <1>1, <2>2 DEF Moves
<1>2. CASE Ends(p)
  <2>1. orphan' = orphan \ {p} /\ mpc' = mpc  BY <1>2 DEF Ends, Exit
  <2>2. \A q \in Pids : q # p => st'[q] = st[q]  BY <1>2 DEF Ends, Exit, TypeOK
  <2>3. st'[p] = IF p \in orphan THEN "none" ELSE "zombie"
    BY <1>2 DEF Ends, Exit, TypeOK
  <2>4. st[p] # "none"  BY <1>2 DEF Ends
  <2>5. Mine' = Mine  BY <2>1, <2>2, <2>3, <2>4
  <2> QED BY <2>1, <2>2, <2>5
<1>3. CASE UNCHANGED <<st, orphan, mgrVars>>  BY <1>3
<1> QED BY <1>1, <1>2, <1>3, ServerShape

\* Fork adds one child and no orphan.
LEMMA ForkProc ==
  ASSUME TypeOK, orphan = {}, NEW p \in Pids, Fork(p)
  PROVE  orphan' = {} /\ p \notin Mine /\ Mine' = Mine \cup {p}
BY DEF Fork, TypeOK, Mine

LEMMA MainProc == TypeOK /\ ProcInv /\ MainStep => ProcInv'
<1> SUFFICES ASSUME TypeOK, ProcInv, MainStep PROVE ProcInv'  OBVIOUS
<1>1. mpc # "down" /\ mpc' # "down" /\ orphan = {} /\ orphan' = {}
  BY DEF MainStep, SpawnProcessFails, RunStart, LogUnlock, WatchNothing,
         SpawnChildProcessFails, Poll, SpawnProcess, WatchExited, WatchStopped,
         SpawnChildProcess, Fork, srvVars, ProcInv, NoTwoGenerations, TypeOK
<1> QED BY <1>1 DEF ProcInv, OrphansLive, DownAlone, NoTwoGenerations

LEMMA OtherProc == TypeOK /\ ProcInv /\ OtherStep => ProcInv'
<1> SUFFICES ASSUME TypeOK, ProcInv, OtherStep PROVE ProcInv'  OBVIOUS
<1> USE DEF ProcInv, OrphansLive, DownAlone, NoTwoGenerations, Live, Mine,
            mgrVars, srvVars
<1>1. CASE Start  BY <1>1 DEF Start, Bind
<1>2. CASE LogLock  BY <1>2 DEF LogLock
<1>3. CASE ManagerExits
  <2>1. mpc' = "down" /\ orphan' = Live  BY <1>3 DEF ManagerExits
  <2>2. \A q \in Pids : st'[q] = IF st[q] = "zombie" THEN "none" ELSE st[q]
    BY <1>3 DEF ManagerExits
  <2>3. Live' = Live  BY <2>2
  <2>4. Mine' = {}  BY <2>1, <2>2
  <2> QED BY <2>1, <2>3, <2>4
<1>4. CASE sig_handler  BY <1>4 DEF sig_handler
<1>5. CASE Tick  BY <1>5 DEF Tick
<1>6. ASSUME NEW w \in Workers, WorkerLock(w) PROVE ProcInv'  BY <1>6 DEF WorkerLock
<1>7. ASSUME NEW w \in Workers, WorkerUnlock(w) PROVE ProcInv'  BY <1>7 DEF WorkerUnlock
<1> QED BY <1>1, <1>2, <1>3, <1>4, <1>5, <1>6, <1>7 DEF OtherStep

LEMMA InitProc == Init => ProcInv
BY DEF Init, ProcInv, OrphansLive, DownAlone, NoTwoGenerations, Live, Mine

LEMMA StutterProc == ProcInv /\ UNCHANGED vars => ProcInv'
BY DEF ProcInv, OrphansLive, DownAlone, NoTwoGenerations, Live, Mine,
       vars, mgrVars, srvVars

LEMMA NextProc == TypeOK /\ ProcInv /\ [Next]_vars => ProcInv'
BY MainProc, OtherProc, ServerProc, StutterProc, NextCases

\* A manager that runs is the parent of every server there is: Bind keeps a
\* second manager out for as long as a server of the first one holds the port
\* it inherited.
THEOREM OneGeneration == Spec => []NoTwoGenerations
<1>1. ProcInv => NoTwoGenerations  BY DEF ProcInv
<1> QED BY TypeCorrect, InitProc, NextProc, <1>1, PTL DEF Spec

(***************************************************************************)
(* Copies of a locked m_Lock                                               *)
(***************************************************************************)
\* A step of a server never locks a copy, and moves a server on from its first
\* Log only with the copy unlocked.
LEMMA ServerLock ==
  ASSUME TypeOK, LockInv, NEW p \in Pids, StepOf(p)
  PROVE  LockInv'
<1> USE DEF LockInv, LockCopies, CleanFirstForks, TypeOK, mgrVars
<1>1. mpc' = mpc /\ held' = held
  BY ServerShape DEF Moves, Ends
<1>2. ASSUME NEW q \in Pids, lockCopy'[q]
      PROVE  lockCopy[q] /\ st'[q] = st[q]
  <2>1. CASE Exit(p)  BY <1>2, <2>1 DEF Exit
  <2>2. CASE FirstLog(p)  BY <1>2, <2>2 DEF FirstLog
  <2>3. CASE UNCHANGED <<st, lockCopy>>  BY <1>2, <2>3
  <2>4. CASE UNCHANGED lockCopy /\ st[p] # "start" /\ \A x \in Pids \ {p} : st'[x] = st[x]
    BY <1>2, <2>4
  <2> QED BY <2>1, <2>2, <2>3, <2>4
          DEF StepOf, ServerStep, SpawnThreads, RegisterManager, RegisterManagerCrashes,
              GetThreadIDCrashes, Dies, ServerSignal, Stops, Continues,
              NegotiationWithManager
<1> QED BY <1>1, <1>2

LEMMA MainLock == TypeOK /\ LockInv /\ MainStep => LockInv'
<1> SUFFICES ASSUME TypeOK, LockInv, MainStep PROVE LockInv'  OBVIOUS
<1> USE DEF LockInv, LockCopies, CleanFirstForks, TypeOK, srvVars
<1>1. CASE SpawnProcessFails  BY <1>1 DEF SpawnProcessFails
<1>2. CASE RunStart  BY <1>2 DEF RunStart
<1>3. CASE LogUnlock  BY <1>3 DEF LogUnlock
<1>4. CASE WatchNothing  BY <1>4 DEF WatchNothing
<1>5. CASE SpawnChildProcessFails  BY <1>5 DEF SpawnChildProcessFails
<1>6. CASE Poll  BY <1>6 DEF Poll
<1>7. ASSUME NEW p \in Pids, SpawnProcess(p) PROVE LockInv'
  <2>1. \A q \in Pids : ~lockCopy'[q]  BY <1>7 DEF SpawnProcess, Fork
  <2> QED BY <1>7, <2>1 DEF SpawnProcess
<1>8. ASSUME NEW p \in Pids, WatchExited(p) PROVE LockInv'
  BY <1>8 DEF WatchExited, Zombies, Mine
<1>9. ASSUME NEW p \in Pids, WatchStopped(p) PROVE LockInv'  BY <1>9 DEF WatchStopped
<1>10. ASSUME NEW p \in Pids, SpawnChildProcess(p) PROVE LockInv'
  BY <1>10 DEF SpawnChildProcess, Fork
<1> QED BY <1>1, <1>2, <1>3, <1>4, <1>5, <1>6, <1>7, <1>8, <1>9, <1>10 DEF MainStep

LEMMA OtherLock == TypeOK /\ LockInv /\ OtherStep => LockInv'
<1> SUFFICES ASSUME TypeOK, LockInv, OtherStep PROVE LockInv'  OBVIOUS
<1> USE DEF LockInv, LockCopies, CleanFirstForks, mgrVars, srvVars
<1>1. CASE Start
  <2>1. \A p \in Pids : ~lockCopy[p]  BY <1>1 DEF Start, Bind, Live
  <2> QED BY <1>1, <2>1 DEF Start
<1>2. CASE LogLock  BY <1>2 DEF LogLock
<1>3. CASE ManagerExits  BY <1>3 DEF ManagerExits
<1>4. CASE sig_handler  BY <1>4 DEF sig_handler
<1>5. CASE Tick  BY <1>5 DEF Tick
<1>6. ASSUME NEW w \in Workers, WorkerLock(w) PROVE LockInv'
  BY <1>6 DEF WorkerLock, WorkersRun
<1>7. ASSUME NEW w \in Workers, WorkerUnlock(w) PROVE LockInv'  BY <1>7 DEF WorkerUnlock
<1> QED BY <1>1, <1>2, <1>3, <1>4, <1>5, <1>6, <1>7 DEF OtherStep

LEMMA InitLock == Init => LockInv
BY DEF Init, LockInv, LockCopies, CleanFirstForks

LEMMA StutterLock == LockInv /\ UNCHANGED vars => LockInv'
BY DEF LockInv, LockCopies, CleanFirstForks, vars, mgrVars, srvVars

LEMMA NextLock == TypeOK /\ LockInv /\ [Next]_vars => LockInv'
BY MainLock, OtherLock, ServerLock, StutterLock, NextCases

\* No server that SpawnProcess forks can hang at its first Log: the manager has
\* no thread yet that could be inside CNPLog::Log at the fork.
THEOREM FirstForksClean == Spec => []CleanFirstForks
<1>1. LockInv => CleanFirstForks  BY DEF LockInv
<1> QED BY TypeCorrect, InitLock, NextLock, <1>1, PTL DEF Spec

(***************************************************************************)
(* Negotiations                                                            *)
(***************************************************************************)
\* What another step leaves of a server's negotiation.
LEMMA NegotiationKept ==
  ASSUME TypeOK, TypeOK', NEW q \in Pids, NegotiationOf(q),
         socks'[q] = socks[q], m_uniqId'[q] = m_uniqId[q], now <= now'
  PROVE  NegotiationOf(q)'
<1>1. m_uniqId[q] \in Nat /\ now \in Nat /\ now' \in Nat /\ q \in Nat
  BY DEF TypeOK
<1>2. m_uniqId[q] <= now + q => m_uniqId[q] <= now' + q
  BY <1>1
<1> QED BY <1>2 DEF NegotiationOf

LEMMA NegotiationEmpty ==
  ASSUME NEW q \in Pids, socks'[q] = <<>>
  PROVE  NegotiationOf(q)'
BY DEF NegotiationOf

LEMMA SocketIds ==
  ASSUME NEW list \in Seq(Sockets)
  PROVE  \A i \in 1 .. Len(list) : list[i].id \in Nat
<1>1. \A i \in 1 .. Len(list) : list[i] \in Sockets
  OBVIOUS
<1>2. \A k \in Sockets : k.id \in Nat
  BY DEF Sockets
<1> QED BY <1>1, <1>2

\* One more manager: its id is the new m_uniqId, which no earlier one exceeds.
LEMMA NegotiationStep ==
  ASSUME TypeOK, NEW p \in Pids, NegotiationOf(p), NEW r \in {"null", "closed", "hello"},
         NegotiationWithManager(p, r)
  PROVE  NegotiationOf(p)'
<1> DEFINE s == CASE r = "null" -> Null [] r = "closed" -> Closed [] r = "hello" -> Hello(now + p)
<1>1. PICK n, m, id : n = Len(socks[p]) /\ m = m_uniqId[p] /\ id = now + p
  OBVIOUS
<1>2. n \in Nat /\ m \in Nat /\ id \in Nat /\ socks[p] \in Seq(Sockets)
  BY <1>1 DEF TypeOK
<1>3. s \in Sockets /\ (s.peer = "hello" => s.id = id)
  BY <1>1, <1>2 DEF Null, Closed, Hello, Sockets
<1>4. socks'[p] = Append(socks[p], s) /\ m_uniqId'[p] = id /\ now' = now
  BY <1>1 DEF NegotiationWithManager, TypeOK
<1> HIDE DEF s
<1>5. PICK t : t = socks'[p]
  OBVIOUS
<1>6. Len(t) = n + 1 /\ t[n + 1] = s /\ \A i \in 1 .. n : t[i] = socks[p][i]
  BY <1>1, <1>2, <1>3, <1>4, <1>5
<1>7. \A i \in 1 .. n : socks[p][i].id \in Nat
  BY <1>1, <1>2, SocketIds
<1>8. \A i \in 1 .. n : t[i].peer = "hello" => t[i].id <= id
  <2>1. SUFFICES ASSUME NEW i \in 1 .. n, socks[p][i].peer = "hello" PROVE socks[p][i].id <= id
    BY <1>6
  <2>2. socks[p] # <<>>
    BY <1>1, <1>2, <2>1
  <2>3. m <= id /\ socks[p][i].id <= m
    BY <1>1, <2>1, <2>2 DEF NegotiationOf
  <2> QED BY <1>2, <1>7, <2>3
<1>9. ASSUME NEW i \in 1 .. n + 1, t[i].peer = "hello"
      PROVE  /\ t[i].id <= id /\ (i = n + 1 => t[i].id = id)
             /\ \A j \in 1 .. i : t[j].peer = "hello" => t[j].id <= t[i].id
  <2>1. CASE i = n + 1
    <3>1. t[i].id = id
      BY <1>3, <1>6, <1>9, <2>1
    <3>2. \A j \in 1 .. i : j \in 1 .. n \/ j = n + 1
      BY <1>2, <2>1
    <3> QED BY <1>2, <1>8, <2>1, <3>1, <3>2
  <2>2. CASE i \in 1 .. n
    <3>1. i # n + 1 /\ \A j \in 1 .. i : j \in 1 .. n
      BY <1>2, <2>2
    <3>2. \A j \in 1 .. i : socks[p][j].peer = "hello" => socks[p][j].id <= socks[p][i].id
      BY <1>1, <1>6, <1>9, <2>2 DEF NegotiationOf
    <3> QED BY <1>6, <1>8, <1>9, <2>2, <3>1, <3>2
  <2> QED BY <1>2, <2>1, <2>2
<1> QED BY <1>1, <1>2, <1>4, <1>5, <1>6, <1>9 DEF NegotiationOf

LEMMA ServerNegotiations ==
  ASSUME TypeOK, TypeOK', Negotiations, NEW p \in Pids, StepOf(p)
  PROVE  Negotiations'
<1> SUFFICES ASSUME NEW q \in Pids PROVE NegotiationOf(q)'  BY DEF Negotiations
<1>0. NegotiationOf(q) /\ NegotiationOf(p) /\ now \in Nat  BY DEF Negotiations, TypeOK
<1>1. CASE Exit(p) /\ now' = now
  <2>1. socks'[q] = IF q = p THEN <<>> ELSE socks[q]
    BY <1>1 DEF Exit, TypeOK
  <2>2. q # p => m_uniqId'[q] = m_uniqId[q]
    BY <1>1 DEF Exit, TypeOK
  <2>3. CASE q = p
    <3>1. socks'[q] = <<>>
      BY <2>1, <2>3
    <3> QED BY <3>1, NegotiationEmpty
  <2>4. CASE q # p
    <3>1. socks'[q] = socks[q] /\ m_uniqId'[q] = m_uniqId[q] /\ now <= now'
      BY <1>0, <1>1, <2>1, <2>2, <2>4
    <3> QED BY <1>0, <3>1, NegotiationKept
  <2> QED BY <2>3, <2>4
<1>2. CASE socks' = socks /\ m_uniqId' = m_uniqId /\ now' = now
  BY <1>0, <1>2, NegotiationKept
<1>3. ASSUME NEW r \in {"null", "closed", "hello"}, NegotiationWithManager(p, r)
      PROVE  NegotiationOf(q)'
  <2>1. CASE q = p  BY <1>0, <1>3, <2>1, NegotiationStep
  <2>2. CASE q # p
    <3>1. socks'[q] = socks[q] /\ m_uniqId'[q] = m_uniqId[q] /\ now' = now
      BY <1>3, <2>2 DEF NegotiationWithManager, TypeOK
    <3> QED BY <1>0, <3>1, NegotiationKept
  <2> QED BY <2>1, <2>2
<1> QED BY <1>1, <1>2, <1>3
        DEF StepOf, ServerStep, RegisterManagerCrashes, GetThreadIDCrashes, Dies, FirstLog,
            SpawnThreads, RegisterManager, ServerSignal, Stops, Continues

\* The manager's own steps leave the negotiations alone, and the clock goes on.
LEMMA ManagerNegotiations ==
  ASSUME TypeOK, TypeOK', Negotiations, MainStep \/ OtherStep
  PROVE  Negotiations'
<1> SUFFICES ASSUME NEW q \in Pids PROVE NegotiationOf(q)'  BY DEF Negotiations
<1>0. NegotiationOf(q)  BY DEF Negotiations
<1>1. socks' = socks /\ m_uniqId' = m_uniqId /\ now <= now'
  BY DEF MainStep, SpawnProcessFails, RunStart, LogUnlock, WatchNothing,
         SpawnChildProcessFails, Poll, SpawnProcess, WatchExited, WatchStopped,
         SpawnChildProcess, Fork, OtherStep, Start, LogLock, ManagerExits, sig_handler,
         Tick, WorkerLock, WorkerUnlock, srvVars, TypeOK
<1> QED BY <1>0, <1>1, NegotiationKept

LEMMA NextNegotiations == TypeOK /\ TypeOK' /\ Negotiations /\ [Next]_vars => Negotiations'
<1>1. TypeOK /\ TypeOK' /\ Negotiations /\ UNCHANGED vars => Negotiations'
  <2>1. UNCHANGED vars => socks' = socks /\ m_uniqId' = m_uniqId /\ now' = now
    BY DEF vars, srvVars
  <2>2. TypeOK => now <= now
    BY DEF TypeOK
  <2> QED BY <2>1, <2>2, NegotiationKept DEF Negotiations
<1> QED BY <1>1, ServerNegotiations, ManagerNegotiations, NextCases

\* The managers that send a server its own messages back, because they know it by
\* an id that NegotiationWithManager has drawn anew since, answered in an earlier
\* second and stand before all that know the present one; the last of the list is
\* never among them (ChatServer.cpp:180).
THEOREM OldIdsAlwaysExplained == Spec => []OldIdsExplained
<1>1. Init => Negotiations
  BY DEF Init, Negotiations, NegotiationOf
<1>2. TypeOK /\ Negotiations => OldIdsExplained
  <2>1. SUFFICES ASSUME TypeOK, Negotiations, NEW p \in Pids, NEW i \in 1 .. Len(socks[p]),
                        socks[p][i].peer = "hello", socks[p][i].id # m_uniqId[p]
                 PROVE  /\ socks[p][i].id < m_uniqId[p] /\ i < Len(socks[p])
                        /\ \A j \in 1 .. i : socks[p][j].peer = "hello" => socks[p][j].id # m_uniqId[p]
    BY DEF OldIdsExplained
  <2>2. NegotiationOf(p) /\ m_uniqId[p] \in Nat /\ socks[p] \in Seq(Sockets)
    BY <2>1 DEF Negotiations, TypeOK
  <2>3. Len(socks[p]) \in Nat /\ \A j \in 1 .. Len(socks[p]) : socks[p][j].id \in Nat
    BY <2>2, SocketIds
  <2>4. socks[p][i].id < m_uniqId[p] /\ i < Len(socks[p])
    BY <2>1, <2>2, <2>3 DEF NegotiationOf
  <2>5. ASSUME NEW j \in 1 .. i, socks[p][j].peer = "hello" PROVE socks[p][j].id # m_uniqId[p]
    <3>1. socks[p][j].id <= socks[p][i].id /\ j \in 1 .. Len(socks[p])
      BY <2>1, <2>2, <2>3, <2>5 DEF NegotiationOf
    <3> QED BY <2>1, <2>2, <2>3, <2>4, <3>1
  <2> QED BY <2>4, <2>5
<1> QED BY TypeCorrect, <1>1, <1>2, NextNegotiations, PTL DEF Spec

(***************************************************************************)
(* The number of children                                                  *)
(***************************************************************************)
LEMMA MineFinite == IsFiniteSet(Mine) /\ Cardinality(Mine) \in Nat
<1>1. Mine \subseteq Pids  BY DEF Mine
<1>2. IsFiniteSet(Mine)  BY <1>1, FS_Subset
<1> QED BY <1>2, FS_CardinalityType

LEMMA ForkCount ==
  ASSUME TypeOK, orphan = {}, NEW p \in Pids, Fork(p)
  PROVE  Cardinality(Mine') = Cardinality(Mine) + 1
BY ForkProc, MineFinite, FS_AddElement

LEMMA ReapCount ==
  ASSUME TypeOK, NEW p \in Pids, WatchExited(p)
  PROVE  Cardinality(Mine') = Cardinality(Mine) - 1
<1>1. p \in Mine /\ Mine' = Mine \ {p}
  BY DEF WatchExited, Zombies, Mine, TypeOK
<1> QED BY <1>1, MineFinite, FS_RemoveElement

LEMMA MainCount == MgrInv /\ ProcInv /\ ServersConserved /\ MainStep => ServersConserved'
<1> SUFFICES ASSUME MgrInv, ProcInv, ServersConserved, MainStep PROVE ServersConserved'
  OBVIOUS
<1>1. mpc # "down" /\ orphan = {}
  BY DEF MainStep, SpawnProcessFails, RunStart, LogUnlock, WatchNothing,
         SpawnChildProcessFails, Poll, SpawnProcess, WatchExited, WatchStopped,
         SpawnChildProcess, ProcInv, NoTwoGenerations
<1>2. Cardinality(Mine) + Owed + lost = DN_CNT + extra
  BY <1>1 DEF ServersConserved
<1>3. TypeOK /\ Cardinality(Mine) \in Nat /\ lost \in Nat /\ extra \in Nat /\ left \in Nat
  BY MineFinite DEF MgrInv, TypeOK
<1> SUFFICES Cardinality(Mine') + Owed' + lost' = DN_CNT + extra'  BY DEF ServersConserved
<1> USE DEF Owed, MgrInv, SpawnLeft
<1>4. ASSUME UNCHANGED srvVars PROVE Mine' = Mine
  BY <1>4 DEF srvVars, Mine
<1>5. CASE SpawnProcessFails
  BY <1>2, <1>3, <1>4, <1>5 DEF SpawnProcessFails
<1>6. CASE RunStart  BY <1>2, <1>3, <1>4, <1>6 DEF RunStart
<1>7. CASE LogUnlock  BY <1>2, <1>3, <1>4, <1>7 DEF LogUnlock, TypeOK
<1>8. CASE WatchNothing  BY <1>2, <1>3, <1>4, <1>8 DEF WatchNothing
<1>9. CASE SpawnChildProcessFails  BY <1>2, <1>3, <1>4, <1>9 DEF SpawnChildProcessFails
<1>10. CASE Poll  BY <1>2, <1>3, <1>4, <1>10 DEF Poll
<1>11. ASSUME NEW p \in Pids, SpawnProcess(p)
       PROVE  Cardinality(Mine') + Owed' + lost' = DN_CNT + extra'
  <2>1. Cardinality(Mine') = Cardinality(Mine) + 1
    BY <1>1, <1>3, <1>11, ForkCount DEF SpawnProcess
  <2> QED BY <1>2, <1>3, <1>11, <2>1 DEF SpawnProcess
<1>12. ASSUME NEW p \in Pids, WatchExited(p)
       PROVE  Cardinality(Mine') + Owed' + lost' = DN_CNT + extra'
  <2>1. Cardinality(Mine') = Cardinality(Mine) - 1  BY <1>3, <1>12, ReapCount
  <2> QED BY <1>2, <1>3, <1>12, <2>1 DEF WatchExited
<1>13. ASSUME NEW p \in Pids, WatchStopped(p)
       PROVE  Cardinality(Mine') + Owed' + lost' = DN_CNT + extra'
  <2>1. Mine' = Mine  BY <1>13 DEF WatchStopped, Mine
  <2> QED BY <1>2, <1>3, <1>13, <2>1 DEF WatchStopped
<1>14. ASSUME NEW p \in Pids, SpawnChildProcess(p)
       PROVE  Cardinality(Mine') + Owed' + lost' = DN_CNT + extra'
  <2>1. Cardinality(Mine') = Cardinality(Mine) + 1
    BY <1>1, <1>3, <1>14, ForkCount DEF SpawnChildProcess
  <2> QED BY <1>2, <1>3, <1>14, <2>1 DEF SpawnChildProcess
<1> QED BY <1>5, <1>6, <1>7, <1>8, <1>9, <1>10, <1>11, <1>12, <1>13, <1>14 DEF MainStep

LEMMA OtherCount == MgrInv /\ ProcInv /\ ServersConserved /\ OtherStep => ServersConserved'
<1> SUFFICES ASSUME MgrInv, ProcInv, ServersConserved, OtherStep PROVE ServersConserved'
  OBVIOUS
<1>1. CASE Start
  <2>1. Mine' = {}  BY <1>1 DEF Start, srvVars, Mine, ProcInv, DownAlone
  <2>2. Cardinality(Mine') = 0  BY <2>1, FS_EmptySet
  <2> QED BY <1>1, <2>2 DEF Start, ServersConserved, Owed
<1>2. CASE ManagerExits  BY <1>2 DEF ManagerExits, ServersConserved
<1>3. CASE LogLock \/ sig_handler \/ Tick \/ \E w \in Workers : WorkerLock(w) \/ WorkerUnlock(w)
  <2>1. Mine' = Mine
    BY <1>3 DEF LogLock, sig_handler, Tick, WorkerLock, WorkerUnlock, srvVars, Mine
  <2>2. (mpc = "down" => mpc' = "down") /\ Owed' = Owed /\ lost' = lost /\ extra' = extra
    BY <1>3 DEF LogLock, sig_handler, Tick, WorkerLock, WorkerUnlock, mgrVars, Owed
  <2> QED BY <1>3, <2>1, <2>2 DEF LogLock, sig_handler, Tick, WorkerLock, WorkerUnlock, mgrVars, ServersConserved
<1> QED BY <1>1, <1>2, <1>3 DEF OtherStep

LEMMA ServerCount ==
  ASSUME TypeOK, ProcInv, ServersConserved, NEW p \in Pids, StepOf(p)
  PROVE  ServersConserved'
<1>1. Mine' = Mine  BY ServerProc
<1>2. UNCHANGED mgrVars  BY ServerShape DEF Moves, Ends, mgrVars
<1> QED BY <1>1, <1>2 DEF mgrVars, ServersConserved, Owed

LEMMA NextCount ==
  MgrInv /\ ProcInv /\ ServersConserved /\ [Next]_vars => ServersConserved'
<1>1. ServersConserved /\ UNCHANGED vars => ServersConserved'
  BY DEF ServersConserved, Owed, Mine, vars, mgrVars, srvVars
<1> QED BY <1>1, MainCount, OtherCount, ServerCount, NextCases DEF MgrInv

\* However servers die, stop and are started again, the manager has DN_CNT of
\* them but for failed forks, the ones WatchChildProcess or SpawnProcess is about
\* to start, and one more for each child that had only stopped.
THEOREM ServersCounted == Spec => []ServersConserved
<1>1. Init => ServersConserved  BY DEF Init, ServersConserved
<1>2. MgrInv => TypeOK  BY DEF MgrInv
<1> QED BY InitMgr, NextMgr, InitProc, NextProc, NextCount, <1>1, <1>2, PTL DEF Spec
=============================================================================
