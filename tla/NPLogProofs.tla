----------------------------- MODULE NPLogProofs ----------------------------
(***************************************************************************)
(* Proofs about NPLog, for every size limit, length of a month and bound:  *)
(* which steps may lose a line, and that the backups are in order.         *)
(***************************************************************************)
EXTENDS NPLog, FiniteSetTheorems, TLAPS

USE LogAssumption DEF LogAssumption

Moving == {"backup", "count", "move", "open"}

\* The descriptor: closed during BackupLogFile, open when Log goes on, never on
\* a file that has been moved; and what was moved is not there any more.
FdInv ==
  /\ pc \in Moving => m_iLogFd = "none"
  /\ pc = "check" => m_iLogFd # "none"
  /\ m_iLogFd = "log" => log # NoFile
  /\ pc \in {"open", "reopen"} /\ moved /\ m_iLogFd = "none" => log = NoFile

\* Log has taken the number no and not written it yet.
InLog == pc \in {"check", "reopen", "write"} \/ (pc \in Moving /\ caller = "syslog_date_ch")

\* Lines are numbered as they are written: the one in hand is the latest.
Past(x) == x <= no /\ (InLog => x < no)
LineInv ==
  /\ InLog => no \in Lines
  /\ \A b \in backups : \A x \in b.lines : Past(x)
  /\ log # NoFile => \A x \in log : Past(x)

\* The backups of a day are numbered below their count, so that the count is a
\* new number; no backup is dated after the day BackupLogFile works with.
Dated(d) == {b \in backups : b.name.date = d}
DateInv ==
  /\ IsFiniteSet(backups)
  /\ \A b \in backups : b.name.date <= day
  /\ pc \in {"count", "move"} =>
       name.date <= day /\ \A b \in backups : b.name.date <= name.date
NumberInv ==
  ~gaps => /\ \A b \in backups : b.name.n < Cardinality(Dated(b.name.date))
           /\ pc = "move" => name.n = Cardinality(Dated(name.date))

LogInv == TypeOK /\ FdInv /\ LineInv /\ DateInv /\ NumberInv /\ InOrder

(***************************************************************************)
(* Files                                                                   *)
(***************************************************************************)
\* The count of the files of a day is a number.
LEMMA CountType ==
  ASSUME DateInv, NEW d
  PROVE  IsFiniteSet(Dated(d)) /\ Cardinality(Dated(d)) \in Nat
<1>1. Dated(d) \subseteq backups  BY DEF Dated
<1> QED BY <1>1, FS_Subset, FS_CardinalityType DEF DateInv

\* FileSize is negative exactly when there is no file.
LEMMA FileSizeMissing ==
  ASSUME TypeOK
  PROVE  FileSize < 0 <=> log = NoFile
<1>1. CASE log = NoFile  BY <1>1 DEF FileSize
<1>2. CASE log # NoFile
  <2>1. IsFiniteSet(Lines)  BY FS_Interval DEF Lines
  <2>2. Cardinality(log) \in Nat
    BY <1>2, <2>1, FS_Subset, FS_CardinalityType DEF TypeOK
  <2> QED BY <1>2, <2>2 DEF FileSize
<1> QED BY <1>1, <1>2

\* The empty file is not NoFile.
LEMMA EmptyFile == {} # NoFile /\ {} \subseteq Lines
BY DEF Lines

\* Without gaps the number in renfname is new: rename replaces no backup.
LEMMA NewName ==
  ASSUME LogInv, ~gaps, pc = "move"
  PROVE  /\ {b \in backups : b.name # name} = backups
         /\ \A b \in backups : ~EarlierName(name, b.name)
<1>1. \A b \in backups : /\ b.name \in Names /\ b.name.date <= name.date
                         /\ b.name.date = name.date => b.name.n < name.n
  BY DEF LogInv, TypeOK, DateInv, NumberInv
<1>2. name \in Names  BY DEF LogInv, TypeOK
<1> QED BY <1>1, <1>2 DEF EarlierName, Names

(***************************************************************************)
(* Each part of the invariant depends on a few variables only              *)
(***************************************************************************)
LEMMA Frame ==
  /\ LineInv /\ UNCHANGED <<log, backups, no>> /\ (InLog' => InLog) => LineInv'
  /\ DateInv /\ UNCHANGED <<backups, day, name>> /\ (pc' \in {"count", "move"} => pc' = pc)
       => DateInv'
  /\ NumberInv /\ UNCHANGED <<backups, gaps, name>> /\ (pc' = "move" => pc = "move") => NumberInv'
  /\ InOrder /\ UNCHANGED <<log, backups, gaps>> => InOrder'
<1>1. LineInv /\ UNCHANGED <<log, backups, no>> /\ (InLog' => InLog) => LineInv'
  BY DEF LineInv, Past
<1>2. DateInv /\ UNCHANGED <<backups, day, name>> /\ (pc' \in {"count", "move"} => pc' = pc)
       => DateInv'
  BY DEF DateInv
<1>3. NumberInv /\ UNCHANGED <<backups, gaps, name>> /\ (pc' = "move" => pc = "move") => NumberInv'
  BY DEF NumberInv, Dated
<1>4. InOrder /\ UNCHANGED <<log, backups, gaps>> => InOrder'
  BY DEF InOrder, EarlierName
<1> QED BY <1>1, <1>2, <1>3, <1>4

\* The log is emptied or goes away: nothing is out of order.
LEMMA LogGone ==
  ASSUME LogInv, log' = {} \/ log' = NoFile \/ log' = log, UNCHANGED <<backups, no, gaps>>,
         InLog' => InLog
  PROVE  LineInv' /\ InOrder'
<1>1. LineInv'  BY DEF LogInv, LineInv, Past
<1>2. InOrder'  BY DEF LogInv, InOrder, EarlierName
<1> QED BY <1>1, <1>2

(***************************************************************************)
(* The steps of BackupLogFile and OpenFd                                   *)
(***************************************************************************)
LEMMA BackupLogFileDirInv == LogInv /\ BackupLogFileDir => LogInv'
<1> SUFFICES ASSUME LogInv, BackupLogFileDir PROVE LogInv'  OBVIOUS
<1> USE DEF LogInv, BackupLogFileDir, world
<1>1. name' \in Names  BY DEF TypeOK, Names
<1>2. TypeOK'  BY <1>1 DEF TypeOK
<1>3. FdInv'  BY DEF FdInv, Moving
<1>4. InLog' => InLog  BY DEF InLog, Moving
<1>5. DateInv'
  <2>1. name'.date = day  BY DEF TypeOK, Names
  <2> QED BY <2>1 DEF DateInv, TypeOK
<1>6. NumberInv'  BY DEF NumberInv, Dated
<1> QED BY <1>2, <1>3, <1>4, <1>5, <1>6, Frame

LEMMA BackupLogFileNoDirInv == LogInv /\ BackupLogFileNoDir => LogInv'
<1> SUFFICES ASSUME LogInv, BackupLogFileNoDir PROVE LogInv'  OBVIOUS
<1> USE DEF LogInv, BackupLogFileNoDir, world, disk
<1>1. TypeOK'  BY DEF TypeOK
<1>2. FdInv'  BY DEF FdInv, Moving
<1>3. InLog' => InLog  BY DEF InLog, Moving
<1> QED BY <1>1, <1>2, <1>3, Frame

LEMMA BackupLogFileCountInv == LogInv /\ BackupLogFileCount => LogInv'
<1> SUFFICES ASSUME LogInv, BackupLogFileCount PROVE LogInv'  OBVIOUS
<1> USE DEF LogInv, BackupLogFileCount, world, disk
<1>1. FileCount = Cardinality(Dated(name.date)) /\ FileCount \in Nat
  BY CountType DEF FileCount, Dated
<1>2. name' \in Names /\ name'.date = name.date /\ name'.n = FileCount
  BY <1>1 DEF TypeOK, Names
<1>3. TypeOK'  BY <1>2 DEF TypeOK
<1>4. FdInv'  BY DEF FdInv, Moving
<1>5. InLog' => InLog  BY DEF InLog, Moving
<1>6. DateInv'  BY <1>2 DEF DateInv
<1>7. NumberInv'  BY <1>1, <1>2 DEF NumberInv, Dated
<1> QED BY <1>3, <1>4, <1>5, <1>6, <1>7, Frame

LEMMA BackupLogFileUncountedInv == LogInv /\ BackupLogFileUncounted => LogInv'
<1> SUFFICES ASSUME LogInv, BackupLogFileUncounted PROVE LogInv'  OBVIOUS
<1> USE DEF LogInv, BackupLogFileUncounted, disk
<1>1. name' \in Names /\ name'.date = name.date  BY DEF TypeOK, Names
<1>2. TypeOK'  BY <1>1 DEF TypeOK
<1>3. FdInv'  BY DEF FdInv, Moving
<1>4. InLog' => InLog  BY DEF InLog, Moving
<1>5. DateInv'  BY <1>1 DEF DateInv
<1>6. NumberInv' /\ InOrder'  BY DEF NumberInv, InOrder
<1> QED BY <1>2, <1>3, <1>4, <1>5, <1>6, Frame

\* rename adds the log to the backups, as the last one.
LEMMA RenameInv == LogInv /\ Rename => LogInv'
<1> SUFFICES ASSUME LogInv, Rename PROVE LogInv'  OBVIOUS
<1> USE DEF LogInv, Rename, world
<1> DEFINE new == [name |-> name, lines |-> log]
<1>0. new.name = name /\ new.lines = log /\ new \in backups'
      /\ \A b \in backups' : b \in backups \/ b = new
  OBVIOUS
<1>1. TypeOK'
  <2>1. \A b \in backups' : b.name \in Names /\ b.lines # NoFile /\ b.lines \subseteq Lines
    BY <1>0 DEF TypeOK
  <2> QED BY <2>1 DEF TypeOK
<1>2. FdInv'  BY DEF FdInv, Moving
<1>3. LineInv'
  <2>1. InLog' => InLog  BY DEF InLog, Moving
  <2> QED BY <1>0, <2>1 DEF LineInv, Past
<1>4. DateInv'
  <2>1. IsFiniteSet({b \in backups : b.name # name})
    BY FS_Subset DEF DateInv
  <2>2. IsFiniteSet(backups')
    BY <2>1, FS_AddElement
  <2> QED BY <1>0, <2>2 DEF DateInv
<1>5. ASSUME ~gaps
      PROVE  \A b \in backups' : b.name.n < Cardinality(Dated(b.name.date)')
  <2>1. backups' = backups \cup {new} /\ new \notin backups
    BY <1>5, NewName
  <2>2. SUFFICES ASSUME NEW b \in backups'
                 PROVE  b.name.n < Cardinality(Dated(b.name.date)')
    OBVIOUS
  <2>3. CASE b.name.date = name.date
    <3>1. Dated(b.name.date)' = Dated(name.date) \cup {new} /\ new \notin Dated(name.date)
      BY <1>0, <2>1, <2>3 DEF Dated
    <3>2. Cardinality(Dated(b.name.date)') = Cardinality(Dated(name.date)) + 1
      BY <3>1, CountType, FS_AddElement
    <3>3. b.name.n <= Cardinality(Dated(name.date))
      <4>1. CASE b \in backups
        BY <1>5, <2>3, <4>1, CountType DEF NumberInv, TypeOK, Names
      <4>2. CASE b = new
        BY <1>0, <1>5, <4>2, CountType DEF NumberInv
      <4> QED BY <1>0, <4>1, <4>2
    <3>4. b.name.n \in Nat /\ Cardinality(Dated(name.date)) \in Nat
      BY <1>0, CountType DEF TypeOK, Names
    <3> QED BY <3>2, <3>3, <3>4
  <2>4. CASE b.name.date # name.date
    <3>1. b \in backups  BY <1>0, <2>4
    <3>2. Dated(b.name.date)' = Dated(b.name.date)
      BY <1>0, <2>1, <2>4 DEF Dated
    <3> QED BY <1>5, <3>1, <3>2 DEF NumberInv
  <2> QED BY <2>3, <2>4
<1>6. NumberInv'  BY <1>5 DEF NumberInv
<1>7. InOrder'
  <2> SUFFICES ASSUME ~gaps, NEW b \in backups', NEW x \in b.lines, NEW c \in backups',
                      EarlierName(b.name, c.name), NEW y \in c.lines
               PROVE  x < y
    BY DEF InOrder, EarlierName
  <2>1. CASE b \in backups /\ c \in backups  BY <2>1 DEF InOrder
  <2>2. CASE b \in backups /\ c = new  BY <1>0, <2>2 DEF InOrder
  <2>3. CASE b = new /\ c \in backups  BY <1>0, <2>3, NewName
  <2>4. CASE b = new /\ c = new
    BY <1>0, <2>4 DEF EarlierName, TypeOK, Names
  <2> QED BY <1>0, <2>1, <2>2, <2>3, <2>4
<1> QED BY <1>1, <1>2, <1>3, <1>4, <1>6, <1>7

LEMMA RenameFailsInv == LogInv /\ RenameFails => LogInv'
<1> SUFFICES ASSUME LogInv, RenameFails PROVE LogInv'  OBVIOUS
<1> USE DEF LogInv, RenameFails, world, disk
<1>1. TypeOK'  BY DEF TypeOK
<1>2. FdInv'  BY DEF FdInv, Moving
<1>3. InLog' => InLog  BY DEF InLog, Moving
<1> QED BY <1>1, <1>2, <1>3, Frame

LEMMA OpenInv ==
  ASSUME LogInv, NEW ok \in BOOLEAN, Open(ok)
  PROVE  LogInv'
<1> USE DEF LogInv, Open, OpenFd, world
<1>1. log' = {} \/ log' = log  OBVIOUS
<1>2. pc' \in {"reopen", "off", "idle"} /\ (pc' = "reopen" => caller = "syslog_date_ch")
  OBVIOUS
<1>3. TypeOK'  BY <1>1, <1>2, EmptyFile DEF TypeOK
<1>4. FdInv'  BY <1>2, EmptyFile DEF FdInv, Moving
<1>5. InLog' => InLog  BY <1>2 DEF InLog, Moving
<1>6. LineInv' /\ InOrder'  BY <1>1, <1>5, LogGone
<1>7. DateInv' /\ NumberInv'  BY <1>2, Frame
<1> QED BY <1>3, <1>4, <1>6, <1>7

(***************************************************************************)
(* SetFileName, Log and what it calls                                      *)
(***************************************************************************)
LEMMA SetFileNameInv ==
  ASSUME LogInv, NEW k \in {"manager", "server"}, SetFileName(k)
  PROVE  LogInv'
<1> USE DEF LogInv, SetFileName, BackupLogFile2
<1>1. log' = NoFile \/ log' = log  OBVIOUS
<1>2. GetCurDay \in 0 .. MonthDays - 1  BY DEF GetCurDay, TypeOK
<1>3. starts' \in 0 .. MaxStarts  BY DEF TypeOK
<1>4. TypeOK'  BY <1>1, <1>2, <1>3 DEF TypeOK
<1>5. FdInv'  BY DEF FdInv, Moving
<1>6. ~InLog'  BY DEF InLog, Moving
<1>7. LineInv' /\ InOrder'  BY <1>1, <1>6, LogGone
<1>8. DateInv' /\ NumberInv'  BY Frame
<1> QED BY <1>4, <1>5, <1>7, <1>8

\* The line that Log takes has a number above all that were written.
LEMMA LogStepInv == LogInv /\ Log => LogInv'
<1> SUFFICES ASSUME LogInv, Log PROVE LogInv'  OBVIOUS
<1> USE DEF LogInv, Log, disk
<1>1. no' \in Lines /\ no' = no + 1 /\ no \in Nat  BY DEF TypeOK, Lines
<1>2. TypeOK'  BY <1>1 DEF TypeOK, Lines
<1>3. FdInv'  BY DEF FdInv, Moving
<1>4. LineInv'
  <2>1. \A b \in backups : \A x \in b.lines : x \in Int  BY DEF TypeOK, Lines
  <2>2. log # NoFile => \A x \in log : x \in Int  BY DEF TypeOK, Lines
  <2> QED BY <1>1, <2>1, <2>2 DEF LineInv, Past
<1>5. DateInv' /\ NumberInv' /\ InOrder'  BY Frame
<1> QED BY <1>2, <1>3, <1>4, <1>5

LEMMA syslog_date_chInv == LogInv /\ syslog_date_ch => LogInv'
<1> SUFFICES ASSUME LogInv, syslog_date_ch PROVE LogInv'  OBVIOUS
<1> USE DEF LogInv, syslog_date_ch, disk, world
<1>1. GetCurDay \in 0 .. MonthDays - 1  BY DEF GetCurDay, TypeOK
<1>2. \/ pc' = "backup" /\ m_iLogFd' = "none" /\ m_iDay' = GetCurDay
         /\ caller' = "syslog_date_ch"
      \/ pc' = "reopen" /\ UNCHANGED <<m_iDay, m_iLogFd, caller>>
  OBVIOUS
<1>3. TypeOK'  BY <1>1, <1>2 DEF TypeOK
<1>4. FdInv'  BY <1>2 DEF FdInv, Moving
<1>5. InLog  BY DEF InLog
<1>6. LineInv' /\ DateInv' /\ NumberInv' /\ InOrder'  BY <1>2, <1>5, Frame
<1> QED BY <1>3, <1>4, <1>6

LEMMA ReopenInv ==
  ASSUME LogInv, NEW ok \in BOOLEAN, Reopen(ok)
  PROVE  LogInv'
<1> USE DEF LogInv, Reopen, OpenFd, disk, world
<1>1. /\ log' = {} \/ log' = log
      /\ m_iLogFd' \in {"log", m_iLogFd} /\ (m_iLogFd' = "log" => log' = {} \/ UNCHANGED <<log, m_iLogFd>>)
      /\ UNCHANGED <<oldDir, backups>>
  OBVIOUS
<1>2. TypeOK'  BY <1>1, EmptyFile DEF TypeOK
<1>3. FdInv'  BY <1>1, EmptyFile DEF FdInv, Moving
<1>4. InLog  BY DEF InLog
<1>5. LineInv' /\ InOrder'  BY <1>1, <1>4, LogGone
<1>6. DateInv' /\ NumberInv'  BY <1>1, Frame
<1> QED BY <1>2, <1>3, <1>5, <1>6

\* The line in hand is after everything in the backups.
LEMMA WriteInv == LogInv /\ Write => LogInv'
<1> SUFFICES ASSUME LogInv, Write PROVE LogInv'  OBVIOUS
<1> USE DEF LogInv, Write, world
<1>1. InLog /\ ~InLog' /\ no \in Lines  BY DEF InLog, Moving, LineInv
<1>2. DateInv' /\ NumberInv'  BY Frame
<1>3. FdInv'
  <2>1. m_iLogFd = "log" => log' # NoFile
    BY <1>1 DEF FdInv, TypeOK, Lines
  <2> QED BY <2>1 DEF FdInv, Moving
<1>4. CASE m_iLogFd = "log"
  <2>1. log # NoFile /\ log \subseteq Lines /\ log' = log \cup {no}
    BY <1>4 DEF FdInv, TypeOK
  <2>2. TypeOK'  BY <1>1, <2>1 DEF TypeOK
  <2>3. LineInv'  BY <1>1, <2>1 DEF LineInv, Past, Lines
  <2>4. InOrder'
    BY <1>1, <2>1 DEF InOrder, LineInv, Past, EarlierName
  <2> QED BY <1>2, <1>3, <2>2, <2>3, <2>4
<1>5. CASE m_iLogFd # "log"
  <2>1. TypeOK'  BY <1>5 DEF TypeOK
  <2>2. LineInv' /\ InOrder'  BY <1>1, <1>5, Frame
  <2> QED BY <1>2, <1>3, <2>1, <2>2
<1> QED BY <1>4, <1>5

LEMMA UnlockInv == LogInv /\ Unlock => LogInv'
<1> SUFFICES ASSUME LogInv, Unlock PROVE LogInv'  OBVIOUS
<1> USE DEF LogInv, Unlock, disk, world
<1>1. TypeOK'  BY DEF TypeOK
<1>2. FdInv'  BY DEF FdInv, Moving
<1>3. ~InLog'  BY DEF InLog, Moving
<1> QED BY <1>1, <1>2, <1>3, Frame

(***************************************************************************)
(* The environment                                                         *)
(***************************************************************************)
LEMMA CrashInv == LogInv /\ Crash => LogInv'
<1> SUFFICES ASSUME LogInv, Crash PROVE LogInv'  OBVIOUS
<1> USE DEF LogInv, Crash, disk, world
<1>1. TypeOK'  BY DEF TypeOK
<1>2. FdInv'  BY DEF FdInv, Moving
<1>3. ~InLog'  BY DEF InLog, Moving
<1> QED BY <1>1, <1>2, <1>3, Frame

LEMMA NextDayInv == LogInv /\ NextDay => LogInv'
<1> SUFFICES ASSUME LogInv, NextDay PROVE LogInv'  OBVIOUS
<1> USE DEF LogInv, NextDay, disk
<1>1. TypeOK'  BY DEF TypeOK
<1>2. FdInv'  BY DEF FdInv
<1>3. InLog' = InLog  BY DEF InLog
<1>4. DateInv'
  <2>1. day \in Nat /\ day' = day + 1  BY DEF TypeOK
  <2>2. name.date \in Nat /\ \A b \in backups : b.name.date \in Nat
    BY DEF TypeOK, Names
  <2> QED BY <2>1, <2>2 DEF DateInv
<1> QED BY <1>1, <1>2, <1>3, <1>4, Frame

LEMMA RemoveLogInv == LogInv /\ RemoveLog => LogInv'
<1> SUFFICES ASSUME LogInv, RemoveLog PROVE LogInv'  OBVIOUS
<1> USE DEF LogInv, RemoveLog, world
<1>1. TypeOK'  BY DEF TypeOK
<1>2. FdInv'  BY DEF FdInv, Moving
<1>3. InLog' = InLog  BY DEF InLog
<1>4. LineInv' /\ InOrder'  BY <1>3, LogGone
<1> QED BY <1>1, <1>2, <1>4, Frame

LEMMA RemoveBackupInv ==
  ASSUME LogInv, NEW b \in backups, RemoveBackup(b)
  PROVE  LogInv'
<1> USE DEF LogInv, RemoveBackup
<1>1. TypeOK'  BY DEF TypeOK
<1>2. FdInv'  BY DEF FdInv
<1>3. InLog' = InLog  BY DEF InLog
<1>4. LineInv'  BY <1>3 DEF LineInv, Past
<1>5. DateInv'
  <2>1. IsFiniteSet(backups')  BY FS_Subset DEF DateInv
  <2> QED BY <2>1 DEF DateInv
<1>6. NumberInv' /\ InOrder'  BY DEF NumberInv, InOrder
<1> QED BY <1>1, <1>2, <1>4, <1>5, <1>6

LEMMA InitInv == Init => LogInv
<1> SUFFICES ASSUME Init PROVE LogInv  OBVIOUS
<1> USE DEF Init
<1>1. oldDir \in BOOLEAN /\ m_Lock \in BOOLEAN /\ moved \in BOOLEAN /\ gaps \in BOOLEAN
  BY Zenon
<1>2. name \in Names  BY DEF Names
<1>3. TypeOK  BY <1>1, <1>2 DEF TypeOK
<1>4. FdInv /\ LineInv  BY DEF FdInv, LineInv, InLog, Moving
<1>5. DateInv  BY FS_EmptySet DEF DateInv
<1>6. NumberInv /\ InOrder  BY DEF NumberInv, InOrder
<1> QED BY <1>3, <1>4, <1>5, <1>6 DEF LogInv

LEMMA NextInv == LogInv /\ [Next]_vars => LogInv'
<1> SUFFICES ASSUME LogInv, [Next]_vars PROVE LogInv'  OBVIOUS
<1>1. CASE LogStep
  BY <1>1, BackupLogFileDirInv, BackupLogFileNoDirInv, BackupLogFileCountInv,
     BackupLogFileUncountedInv, RenameInv, RenameFailsInv, syslog_date_chInv,
     WriteInv, UnlockInv, OpenInv, ReopenInv DEF LogStep
<1>2. CASE Log \/ Crash \/ NextDay \/ RemoveLog
  BY <1>2, LogStepInv, CrashInv, NextDayInv, RemoveLogInv
<1>3. CASE \E k \in {"manager", "server"} : SetFileName(k)
  BY <1>3, SetFileNameInv
<1>4. CASE \E b \in backups : RemoveBackup(b)
  BY <1>4, RemoveBackupInv
<1>5. CASE UNCHANGED vars
  <2> USE <1>5 DEF LogInv, vars
  <2>1. TypeOK'  BY DEF TypeOK
  <2>2. FdInv' /\ InLog' = InLog  BY DEF FdInv, InLog
  <2> QED BY <2>1, <2>2, Frame
<1> QED BY <1>1, <1>2, <1>3, <1>4, <1>5 DEF Next

LEMMA Invariance == Spec => []LogInv
BY InitInv, NextInv, PTL DEF Spec

(***************************************************************************)
(* The theorems                                                            *)
(***************************************************************************)
\* Every file holds lines that Log was given, under a date that has been
\* (NPLog.cpp:93, 234).
THEOREM TypeCorrect == Spec => []TypeOK
BY Invariance, PTL DEF LogInv

\* As long as no backup was removed or left uncounted, reading old_log in the
\* order of dates and numbers and then the log gives the lines in the order in
\* which they were logged, over any number of days, restarts and crashes
\* between two steps of BackupLogFile (NPLog.cpp:93).
THEOREM BackupsInOrder == Spec => []InOrder
BY Invariance, PTL DEF LogInv

(***************************************************************************)
(* What a step may lose                                                    *)
(***************************************************************************)
Lose ==
  \/ Kept \subseteq Kept'
  \/ log' = NoFile /\ backups' = backups
  \/ \E b \in backups : RemoveBackup(b)
  \/ pc \in {"open", "reopen"} /\ ~moved
  \/ pc = "move" /\ gaps

\* A step that removes no backup and keeps the log's lines loses nothing.
LEMMA KeptGrows ==
  ASSUME backups \subseteq backups', log = NoFile \/ (log' # NoFile /\ log \subseteq log')
  PROVE  Kept \subseteq Kept'
<1>1. UNION {b.lines : b \in backups} \subseteq UNION {b.lines : b \in backups'}
  OBVIOUS
<1> QED BY <1>1 DEF Kept

\* The log becomes a backup: its lines are found there.
LEMMA RenameKeeps == LogInv /\ Rename /\ ~gaps => Kept \subseteq Kept'
<1> SUFFICES ASSUME LogInv, Rename, ~gaps PROVE Kept \subseteq Kept'  OBVIOUS
<1> DEFINE new == [name |-> name, lines |-> log]
<1>1. backups' = backups \cup {new} /\ log # NoFile  BY NewName DEF Rename
<1>2. new.lines = log /\ new \in backups'  BY <1>1
<1>3. log \subseteq UNION {b.lines : b \in backups'}  BY <1>2
<1>4. UNION {b.lines : b \in backups} \subseteq UNION {b.lines : b \in backups'}
  BY <1>1
<1> QED BY <1>1, <1>3, <1>4 DEF Kept

LEMMA StepLoses == LogInv /\ [Next]_vars => Lose \/ UNCHANGED vars
<1> SUFFICES ASSUME LogInv, Next PROVE Lose  BY DEF Next
<1>1. CASE UNCHANGED <<log, backups>>
  <2>1. Kept' = Kept  BY <1>1 DEF Kept
  <2> QED BY <2>1 DEF Lose
<1>2. CASE Rename  BY <1>2, RenameKeeps DEF Lose, Rename
<1>3. CASE Write
  <2>1. log # NoFile /\ m_iLogFd = "log" => log' # NoFile /\ log \subseteq log'
    <3>1. no \in Lines  BY <1>3 DEF LogInv, LineInv, InLog, Write
    <3> QED BY <1>3, <3>1 DEF Write, LogInv, TypeOK, Lines
  <2>2. Kept \subseteq Kept'
    BY <1>3, <2>1, KeptGrows DEF Write, world
  <2> QED BY <2>2 DEF Lose
<1>4. ASSUME NEW ok \in BOOLEAN, Open(ok)
      PROVE  Lose
  <2>1. CASE moved
    <3>1. log = NoFile  BY <1>4, <2>1 DEF Open, LogInv, FdInv, Moving
    <3> QED BY <1>4, <3>1, KeptGrows DEF Open, OpenFd, Lose
  <2>2. CASE ~moved  BY <1>4, <2>2 DEF Open, Lose
  <2> QED BY <2>1, <2>2
<1>5. ASSUME NEW ok \in BOOLEAN, Reopen(ok)
      PROVE  Lose
  <2>1. CASE moved /\ (m_iLogFd = "none" \/ FileSize < 0)
    <3>1. log = NoFile
      BY <1>5, <2>1, FileSizeMissing DEF Reopen, LogInv, FdInv
    <3> QED BY <1>5, <2>1, <3>1, KeptGrows DEF Reopen, OpenFd, Lose
  <2>2. CASE ~(m_iLogFd = "none" \/ FileSize < 0)
    BY <1>1, <1>5, <2>2 DEF Reopen, disk
  <2> QED BY <1>5, <2>1, <2>2 DEF Reopen, Lose
<1>6. ASSUME NEW k \in {"manager", "server"}, SetFileName(k)
      PROVE  Lose
  BY <1>1, <1>6 DEF SetFileName, BackupLogFile2, Lose
<1>7. CASE RemoveLog  BY <1>7 DEF RemoveLog, Lose
<1>8. CASE \E b \in backups : RemoveBackup(b)  BY <1>8 DEF Lose
<1>9. CASE \/ BackupLogFileDir \/ BackupLogFileNoDir \/ BackupLogFileCount
           \/ BackupLogFileUncounted \/ RenameFails \/ syslog_date_ch \/ Unlock
           \/ Log \/ Crash \/ NextDay
  BY <1>1, <1>9 DEF BackupLogFileDir, BackupLogFileNoDir, BackupLogFileCount,
     BackupLogFileUncounted, RenameFails, syslog_date_ch, Unlock, Log, Crash, NextDay,
     disk, world
<1> QED BY <1>2, <1>3, <1>4, <1>5, <1>6, <1>7, <1>8, <1>9 DEF Next, LogStep

\* A line that was written can be lost only by the removal of a file, by
\* fopen(..., "w") after a move that did not succeed, or by a rename onto a
\* number used before once a backup was removed or left uncounted; by no crash,
\* restart, new day or full file (NPLog.cpp:28, 93).
THEOREM LossesExplained == Spec => LossExplained
<1>1. LogInv /\ [Next]_vars => [Lose]_vars  BY StepLoses
<1>2. Spec => [][Lose]_vars  BY <1>1, Invariance, PTL DEF Spec
<1> QED BY <1>2 DEF LossExplained, Lose
=============================================================================
