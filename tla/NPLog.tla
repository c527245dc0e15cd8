------------------------------- MODULE NPLog --------------------------------
(***************************************************************************)
(* CNPLog: the log file of a process, which is moved to old_log/ under the *)
(* date when the day of the month changes or the file is too large, and    *)
(* when the process starts.  Every step of the move can fail on its own,   *)
(* its result is ignored, and the file is then opened with mode "w".       *)
(* The process may be killed between any two steps, and people remove log  *)
(* files.  A line is its number; a file is the set of the lines in it.     *)
(***************************************************************************)
EXTENDS Integers, FiniteSets

CONSTANTS
  NoFile,             \* there is no file under m_pchFileName
  MonthDays,          \* days of a month, after which tm_mday repeats
  MAX_LOG_FILE_SIZE,  \* in lines
  SizeBits,           \* width of the unsigned type of MAX_LOG_FILE_SIZE
  InRootThunder,      \* the program is installed in /root/thunder
  MaxLines, MaxDay, MaxStarts  \* bounds: calls of Log, days, starts

ASSUME LogAssumption ==
  /\ MonthDays \in Nat \ {0} /\ MAX_LOG_FILE_SIZE \in Nat /\ SizeBits \in Nat
  /\ MAX_LOG_FILE_SIZE < 2 ^ SizeBits - 1
  /\ InRootThunder \in BOOLEAN
  /\ MaxLines \in Nat /\ MaxDay \in Nat /\ MaxStarts \in Nat
  /\ \A S \in SUBSET (1 .. MaxLines) : NoFile # S

VARIABLES
  day,        \* today, counted from some date
  log,        \* the file m_pchFileName, or NoFile
  oldDir,     \* the directory old_log exists
  backups,    \* the files in it: date, number and lines
  pc,         \* where the thread that logs is, "off" without a process
  caller,     \* who called BackupLogFile: SetFileName or syslog_date_ch
  kind,       \* "manager" or "server"
  m_Lock,     \* the mutex is locked
  m_iLogFd,   \* "none" (-1), or open on the "log" or an "unlinked" file
  m_iDay,
  name,       \* date and count in the new name renfname
  moved,      \* rename succeeded (the code does not look)
  no,         \* the number of the line in hand
  starts,     \* starts of the process so far
  gaps        \* history: a backup was removed, or opendir failed

vars == <<day, log, oldDir, backups, pc, caller, kind, m_Lock, m_iLogFd, m_iDay,
          name, moved, no, starts, gaps>>
disk == <<log, oldDir, backups>>
world == <<day, no, starts, gaps>>

Lines == 1 .. MaxLines
Names == [date : 0 .. MaxDay, n : Nat]

GetCurDay == day % MonthDays

Init ==
  /\ day = 0 /\ log = NoFile /\ oldDir = FALSE /\ backups = {}
  /\ pc = "off" /\ caller = "SetFileName" /\ kind = "server"
  /\ m_Lock = FALSE /\ m_iLogFd = "none" /\ m_iDay = 0
  /\ name = [date |-> 0, n |-> 0] /\ moved = FALSE
  /\ no = 0 /\ starts = 0 /\ gaps = FALSE

(***************************************************************************)
(* The steps of BackupLogFile and OpenFd                                   *)
(***************************************************************************)
\* Mutant: the name holds the day of the month only.
BackupLogFileDirMday ==
  /\ pc = "backup"
  /\ oldDir' = TRUE /\ name' = [name EXCEPT !.date = GetCurDay] /\ pc' = "count"
  /\ UNCHANGED <<log, backups, caller, kind, m_Lock, m_iLogFd, m_iDay, moved, world>>

\* old_log is there or mkdir makes it; the new name gets today's date.
BackupLogFileDir ==
  /\ pc = "backup"
  /\ oldDir' = TRUE /\ name' = [name EXCEPT !.date = day] /\ pc' = "count"
  /\ UNCHANGED <<log, backups, caller, kind, m_Lock, m_iLogFd, m_iDay, moved, world>>

\* stat or mkdir fails, and BackupLogFile returns.
BackupLogFileNoDir ==
  /\ pc = "backup"
  /\ pc' = "open" /\ moved' = FALSE
  /\ UNCHANGED <<disk, caller, kind, m_Lock, m_iLogFd, m_iDay, name, world>>

\* Mutant: only the file of exactly this name is counted.
FileCountExact ==
  Cardinality({b \in backups : b.name = [date |-> name.date, n |-> 0]})

\* The files of old_log that begin with the dated name.
FileCount == Cardinality({b \in backups : b.name.date = name.date})

\* The count becomes a part of the name.  (sprintf formats renfname onto itself;
\* the C library of this build, which is not optimised, does that as written.)
BackupLogFileCount ==
  /\ pc = "count"
  /\ name' = [name EXCEPT !.n = FileCount] /\ pc' = "move"
  /\ UNCHANGED <<disk, caller, kind, m_Lock, m_iLogFd, m_iDay, moved, world>>

\* opendir fails: no file is counted.
BackupLogFileUncounted ==
  /\ pc = "count"
  /\ name' = [name EXCEPT !.n = 0] /\ pc' = "move" /\ gaps' = TRUE
  /\ UNCHANGED <<disk, caller, kind, m_Lock, m_iLogFd, m_iDay, moved, day, no, starts>>

\* Mutant: rename is taken to succeed always.
RenameAlways ==
  /\ pc = "move"
  /\ backups' = {b \in backups : b.name # name} \cup {[name |-> name, lines |-> log]}
  /\ log' = NoFile /\ moved' = TRUE /\ pc' = "open"
  /\ UNCHANGED <<oldDir, caller, kind, m_Lock, m_iLogFd, m_iDay, name, world>>

\* rename replaces a file that has the new name.
Rename ==
  /\ pc = "move" /\ log # NoFile
  /\ backups' = {b \in backups : b.name # name} \cup {[name |-> name, lines |-> log]}
  /\ log' = NoFile /\ moved' = TRUE /\ pc' = "open"
  /\ UNCHANGED <<oldDir, caller, kind, m_Lock, m_iLogFd, m_iDay, name, world>>

RenameFails ==
  /\ pc = "move"
  /\ moved' = FALSE /\ pc' = "open"
  /\ UNCHANGED <<disk, caller, kind, m_Lock, m_iLogFd, m_iDay, name, world>>

\* fopen(m_pchFileName, "w") creates or empties the file.  When it fails,
\* m_iLogFd stays as it was.
OpenFd(ok) ==
  /\ IF ok THEN log' = {} /\ m_iLogFd' = "log" ELSE UNCHANGED <<log, m_iLogFd>>
  /\ UNCHANGED <<oldDir, backups>>

\* OpenFd after BackupLogFile.  ChatManager::Run returns when SetFileName
\* fails, ChatServer::Run goes on without a log.
Open(ok) ==
  /\ pc = "open"
  /\ OpenFd(ok)
  /\ pc' = IF caller = "syslog_date_ch" THEN "reopen"
           ELSE IF ~ok /\ kind = "manager" THEN "off" ELSE "idle"
  /\ UNCHANGED <<caller, kind, m_Lock, m_iDay, name, moved, world>>

(***************************************************************************)
(* SetFileName and Log                                                     *)
(***************************************************************************)
\* DoFork removes the files of the log directory in /root/thunder.
BackupLogFile2(k) ==
  log' = IF k = "manager" /\ InRootThunder THEN NoFile ELSE log

\* A process starts and calls SetFileName.
SetFileName(k) ==
  /\ pc = "off" /\ starts < MaxStarts
  /\ BackupLogFile2(k)
  /\ kind' = k /\ starts' = starts + 1
  /\ m_Lock' = FALSE /\ m_iLogFd' = "none" /\ m_iDay' = GetCurDay
  /\ caller' = "SetFileName" /\ pc' = "backup"
  /\ UNCHANGED <<oldDir, backups, name, moved, day, no, gaps>>

\* Log takes the lock; with no descriptor it has nothing to do.
Log ==
  /\ pc = "idle" /\ ~m_Lock /\ no < MaxLines
  /\ m_Lock' = TRUE /\ no' = no + 1
  /\ pc' = IF m_iLogFd = "none" THEN "return" ELSE "check"
  /\ UNCHANGED <<disk, caller, kind, m_iLogFd, m_iDay, name, moved, day, starts, gaps>>

FileSize == IF log = NoFile THEN -1 ELSE Cardinality(log)

\* The int result is compared as unsigned: a missing file is too large.
TooLarge == (FileSize % 2 ^ SizeBits) > MAX_LOG_FILE_SIZE

syslog_date_ch ==
  /\ pc = "check"
  /\ IF m_iDay # GetCurDay \/ TooLarge
     THEN /\ m_iDay' = GetCurDay /\ m_iLogFd' = "none"
          /\ caller' = "syslog_date_ch" /\ pc' = "backup"
     ELSE pc' = "reopen" /\ UNCHANGED <<m_iDay, m_iLogFd, caller>>
  /\ UNCHANGED <<disk, kind, m_Lock, name, moved, world>>

\* The second OpenFd: still no descriptor, or the file is gone.
Reopen(ok) ==
  /\ pc = "reopen"
  /\ IF m_iLogFd = "none" \/ FileSize < 0 THEN OpenFd(ok) ELSE UNCHANGED <<disk, m_iLogFd>>
  /\ pc' = "write"
  /\ UNCHANGED <<caller, kind, m_Lock, m_iDay, name, moved, world>>

Write ==
  /\ pc = "write"
  /\ log' = IF m_iLogFd = "log" THEN log \cup {no} ELSE log
  /\ pc' = "return"
  /\ UNCHANGED <<oldDir, backups, caller, kind, m_Lock, m_iLogFd, m_iDay, name, moved, world>>

\* Mutant: the early return of Log forgets the lock.
UnlockWritten ==
  /\ pc = "return"
  /\ m_Lock' = (m_iLogFd = "none") /\ pc' = "idle"
  /\ UNCHANGED <<disk, caller, kind, m_iLogFd, m_iDay, name, moved, world>>

Unlock ==
  /\ pc = "return"
  /\ m_Lock' = FALSE /\ pc' = "idle"
  /\ UNCHANGED <<disk, caller, kind, m_iLogFd, m_iDay, name, moved, world>>

(***************************************************************************)
(* The environment                                                         *)
(***************************************************************************)
Crash ==
  /\ pc # "off"
  /\ pc' = "off" /\ m_Lock' = FALSE /\ m_iLogFd' = "none"
  /\ UNCHANGED <<disk, caller, kind, m_iDay, name, moved, world>>

NextDay ==
  /\ day < MaxDay
  /\ day' = day + 1
  /\ UNCHANGED <<disk, pc, caller, kind, m_Lock, m_iLogFd, m_iDay, name, moved,
                 no, starts, gaps>>

RemoveLog ==
  /\ log # NoFile
  /\ log' = NoFile
  /\ m_iLogFd' = IF m_iLogFd = "log" THEN "unlinked" ELSE m_iLogFd
  /\ UNCHANGED <<oldDir, backups, pc, caller, kind, m_Lock, m_iDay, name, moved, world>>

RemoveBackup(b) ==
  /\ backups' = backups \ {b} /\ gaps' = TRUE
  /\ UNCHANGED <<log, oldDir, pc, caller, kind, m_Lock, m_iLogFd, m_iDay, name, moved,
                 day, no, starts>>

LogStep ==
  \/ BackupLogFileDir \/ BackupLogFileNoDir \/ BackupLogFileCount
  \/ BackupLogFileUncounted \/ Rename \/ RenameFails
  \/ syslog_date_ch \/ Write \/ Unlock
  \/ \E ok \in BOOLEAN : Open(ok) \/ Reopen(ok)

Next ==
  \/ LogStep \/ Log \/ Crash \/ NextDay \/ RemoveLog
  \/ \E k \in {"manager", "server"} : SetFileName(k)
  \/ \E b \in backups : RemoveBackup(b)

Spec == Init /\ [][Next]_vars

\* A thread inside Log runs.
FairSpec == Spec /\ WF_vars(LogStep)

(***************************************************************************)
(* Properties                                                              *)
(***************************************************************************)
TypeOK ==
  /\ day \in 0 .. MaxDay /\ oldDir \in BOOLEAN
  /\ log = NoFile \/ log \subseteq Lines
  /\ \A b \in backups : b.name \in Names /\ b.lines # NoFile /\ b.lines \subseteq Lines
  /\ pc \in {"off", "idle", "check", "backup", "count", "move", "open", "reopen",
             "write", "return"}
  /\ caller \in {"SetFileName", "syslog_date_ch"} /\ kind \in {"manager", "server"}
  /\ m_Lock \in BOOLEAN /\ m_iLogFd \in {"none", "log", "unlinked"}
  /\ m_iDay \in 0 .. MonthDays - 1 /\ name \in Names /\ moved \in BOOLEAN
  /\ no \in 0 .. MaxLines /\ starts \in 0 .. MaxStarts /\ gaps \in BOOLEAN

\* The lines that can still be read.
Kept == (IF log = NoFile THEN {} ELSE log) \cup UNION {b.lines : b \in backups}

\* A line that was written is lost only when somebody removes the file, when the
\* move before fopen(..., "w") failed (or found no file), or when a backup was
\* removed or could not be counted before and its number is used again.  No
\* crash, restart, change of day or full file loses one.
LossExplained ==
  [][ \/ Kept \subseteq Kept'
      \/ log' = NoFile /\ backups' = backups                \* RemoveLog, BackupLogFile2
      \/ \E b \in backups : RemoveBackup(b)
      \/ pc \in {"open", "reopen"} /\ ~moved
      \/ pc = "move" /\ gaps ]_vars

EarlierName(a, b) == a.date < b.date \/ (a.date = b.date /\ a.n < b.n)

\* Read in the order of their names, date and number, the backups and then the
\* log hold the lines in the order they were written, as long as nobody removed
\* a backup and all were counted.
InOrder ==
  ~gaps =>
    \A b \in backups : \A x \in b.lines :
      /\ \A c \in backups : EarlierName(b.name, c.name) => \A y \in c.lines : x < y
      /\ log # NoFile => \A y \in log : x < y

\* Log gives m_Lock back on every path: whatever fails, the other threads get
\* to log (or find that there is no descriptor) again.
LockReleased == m_Lock ~> ~m_Lock
=============================================================================
