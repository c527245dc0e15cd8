----------------------------- MODULE Properties -----------------------------
(***************************************************************************)
(* The configuration: Properties reads a file line by line into a map, and *)
(* ServerInfoDN and ServerInfoDNMgr take their values from it.  A line is  *)
(* a sequence of tokens: blanks, "=", "#", ",", digits, and names; each    *)
(* token counts as one character.                                          *)
(***************************************************************************)
EXTENDS Integers, Sequences, SequencesExt

CONSTANTS
  MAX_LINE_SIZE, MAX_KEY_SIZE, MAX_VALUE_SIZE,
  Beyond  \* what the memory behind a full buffer holds, up to a NUL

ASSUME PropertiesAssumption ==
  /\ {MAX_LINE_SIZE, MAX_KEY_SIZE, MAX_VALUE_SIZE} \subseteq Nat \ {0}

isspace(c) == c \in {" ", "\t"}
DigitValue == [c \in {"0", "1", "2", "3", "9"} |->
  CASE c = "0" -> 0 [] c = "1" -> 1 [] c = "2" -> 2 [] c = "3" -> 3 [] c = "9" -> 9]

(***************************************************************************)
(* Properties                                                              *)
(***************************************************************************)
\* From the first token that is not blank.
LTrim(str) ==
  LET k == SelectInSeq(str, LAMBDA c : ~isspace(c))
  IN IF k = 0 THEN <<>> ELSE SubSeq(str, k, Len(str))

\* Up to the last token that is not blank.
RTrim(str) == SubSeq(str, 1, SelectLastInSeq(str, LAMBDA c : ~isspace(c)))

\* m_mapProperties[key] = value
Store(map, key, value) ==
  [k \in DOMAIN map \cup {key} |-> IF k = key THEN value ELSE map[k]]

\* strncpy into a buffer of this size, and what is then read there: a text that
\* fills the buffer is cut and has no NUL, so the memory behind it is read as well.
Copied(text, size) ==
  IF Len(text) < size THEN text ELSE Append(SubSeq(text, 1, size), Beyond)

\* The line is cut at its first "="; the name and the value must not be empty
\* before they are trimmed.
AddMap(map, line) ==
  LET d     == SelectInSeq(line, LAMBDA c : c = "=")
      name  == Copied(SubSeq(line, 1, d - 1), MAX_KEY_SIZE)
      value == Copied(SubSeq(line, d + 1, Len(line)), MAX_VALUE_SIZE)
  IN IF d = 0 \/ name = <<>> \/ value = <<>> THEN map
     ELSE Store(map, RTrim(LTrim(name)), RTrim(LTrim(value)))

\* Mutant: a line that is too long is left out, and reading goes on.
ReadableAll(file) == SelectSeq(file, LAMBDA line : Len(line) < MAX_LINE_SIZE)

\* getline fails on a line that does not fit, and the loop ends.
Readable(file) ==
  LET k == SelectInSeq(file, LAMBDA line : Len(line) >= MAX_LINE_SIZE)
  IN IF k = 0 THEN file ELSE SubSeq(file, 1, k - 1)

LoadLine(map, line) == IF line = <<>> \/ line[1] = "#" THEN map ELSE AddMap(map, line)

Load(file) == FoldLeft(LoadLine, <<>>, Readable(file))

GetProperty(map, key) == IF <<key>> \in DOMAIN map THEN map[<<key>>] ELSE <<>>

(***************************************************************************)
(* ServerInfoDN and ServerInfoDNMgr                                        *)
(***************************************************************************)
\* The digits a text begins with, and their value.
Digits(str) ==
  LET n == SelectInSeq(str, LAMBDA c : c \notin DOMAIN DigitValue)
  IN IF n = 0 THEN str ELSE SubSeq(str, 1, n - 1)

AddDigit(v, c) == v * 10 + DigitValue[c]
atoi(str) == FoldLeft(AddDigit, 0, Digits(str))

\* What the maps of ports and threads hold under a key, -1 for nothing.
Find(map, key) == IF GetProperty(map, key) = <<>> THEN -1 ELSE atoi(GetProperty(map, key))

\* An int member that is left alone when its key is missing: garbage is what
\* the memory held.
Member(map, key, garbage) ==
  IF GetProperty(map, key) = <<>> THEN garbage ELSE atoi(GetProperty(map, key))

\* m_pchManagerIpAddresses is not cleared before either.
ServerInfoDN(map, garbage) ==
  [SERVER_PORT_MGR    |-> Find(map, "SERVER_PORT_DNMGR"),
   SERVER_PORT        |-> Find(map, "SERVER_PORT"),
   THREAD_SENDER      |-> Find(map, "THREAD_SENDER"),
   THREAD_RECEIVER    |-> Find(map, "THREAD_RECEIVER"),
   THREAD_BROADCASTER |-> Find(map, "THREAD_BROADCASTER"),
   ManagerIpAddresses |-> LET ips == GetProperty(map, "DNMGR_SERVER_IPs")
                          IN IF ips = <<>> THEN <<garbage>> ELSE ips]

ServerInfoDNMgr(map, garbage) ==
  [SERVER_PORT   |-> Find(map, "SERVER_PORT_DNMGR"),
   THREAD_WORKER |-> Find(map, "THREAD_WORKER"),
   DNPort        |-> Member(map, "SERVER_PORT_DN", garbage),
   MaxUser       |-> Member(map, "DM_MAX_USER", garbage),
   DSMaxUser     |-> Member(map, "DS_MAX_USER", garbage),
   DNCnt         |-> Member(map, "DN_CNT", garbage)]

\* A delimiter ends a token, and any other character belongs to one.
Tokens(r, c) ==
  IF c = r.delimiter THEN [r EXCEPT !.res = Append(@, r.token), !.token = <<>>]
  ELSE [r EXCEPT !.token = Append(@, c)]

split(s, delimiter) ==
  LET r == FoldLeft(Tokens, [delimiter |-> delimiter, res |-> <<>>, token |-> <<>>], s)
  IN Append(r.res, r.token)

(***************************************************************************)
(* Properties                                                              *)
(***************************************************************************)
\* A line that gives key a value: no comment, with nothing but key before its
\* first "=" and something behind it.
Assigns(line, key) ==
  \E d \in 2 .. Len(line) - 1 :
    /\ line[1] # "#" /\ line[d] = "="
    /\ \A e \in 1 .. d - 1 : line[e] # "="
    /\ \E m \in 1 .. d - 1 :
         line[m] = key /\ \A e \in 1 .. d - 1 : e # m => isspace(line[e])

\* getline gets as far as the i-th line: neither it nor one before is too long.
Reached(file, i) == \A j \in 1 .. i : Len(file[j]) < MAX_LINE_SIZE

Gives(file, key, i) == Reached(file, i) /\ Assigns(file[i], key)

\* The name and the value leave room for a NUL in AddMap's buffers.  What a line
\* does that is read but does not fit is undefined (Properties.cpp:117).
LineFits(line) ==
  \A d \in 1 .. Len(line) :
    line[d] = "=" /\ (\A e \in 1 .. d - 1 : line[e] # "=") =>
      d - 1 < MAX_KEY_SIZE /\ Len(line) - d < MAX_VALUE_SIZE
Defined(file) == \A i \in 1 .. Len(file) : Reached(file, i) => LineFits(file[i])

Number(file, key, default) ==
  LET lines == {i \in 1 .. Len(file) : Gives(file, key, i)}
      line  == file[CHOOSE i \in lines : \A j \in lines : j <= i]
      value == SubSeq(line, SelectInSeq(line, LAMBDA c : c = "=") + 1, Len(line))
  IN IF lines = {} \/ \A i \in 1 .. Len(value) : isspace(value[i]) THEN default
     ELSE atoi(LTrim(value))

\* The numbers of threads, servers and users a process starts with are those of
\* the last line that gives them (which hides an earlier one even when it is
\* blank), and no line behind one that is too long counts.  A number that is
\* missing is -1 among ports and threads, and what the memory held for DN_CNT,
\* the limits and the list of managers (Properties.cpp:21, ServerInfoDNMgr.cpp:63).
\* This is so in files whose names and values fit into AddMap's buffers.
ConfigAsWritten(file, garbage) ==
  Defined(file) =>
  LET dn == ServerInfoDN(Load(file), garbage)  mgr == ServerInfoDNMgr(Load(file), garbage)
  IN /\ dn.THREAD_RECEIVER = Number(file, "THREAD_RECEIVER", -1)
     /\ dn.SERVER_PORT_MGR = Number(file, "SERVER_PORT_DNMGR", -1)
     /\ mgr.SERVER_PORT = dn.SERVER_PORT_MGR
     /\ mgr.DNCnt = Number(file, "DN_CNT", garbage)
     /\ (\A i \in 1 .. Len(file) : ~Gives(file, "DNMGR_SERVER_IPs", i)) =>
          dn.ManagerIpAddresses = <<garbage>>

\* The managers a server connects to are the names between the commas, all of
\* them and in their order; a trailing comma adds an empty name, to which the
\* connection fails (ChatServer.cpp:161).
SplitInverts(s) ==
  LET names == split(s, ",")
  IN /\ names # <<>>
     /\ \A i \in 1 .. Len(names) : "," \notin ToSet(names[i])
     /\ FlattenSeq([i \in 1 .. Len(names) |-> IF i = 1 THEN names[i] ELSE <<",">> \o names[i]]) = s
=============================================================================
