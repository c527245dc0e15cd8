--------------------------- MODULE MCChatManager ----------------------------
(***************************************************************************)
(* Small instances of ChatManager for TLC.  A connection is used once and  *)
(* sends its hello and Script, which makes the state space finite.         *)
(***************************************************************************)
EXTENDS ChatManager, TLC

CONSTANTS s1, s2, s3, w1, w2

\* What the servers send after their hello, by what the run is about.
ScriptRelay == [c \in Conns |-> IF c = s1 THEN <<"broadcast", "broadcast">>
                                          ELSE <<"broadcast">>]
ScriptOwner == [c \in Conns |-> IF c = s1 THEN <<"broadcast", "ping">>
                                          ELSE <<"unknown">>]

\* ids of an int of 4 bits, 0 .. 7 being the non-negative ones.
IdOf == [c \in Conns |-> CASE c = s1 -> 3 [] c = s2 -> 4 [] OTHER -> 5]
=============================================================================
