---------------------------- MODULE MCChatServer ----------------------------
(***************************************************************************)
(* Small instances of ChatServer for TLC.  A connection is used once and   *)
(* its peer sends at most MaxSend chunks, which makes the state space      *)
(* finite.                                                                 *)
(***************************************************************************)
EXTENDS ChatServer, TLC

CONSTANTS u1, u2, u3, m1, r1, r2, b1, b2

\* How many chunks each peer sends, by what the run is about.
SendRouting == [c \in Conns |-> CASE c = u1 -> 3 [] c = m1 -> 1 [] OTHER -> 0]
SendOwner == [c \in Conns |-> IF c = u1 THEN 2 ELSE 1]
SendOne == [c \in Conns |-> IF c = u1 THEN 1 ELSE 0]
SendPackets == [c \in Conns |-> IF c = m1 THEN 4 ELSE 2]

OneOtherCommand == {<<m1, 1>>}
=============================================================================
