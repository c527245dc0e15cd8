----------------------------- MODULE ByteStream -----------------------------
(***************************************************************************)
(* What the per-client receive buffer promises its user: a byte stream of  *)
(* at most Size bytes.  Put appends all of its bytes or none, Get returns  *)
(* and removes the oldest bytes or nothing, GetHeader looks at the oldest  *)
(* HeaderSize bytes.                                                       *)
(***************************************************************************)
EXTENDS Integers, Sequences

CONSTANTS Bytes, Undefined, Size, HeaderSize, RECV_NOT_ENOUGH

VARIABLES
  stream,  \* the bytes received and not yet consumed, oldest first
  in,      \* the bytes the last Put appended; empty after any other operation
  out,     \* what the last Get or GetHeader copied to its caller
  ret      \* what the last operation returned

vars == <<stream, in, out, ret>>

Init == stream = << >> /\ in = << >> /\ out = << >> /\ ret = 0

Put(s) ==
  \/ /\ Len(s) <= Size - Len(stream)
     /\ stream' = stream \o s
     /\ in' = s
     /\ ret' = Len(s)
     /\ UNCHANGED out
  \/ /\ Len(s) > Size - Len(stream)
     /\ in' = << >>
     /\ ret' = -1
     /\ UNCHANGED <<stream, out>>

Get(n) ==
  \/ /\ n <= Len(stream)
     /\ out' = SubSeq(stream, 1, n)
     /\ stream' = SubSeq(stream, n + 1, Len(stream))
     /\ in' = << >>
     /\ ret' = n
  \/ /\ n > Len(stream)
     /\ in' = << >>
     /\ ret' = RECV_NOT_ENOUGH
     /\ UNCHANGED <<stream, out>>

(* A header that has not arrived completely is unspecified.                *)
GetHeader ==
  /\ \/ /\ HeaderSize <= Len(stream)
        /\ out' = SubSeq(stream, 1, HeaderSize)
     \/ /\ HeaderSize > Len(stream)
        /\ out' \in [1 .. HeaderSize -> Bytes \cup {Undefined}]
  /\ in' = << >>
  /\ ret' = 0
  /\ UNCHANGED stream

Next ==
  \/ \E k \in 1 .. Size + 1 : \E s \in [1 .. k -> Bytes] : Put(s)
  \/ \E n \in 1 .. Size + 1 : Get(n)
  \/ GetHeader

Spec == Init /\ [][Next]_vars
=============================================================================
