---------------------------- MODULE MCAlgorithms ----------------------------
(***************************************************************************)
(* The pure parts of the program on small inputs: Init chooses what is     *)
(* examined, and Extend grows its input piece by piece.                    *)
(***************************************************************************)
EXTENDS Properties, NPUtil, ChatClient

CONSTANTS
  MaxPieces,  \* bound: pieces of an input, for each topic
  Garbage     \* contents of uninitialised memory

\* The longest chunk of the sha pieces fits in the length of one call.
ASSUME MCAlgorithmsAssumption == Word > 17

VARIABLES topic, input, garbage

vars == <<topic, input, garbage>>

Bytes(n) == [i \in 1 .. n |-> i]

\* Lines of a configuration file.
Lines ==
  {<<>>, <<"#", "DN_CNT", "=", "3">>, <<"DN_CNT">>, <<"DN_CNT", "=">>, <<"=", "3">>,
   <<"DN_CNT", "=", "1", "2">>, <<" ", "DN_CNT", " ", "=", " ", "3">>, <<"DN_CNT", "=", " ">>,
   <<"THREAD_RECEIVER", "=", "2", "=", "3">>, <<"THREAD_RECEIVER", "=", "x">>,
   <<"SERVER_PORT_DNMGR", "=", "9", "9", " ">>,
   \* a value and a name that fill their buffers, and a line that is too long
   <<"DN_CNT", "=", "1", "2", "3", "9">>, <<"THREAD_RECEIVER", " ", " ", " ", "=", "1">>,
   <<"DN_CNT", "=", "1", " ", " ", " ", " ", " ">>}

\* The pieces of which an input of each topic is made.
Pieces == [
  config |-> Lines,
  split  |-> {"host1", "host2", ","},
  sha    |-> {Bytes(n) : n \in {0, 1, 3, 5, 8, 17}},
  url    |-> {32, 37, 65, 97, 43, 159, 160, 255},
  frames |-> {Bytes(n) : n \in {1, 2, MAX_MESSAGE_SIZE}},
  client |-> {97, Newline, Quit}]

Init ==
  /\ topic \in DOMAIN Pieces /\ input = <<>>
  /\ garbage \in IF topic = "config" THEN Garbage ELSE {0}

\* One more line, token, chunk, byte or text.
Extend(t) ==
  /\ topic = t /\ Len(input) < MaxPieces[t]
  /\ \E p \in Pieces[t] : input' = Append(input, p)
  /\ UNCHANGED <<topic, garbage>>

Next == \E t \in DOMAIN Pieces : Extend(t)

Spec == Init /\ [][Next]_vars

\* Bounds for TLC.
PiecesBound == [config |-> 4, split |-> 6, sha |-> 4, url |-> 4, frames |-> 4, client |-> 9]

(***************************************************************************)
(* Properties                                                              *)
(***************************************************************************)
\* Every file whose names and values fit into AddMap's buffers, and every list of
\* managers: the processes start with the numbers of the last valid lines, and
\* split gives the names between the commas.
ConfigRead ==
  /\ topic = "config" => ConfigAsWritten(input, garbage)
  /\ topic = "split" => SplitInverts(input)

\* Every way to cut a message into chunks: the blocks that are hashed are those
\* of the padded message.  Every text: URLDecode inverts the encoding, or refuses a
\* byte from 160 on.
UtilitiesRight ==
  /\ topic = "sha" => Sha256Streams(input)
  /\ topic = "url" => DecodeInvertsEncode(input)

\* Every sequence of texts: it arrives at the users of another server.
TextsRelayed == topic = "frames" => RelayedText(input, 7)

\* All that can be typed: it is sent, and shown to the users of another server.
TypedShown == topic = "client" /\ input # <<>> => ClientSends(input) /\ ClientShows(input)
=============================================================================
