----------------------------- MODULE ChatClient -----------------------------
(***************************************************************************)
(* The terminal client (chat_client.c) and the load client (clients.c):    *)
(* what they send for what is typed, and what they show of what arrives.   *)
(* A byte is a number, the command "/quit" counts as one byte, and sizes   *)
(* are scaled.                                                             *)
(***************************************************************************)
EXTENDS Framing

CONSTANTS
  MESSAGE_BUFFER,   \* bytes of message (500)
  USERNAME_BUFFER   \* bytes of username (10)

ASSUME ClientAssumption ==
  /\ MESSAGE_BUFFER \in Nat /\ MESSAGE_BUFFER > 1
  /\ USERNAME_BUFFER \in Nat /\ USERNAME_BUFFER > 1

NUL == 0
Newline == 10
Quit == 47           \* the command "/quit"
Prompt == <<62, 32>> \* "> "
Unread == -1         \* a byte that is printed from behind the buffer

\* At most n - 1 bytes, up to the end of the line.
fgets(stdin, n) ==
  LET nl == SelectInSeq(stdin, LAMBDA c : c = Newline)
      k  == IF nl = 0 \/ nl > n - 1 THEN n - 1 ELSE nl
  IN [text |-> SubSeq(stdin, 1, IF k < Len(stdin) THEN k ELSE Len(stdin)),
      rest |-> SubSeq(stdin, k + 1, Len(stdin))]

\* username[strlen(username) - 1] = 0, whatever the last byte is.
PromptOf(stdin) ==
  LET name == fgets(stdin, USERNAME_BUFFER).text
  IN SubSeq(name, 1, Len(name) - 1) \o Prompt

\* One turn of the loop of send_message.  final_message is empty after memset,
\* whatever it held; the terminating NUL is sent.
SendOne(s, turn) ==
  LET line == fgets(s.stdin, MESSAGE_BUFFER)
  IN IF s.stdin = <<>> \/ s.quit THEN s
     ELSE IF line.text[1] = Quit THEN [s EXCEPT !.quit = TRUE, !.stdin = line.rest]
     ELSE [s EXCEPT !.stdin = line.rest,
                    !.sent = Append(@, s.prompt \o line.text \o <<NUL>>)]

\* main asks for the name and then sends what is typed.
send_message(stdin) ==
  LET start == [prompt |-> PromptOf(stdin), stdin |-> fgets(stdin, USERNAME_BUFFER).rest,
                quit |-> FALSE, sent |-> <<>>]
  IN FoldLeft(SendOne, start, [i \in 1 .. Len(stdin) |-> i]).sent

\* The load client sends one message and leaves.
send_hi == <<104, 105, NUL>>

\* Mutant: off by one at the NUL.
ShownShort(buffer) ==
  LET k == SelectInSeq(buffer, LAMBDA c : c = NUL)
  IN IF k > 0 THEN SubSeq(buffer, 1, k - 2)
     ELSE IF Len(buffer) < MESSAGE_BUFFER THEN buffer ELSE Append(buffer, Unread)

\* printf("%s", message): up to the first NUL.  A full buffer without one is
\* printed beyond its end.
Shown(buffer) ==
  LET k == SelectInSeq(buffer, LAMBDA c : c = NUL)
  IN IF k > 0 THEN SubSeq(buffer, 1, k - 1)
     ELSE IF Len(buffer) < MESSAGE_BUFFER THEN buffer ELSE Append(buffer, Unread)

\* recvfrom gives at most MESSAGE_BUFFER bytes of what has arrived.
receive(arrived) ==
  [i \in 1 .. (Len(arrived) + MESSAGE_BUFFER - 1) \div MESSAGE_BUFFER |->
     Shown(SubSeq(arrived, (i - 1) * MESSAGE_BUFFER + 1,
                  IF i * MESSAGE_BUFFER < Len(arrived) THEN i * MESSAGE_BUFFER ELSE Len(arrived)))]

(***************************************************************************)
(* Properties                                                              *)
(***************************************************************************)
\* All that is typed behind the name, up to a "/quit", is sent once and in its
\* order, in messages that fit into final_message and carry the prompt: also
\* lines longer than the buffer, the rest of a name that is too long (which
\* becomes a message) and a last line without an end (chat_client.c:32).
ClientSends(stdin) ==
  LET sent   == send_message(stdin)
      prompt == PromptOf(stdin)
      typed  == fgets(stdin, USERNAME_BUFFER).rest
      texts  == FlattenSeq([i \in 1 .. Len(sent) |->
                  SubSeq(sent[i], Len(prompt) + 1, Len(sent[i]) - 1)])
      k      == Len(texts)
  IN /\ texts = SubSeq(typed, 1, k)
     /\ k < Len(typed) => typed[k + 1] = Quit
     /\ \A i \in 1 .. Len(sent) :
          /\ Len(sent[i]) <= MESSAGE_BUFFER + USERNAME_BUFFER + 1
          /\ IsPrefix(prompt, sent[i])

\* A message of a client reaches the users of another server with all its text,
\* for the byte that SetMessage overwrites is the NUL the client sends;
\* received alone, and no longer than the buffer, it is shown in full; of two
\* that are received together the second is not shown, and one that is longer is
\* printed beyond the end of the buffer (chat_client.c:60).
ClientShows(stdin) ==
  LET sent == Append(send_message(stdin), send_hi)
      got  == Arrives(sent, 7)
      text == [i \in 1 .. Len(sent) |-> SubSeq(sent[i], 1, Len(sent[i]) - 1)]
  IN (\A i \in 1 .. Len(sent) : Len(sent[i]) <= MAX_MESSAGE_SIZE) =>
       /\ got = sent
       /\ \A i \in 1 .. Len(got) :
            IF Len(got[i]) <= MESSAGE_BUFFER THEN receive(got[i]) = <<text[i]>>
            ELSE Last(receive(got[i])[1]) = Unread
       /\ \A i \in 1 .. Len(got) - 1 :
            Len(got[i] \o got[i + 1]) <= MESSAGE_BUFFER =>
              receive(got[i] \o got[i + 1]) = <<text[i]>>
=============================================================================
