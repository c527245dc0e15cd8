------------------------------- MODULE NPUtil -------------------------------
(***************************************************************************)
(* CNPUtil: the streaming of SHA-256 (starts, update, finish) and          *)
(* URLDecode.  The compression function is left uninterpreted: the state   *)
(* of a context is the sequence of blocks it has consumed, and two         *)
(* contexts have the same digest for every compression function exactly    *)
(* when they consumed the same blocks.  Sizes are scaled: a block has      *)
(* Block bytes (64 in the code) and ends with the two words of the length, *)
(* each of which counts modulo Word (2^32) and is one byte long (4).       *)
(***************************************************************************)
EXTENDS Integers, Sequences, SequencesExt

CONSTANTS
  Block,  \* bytes of a block
  Word,   \* total[0] and total[1] are numbers below Word
  Junk    \* a byte of ctx->buffer that was never written

ASSUME NPUtilAssumption ==
  /\ Block \in Nat /\ Block > 2
  /\ Word \in Nat /\ Word > Block /\ Word % Block = 0 /\ Word % 8 = 0

LenBytes == 2

(***************************************************************************)
(* SHA-256                                                                 *)
(***************************************************************************)
\* The code leaves the buffer uninitialised.
sha256_starts ==
  [total |-> <<0, 0>>, blocks |-> <<>>, buffer |-> [i \in 1 .. Block |-> Junk]]

sha256_process(blocks, data) == Append(blocks, data)

\* memcpy(buffer + at, input, ...)
CopyTo(buffer, at, input) ==
  [i \in 1 .. Block |-> IF i \in at + 1 .. at + Len(input) THEN input[i - at] ELSE buffer[i]]

\* The while loop: whole blocks straight from the input.
WholeBlocks(input) ==
  [i \in 1 .. Len(input) \div Block |-> SubSeq(input, (i - 1) * Block + 1, i * Block)]

Leftover(input) == SubSeq(input, (Len(input) \div Block) * Block + 1, Len(input))

\* left, once the first bytes of the input have completed the buffered block.
LeftAfter(left, first) == IF first > 0 THEN 0 ELSE left

sha256_update(ctx, input) ==
  LET length == Len(input)
      left   == ctx.total[1] % Block
      fill   == Block - left
      low    == (ctx.total[1] + length) % Word
      high   == IF low < length THEN (ctx.total[2] + 1) % Word ELSE ctx.total[2]
      first  == IF left > 0 /\ length >= fill THEN fill ELSE 0
      buf    == CopyTo(ctx.buffer, left, SubSeq(input, 1, first))
      rest   == SubSeq(input, first + 1, length)
  IN IF length = 0 THEN ctx
     ELSE [total  |-> <<low, high>>,
           blocks |-> FoldLeft(sha256_process, ctx.blocks,
                        (IF first > 0 THEN <<buf>> ELSE <<>>) \o WholeBlocks(rest)),
           buffer |-> CopyTo(buf, LeftAfter(left, first), Leftover(rest))]

sha256_padding == [i \in 1 .. Block |-> IF i = 1 THEN 128 ELSE 0]

\* The length in bits as two words: total * 8.
msglen(total) ==
  <<(total[1] \div (Word \div 8)) + ((total[2] * 8) % Word), (total[1] * 8) % Word>>

\* Mutant: last <= 56.
PadLengthLate(last) ==
  IF last <= Block - LenBytes THEN Block - LenBytes - last ELSE 2 * Block - LenBytes - last

PadLength(last) ==
  IF last < Block - LenBytes THEN Block - LenBytes - last ELSE 2 * Block - LenBytes - last

sha256_finish(ctx) ==
  LET padn == PadLength(ctx.total[1] % Block)
  IN sha256_update(sha256_update(ctx, SubSeq(sha256_padding, 1, padn)),
                   msglen(ctx.total)).blocks

GoSha256(source) == sha256_finish(sha256_update(sha256_starts, source))

\* FIPS 180-2: the message, a one bit, as few zeros as possible, and the
\* length in bits.
Padded(m) ==
  LET zeros == CHOOSE z \in 0 .. Block - 1 : (Len(m) + 1 + z + LenBytes) % Block = 0
      bits  == Len(m) * 8
  IN m \o <<128>> \o [i \in 1 .. zeros |-> 0] \o <<(bits \div Word) % Word, bits % Word>>

\* However a message is cut into calls of sha256_update, the blocks that are
\* compressed are those of the padded message: across the border of a block,
\* where the length no longer fits into the last one, and when total[0] wraps.
\* (The length of one call is a word.)
Sha256Streams(chunks) ==
  LET m == FlattenSeq(chunks)
  IN /\ sha256_finish(FoldLeft(sha256_update, sha256_starts, chunks)) = WholeBlocks(Padded(m))
     /\ Len(m) < Word => GoSha256(m) = WholeBlocks(Padded(m))

(***************************************************************************)
(* URLDecode                                                               *)
(***************************************************************************)
isdigit(c) == c \in 48 .. 57
isalnum(c) == isdigit(c) \/ c \in 65 .. 90 \/ c \in 97 .. 122
Percent == 37

DecodeStart == [state |-> 0, code |-> 0, dst |-> <<>>, ret |-> 0]

HexValue(c) == IF isdigit(c) THEN c - 48 ELSE c - 55

\* One character: plain, the first digit of an escape, which must be decimal,
\* or the second.
DecodeStep(d, c) ==
  CASE d.ret < 0 -> d
    [] d.ret = 0 /\ d.state = 0 ->
         IF c = Percent THEN [d EXCEPT !.state = 1] ELSE [d EXCEPT !.dst = Append(@, c)]
    [] d.ret = 0 /\ d.state = 1 ->
         IF isdigit(c) THEN [d EXCEPT !.state = 2, !.code = c - 48] ELSE [d EXCEPT !.ret = -1]
    [] d.ret = 0 /\ d.state = 2 ->
         IF isalnum(c)
         THEN [d EXCEPT !.state = 0, !.dst = Append(@, (d.code * 16 + HexValue(c)) % 256)]
         ELSE [d EXCEPT !.ret = -1]

URLDecode(src) ==
  LET d == FoldLeft(DecodeStep, DecodeStart, src)
  IN [ret |-> d.ret, dst |-> d.dst]

HexDigit(n) == IF n < 10 THEN 48 + n ELSE 55 + n
Encoded(bytes) ==
  FlattenSeq([i \in 1 .. Len(bytes) |->
    IF isalnum(bytes[i]) THEN <<bytes[i]>>
    ELSE <<Percent, HexDigit(bytes[i] \div 16), HexDigit(bytes[i] % 16)>>])

\* Decoding inverts the encoding of every text of bytes below 160; a byte from
\* 160 on is encoded with a letter first, and the whole text is then refused
\* (NPUtil.cpp:641).
DecodeInvertsEncode(bytes) ==
  LET d == URLDecode(Encoded(bytes))
  IN IF \A i \in 1 .. Len(bytes) : bytes[i] < 160
     THEN d.ret = 0 /\ d.dst = bytes
     ELSE d.ret = -1
=============================================================================
