------------------------------- MODULE Base64 -------------------------------
(***************************************************************************)
(* The text of a chunk of a firmware file: btoa of the page, and the two   *)
(* functions of the device that undo it, _b64_decoded_len, which sizes the *)
(* buffer, and _b64_decode, which fills it and is not told its size.       *)
(*                                                                         *)
(* A character is the number its six bits stand for, or Pad.  The last     *)
(* part of the module is the conversion itself, the first what the update  *)
(* needs of it: how long the text, the buffer and what fills it are.       *)
(***************************************************************************)
EXTENDS Integers, Sequences

Pad == 64

-----------------------------------------------------------------------------
(* Lengths.                                                                *)

\* btoa: four characters for three bytes, the last of them padding.
EncodedLen(n) == 4 * ((n + 2) \div 3)
Padding(n) == (3 - (n % 3)) % 3

\* _b64_decoded_len: the size of the buffer.
DecodedLen(chars, pads) == IF chars < 2 THEN 0 ELSE ((chars * 3) \div 4) - pads

\* What _b64_decode writes into it: a byte whenever eight bits are there.
FilledLen(chars, pads) == (6 * (chars - pads)) \div 8

-----------------------------------------------------------------------------
(* The conversion.                                                         *)

\* btoa of a sequence of bytes.
Encoded(bytes) ==
  LET byte(i) == IF i <= Len(bytes) THEN bytes[i] ELSE 0
      bits(g) == 65536 * byte(3 * g + 1) + 256 * byte(3 * g + 2) + byte(3 * g + 3)
      char(g, k) == (bits(g) \div (64 ^ (3 - k))) % 64
  IN [i \in 1 .. EncodedLen(Len(bytes)) |->
        IF i > EncodedLen(Len(bytes)) - Padding(Len(bytes)) THEN Pad
        ELSE char((i - 1) \div 4, (i - 1) % 4)]

\* Of the 32 bits of buf the loop reads at most the last twelve.
BufSize == 2 ^ 16

\* One character: the loop stops for good at padding.
Decode(s, c) ==
  LET buf == (s.buf * 64 + c) % BufSize
      bits == s.bits + 6
      left == IF bits < 8 THEN bits ELSE bits - 8
  IN IF s.stopped \/ c = Pad THEN [s EXCEPT !.stopped = TRUE]
     ELSE [buf |-> buf, bits |-> left, stopped |-> FALSE,
           output |-> IF bits < 8 THEN s.output
                      ELSE Append(s.output, (buf \div (2 ^ left)) % 256)]

\* _b64_decode.
Decoded(text) ==
  LET after[i \in 0 .. Len(text)] ==
        IF i = 0 THEN [buf |-> 0, bits |-> 0, output |-> <<>>, stopped |-> FALSE]
        ELSE Decode(after[i - 1], text[i])
  IN after[Len(text)].output

\* The padding _b64_decoded_len finds in the last two characters.
EndPads(text) ==
  LET pad(i) == IF text[i] = Pad THEN 1 ELSE 0
  IN IF Len(text) < 2 THEN 0 ELSE pad(Len(text)) + pad(Len(text) - 1)

\* The device gets back what the page cut out of the file, and the lengths
\* above are those of the text, the buffer and the output.
RoundTrip(bytes) ==
  LET text == Encoded(bytes)
  IN /\ Decoded(text) = bytes
     /\ Len(text) = EncodedLen(Len(bytes))
     /\ EndPads(text) = Padding(Len(bytes))
     /\ DecodedLen(Len(text), EndPads(text)) = Len(bytes)
     /\ FilledLen(Len(text), EndPads(text)) = Len(bytes)
=============================================================================
