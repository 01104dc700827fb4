---------------------------- MODULE Base64Proofs ----------------------------
(***************************************************************************)
(* Proofs about Base64: what the page encodes is what the device decodes,  *)
(* for every sequence of bytes.                                            *)
(*                                                                         *)
(* The decoder is a recursive function over the text.  Its steps are       *)
(* followed group by group, four characters for three bytes, by induction  *)
(* on the groups; the induction principle is the one for sets of numbers,  *)
(* from the well-foundedness of <.                                         *)
(***************************************************************************)
EXTENDS Base64, WellFoundedInduction, TLAPS

Octet == 0 .. 255

-----------------------------------------------------------------------------
(* Lengths.                                                                *)

\* For a chunk of any size the buffer is as long as the chunk, and the loop
\* fills it to its end and not beyond.
LEMMA Base64Lengths ==
  ASSUME NEW n \in Nat
  PROVE  /\ EncodedLen(n) \in Nat
         /\ Padding(n) \in 0 .. 2
         /\ DecodedLen(EncodedLen(n), Padding(n)) = n
         /\ FilledLen(EncodedLen(n), Padding(n)) = n
<1> DEFINE q == n \div 3
           r == n % 3
<1>1. q \in Nat /\ r \in 0 .. 2 /\ n = 3 * q + r
  OBVIOUS
<1>2. Padding(n) = (IF r = 0 THEN 0 ELSE 3 - r)
  BY <1>1 DEF Padding
<1>3. EncodedLen(n) = 4 * (IF r = 0 THEN q ELSE q + 1)
  BY <1>1 DEF EncodedLen
<1>4. QED
  BY <1>1, <1>2, <1>3 DEF DecodedLen, FilledLen

-----------------------------------------------------------------------------
(* Induction.                                                              *)

LEMMA Least ==
  ASSUME NEW T \in SUBSET Nat, T # {}
  PROVE  \E k \in T : \A j \in T : k <= j
<1>1. PICK k \in T : \A j \in T : <<j, k>> \notin OpToRel(<, Nat)
  BY NatLessThanWellFounded, WFMin
<1>2. \A j \in T : j < k => <<j, k>> \in OpToRel(<, Nat)
  BY DEF OpToRel
<1>3. \A j \in T : ~(j < k)
  BY <1>1, <1>2, Zenon
<1>4. QED
  BY <1>3

LEMMA SetInduction ==
  ASSUME NEW S \in SUBSET Nat, 0 \in S, \A n \in S : n + 1 \in S
  PROVE  S = Nat
<1>1. SUFFICES ASSUME Nat \ S # {} PROVE FALSE
  OBVIOUS
<1>2. PICK k \in Nat \ S : \A j \in Nat \ S : k <= j
  BY <1>1, Least
<1>3. k # 0 /\ k - 1 \in Nat
  BY <1>2
<1>4. k - 1 \in S
  BY <1>2, <1>3
<1>5. QED
  BY <1>2, <1>3, <1>4

-----------------------------------------------------------------------------
(* The loop of the decoder.                                                *)

\* The variables of the loop.
Loop(b, k, o, z) == [buf |-> b, bits |-> k, output |-> o, stopped |-> z]

\* f is what n characters of the text make of them.
IsRun(text, n, f) ==
  f = [i \in 0 .. n |-> IF i = 0 THEN Loop(0, 0, <<>>, FALSE) ELSE Decode(f[i - 1], text[i])]

Run(text) == CHOOSE f : IsRun(text, Len(text), f)

LEMMA DecodedIsRun == \A text : Decoded(text) = Run(text)[Len(text)].output
BY DEF Decoded, Run, IsRun, Loop

LEMMA RunExists ==
  ASSUME NEW text
  PROVE  \A n \in Nat : \E f : IsRun(text, n, f)
<1> DEFINE S == {n \in Nat : \E f : IsRun(text, n, f)}
           Fresh == Loop(0, 0, <<>>, FALSE)
<1> HIDE DEF Fresh
<1>1. 0 \in S
  <2> DEFINE f == [i \in 0 .. 0 |-> Fresh]
  <2>1. IsRun(text, 0, f)
    BY DEF IsRun, Fresh
  <2> HIDE DEF f
  <2>2. QED
    BY <2>1
<1>2. ASSUME NEW n \in S PROVE n + 1 \in S
  <2>1. PICK f : IsRun(text, n, f)
    OBVIOUS
  <2> DEFINE g == [i \in 0 .. n + 1 |-> IF i <= n THEN f[i] ELSE Decode(f[n], text[n + 1])]
  <2>2. f = [i \in 0 .. n |-> IF i = 0 THEN Fresh ELSE Decode(f[i - 1], text[i])]
    BY <2>1 DEF IsRun, Fresh
  <2>3. \A i \in 0 .. n + 1 : g[i] = IF i = 0 THEN Fresh ELSE Decode(g[i - 1], text[i])
    <3>1. SUFFICES ASSUME NEW i \in 0 .. n + 1
                   PROVE  g[i] = IF i = 0 THEN Fresh ELSE Decode(g[i - 1], text[i])
      OBVIOUS
    <3>2. CASE i <= n
      <4>1. g[i] = f[i] /\ i \in 0 .. n
        BY <3>2
      <4>2. i # 0 => i - 1 \in 0 .. n + 1 /\ i - 1 <= n
        BY <3>2
      <4>3. i # 0 => g[i - 1] = f[i - 1]
        BY <4>2
      <4>4. f[i] = IF i = 0 THEN Fresh ELSE Decode(f[i - 1], text[i])
        BY <2>2, <4>1
      <4>5. QED
        BY <4>1, <4>3, <4>4
    <3>3. CASE i = n + 1
      <4>1. g[i] = Decode(f[n], text[n + 1])
        BY <3>3
      <4>2. g[n] = f[n] /\ i - 1 = n /\ i # 0
        BY <3>3
      <4>3. QED
        BY <3>3, <4>1, <4>2
    <3>4. QED
      BY <3>2, <3>3
  <2>4. IsRun(text, n + 1, g)
    <3>1. g = [i \in 0 .. n + 1 |-> g[i]]
      OBVIOUS
    <3> HIDE DEF g
    <3>2. QED
      BY <2>3, <3>1 DEF IsRun, Fresh
  <2> HIDE DEF g
  <2>5. QED
    BY <2>4
<1> HIDE DEF S
<1>3. S = Nat
  <2>1. S \in SUBSET Nat
    BY DEF S
  <2>2. QED
    BY <1>1, <1>2, <2>1, SetInduction
<1>4. QED
  BY <1>3 DEF S

\* The loop takes one character after the other.
LEMMA RunSteps ==
  ASSUME NEW text, Len(text) \in Nat
  PROVE  /\ Run(text)[0] = Loop(0, 0, <<>>, FALSE)
         /\ \A i \in 1 .. Len(text) : Run(text)[i] = Decode(Run(text)[i - 1], text[i])
<1>1. IsRun(text, Len(text), Run(text))
  BY RunExists DEF Run
<1> DEFINE f == Run(text)
<1>2. f = [i \in 0 .. Len(text) |->
             IF i = 0 THEN Loop(0, 0, <<>>, FALSE) ELSE Decode(f[i - 1], text[i])]
  BY <1>1 DEF IsRun
<1>3. /\ f[0] = Loop(0, 0, <<>>, FALSE)
      /\ \A i \in 1 .. Len(text) : f[i] = Decode(f[i - 1], text[i])
  <2> HIDE DEF f
  <2>1. \A i \in 0 .. Len(text) :
          f[i] = IF i = 0 THEN Loop(0, 0, <<>>, FALSE) ELSE Decode(f[i - 1], text[i])
    BY <1>2, Zenon
  <2>2. 0 \in 0 .. Len(text) /\ \A i \in 1 .. Len(text) : i \in 0 .. Len(text) /\ i # 0
    OBVIOUS
  <2>3. QED
    BY <2>1, <2>2, Zenon
<1>4. QED
  BY <1>3

\* The bits at hand after a character, the buffer, and the byte it completes.
Left(k) == IF k + 6 < 8 THEN k + 6 ELSE (k + 6) - 8
NewBuf(b, c) == (b * 64 + c) % BufSize
NewByte(n, left) == (n \div (2 ^ left)) % 256

LEMMA DecodeFields ==
  ASSUME NEW s, NEW c, c # Pad, s.stopped = FALSE
  PROVE  Decode(s, c)
           = [buf |-> NewBuf(s.buf, c), bits |-> Left(s.bits), stopped |-> FALSE,
              output |-> IF s.bits + 6 < 8 THEN s.output
                         ELSE Append(s.output, NewByte(NewBuf(s.buf, c), Left(s.bits)))]
BY DEF Decode, NewBuf, Left, NewByte

LEMMA DecodeChar ==
  ASSUME NEW b, NEW k, NEW o, NEW c, c # Pad
  PROVE  Decode(Loop(b, k, o, FALSE), c)
           = Loop(NewBuf(b, c), Left(k),
                  IF k + 6 < 8 THEN o ELSE Append(o, NewByte(NewBuf(b, c), Left(k))), FALSE)
<1> DEFINE s == Loop(b, k, o, FALSE)
<1>1. s.buf = b /\ s.bits = k /\ s.output = o /\ s.stopped = FALSE
  BY DEF Loop
<1> HIDE DEF s
<1>2. Decode(s, c) = [buf |-> NewBuf(b, c), bits |-> Left(k), stopped |-> FALSE,
           output |-> IF k + 6 < 8 THEN o ELSE Append(o, NewByte(NewBuf(b, c), Left(k)))]
  BY <1>1, DecodeFields
<1>3. QED
  BY <1>2 DEF Loop, s

\* A character that completes no byte, one that does, and padding.
LEMMA DecodeShort ==
  ASSUME NEW b, NEW o, NEW c, c # Pad
  PROVE  Decode(Loop(b, 0, o, FALSE), c) = Loop(NewBuf(b, c), 6, o, FALSE)
<1>1. 0 + 6 < 8 /\ Left(0) = 6
  BY DEF Left
<1>2. QED
  BY <1>1, DecodeChar

LEMMA DecodeByte ==
  ASSUME NEW b, NEW k \in {2, 4, 6}, NEW o, NEW c, c # Pad
  PROVE  Decode(Loop(b, k, o, FALSE), c)
           = Loop(NewBuf(b, c), k - 2, Append(o, NewByte(NewBuf(b, c), k - 2)), FALSE)
<1>1. ~(k + 6 < 8) /\ Left(k) = k - 2
  BY DEF Left
<1>2. QED
  BY <1>1, DecodeChar

LEMMA DecodePad ==
  ASSUME NEW b, NEW k, NEW o, NEW z
  PROVE  Decode(Loop(b, k, o, z), Pad) = Loop(b, k, o, TRUE)
BY DEF Decode, Loop

-----------------------------------------------------------------------------
(* Six and eight bits.                                                     *)

\* The bits of b: the last six, the four before them, and the rest.
Parts(b, e, q, r) ==
  /\ b \in Nat /\ e \in Nat /\ q \in Nat /\ q < 16 /\ r \in Nat /\ r < 64
  /\ b = 1024 * e + 64 * q + r

LEMMA Bits ==
  ASSUME NEW b \in Nat
  PROVE  Parts(b, b \div 1024, (b \div 64) % 16, b % 64)
<1>1. b \div 1024 \in Nat
  OBVIOUS
<1>2. (b \div 64) % 16 \in Nat /\ (b \div 64) % 16 < 16
  OBVIOUS
<1>3. b % 64 \in Nat /\ b % 64 < 64
  OBVIOUS
<1>4. b = 1024 * (b \div 1024) + 64 * ((b \div 64) % 16) + (b % 64)
  OBVIOUS
<1>5. QED
  BY <1>1, <1>2, <1>3, <1>4 DEF Parts

\* n ends with the character c, after the last two, four and six bits of b.
Shifts(n, b, c) ==
  /\ n \in Nat /\ n % 64 = c /\ n % 16 = c % 16 /\ n % 4 = c % 4
  /\ NewByte(n, 4) = (b % 64) * 4 + (c \div 16)
  /\ NewByte(n, 2) = (b % 16) * 16 + (c \div 4)
  /\ NewByte(n, 0) = (b % 4) * 64 + c

LEMMA Split ==
  ASSUME NEW b, NEW e, NEW q, NEW r, Parts(b, e, q, r), NEW c \in 0 .. 63
  PROVE  Shifts(NewBuf(b, c), b, c)
<1> DEFINE n == 4096 * q + 64 * r + c
<1>0. /\ b \in Nat /\ e \in Nat /\ q \in Nat /\ q < 16 /\ r \in Nat /\ r < 64
      /\ b = 1024 * e + 64 * q + r
  BY DEF Parts
<1>1. (b * 64 + c) % 65536 = n
  <2>1. b * 64 + c = 65536 * e + 4096 * q + 64 * r + c
    BY <1>0
  <2>2. (65536 * e + 4096 * q + 64 * r + c) % 65536 = n
    BY <1>0
  <2>3. QED
    BY <2>1, <2>2
<1>2. b % 64 = r
  BY <1>0
<1>3. b % 16 = r % 16
  BY <1>0
<1>4. b % 4 = r % 4
  BY <1>0
<1>5. NewBuf(b, c) = n
  BY <1>1 DEF NewBuf, BufSize
<1>6. n \in Nat /\ n % 64 = c
  BY <1>0
<1>7. n % 16 = c % 16
  BY <1>0
<1>8. n % 4 = c % 4
  BY <1>0
<1>9. (n \div 16) % 256 = r * 4 + (c \div 16)
  BY <1>0
<1>10. (n \div 4) % 256 = (r % 16) * 16 + (c \div 4)
  BY <1>0
<1>11. n % 256 = (r % 4) * 64 + c
  BY <1>0
<1> HIDE DEF n
<1>12. /\ NewByte(n, 4) = (n \div 16) % 256 /\ NewByte(n, 2) = (n \div 4) % 256
       /\ NewByte(n, 0) = n % 256
  <2>1. 2 ^ 4 = 16 /\ 2 ^ 2 = 4 /\ 2 ^ 0 = 1 /\ n \div 1 = n
    BY <1>6
  <2>2. QED
    BY <2>1 DEF NewByte
<1>13. QED
  BY <1>2, <1>3, <1>4, <1>5, <1>6, <1>7, <1>8, <1>9, <1>10, <1>11, <1>12 DEF Shifts

\* What a character leaves in the buffer, and the byte it completes.
LEMMA Window ==
  ASSUME NEW b \in Nat, NEW c \in 0 .. 63
  PROVE  Shifts(NewBuf(b, c), b, c)
BY Bits, Split
CharOf(w, k) == (w \div (64 ^ (3 - k))) % 64

\* The characters of three bytes.
Word(x, y, z) == 65536 * x + 256 * y + z

LEMMA GroupChars ==
  ASSUME NEW x \in Octet, NEW y \in Octet, NEW z \in Octet
  PROVE  LET w == Word(x, y, z)
         IN /\ CharOf(w, 0) = x \div 4
            /\ CharOf(w, 1) = (x % 4) * 16 + (y \div 16)
            /\ CharOf(w, 2) = (y % 16) * 4 + (z \div 64)
            /\ CharOf(w, 3) = z % 64
<1> DEFINE w == Word(x, y, z)
<1>0. w = 65536 * x + 256 * y + z
  BY DEF Word
<1> HIDE DEF w
<1>1. CharOf(w, 0) = x \div 4
  <2>1. 64 ^ (3 - 0) = 262144
    OBVIOUS
  <2>2. ((65536 * x + 256 * y + z) \div 262144) % 64 = x \div 4
    BY DEF Octet
  <2>3. QED
    BY <1>0, <2>1, <2>2 DEF CharOf
<1>2. CharOf(w, 1) = (x % 4) * 16 + (y \div 16)
  <2>1. 64 ^ (3 - 1) = 4096
    OBVIOUS
  <2>2. (65536 * x + 256 * y + z) \div 4096 = 16 * x + (y \div 16)
    BY DEF Octet
  <2>3. (16 * x + (y \div 16)) % 64 = (x % 4) * 16 + (y \div 16)
    BY DEF Octet
  <2>4. QED
    BY <1>0, <2>1, <2>2, <2>3 DEF CharOf
<1>3. CharOf(w, 2) = (y % 16) * 4 + (z \div 64)
  <2>1. 64 ^ (3 - 2) = 64
    OBVIOUS
  <2>2. ((65536 * x + 256 * y + z) \div 64) % 64 = (y % 16) * 4 + (z \div 64)
    BY DEF Octet
  <2>3. QED
    BY <1>0, <2>1, <2>2 DEF CharOf
<1>4. CharOf(w, 3) = z % 64
  <2>1. 64 ^ (3 - 3) = 1
    OBVIOUS
  <2>2. ((65536 * x + 256 * y + z) \div 1) % 64 = z % 64
    BY DEF Octet
  <2>3. QED
    BY <1>0, <2>1, <2>2 DEF CharOf
<1>5. QED
  BY <1>1, <1>2, <1>3, <1>4 DEF w

LEMMA PadIsNoSextet == \A c \in 0 .. 63 : c # Pad
BY DEF Pad

LEMMA CharIsSextet ==
  ASSUME NEW x \in Octet, NEW y \in Octet, NEW z \in Octet, NEW k \in 0 .. 3
  PROVE  CharOf(Word(x, y, z), k) \in 0 .. 63
<1> DEFINE w == Word(x, y, z)
<1>1. /\ CharOf(w, 0) = x \div 4
      /\ CharOf(w, 1) = (x % 4) * 16 + (y \div 16)
      /\ CharOf(w, 2) = (y % 16) * 4 + (z \div 64)
      /\ CharOf(w, 3) = z % 64
  BY GroupChars, Zenon
<1> HIDE DEF w
<1>2. CharOf(w, 0) \in 0 .. 63
  BY <1>1 DEF Octet
<1>3. CharOf(w, 1) \in 0 .. 63
  BY <1>1 DEF Octet
<1>4. CharOf(w, 2) \in 0 .. 63
  BY <1>1 DEF Octet
<1>5. CharOf(w, 3) \in 0 .. 63
  BY <1>1 DEF Octet
<1>6. k = 0 \/ k = 1 \/ k = 2 \/ k = 3
  OBVIOUS
<1>7. QED
  BY <1>2, <1>3, <1>4, <1>5, <1>6 DEF w

\* The loop has k bits at hand and has written o.
Holds(s, k, o) == \E b \in Nat : s = Loop(b, k, o, FALSE)

\* The four characters of three bytes give them back one by one.
LEMMA GroupDecoded ==
  ASSUME NEW x \in Octet, NEW y \in Octet, NEW z \in Octet, NEW s, NEW o, Holds(s, 0, o)
  PROVE  LET w == Word(x, y, z)
             s2 == Decode(Decode(s, CharOf(w, 0)), CharOf(w, 1))
             s3 == Decode(s2, CharOf(w, 2))
             s4 == Decode(s3, CharOf(w, 3))
         IN /\ Holds(s2, 4, Append(o, x))
            /\ Holds(s3, 2, Append(Append(o, x), y))
            /\ Holds(s4, 0, Append(Append(Append(o, x), y), z))
<1> DEFINE w == Word(x, y, z)
           c0 == CharOf(w, 0)
           c1 == CharOf(w, 1)
           c2 == CharOf(w, 2)
           c3 == CharOf(w, 3)
<1>1. PICK b \in Nat : s = Loop(b, 0, o, FALSE)
  BY DEF Holds
<1>2. /\ c0 = x \div 4
      /\ c1 = (x % 4) * 16 + (y \div 16)
      /\ c2 = (y % 16) * 4 + (z \div 64)
      /\ c3 = z % 64
  BY GroupChars, Zenon
<1> HIDE DEF c0, c1, c2, c3, w
<1>3. c0 \in 0 .. 63 /\ c1 \in 0 .. 63 /\ c2 \in 0 .. 63 /\ c3 \in 0 .. 63
  BY CharIsSextet DEF c0, c1, c2, c3, w
<1>4. c0 # Pad /\ c1 # Pad /\ c2 # Pad /\ c3 # Pad
  BY <1>3, PadIsNoSextet
<1> DEFINE n1 == NewBuf(b, c0)
           n2 == NewBuf(n1, c1)
           n3 == NewBuf(n2, c2)
           n4 == NewBuf(n3, c3)
<1>5. n1 \in Nat /\ n1 % 64 = c0
  BY <1>3, Window DEF Shifts
<1> HIDE DEF n1
<1>6. n2 \in Nat /\ n2 % 16 = c1 % 16 /\ NewByte(n2, 4) = (n1 % 64) * 4 + (c1 \div 16)
  BY <1>3, <1>5, Window DEF Shifts
<1> HIDE DEF n2
<1>7. n3 \in Nat /\ n3 % 4 = c2 % 4 /\ NewByte(n3, 2) = (n2 % 16) * 16 + (c2 \div 4)
  BY <1>3, <1>6, Window DEF Shifts
<1> HIDE DEF n3
<1>8. n4 \in Nat /\ NewByte(n4, 0) = (n3 % 4) * 64 + c3
  BY <1>3, <1>7, Window DEF Shifts
<1> HIDE DEF n4
<1>9. NewByte(n2, 4) = x
  <2>1. (x \div 4) * 4 + (((x % 4) * 16 + (y \div 16)) \div 16) = x
    BY DEF Octet
  <2>2. QED
    BY <1>2, <1>5, <1>6, <2>1
<1>10. NewByte(n3, 2) = y
  <2>1. ((x % 4) * 16 + (y \div 16)) % 16 = y \div 16
    BY DEF Octet
  <2>2. ((y % 16) * 4 + (z \div 64)) \div 4 = y % 16
    BY DEF Octet
  <2>3. (y \div 16) * 16 + (y % 16) = y
    BY DEF Octet
  <2>4. QED
    BY <1>2, <1>6, <1>7, <2>1, <2>2, <2>3
<1>11. NewByte(n4, 0) = z
  <2>1. ((y % 16) * 4 + (z \div 64)) % 4 = z \div 64
    BY DEF Octet
  <2>2. (z \div 64) * 64 + (z % 64) = z
    BY DEF Octet
  <2>3. QED
    BY <1>2, <1>7, <1>8, <2>1, <2>2
<1> DEFINE s1 == Decode(s, c0)
           s2 == Decode(s1, c1)
           s3 == Decode(s2, c2)
           s4 == Decode(s3, c3)
<1>12. s1 = Loop(n1, 6, o, FALSE)
  BY <1>1, <1>4, DecodeShort, Zenon DEF n1
<1> HIDE DEF s1
<1>13. s2 = Loop(n2, 4, Append(o, x), FALSE)
  <2>1. 6 \in {2, 4, 6} /\ 6 - 2 = 4
    OBVIOUS
  <2>2. s2 = Loop(NewBuf(n1, c1), 4, Append(o, NewByte(NewBuf(n1, c1), 4)), FALSE)
    BY <1>4, <1>12, <2>1, DecodeByte, Zenon
  <2>3. QED
    BY <1>9, <2>2, Zenon DEF n2
<1> HIDE DEF s2
<1>14. s3 = Loop(n3, 2, Append(Append(o, x), y), FALSE)
  <2>1. 4 \in {2, 4, 6} /\ 4 - 2 = 2
    OBVIOUS
  <2>2. s3 = Loop(NewBuf(n2, c2), 2, Append(Append(o, x), NewByte(NewBuf(n2, c2), 2)), FALSE)
    BY <1>4, <1>13, <2>1, DecodeByte, Zenon
  <2>3. QED
    BY <1>10, <2>2, Zenon DEF n3
<1> HIDE DEF s3
<1>15. s4 = Loop(n4, 0, Append(Append(Append(o, x), y), z), FALSE)
  <2>1. 2 \in {2, 4, 6} /\ 2 - 2 = 0
    OBVIOUS
  <2>2. s4 = Loop(NewBuf(n3, c3), 0,
                  Append(Append(Append(o, x), y), NewByte(NewBuf(n3, c3), 0)), FALSE)
    BY <1>4, <1>14, <2>1, DecodeByte, Zenon
  <2>3. QED
    BY <1>11, <2>2, Zenon DEF n4
<1> HIDE DEF s4
<1>16. Holds(s2, 4, Append(o, x))
  BY <1>6, <1>13, Zenon DEF Holds
<1>17. Holds(s3, 2, Append(Append(o, x), y))
  BY <1>7, <1>14, Zenon DEF Holds
<1>18. Holds(s4, 0, Append(Append(Append(o, x), y), z))
  BY <1>8, <1>15, Zenon DEF Holds
<1>19. QED
  BY <1>16, <1>17, <1>18, Zenon DEF s1, s2, s3, s4, c0, c1, c2, c3, w

\* Padding ends the loop and leaves what it has written.
LEMMA PadKeeps ==
  ASSUME NEW s, NEW o, NEW k, NEW z, NEW b, s = Loop(b, k, o, z)
  PROVE  Decode(s, Pad).output = o /\ Decode(Decode(s, Pad), Pad).output = o
<1>1. Decode(s, Pad) = Loop(b, k, o, TRUE)
  BY DecodePad, Zenon
<1>2. Decode(Decode(s, Pad), Pad) = Loop(b, k, o, TRUE)
  BY <1>1, DecodePad, Zenon
<1>3. QED
  BY <1>1, <1>2 DEF Loop

-----------------------------------------------------------------------------
(* The text of a chunk.                                                    *)

ByteAt(bytes, i) == IF i <= Len(bytes) THEN bytes[i] ELSE 0
GroupWord(bytes, g) ==
  Word(ByteAt(bytes, 3 * g + 1), ByteAt(bytes, 3 * g + 2), ByteAt(bytes, 3 * g + 3))
Prefix(bytes, n) == [i \in 1 .. n |-> bytes[i]]

\* Where the characters of a group are, and the padding after the last byte.
LEMMA GroupLengths ==
  ASSUME NEW n \in Nat, NEW g \in Nat
  PROVE  LET end == EncodedLen(n) - Padding(n)
         IN /\ end \in Nat
            /\ 3 * g + 1 <= n => 4 * g + 2 <= end
            /\ 3 * g + 2 <= n => 4 * g + 3 <= end
            /\ 3 * g + 3 <= n => 4 * g + 4 <= end
            /\ n = 3 * g => EncodedLen(n) = 4 * g /\ Padding(n) = 0
            /\ n = 3 * g + 1 => EncodedLen(n) = 4 * g + 4 /\ Padding(n) = 2
            /\ n = 3 * g + 2 => EncodedLen(n) = 4 * g + 4 /\ Padding(n) = 1
<1> DEFINE q == n \div 3
           r == n % 3
<1>1. q \in Nat /\ r \in 0 .. 2 /\ n = 3 * q + r
  OBVIOUS
<1>2. Padding(n) = (IF r = 0 THEN 0 ELSE 3 - r)
  BY <1>1 DEF Padding
<1>3. EncodedLen(n) = 4 * (IF r = 0 THEN q ELSE q + 1)
  BY <1>1 DEF EncodedLen
<1> HIDE DEF q, r
<1>4. QED
  BY <1>1, <1>2, <1>3

LEMMA EncodedText ==
  ASSUME NEW bytes
  PROVE  Encoded(bytes)
           = [i \in 1 .. EncodedLen(Len(bytes)) |->
                IF i > EncodedLen(Len(bytes)) - Padding(Len(bytes)) THEN Pad
                ELSE CharOf(GroupWord(bytes, (i - 1) \div 4), (i - 1) % 4)]
BY DEF Encoded, CharOf, GroupWord, Word, ByteAt

LEMMA TextLength ==
  ASSUME NEW bytes \in Seq(Octet)
  PROVE  Len(Encoded(bytes)) = EncodedLen(Len(bytes))
<1>1. EncodedLen(Len(bytes)) \in Nat
  BY Base64Lengths
<1>2. QED
  BY <1>1 DEF Encoded

LEMMA TextChars ==
  ASSUME NEW bytes \in Seq(Octet), NEW g \in Nat, NEW k \in 0 .. 3,
         4 * g + k + 1 <= EncodedLen(Len(bytes)) - Padding(Len(bytes))
  PROVE  Encoded(bytes)[4 * g + k + 1] = CharOf(GroupWord(bytes, g), k)
<1> DEFINE i == 4 * g + k + 1
           n == Len(bytes)
<1>1. n \in Nat /\ EncodedLen(n) \in Nat /\ Padding(n) \in 0 .. 2
  BY Base64Lengths
<1>2. i \in 1 .. EncodedLen(n) /\ ~(i > EncodedLen(n) - Padding(n))
  BY <1>1
<1>3. (i - 1) \div 4 = g /\ (i - 1) % 4 = k
  OBVIOUS
<1> HIDE DEF i
<1>4. Encoded(bytes)[i] = CharOf(GroupWord(bytes, (i - 1) \div 4), (i - 1) % 4)
  BY <1>2, EncodedText
<1>5. QED
  BY <1>3, <1>4 DEF i

LEMMA TextPads ==
  ASSUME NEW bytes \in Seq(Octet), NEW i \in 1 .. EncodedLen(Len(bytes)),
         i > EncodedLen(Len(bytes)) - Padding(Len(bytes))
  PROVE  Encoded(bytes)[i] = Pad
BY DEF Encoded

LEMMA ByteIsOctet ==
  ASSUME NEW bytes \in Seq(Octet), NEW i \in Nat, i # 0
  PROVE  ByteAt(bytes, i) \in Octet
<1>1. 0 \in Octet
  BY DEF Octet
<1>2. QED
  BY <1>1 DEF ByteAt

LEMMA PrefixGrows ==
  ASSUME NEW bytes \in Seq(Octet), NEW n \in Nat, n + 1 <= Len(bytes)
  PROVE  Append(Prefix(bytes, n), ByteAt(bytes, n + 1)) = Prefix(bytes, n + 1)
<1>1. Prefix(bytes, n) \in Seq(Octet) /\ Len(Prefix(bytes, n)) = n
  BY DEF Prefix
<1>2. QED
  BY <1>1 DEF Prefix, ByteAt

-----------------------------------------------------------------------------
(* The decoding of the text.                                               *)

\* One group of the text, as far as the bytes go.
LEMMA GroupRun ==
  ASSUME NEW bytes \in Seq(Octet), NEW g \in Nat,
         Holds(Run(Encoded(bytes))[4 * g], 0, Prefix(bytes, 3 * g))
  PROVE  LET run == Run(Encoded(bytes))
             n == Len(bytes)
         IN /\ 3 * g + 1 <= n => Holds(run[4 * g + 2], 4, Prefix(bytes, 3 * g + 1))
            /\ 3 * g + 2 <= n => Holds(run[4 * g + 3], 2, Prefix(bytes, 3 * g + 2))
            /\ 3 * g + 3 <= n => Holds(run[4 * g + 4], 0, Prefix(bytes, 3 * g + 3))
<1> DEFINE text == Encoded(bytes)
           run == Run(text)
           n == Len(bytes)
           end == EncodedLen(n) - Padding(n)
           w == GroupWord(bytes, g)
           x == ByteAt(bytes, 3 * g + 1)
           y == ByteAt(bytes, 3 * g + 2)
           z == ByteAt(bytes, 3 * g + 3)
           o == Prefix(bytes, 3 * g)
           s == run[4 * g]
           s2 == Decode(Decode(s, CharOf(w, 0)), CharOf(w, 1))
           s3 == Decode(s2, CharOf(w, 2))
           s4 == Decode(s3, CharOf(w, 3))
<1>1. n \in Nat /\ end \in Nat /\ end <= EncodedLen(n) /\ EncodedLen(n) \in Nat
  <2>1. n \in Nat
    OBVIOUS
  <2> HIDE DEF n
  <2>2. end \in Nat
    BY <2>1, GroupLengths
  <2>3. EncodedLen(n) \in Nat /\ Padding(n) \in 0 .. 2
    BY <2>1, Base64Lengths
  <2> QED
    BY <2>1, <2>2, <2>3
<1>2. /\ 3 * g + 1 <= n => 4 * g + 2 <= end
      /\ 3 * g + 2 <= n => 4 * g + 3 <= end
      /\ 3 * g + 3 <= n => 4 * g + 4 <= end
  BY <1>1, GroupLengths
<1>3. /\ Holds(s2, 4, Append(o, x))
      /\ Holds(s3, 2, Append(Append(o, x), y))
      /\ Holds(s4, 0, Append(Append(Append(o, x), y), z))
  <2>1. x \in Octet /\ y \in Octet /\ z \in Octet
    BY ByteIsOctet
  <2>2. w = Word(x, y, z)
    BY DEF GroupWord
  <2> HIDE DEF x, y, z, w, o, s
  <2>3. Holds(s, 0, o)
    BY DEF s, o
  <2>4. QED
    BY <2>1, <2>2, <2>3, GroupDecoded
<1>4. ASSUME NEW k \in 0 .. 3, 4 * g + k + 1 <= end
      PROVE  run[4 * g + k + 1] = Decode(run[4 * g + k], CharOf(w, k))
  <2>1. text[4 * g + k + 1] = CharOf(w, k)
    BY <1>4, TextChars
  <2>2. Len(text) = EncodedLen(n)
    BY TextLength
  <2>3. 4 * g + k + 1 \in 1 .. Len(text) /\ (4 * g + k + 1) - 1 = 4 * g + k
    BY <1>1, <1>4, <2>2
  <2>4. Len(text) \in Nat
    BY <1>1, <2>2
  <2> HIDE DEF text
  <2>5. QED
    BY <2>1, <2>3, <2>4, RunSteps
<1> HIDE DEF run, w, end
<1>5. 4 * g + 2 <= end => run[4 * g + 2] = s2
  <2>1. 4 * g + 2 <= end => run[4 * g + 1] = Decode(run[4 * g], CharOf(w, 0))
    BY <1>1, <1>4
  <2>2. 4 * g + 2 <= end => run[4 * g + 2] = Decode(run[4 * g + 1], CharOf(w, 1))
    BY <1>1, <1>4
  <2>3. QED
    BY <2>1, <2>2
<1>6. 4 * g + 3 <= end => run[4 * g + 3] = s3
  <2>1. 4 * g + 3 <= end => run[4 * g + 3] = Decode(run[4 * g + 2], CharOf(w, 2))
    BY <1>1, <1>4
  <2>2. 4 * g + 3 <= end => 4 * g + 2 <= end
    BY <1>1
  <2>3. QED
    BY <1>5, <2>1, <2>2
<1>7. 4 * g + 4 <= end => run[4 * g + 4] = s4
  <2>1. 4 * g + 4 <= end => run[4 * g + 4] = Decode(run[4 * g + 3], CharOf(w, 3))
    BY <1>1, <1>4
  <2>2. 4 * g + 4 <= end => 4 * g + 3 <= end
    BY <1>1
  <2>3. QED
    BY <1>6, <2>1, <2>2
<1>8. /\ 3 * g + 1 <= n => Append(o, x) = Prefix(bytes, 3 * g + 1)
      /\ 3 * g + 2 <= n => Append(Append(o, x), y) = Prefix(bytes, 3 * g + 2)
      /\ 3 * g + 3 <= n => Append(Append(Append(o, x), y), z) = Prefix(bytes, 3 * g + 3)
  <2>1. \A m \in Nat :
          m + 1 <= n => Append(Prefix(bytes, m), ByteAt(bytes, m + 1)) = Prefix(bytes, m + 1)
    BY PrefixGrows
  <2>2. 3 * g + 1 <= n => Append(o, x) = Prefix(bytes, 3 * g + 1)
    BY <2>1
  <2>3. 3 * g + 2 <= n => Append(Prefix(bytes, 3 * g + 1), y) = Prefix(bytes, 3 * g + 2)
    BY <2>1
  <2>4. 3 * g + 3 <= n => Append(Prefix(bytes, 3 * g + 2), z) = Prefix(bytes, 3 * g + 3)
    BY <2>1
  <2> HIDE DEF x, y, z, o
  <2>5. (3 * g + 3 <= n => 3 * g + 2 <= n) /\ (3 * g + 2 <= n => 3 * g + 1 <= n)
    BY <1>1
  <2>6. QED
    BY <2>2, <2>3, <2>4, <2>5, Zenon
<1> HIDE DEF s2, s3, s4, x, y, z, o, n
<1>9. /\ 3 * g + 1 <= n => Holds(run[4 * g + 2], 4, Prefix(bytes, 3 * g + 1))
      /\ 3 * g + 2 <= n => Holds(run[4 * g + 3], 2, Prefix(bytes, 3 * g + 2))
      /\ 3 * g + 3 <= n => Holds(run[4 * g + 4], 0, Prefix(bytes, 3 * g + 3))
  BY <1>2, <1>3, <1>5, <1>6, <1>7, <1>8, Zenon
<1>10. QED
  BY <1>9, Zenon DEF run, n

\* After four characters for each group the three bytes of each are written.
LEMMA GroupsDecoded ==
  ASSUME NEW bytes \in Seq(Octet)
  PROVE  \A g \in Nat : 3 * g <= Len(bytes) =>
                          Holds(Run(Encoded(bytes))[4 * g], 0, Prefix(bytes, 3 * g))
<1> DEFINE run == Run(Encoded(bytes))
           S == {g \in Nat : 3 * g <= Len(bytes) => Holds(run[4 * g], 0, Prefix(bytes, 3 * g))}
<1>1. 0 \in S
  <2>1. run[0] = Loop(0, 0, <<>>, FALSE)
    <3>1. Len(Encoded(bytes)) \in Nat
      BY TextLength, Base64Lengths
    <3>2. QED
      BY <3>1, RunSteps
  <2>2. Prefix(bytes, 0) = <<>>
    BY DEF Prefix
  <2> HIDE DEF run
  <2>3. Holds(run[0], 0, Prefix(bytes, 0))
    BY <2>1, <2>2 DEF Holds
  <2>4. 4 * 0 = 0 /\ 3 * 0 = 0
    OBVIOUS
  <2>5. QED
    BY <2>3, <2>4
<1>2. ASSUME NEW g \in S PROVE g + 1 \in S
  <2>1. g \in Nat /\ g + 1 \in Nat /\ 4 * (g + 1) = 4 * g + 4 /\ 3 * (g + 1) = 3 * g + 3
    OBVIOUS
  <2>2. SUFFICES ASSUME 3 * g + 3 <= Len(bytes)
                 PROVE  Holds(run[4 * g + 4], 0, Prefix(bytes, 3 * g + 3))
    BY <2>1
  <2>3. Holds(run[4 * g], 0, Prefix(bytes, 3 * g))
    <3>1. 3 * g <= Len(bytes)
      BY <2>1, <2>2
    <3>2. QED
      BY <3>1
  <2>4. QED
    BY <2>1, <2>2, <2>3, GroupRun
<1> HIDE DEF S
<1>3. S = Nat
  <2>1. S \in SUBSET Nat
    BY DEF S
  <2>2. QED
    BY <1>1, <1>2, <2>1, SetInduction
<1>4. QED
  BY <1>3 DEF S

\* The loop over the whole text writes the bytes it was made of.
LEMMA TextDecoded ==
  ASSUME NEW bytes \in Seq(Octet)
  PROVE  Decoded(Encoded(bytes)) = bytes
<1> DEFINE text == Encoded(bytes)
           run == Run(text)
           n == Len(bytes)
           g == n \div 3
<1>1. n \in Nat /\ g \in Nat /\ 3 * g <= n /\ (n = 3 * g \/ n = 3 * g + 1 \/ n = 3 * g + 2)
  <2>1. n \in Nat
    OBVIOUS
  <2> HIDE DEF n
  <2>2. QED
    BY <2>1
<1>2. Prefix(bytes, n) = bytes
  BY DEF Prefix
<1>3. Len(text) = EncodedLen(n)
  BY TextLength
<1>4. /\ n = 3 * g => EncodedLen(n) = 4 * g /\ Padding(n) = 0
      /\ n = 3 * g + 1 => EncodedLen(n) = 4 * g + 4 /\ Padding(n) = 2
      /\ n = 3 * g + 2 => EncodedLen(n) = 4 * g + 4 /\ Padding(n) = 1
  <2> HIDE DEF n, g
  <2>1. QED
    BY <1>1, GroupLengths
<1>5. Holds(run[4 * g], 0, Prefix(bytes, 3 * g))
  <2> HIDE DEF g
  <2>1. QED
    BY <1>1, GroupsDecoded
<1>6. /\ n = 3 * g + 1 => Holds(run[4 * g + 2], 4, Prefix(bytes, 3 * g + 1))
      /\ n = 3 * g + 2 => Holds(run[4 * g + 3], 2, Prefix(bytes, 3 * g + 2))
  <2> HIDE DEF g
  <2>1. QED
    BY <1>1, <1>5, GroupRun
<1>7. ASSUME NEW i \in 1 .. EncodedLen(n), i > EncodedLen(n) - Padding(n)
      PROVE  run[i] = Decode(run[i - 1], Pad)
  <2>1. text[i] = Pad
    BY <1>7, TextPads
  <2>2. Len(text) \in Nat
    BY <1>1, <1>3, <1>4
  <2> HIDE DEF text
  <2>3. QED
    BY <1>3, <1>7, <2>1, <2>2, RunSteps
<1>8. Decoded(text) = run[Len(text)].output
  BY DecodedIsRun
<1>9. \A s, k : Holds(s, k, bytes) =>
        /\ s.output = bytes
        /\ Decode(s, Pad).output = bytes
        /\ Decode(Decode(s, Pad), Pad).output = bytes
  <2>1. SUFFICES ASSUME NEW s, NEW k, Holds(s, k, bytes)
                 PROVE  /\ s.output = bytes
                        /\ Decode(s, Pad).output = bytes
                        /\ Decode(Decode(s, Pad), Pad).output = bytes
    OBVIOUS
  <2>2. PICK b \in Nat : s = Loop(b, k, bytes, FALSE)
    BY <2>1 DEF Holds
  <2>3. s.output = bytes
    BY <2>2 DEF Loop
  <2>4. QED
    BY <2>2, <2>3, PadKeeps
<1> HIDE DEF run, n, g, text
<1>10. CASE n = 3 * g
  BY <1>2, <1>3, <1>4, <1>5, <1>8, <1>9, <1>10 DEF text
<1>11. CASE n = 3 * g + 1
  <2>1. EncodedLen(n) = 4 * g + 4 /\ Padding(n) = 2
    BY <1>4, <1>11
  <2>2. run[4 * g + 3] = Decode(run[4 * g + 2], Pad)
    BY <1>1, <1>7, <2>1
  <2>3. run[4 * g + 4] = Decode(run[4 * g + 3], Pad)
    BY <1>1, <1>7, <2>1
  <2>4. Holds(run[4 * g + 2], 4, bytes)
    BY <1>2, <1>6, <1>11
  <2>5. QED
    BY <1>3, <1>8, <1>9, <2>1, <2>2, <2>3, <2>4 DEF text
<1>12. CASE n = 3 * g + 2
  <2>1. EncodedLen(n) = 4 * g + 4 /\ Padding(n) = 1
    BY <1>4, <1>12
  <2>2. run[4 * g + 4] = Decode(run[4 * g + 3], Pad)
    BY <1>1, <1>7, <2>1
  <2>3. Holds(run[4 * g + 3], 2, bytes)
    BY <1>2, <1>6, <1>12
  <2>4. QED
    BY <1>3, <1>8, <1>9, <2>1, <2>2, <2>3 DEF text
<1>13. QED
  BY <1>1, <1>10, <1>11, <1>12 DEF text

\* The device counts the padding the page has added: no character is padding.
LEMMA TextEnds ==
  ASSUME NEW bytes \in Seq(Octet)
  PROVE  EndPads(Encoded(bytes)) = Padding(Len(bytes))
<1> DEFINE text == Encoded(bytes)
           n == Len(bytes)
           g == n \div 3
<1>1. n \in Nat /\ g \in Nat /\ (n = 3 * g \/ n = 3 * g + 1 \/ n = 3 * g + 2)
  <2>1. n \in Nat
    OBVIOUS
  <2> HIDE DEF n
  <2>2. QED
    BY <2>1
<1>2. Len(text) = EncodedLen(n)
  BY TextLength
<1>3. /\ n = 3 * g => EncodedLen(n) = 4 * g /\ Padding(n) = 0
      /\ n = 3 * g + 1 => EncodedLen(n) = 4 * g + 4 /\ Padding(n) = 2
      /\ n = 3 * g + 2 => EncodedLen(n) = 4 * g + 4 /\ Padding(n) = 1
  <2> HIDE DEF n, g
  <2>1. QED
    BY <1>1, GroupLengths
<1>4. ASSUME NEW h \in Nat, NEW k \in 0 .. 3, 4 * h + k + 1 <= EncodedLen(n) - Padding(n)
      PROVE  text[4 * h + k + 1] # Pad
  <2>1. text[4 * h + k + 1] = CharOf(GroupWord(bytes, h), k)
    BY <1>4, TextChars
  <2>2. GroupWord(bytes, h) = Word(ByteAt(bytes, 3 * h + 1), ByteAt(bytes, 3 * h + 2),
                                   ByteAt(bytes, 3 * h + 3))
    BY DEF GroupWord
  <2>3. /\ ByteAt(bytes, 3 * h + 1) \in Octet /\ ByteAt(bytes, 3 * h + 2) \in Octet
        /\ ByteAt(bytes, 3 * h + 3) \in Octet
    BY ByteIsOctet
  <2>4. CharOf(GroupWord(bytes, h), k) \in 0 .. 63
    BY <2>2, <2>3, CharIsSextet
  <2>5. CharOf(GroupWord(bytes, h), k) # Pad
    BY <2>4, PadIsNoSextet, Zenon
  <2>6. QED
    BY <2>1, <2>5, Zenon
<1>5. ASSUME NEW i \in 1 .. EncodedLen(n), i > EncodedLen(n) - Padding(n)
      PROVE  text[i] = Pad
  BY <1>5, TextPads
<1> HIDE DEF n, g, text
<1>6. CASE n = 3 * g /\ g = 0
  BY <1>2, <1>3, <1>6 DEF EndPads, text, n
<1>7. CASE n = 3 * g /\ g # 0
  <2>1. EncodedLen(n) = 4 * g /\ Padding(n) = 0 /\ g - 1 \in Nat
    BY <1>1, <1>3, <1>7
  <2>2. text[4 * (g - 1) + 3 + 1] # Pad /\ text[4 * (g - 1) + 2 + 1] # Pad
    BY <1>1, <1>4, <2>1
  <2>3. 4 * (g - 1) + 3 + 1 = 4 * g /\ 4 * (g - 1) + 2 + 1 = 4 * g - 1 /\ ~(4 * g < 2)
    BY <1>1, <2>1
  <2>4. text[4 * g] # Pad /\ text[4 * g - 1] # Pad
    BY <2>2, <2>3
  <2>5. EndPads(text) = 0
    BY <1>2, <2>1, <2>3, <2>4 DEF EndPads
  <2>6. QED
    BY <2>1, <2>5 DEF text, n
<1>8. CASE n = 3 * g + 1
  <2>1. EncodedLen(n) = 4 * g + 4 /\ Padding(n) = 2
    BY <1>3, <1>8
  <2>2. text[4 * g + 4] = Pad /\ text[4 * g + 3] = Pad
    BY <1>1, <1>5, <2>1
  <2>3. (4 * g + 4) - 1 = 4 * g + 3 /\ ~(4 * g + 4 < 2)
    BY <1>1
  <2>4. EndPads(text) = 2
    BY <1>2, <2>1, <2>2, <2>3 DEF EndPads
  <2>5. QED
    BY <2>1, <2>4 DEF text, n
<1>9. CASE n = 3 * g + 2
  <2>1. EncodedLen(n) = 4 * g + 4 /\ Padding(n) = 1
    BY <1>3, <1>9
  <2>2. text[4 * g + 4] = Pad /\ text[4 * g + 2 + 1] # Pad
    BY <1>1, <1>4, <1>5, <2>1
  <2>3. (4 * g + 4) - 1 = 4 * g + 2 + 1 /\ ~(4 * g + 4 < 2)
    BY <1>1
  <2>4. EndPads(text) = 1
    BY <1>2, <2>1, <2>2, <2>3 DEF EndPads
  <2>5. QED
    BY <2>1, <2>4 DEF text, n
<1>10. QED
  BY <1>1, <1>6, <1>7, <1>8, <1>9 DEF text, n

\* Whatever bytes sendChunk cuts out of the file and passes to btoa, the device
\* sizes its buffer for exactly these, _b64_decode fills it to its end and not
\* beyond, and what it holds then are the bytes themselves.
THEOREM Base64RoundTrip == \A bytes \in Seq(0 .. 255) : RoundTrip(bytes)
<1> SUFFICES ASSUME NEW bytes \in Seq(Octet) PROVE RoundTrip(bytes)
  BY DEF Octet
<1> DEFINE text == Encoded(bytes)
           n == Len(bytes)
<1>1. Decoded(text) = bytes
  BY TextDecoded
<1>2. Len(text) = EncodedLen(n)
  BY TextLength
<1>3. EndPads(text) = Padding(n)
  BY TextEnds
<1>4. DecodedLen(EncodedLen(n), Padding(n)) = n /\ FilledLen(EncodedLen(n), Padding(n)) = n
  <2>1. n \in Nat
    OBVIOUS
  <2>2. QED
    BY <2>1, Base64Lengths
<1>5. QED
  BY <1>1, <1>2, <1>3, <1>4 DEF RoundTrip

=============================================================================
