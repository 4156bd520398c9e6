---------------------------- MODULE StringsProofs ----------------------------
(***************************************************************************)
(* Proofs about the way of a result to a Java string, for results, schemas *)
(* and compressed data of every size: the segments of the JSON text hold   *)
(* what is written into them, the compressed stream is complete when it is *)
(* encoded, base64_encode produces the encoding and stays within its       *)
(* buffers, and so do the conversions of utf16_utf8.c that are handed the  *)
(* text.                                                                   *)
(***************************************************************************)
EXTENDS StringsRef, UtfProofs, SequenceProofs, FiniteSetTheorems

-----------------------------------------------------------------------------
(* base64_encode.                                                          *)

Byte8 == 0 .. 255

(* The first characters of s are the six-bit groups of the first n bytes.  *)
Encoded(s, n) == \A i \in 0 .. Len(s) - 1 : s[i + 1] = Table6(SixBits(i, n))

IsByte(x) == x \in Byte8

(* The data are bytes.                                                     *)
LEMMA SourceIsByte ==
  ASSUME NEW i \in Nat, i < Len(Data)
  PROVE  IsByte(Source(i))
<1>1. i + 1 \in 1 .. Len(Data)
  <2>1. Len(Data) \in Nat
    BY Base64Assumption, LenProperties
  <2> QED
    BY <2>1, SMT
<1>2. Data[i + 1] \in 0 .. MaxByte
  BY <1>1, Base64Assumption, ElementOfSeq
<1> QED
  BY <1>2, Zenon DEF IsByte, Byte8, Source, MaxByte

(* A character of the alphabet is a byte.                                  *)
LEMMA TableIsByte == ASSUME NEW n \in Nat PROVE Table6(n) \in Byte8
BY SMT DEF Table6, Byte8

(* The shift of each group.                                                *)
LEMMA Places ==
  ASSUME NEW q \in Nat
  PROVE  /\ Shift(4 * q) = 1024 /\ Shift(4 * q + 1) = 16
         /\ Shift(4 * q + 2) = 64 /\ Shift(4 * q + 3) = 256
<1>1. (4 * q) % 4 = 0 /\ (4 * q + 1) % 4 = 1 /\ (4 * q + 2) % 4 = 2 /\ (4 * q + 3) % 4 = 3
  BY SMT
<1> QED
  BY <1>1, SMT DEF Shift

(* Six bits of two bytes, shifted by d; and the four groups of the bytes   *)
(* a, b and c.                                                             *)
Sextet(a, b, d) == ((a * 256 + b) \div d) % 64
First(a)      == a \div 4
Second(a, b)  == (a % 4) * 16 + b \div 16
Third(b, c)   == (b % 16) * 4 + c \div 64
Fourth(c)     == c % 64

(* Six bits of two bytes, for each of the four places they may begin at.   *)
LEMMA SixOfTwo ==
  ASSUME NEW a, IsByte(a), NEW b, IsByte(b), NEW q \in Nat
  PROVE  /\ Sextet(a, b, Shift(4 * q)) = First(a)
         /\ Sextet(a, b, Shift(4 * q + 1)) = Second(a, b)
         /\ Sextet(a, b, Shift(4 * q + 2)) = Third(a, b)
         /\ Sextet(a, b, Shift(4 * q + 3)) = Fourth(a)
<1> USE DEF Sextet, IsByte, Byte8
<1>1. Sextet(a, b, 1024) = First(a)
  BY SMT DEF First
<1>2. Sextet(a, b, 16) = Second(a, b)
  BY SMT DEF Second
<1>3. Sextet(a, b, 64) = Third(a, b)
  BY SMT DEF Third
<1>4. Sextet(a, b, 256) = Fourth(a)
  BY SMT DEF Fourth
<1> HIDE DEF Sextet, IsByte, Byte8
<1> QED
  BY <1>1, <1>2, <1>3, <1>4, Places, SMT

(* The byte at k, or 0 behind the first n.                                 *)
At(k, n) == IF k < n THEN Source(k) ELSE 0

(* A byte, or the 0 that stands for the one behind the last.               *)
LEMMA AtIsByte ==
  ASSUME NEW k \in Nat, NEW n \in 0 .. Len(Data)
  PROVE  IsByte(At(k, n))
<1>1. Len(Data) \in Nat
  BY Base64Assumption, LenProperties
<1>2. CASE k < n
  <2>1. k < Len(Data)
    BY <1>1, <1>2, SMT
  <2> QED
    BY <1>2, <2>1, SourceIsByte, Zenon DEF At
<1>3. CASE ~(k < n)
  BY <1>3, SMT DEF At, IsByte, Byte8
<1> QED
  BY <1>2, <1>3

(* Six bits, from the byte they begin in and the next.                     *)
LEMMA SixBitsAt ==
  ASSUME NEW i, NEW n, NEW k, k = (6 * i) \div 8, NEW l, l = k + 1
  PROVE  SixBits(i, n) = Sextet(Source(k), At(l, n), Shift(i))
BY ZenonT(30) DEF SixBits, At, Sextet

(* The four groups of three bytes, the last of which may be missing.       *)
LEMMA Groups ==
  ASSUME NEW q \in Nat, NEW n \in 0 .. Len(Data)
  PROVE  /\ 3 * q < n => SixBits(4 * q, n) = First(Source(3 * q))
         /\ 3 * q < n => SixBits(4 * q + 1, n) = Second(Source(3 * q), At(3 * q + 1, n))
         /\ 3 * q + 1 < n => SixBits(4 * q + 2, n) = Third(Source(3 * q + 1), At(3 * q + 2, n))
         /\ 3 * q + 2 < n => SixBits(4 * q + 3, n) = Fourth(Source(3 * q + 2))
<1> DEFINE a == Source(3 * q)  b == Source(3 * q + 1)  c == Source(3 * q + 2)
           x == At(3 * q + 1, n)  y == At(3 * q + 2, n)  z == At(3 * q + 3, n)
<1>1. Len(Data) \in Nat /\ n \in Nat /\ n <= Len(Data)
  BY Base64Assumption, LenProperties, SMT
<1>2. IsByte(x) /\ IsByte(y) /\ IsByte(z)
  <2>1. 3 * q + 1 \in Nat /\ 3 * q + 2 \in Nat /\ 3 * q + 3 \in Nat
    BY SMT
  <2> QED
    BY <2>1, AtIsByte
<1>3. 3 * q < n => IsByte(a)
  <2>1. 3 * q \in Nat /\ (3 * q < n => 3 * q < Len(Data))
    BY <1>1, SMT
  <2> QED
    BY <2>1, SourceIsByte
<1>4. 3 * q + 1 < n => IsByte(b)
  <2>1. 3 * q + 1 \in Nat /\ (3 * q + 1 < n => 3 * q + 1 < Len(Data))
    BY <1>1, SMT
  <2> QED
    BY <2>1, SourceIsByte
<1>5. 3 * q + 2 < n => IsByte(c)
  <2>1. 3 * q + 2 \in Nat /\ (3 * q + 2 < n => 3 * q + 2 < Len(Data))
    BY <1>1, SMT
  <2> QED
    BY <2>1, SourceIsByte
<1>6. /\ SixBits(4 * q, n) = Sextet(a, x, Shift(4 * q))
      /\ SixBits(4 * q + 1, n) = Sextet(a, x, Shift(4 * q + 1))
      /\ SixBits(4 * q + 2, n) = Sextet(b, y, Shift(4 * q + 2))
      /\ SixBits(4 * q + 3, n) = Sextet(c, z, Shift(4 * q + 3))
  <2>1. 3 * q + 2 = 3 * q + 1 + 1 /\ 3 * q + 3 = 3 * q + 2 + 1
    BY SMT
  <2>2. /\ 3 * q = (6 * (4 * q)) \div 8 /\ 3 * q = (6 * (4 * q + 1)) \div 8
        /\ 3 * q + 1 = (6 * (4 * q + 2)) \div 8 /\ 3 * q + 2 = (6 * (4 * q + 3)) \div 8
    BY SMT
  <2> QED
    BY <2>1, <2>2, SixBitsAt, Zenon
<1> HIDE DEF a, b, c, x, y, z
<1> QED
  BY <1>2, <1>3, <1>4, <1>5, <1>6, SixOfTwo, Zenon DEF a, b, c, x, y, z

(* One character more.                                                     *)
LEMMA EncodedOne ==
  ASSUME NEW s \in Seq(Byte8), NEW n, Encoded(s, n), NEW c \in Nat, c = SixBits(Len(s), n)
  PROVE  /\ Append(s, Table6(c)) \in Seq(Byte8) /\ Len(Append(s, Table6(c))) = Len(s) + 1
         /\ Encoded(Append(s, Table6(c)), n)
<1> DEFINE x == Table6(c)  t == Append(s, x)
<1>1. x \in Byte8 /\ x = Table6(SixBits(Len(s), n))
  BY TableIsByte
<1> HIDE DEF x
<1>2. /\ t \in Seq(Byte8) /\ Len(t) = Len(s) + 1 /\ t[Len(s) + 1] = x /\ Len(s) \in Nat
      /\ \A j \in 1 .. Len(s) : t[j] = s[j]
  BY <1>1, SMT
<1> HIDE DEF t
<1>3. ASSUME NEW i \in 0 .. Len(t) - 1
      PROVE  t[i + 1] = Table6(SixBits(i, n))
  <2>1. CASE i = Len(s)
    BY <1>1, <1>2, <2>1
  <2>2. CASE i # Len(s)
    <3>1. i \in 0 .. Len(s) - 1 /\ i + 1 \in 1 .. Len(s)
      BY <1>2, <1>3, <2>2, SMT
    <3> QED
      BY <1>2, <3>1 DEF Encoded
  <2> QED
    BY <2>1, <2>2
<1>4. Encoded(t, n)
  BY <1>3 DEF Encoded
<1> QED
  BY <1>2, <1>4 DEF t, x

(* Two characters more.                                                    *)
LEMMA EncodedTwo ==
  ASSUME NEW s \in Seq(Byte8), NEW n, Encoded(s, n), NEW c \in Nat, NEW d \in Nat,
         c = SixBits(Len(s), n), d = SixBits(Len(s) + 1, n)
  PROVE  LET t == s \o <<Table6(c), Table6(d)>>
         IN  t \in Seq(Byte8) /\ Len(t) = Len(s) + 2 /\ Encoded(t, n)
<1> DEFINE u == Append(s, Table6(c))  v == Append(u, Table6(d))
<1>1. u \in Seq(Byte8) /\ Len(u) = Len(s) + 1 /\ Encoded(u, n)
  BY EncodedOne
<1>2. v = s \o <<Table6(c), Table6(d)>>
  <2>1. Table6(c) \in Byte8 /\ Table6(d) \in Byte8
    BY TableIsByte
  <2> QED
    BY <2>1, SMT
<1> HIDE DEF u
<1>3. v \in Seq(Byte8) /\ Len(v) = Len(u) + 1 /\ Encoded(v, n)
  BY <1>1, EncodedOne
<1>4. Len(s) \in Nat
  BY LenProperties
<1>5. Len(s) + 1 + 1 = Len(s) + 2
  BY <1>4, SMT
<1> HIDE DEF v
<1> QED
  BY <1>1, <1>2, <1>3, <1>5

(* What an even and an odd half of three bytes hold.                       *)
LEMMA Halves ==
  ASSUME NEW a, IsByte(a), NEW b, IsByte(b)
  PROVE  /\ Table12(a * 16 + b \div 16) = <<Table6(First(a)), Table6(Second(a, b))>>
         /\ Table12((a % 16) * 256 + b) = <<Table6(Third(a, b)), Table6(Fourth(b))>>
<1>1. a \in Nat /\ b \in Nat /\ a <= 255 /\ b <= 255
  BY SMT DEF IsByte, Byte8
<1>2. (a * 16 + b \div 16) \div 64 = First(a)
  BY <1>1, SMT DEF First
<1>3. (a * 16 + b \div 16) % 64 = Second(a, b)
  BY <1>1, SMT DEF Second
<1>4. ((a % 16) * 256 + b) \div 64 = Third(a, b)
  BY <1>1, SMT DEF Third
<1>5. ((a % 16) * 256 + b) % 64 = Fourth(b)
  BY <1>1, SMT DEF Fourth
<1> QED
  BY <1>2, <1>3, <1>4, <1>5 DEF Table12

(* Groups are numbers.                                                     *)
LEMMA GroupsAreNat ==
  ASSUME NEW a, IsByte(a), NEW b, IsByte(b)
  PROVE  First(a) \in Nat /\ Second(a, b) \in Nat /\ Third(a, b) \in Nat /\ Fourth(a) \in Nat
BY SMT DEF IsByte, Byte8, First, Second, Third, Fourth

(* Three bytes become four characters.                                     *)
LEMMA EncodedQuad ==
  ASSUME NEW n \in 0 .. Len(Data), NEW q \in Nat, 3 * q + 2 < n,
         NEW s \in Seq(Byte8), Encoded(s, n), Len(s) = 4 * q,
         NEW a, a = Source(3 * q), NEW b, b = Source(3 * q + 1), NEW c, c = Source(3 * q + 2)
  PROVE  LET t == (s \o <<Table6(First(a)), Table6(Second(a, b))>>)
                     \o <<Table6(Third(b, c)), Table6(Fourth(c))>>
         IN  t \in Seq(Byte8) /\ Len(t) = 4 * (q + 1) /\ Encoded(t, n)
<1> DEFINE u == s \o <<Table6(First(a)), Table6(Second(a, b))>>
           v == u \o <<Table6(Third(b, c)), Table6(Fourth(c))>>
<1>1. Len(Data) \in Nat /\ n \in Nat /\ n <= Len(Data) /\ 3 * q < n /\ 3 * q + 1 < n
  BY Base64Assumption, LenProperties, SMT
<1>2. /\ 3 * q \in Nat /\ 3 * q < Len(Data) /\ 3 * q + 1 \in Nat /\ 3 * q + 1 < Len(Data)
      /\ 3 * q + 2 \in Nat /\ 3 * q + 2 < Len(Data)
  BY <1>1, SMT
<1>3. IsByte(a) /\ IsByte(b) /\ IsByte(c)
  BY <1>2, SourceIsByte, Zenon
<1>4. /\ First(a) \in Nat /\ Second(a, b) \in Nat /\ Third(b, c) \in Nat /\ Fourth(c) \in Nat
  BY <1>3, GroupsAreNat, Zenon
<1>5. /\ SixBits(4 * q, n) = First(a) /\ SixBits(4 * q + 1, n) = Second(a, b)
      /\ SixBits(4 * q + 2, n) = Third(b, c) /\ SixBits(4 * q + 3, n) = Fourth(c)
  BY <1>1, Groups, Zenon DEF At
<1>6. u \in Seq(Byte8) /\ Len(u) = Len(s) + 2 /\ Encoded(u, n)
  BY <1>4, <1>5, EncodedTwo, Zenon
<1> HIDE DEF u
<1>7. Len(u) = 4 * q + 2 /\ 4 * q + 2 + 1 = 4 * q + 3 /\ 4 * q + 2 + 2 = 4 * (q + 1)
  BY <1>6, SMT
<1>8. v \in Seq(Byte8) /\ Len(v) = Len(u) + 2 /\ Encoded(v, n)
  BY <1>4, <1>5, <1>6, <1>7, EncodedTwo, Zenon
<1> HIDE DEF v
<1>9. Len(v) = 4 * (q + 1)
  BY <1>7, <1>8, Zenon
<1> QED
  BY <1>8, <1>9, Zenon DEF u, v

(* Four sequences behind another, all at once or one by one.               *)
Associates(s, t, u, v, w) == s \o (t \o u \o v \o w) = ((s \o t) \o u) \o v \o w

(* Concatenation is associative.                                           *)
LEMMA FourConcatenated ==
  ASSUME NEW s \in Seq(Byte8), NEW t \in Seq(Byte8), NEW u \in Seq(Byte8),
         NEW v \in Seq(Byte8), NEW w \in Seq(Byte8)
  PROVE  Associates(s, t, u, v, w)
<1>1. t \o u \in Seq(Byte8) /\ (t \o u) \o v \in Seq(Byte8)
  BY SMT
<1>2. s \o (t \o u \o v \o w) = (s \o (t \o u \o v)) \o w
  <2> DEFINE x == (t \o u) \o v
  <2>1. x \in Seq(Byte8)
    BY <1>1
  <2> HIDE DEF x
  <2>2. s \o (x \o w) = (s \o x) \o w
    BY <2>1, SMT
  <2> QED
    BY <2>2 DEF x
<1>3. s \o (t \o u \o v) = (s \o (t \o u)) \o v
  <2> DEFINE x == t \o u
  <2>1. x \in Seq(Byte8)
    BY <1>1
  <2> HIDE DEF x
  <2>2. s \o (x \o v) = (s \o x) \o v
    BY <2>1, SMTT(30)
  <2> QED
    BY <2>2 DEF x
<1>4. s \o (t \o u) = (s \o t) \o u
  BY SMT
<1> QED
  BY <1>2, <1>3, <1>4 DEF Associates

(* A block of six bytes becomes eight characters.                          *)
LEMMA EncodedBlock ==
  ASSUME NEW n \in 0 .. Len(Data), NEW q \in Nat, 3 * q + 8 <= n,
         NEW s \in Seq(Byte8), Encoded(s, n), Len(s) = 4 * q
  PROVE  LET t == s \o Block(3 * q)
         IN  t \in Seq(Byte8) /\ Len(t) = 4 * (q + 2) /\ Encoded(t, n)
<1> DEFINE a == Source(3 * q)        b == Source(3 * q + 1)        c == Source(3 * q + 2)
           d == Source(3 * (q + 1))  e == Source(3 * (q + 1) + 1)  f == Source(3 * (q + 1) + 2)
           t == <<Table6(First(a)), Table6(Second(a, b))>>
           u == <<Table6(Third(b, c)), Table6(Fourth(c))>>
           v == <<Table6(First(d)), Table6(Second(d, e))>>
           w == <<Table6(Third(e, f)), Table6(Fourth(f))>>
<1>1. Len(Data) \in Nat /\ n \in Nat /\ n <= Len(Data)
  BY Base64Assumption, LenProperties, SMT
<1>2. /\ 3 * q \in Nat /\ 3 * q < Len(Data) /\ 3 * q + 1 \in Nat /\ 3 * q + 1 < Len(Data)
      /\ 3 * q + 2 \in Nat /\ 3 * q + 2 < Len(Data)
      /\ 3 * (q + 1) \in Nat /\ 3 * (q + 1) < Len(Data)
      /\ 3 * (q + 1) + 1 \in Nat /\ 3 * (q + 1) + 1 < Len(Data)
      /\ 3 * (q + 1) + 2 \in Nat /\ 3 * (q + 1) + 2 < Len(Data)
      /\ q + 1 \in Nat /\ q + 1 + 1 = q + 2
      /\ 3 * q + 2 < n /\ 3 * (q + 1) + 2 < n
  BY <1>1, SMT
<1>3. IsByte(a) /\ IsByte(b) /\ IsByte(c) /\ IsByte(d) /\ IsByte(e) /\ IsByte(f)
  BY <1>2, SourceIsByte, Zenon
<1>4. /\ t \in Seq(Byte8) /\ u \in Seq(Byte8) /\ v \in Seq(Byte8) /\ w \in Seq(Byte8)
  <2>1. ASSUME NEW x \in Byte8, NEW y \in Byte8 PROVE <<x, y>> \in Seq(Byte8)
    BY SMT
  <2>2. /\ First(a) \in Nat /\ Second(a, b) \in Nat /\ Third(b, c) \in Nat /\ Fourth(c) \in Nat
        /\ First(d) \in Nat /\ Second(d, e) \in Nat /\ Third(e, f) \in Nat /\ Fourth(f) \in Nat
    BY <1>3, GroupsAreNat, Zenon
  <2> QED
    BY <2>1, <2>2, TableIsByte, Zenon
<1>5. Block(3 * q) = t \o u \o v \o w
  <2>1. /\ 3 * q + 0 = 3 * q /\ 3 * q + 0 + 1 = 3 * q + 1 /\ 3 * q + 1 + 1 = 3 * q + 2
        /\ 3 * q + 3 = 3 * (q + 1) /\ 3 * (q + 1) + 1 = 3 * q + 4 /\ 3 * q + 4 + 1 = 3 * (q + 1) + 2
    BY SMT
  <2>2. Block(3 * q) = Table12(a * 16 + b \div 16) \o Table12((b % 16) * 256 + c)
                         \o Table12(d * 16 + e \div 16) \o Table12((e % 16) * 256 + f)
    BY <2>1, ZenonT(30) DEF Block
  <2>3. /\ Table12(a * 16 + b \div 16) = t /\ Table12((b % 16) * 256 + c) = u
        /\ Table12(d * 16 + e \div 16) = v /\ Table12((e % 16) * 256 + f) = w
    <3> HIDE DEF a, b, c, d, e, f
    <3> QED
      BY <1>3, Halves
  <2> HIDE DEF a, b, c, d, e, f, t, u, v, w
  <2> QED
    BY <2>2, <2>3
<1>6. s \o Block(3 * q) = ((s \o t) \o u) \o v \o w
  <2> HIDE DEF t, u, v, w
  <2>1. s \o (t \o u \o v \o w) = ((s \o t) \o u) \o v \o w
    <3>1. Associates(s, t, u, v, w)
      BY <1>4, FourConcatenated, Zenon
    <3> QED
      BY <3>1 DEF Associates
  <2> QED
    BY <1>5, <2>1, Zenon
<1> DEFINE x == (s \o t) \o u  y == (x \o v) \o w
<1>7. x \in Seq(Byte8) /\ Len(x) = 4 * (q + 1) /\ Encoded(x, n)
  BY <1>2, EncodedQuad, Zenon
<1> HIDE DEF x
<1>8. y \in Seq(Byte8) /\ Len(y) = 4 * (q + 1 + 1) /\ Encoded(y, n)
  BY <1>2, <1>7, EncodedQuad, Zenon
<1>9. Len(y) = 4 * (q + 2)
  BY <1>2, <1>8, Zenon
<1>10. s \o Block(3 * q) = y
  BY <1>6, Zenon DEF x, y
<1> HIDE DEF y
<1> QED
  BY <1>8, <1>9, <1>10, Zenon

(* A carry and the bits of the next byte.                                  *)
LEMMA Carries ==
  ASSUME NEW a, IsByte(a), NEW b, IsByte(b)
  PROVE  /\ Second(a, 0) + b \div 16 = Second(a, b) /\ Third(a, 0) + b \div 64 = Third(a, b)
         /\ (a % 4) * 16 = Second(a, 0) /\ (a % 16) * 4 = Third(a, 0)
         /\ a \div 4 = First(a) /\ a % 64 = Fourth(a)
BY SMT DEF IsByte, Byte8, First, Second, Third, Fourth

(* A text t that is one or two characters longer than s.                   *)
Longer(s, t, k, n) == t \in Seq(Byte8) /\ Len(t) = Len(s) + k /\ Encoded(t, n)

(* 0 is a byte.                                                            *)
LEMMA ZeroIsByte == IsByte(0)
BY SMT DEF IsByte, Byte8

(* The first byte of three.                                                *)
LEMMA FirstByte ==
  ASSUME NEW n \in 0 .. Len(Data), NEW q \in Nat, 3 * q < n,
         NEW s \in Seq(Byte8), Encoded(s, n), Len(s) = 4 * q, NEW c, c = Source(3 * q)
  PROVE  /\ Longer(s, Append(s, Table6(c \div 4)), 1, n)
         /\ (c % 4) * 16 = Second(c, 0) /\ Second(c, 0) \in Nat
<1>1. 3 * q \in Nat /\ 3 * q < Len(Data)
  BY Base64Assumption, SMT
<1>2. IsByte(c)
  BY <1>1, SourceIsByte, Zenon
<1>3. SixBits(Len(s), n) = First(c) /\ First(c) \in Nat /\ Second(c, 0) \in Nat
  BY <1>2, Groups, GroupsAreNat, ZeroIsByte, Zenon
<1>4. (c % 4) * 16 = Second(c, 0) /\ c \div 4 = First(c)
  BY <1>2, Carries, SMT
<1>5. Longer(s, Append(s, Table6(First(c))), 1, n)
  BY <1>3, EncodedOne, Zenon DEF Longer
<1> QED
  BY <1>3, <1>4, <1>5, Zenon

(* The second byte of three.                                               *)
LEMMA SecondByte ==
  ASSUME NEW n \in 0 .. Len(Data), NEW q \in Nat, 3 * q + 1 < n,
         NEW s \in Seq(Byte8), Encoded(s, n), Len(s) = 4 * q + 1,
         NEW a, a = Source(3 * q), NEW c, c = Source(3 * q + 1)
  PROVE  /\ Longer(s, Append(s, Table6(Second(a, 0) + c \div 16)), 1, n)
         /\ (c % 16) * 4 = Third(c, 0) /\ Third(c, 0) \in Nat
<1>1. /\ 3 * q \in Nat /\ 3 * q < Len(Data) /\ 3 * q + 1 \in Nat /\ 3 * q + 1 < Len(Data)
      /\ 3 * q < n
  BY Base64Assumption, SMT
<1>2. IsByte(a) /\ IsByte(c)
  BY <1>1, SourceIsByte, Zenon
<1>3. SixBits(Len(s), n) = Second(a, c) /\ Second(a, c) \in Nat /\ Third(c, 0) \in Nat
  BY <1>1, <1>2, Groups, GroupsAreNat, ZeroIsByte, Zenon DEF At
<1>4. (c % 16) * 4 = Third(c, 0) /\ Second(a, 0) + c \div 16 = Second(a, c)
  BY <1>2, Carries, SMT
<1>5. Longer(s, Append(s, Table6(Second(a, c))), 1, n)
  BY <1>3, EncodedOne, Zenon DEF Longer
<1> QED
  BY <1>3, <1>4, <1>5, Zenon

(* The third byte of three.                                                *)
LEMMA ThirdByte ==
  ASSUME NEW n \in 0 .. Len(Data), NEW q \in Nat, 3 * q + 2 < n,
         NEW s \in Seq(Byte8), Encoded(s, n), Len(s) = 4 * q + 2,
         NEW a, a = Source(3 * q + 1), NEW c, c = Source(3 * q + 2)
  PROVE  Longer(s, s \o <<Table6(Third(a, 0) + c \div 64), Table6(c % 64)>>, 2, n)
<1>1. /\ 3 * q + 1 \in Nat /\ 3 * q + 1 < Len(Data) /\ 3 * q + 2 \in Nat /\ 3 * q + 2 < Len(Data)
      /\ 3 * q + 1 < n /\ 4 * q + 2 + 1 = 4 * q + 3
  BY Base64Assumption, SMT
<1>2. IsByte(a) /\ IsByte(c)
  BY <1>1, SourceIsByte, Zenon
<1>3. /\ SixBits(Len(s), n) = Third(a, c) /\ SixBits(Len(s) + 1, n) = Fourth(c)
      /\ Third(a, c) \in Nat /\ Fourth(c) \in Nat
  BY <1>1, <1>2, Groups, GroupsAreNat, Zenon DEF At
<1>4. Third(a, 0) + c \div 64 = Third(a, c) /\ c % 64 = Fourth(c)
  BY <1>2, Carries, SMT
<1>5. Longer(s, s \o <<Table6(Third(a, c)), Table6(Fourth(c))>>, 2, n)
  BY <1>3, EncodedTwo, Zenon DEF Longer
<1> QED
  BY <1>4, <1>5, SMT

(* What Base64Exact says of the text t.                                    *)
Exact(t, n) ==
  t = [i \in 1 .. 4 * ((n + 2) \div 3) |->
         IF 6 * (i - 1) < 8 * n THEN Table6(SixBits(i - 1, n)) ELSE 61]

(* The same, as m groups and padding behind them.                          *)
Padded(t, m, n) ==
  /\ m \in Nat /\ 6 * m < 8 * n + 6 /\ 6 * m >= 8 * n
  /\ t \in Seq(Byte8) /\ Len(t) = 4 * ((n + 2) \div 3) /\ m <= Len(t)
  /\ \A i \in 0 .. m - 1 : t[i + 1] = Table6(SixBits(i, n))
  /\ \A i \in m .. Len(t) - 1 : t[i + 1] = 61

(* A text is exact if its elements are.                                    *)
LEMMA ExactByElements ==
  ASSUME NEW n \in Nat, NEW m, NEW t, Padded(t, m, n)
  PROVE  Exact(t, n)
<1>a. /\ m \in Nat /\ 6 * m < 8 * n + 6 /\ 6 * m >= 8 * n
      /\ t \in Seq(Byte8) /\ Len(t) = 4 * ((n + 2) \div 3) /\ m <= Len(t)
  BY DEF Padded
<1>b. /\ \A i \in 0 .. m - 1 : t[i + 1] = Table6(SixBits(i, n))
      /\ \A i \in m .. Len(t) - 1 : t[i + 1] = 61
  BY DEF Padded
<1> DEFINE N == 4 * ((n + 2) \div 3)
           f(i) == IF 6 * (i - 1) < 8 * n THEN Table6(SixBits(i - 1, n)) ELSE 61
<1>1. N \in Nat /\ Len(t) = N
  BY <1>a, SMT
<1>2. ASSUME NEW i \in 1 .. N PROVE t[i] = f(i)
  <2>1. CASE i <= m
    <3>1. i - 1 \in 0 .. m - 1 /\ 6 * (i - 1) < 8 * n /\ i - 1 + 1 = i
      <4> HIDE DEF N
      <4> QED
        BY <1>a, <1>1, <2>1, SMT
    <3> QED
      BY <1>b, <3>1
  <2>2. CASE i > m
    <3>1. i - 1 \in m .. Len(t) - 1 /\ ~(6 * (i - 1) < 8 * n) /\ i - 1 + 1 = i
      <4> HIDE DEF N
      <4> QED
        BY <1>a, <1>1, <2>2, SMT
    <3> QED
      BY <1>b, <3>1
  <2> QED
    BY <1>a, <1>1, <2>1, <2>2, SMT
<1> HIDE DEF f, N
<1>3. t = [i \in 1 .. N |-> f(i)]
  BY <1>a, <1>1, <1>2, SMT
<1> QED
  BY <1>3 DEF Exact, f, N

(* The text of whole groups of three bytes is exact as it is.              *)
LEMMA NoPadding ==
  ASSUME NEW q \in Nat, NEW n, n = 3 * q, NEW s \in Seq(Byte8), Encoded(s, n), Len(s) = 4 * q
  PROVE  Exact(s, n)
<1>1. /\ n \in Nat /\ 4 * q \in Nat /\ 6 * (4 * q) < 8 * n + 6 /\ 6 * (4 * q) >= 8 * n
      /\ 4 * q = 4 * ((n + 2) \div 3) /\ 4 * q <= 4 * q
  BY SMT
<1>2. \A i \in 4 * q .. Len(s) - 1 : s[i + 1] = 61
  BY SMT
<1>3. \A i \in 0 .. 4 * q - 1 : s[i + 1] = Table6(SixBits(i, n))
  BY DEF Encoded
<1>4. Padded(s, 4 * q, n)
  BY <1>1, <1>2, <1>3 DEF Padded
<1> QED
  BY <1>1, <1>4, ExactByElements, Zenon

(* The elements of a text with two or three characters behind it.          *)
LEMMA Behind ==
  ASSUME NEW s \in Seq(Byte8), NEW l \in Nat, l = Len(s),
         NEW x \in Byte8, NEW y \in Byte8, NEW z \in Byte8
  PROVE  /\ LET t == s \o <<x, y>>
             IN  /\ t \in Seq(Byte8) /\ Len(t) = l + 2 /\ t[l + 1] = x /\ t[l + 2] = y
                 /\ \A i \in 1 .. l : t[i] = s[i]
         /\ LET t == s \o <<x, y, z>>
             IN  /\ t \in Seq(Byte8) /\ Len(t) = l + 3 /\ t[l + 1] = x /\ t[l + 2] = y /\ t[l + 3] = z
                 /\ \A i \in 1 .. l : t[i] = s[i]
<1> DEFINE u == <<x, y>>  v == <<x, y, z>>
<1>1. u \in Seq(Byte8) /\ Len(u) = 2 /\ u[1] = x /\ u[2] = y
  OBVIOUS
<1>2. v \in Seq(Byte8) /\ Len(v) = 3 /\ v[1] = x /\ v[2] = y /\ v[3] = z
  OBVIOUS
<1> HIDE DEF u, v
<1>3. ASSUME NEW w \in Seq(Byte8), NEW k \in Nat, k = Len(w)
      PROVE  /\ s \o w \in Seq(Byte8) /\ Len(s \o w) = l + k
             /\ \A i \in 1 .. l : (s \o w)[i] = s[i]
             /\ \A i \in 1 .. k : (s \o w)[l + i] = w[i]
  <2> DEFINE t == s \o w
  <2>1. /\ t \in Seq(Byte8) /\ Len(t) = l + k
        /\ \A i \in 1 .. l + k : t[i] = IF i <= l THEN s[i] ELSE w[i - l]
    BY <1>3, ConcatProperties
  <2> HIDE DEF t
  <2>2. ASSUME NEW i \in 1 .. l PROVE t[i] = s[i]
    BY <2>1
  <2>3. ASSUME NEW i \in 1 .. k PROVE t[l + i] = w[i]
    <3>1. l + i \in 1 .. l + k /\ ~(l + i <= l) /\ (l + i) - l = i
      BY <1>3
    <3> QED
      BY <2>1, <3>1
  <2> QED
    BY <2>1, <2>2, <2>3 DEF t
<1>4. /\ s \o u \in Seq(Byte8) /\ Len(s \o u) = l + 2
      /\ \A i \in 1 .. l : (s \o u)[i] = s[i]
      /\ \A i \in 1 .. 2 : (s \o u)[l + i] = u[i]
  BY <1>1, <1>3, ZenonT(30)
<1>5. /\ s \o v \in Seq(Byte8) /\ Len(s \o v) = l + 3
      /\ \A i \in 1 .. l : (s \o v)[i] = s[i]
      /\ \A i \in 1 .. 3 : (s \o v)[l + i] = v[i]
  BY <1>2, <1>3, ZenonT(30)
<1>6. 1 \in 1 .. 2 /\ 2 \in 1 .. 2 /\ 1 \in 1 .. 3 /\ 2 \in 1 .. 3 /\ 3 \in 1 .. 3
  OBVIOUS
<1>7. (s \o u)[l + 1] = x /\ (s \o u)[l + 2] = y
  BY <1>1, <1>4, <1>6, Zenon
<1>8. (s \o v)[l + 1] = x /\ (s \o v)[l + 2] = y /\ (s \o v)[l + 3] = z
  BY <1>2, <1>5, <1>6, Zenon
<1> QED
  BY <1>4, <1>5, <1>7, <1>8, Zenon DEF u, v

(* Two characters of padding for one byte.                                 *)
LEMMA PaddingOfOne ==
  ASSUME NEW q \in Nat, NEW n \in 0 .. Len(Data), n = 3 * q + 1, NEW s \in Seq(Byte8), Encoded(s, n),
         Len(s) = 4 * q + 1, NEW a, a = Source(3 * q)
  PROVE  /\ s \o <<Table6(Second(a, 0)), 61, 61>> \in Seq(Byte8)
         /\ Len(s \o <<Table6(Second(a, 0)), 61, 61>>) = 4 * q + 4
         /\ Exact(s \o <<Table6(Second(a, 0)), 61, 61>>, n)
<1> DEFINE x == Table6(Second(a, 0))  t == s \o <<x, 61, 61>>
<1>1. /\ n \in Nat /\ 4 * q + 2 \in Nat /\ 6 * (4 * q + 2) < 8 * n + 6 /\ 6 * (4 * q + 2) >= 8 * n
      /\ 4 * q + 4 = 4 * ((n + 2) \div 3) /\ 4 * q + 2 <= 4 * q + 4
      /\ 3 * q \in Nat /\ 3 * q < Len(Data) /\ 3 * q < n /\ ~(3 * q + 1 < n)
  BY Base64Assumption, SMT
<1>2. IsByte(a)
  BY <1>1, SourceIsByte, Zenon
<1>3. SixBits(4 * q + 1, n) = Second(a, 0) /\ Second(a, 0) \in Nat
  BY <1>1, <1>2, Groups, GroupsAreNat, ZeroIsByte, Zenon DEF At
<1>4. x \in Byte8 /\ 61 \in Byte8 /\ x = Table6(SixBits(4 * q + 1, n))
  <2>1. 61 \in Byte8
    BY SMT DEF Byte8
  <2> QED
    BY <1>3, <2>1, TableIsByte
<1> HIDE DEF x
<1>5. /\ t \in Seq(Byte8) /\ Len(t) = 4 * q + 4 /\ t[4 * q + 2] = x /\ t[4 * q + 3] = 61 /\ t[4 * q + 4] = 61
      /\ \A i \in 1 .. 4 * q + 1 : t[i] = s[i]
  <2> DEFINE l == Len(s)
  <2>1. l \in Nat /\ l = 4 * q + 1
    BY SMT
  <2>2. /\ t \in Seq(Byte8) /\ Len(t) = l + 3 /\ t[l + 1] = x /\ t[l + 2] = 61 /\ t[l + 3] = 61
        /\ \A i \in 1 .. l : t[i] = s[i]
    BY <1>4, <2>1, Behind
  <2> HIDE DEF l, t
  <2>3. l + 3 = 4 * q + 4 /\ l + 1 = 4 * q + 2 /\ l + 2 = 4 * q + 3
    BY <2>1, SMT
  <2> QED
    BY <2>1, <2>2, <2>3, Zenon
<1> HIDE DEF t
<1>6. ASSUME NEW i \in 0 .. (4 * q + 2) - 1 PROVE t[i + 1] = Table6(SixBits(i, n))
  <2>1. CASE i = 4 * q + 1
    <3>1. i + 1 = 4 * q + 2
      BY <2>1, SMT
    <3> QED
      BY <1>4, <1>5, <2>1, <3>1, Zenon
  <2>2. CASE i # 4 * q + 1
    <3>1. i \in 0 .. Len(s) - 1 /\ i + 1 \in 1 .. 4 * q + 1
      BY <2>2, SMT
    <3> QED
      BY <1>5, <3>1, Zenon DEF Encoded
  <2> QED
    BY <2>1, <2>2
<1>7. ASSUME NEW i \in 4 * q + 2 .. Len(t) - 1 PROVE t[i + 1] = 61
  <2>1. i + 1 = 4 * q + 3 \/ i + 1 = 4 * q + 4
    BY <1>5, SMT
  <2> QED
    BY <1>5, <2>1
<1>8. Exact(t, n)
  <2>1. Padded(t, 4 * q + 2, n)
    BY <1>1, <1>5, <1>6, <1>7 DEF Padded
  <2> QED
    BY <1>1, <2>1, ExactByElements, Zenon
<1> QED
  BY <1>5, <1>8 DEF t, x

(* One character of padding for two bytes.                                 *)
LEMMA PaddingOfTwo ==
  ASSUME NEW q \in Nat, NEW n \in 0 .. Len(Data), n = 3 * q + 2, NEW s \in Seq(Byte8), Encoded(s, n),
         Len(s) = 4 * q + 2, NEW a, a = Source(3 * q + 1)
  PROVE  /\ s \o <<Table6(Third(a, 0)), 61>> \in Seq(Byte8)
         /\ Len(s \o <<Table6(Third(a, 0)), 61>>) = 4 * q + 4
         /\ Exact(s \o <<Table6(Third(a, 0)), 61>>, n)
<1> DEFINE x == Table6(Third(a, 0))  t == s \o <<x, 61>>
<1>1. /\ n \in Nat /\ 4 * q + 3 \in Nat /\ 6 * (4 * q + 3) < 8 * n + 6 /\ 6 * (4 * q + 3) >= 8 * n
      /\ 4 * q + 4 = 4 * ((n + 2) \div 3) /\ 4 * q + 3 <= 4 * q + 4
      /\ 3 * q + 1 \in Nat /\ 3 * q + 1 < Len(Data) /\ 3 * q + 1 < n /\ ~(3 * q + 2 < n)
  BY Base64Assumption, SMT
<1>2. IsByte(a)
  BY <1>1, SourceIsByte, Zenon
<1>3. SixBits(4 * q + 2, n) = Third(a, 0) /\ Third(a, 0) \in Nat
  BY <1>1, <1>2, Groups, GroupsAreNat, ZeroIsByte, Zenon DEF At
<1>4. x \in Byte8 /\ 61 \in Byte8 /\ x = Table6(SixBits(4 * q + 2, n))
  <2>1. 61 \in Byte8
    BY SMT DEF Byte8
  <2> QED
    BY <1>3, <2>1, TableIsByte
<1> HIDE DEF x
<1>5. /\ t \in Seq(Byte8) /\ Len(t) = 4 * q + 4 /\ t[4 * q + 3] = x /\ t[4 * q + 4] = 61
      /\ \A i \in 1 .. 4 * q + 2 : t[i] = s[i]
  <2> DEFINE l == Len(s)
  <2>1. l \in Nat /\ l = 4 * q + 2
    BY SMT
  <2>2. /\ t \in Seq(Byte8) /\ Len(t) = l + 2 /\ t[l + 1] = x /\ t[l + 2] = 61
        /\ \A i \in 1 .. l : t[i] = s[i]
    BY <1>4, <2>1, Behind, SMTT(30)
  <2> HIDE DEF l, t
  <2>3. l + 2 = 4 * q + 4 /\ l + 1 = 4 * q + 3 /\ l + 2 = 4 * q + 4
    BY <2>1, SMT
  <2> QED
    BY <2>1, <2>2, <2>3, Zenon
<1> HIDE DEF t
<1>6. ASSUME NEW i \in 0 .. (4 * q + 3) - 1 PROVE t[i + 1] = Table6(SixBits(i, n))
  <2>1. CASE i = 4 * q + 2
    <3>1. i + 1 = 4 * q + 3
      BY <2>1, SMT
    <3> QED
      BY <1>4, <1>5, <2>1, <3>1, Zenon
  <2>2. CASE i # 4 * q + 2
    <3>1. i \in 0 .. Len(s) - 1 /\ i + 1 \in 1 .. 4 * q + 2
      BY <2>2, SMT
    <3> QED
      BY <1>5, <3>1, Zenon DEF Encoded
  <2> QED
    BY <2>1, <2>2
<1>7. ASSUME NEW i \in 4 * q + 3 .. Len(t) - 1 PROVE t[i + 1] = 61
  <2>1. i + 1 = 4 * q + 4
    BY <1>5, SMT
  <2> QED
    BY <1>5, <2>1
<1>8. Exact(t, n)
  <2>1. Padded(t, 4 * q + 3, n)
    BY <1>1, <1>5, <1>6, <1>7 DEF Padded
  <2> QED
    BY <1>1, <2>1, ExactByElements, Zenon
<1> QED
  BY <1>5, <1>8 DEF t, x

-----------------------------------------------------------------------------
(* The inductive invariant: before the trailer, three bytes have become    *)
(* four characters, and one or two left over as many characters and a      *)
(* carry; the rounds to do leave two bytes that the last load may touch.   *)
Base64TypeOK ==
  /\ bphase \in {"idle", "blocks", "rounds", "bytes", "done"}
  /\ srclen \in 0 .. Len(Data) /\ pos \in Nat /\ rounds \in Nat
  /\ bytes \in 0 .. 2 /\ carry \in Nat /\ b64 \in Seq(Byte8)

Progress ==
  /\ pos <= srclen
  /\ bphase \in {"idle", "blocks", "rounds"} => bytes = 0
  /\ bphase = "rounds" => pos + 6 * rounds + 2 <= srclen
  /\ bphase = "idle" => pos = 0
  /\ bphase # "done" => 3 * Len(b64) = 4 * pos - bytes
  /\ bphase = "done" => Len(b64) <= Capacity(srclen)

Base64Inv ==
  /\ Base64TypeOK
  /\ Progress
  /\ bphase # "done" => Encoded(b64, srclen)
  /\ bytes = 1 => carry = Second(Source(pos - 1), 0)
  /\ bytes = 2 => carry = Third(Source(pos - 1), 0)
  /\ Base64Exact

(* base64_capacity has room for what m bytes have become, and for all of   *)
(* them with the trailer.                                                  *)
LEMMA CapacityCovers ==
  ASSUME NEW n \in Nat, NEW m \in Nat, NEW l \in Nat, NEW b \in 0 .. 2,
         m <= n, 3 * l = 4 * m - b
  PROVE  /\ l <= Capacity(n)
         /\ m = n /\ b = 1 => l + 3 <= Capacity(n)
         /\ m = n /\ b = 2 => l + 2 <= Capacity(n)
BY SMT DEF Capacity

(* The length of the data is a number.                                     *)
LEMMA DataLength == Len(Data) \in Nat
BY Base64Assumption, SMT

(* The number of whole groups of three bytes behind the position.          *)
LEMMA GroupOf ==
  ASSUME Base64Inv, bphase # "done"
  PROVE  \E q \in Nat : pos = 3 * q + bytes /\ Len(b64) = 4 * q + bytes
<1> DEFINE l == Len(b64)  q == pos \div 3
<1>1. l \in Nat /\ pos \in Nat /\ bytes \in 0 .. 2 /\ 3 * l = 4 * pos - bytes
  BY SMT DEF Base64Inv, Base64TypeOK, Progress
<1> HIDE DEF l
<1>2. q \in Nat /\ pos = 3 * q + bytes /\ l = 4 * q + bytes
  BY <1>1, SMT
<1> QED
  BY <1>2 DEF l

(* The invariant before a call of base64_encode.                           *)
LEMMA Base64Initial == Base64Idle => Base64Inv
<1> SUFFICES ASSUME Base64Idle PROVE Base64Inv
  OBVIOUS
<1>1. Base64TypeOK /\ Progress
  BY DataLength, SMT DEF Base64Idle, Base64TypeOK, Progress
<1>2. Encoded(b64, srclen)
  BY SMT DEF Base64Idle, Encoded
<1> QED
  BY <1>1, <1>2 DEF Base64Idle, Base64Inv, Base64Exact

(* A call of base64_encode begins.                                         *)
LEMMA Base64CallInv == ASSUME Base64Inv, NEW n \in 0 .. Len(Data), Base64Call(n) PROVE Base64Inv'
<1>1. Base64TypeOK' /\ Progress'
  BY DataLength, SMT DEF Base64Inv, Base64TypeOK, Progress, Base64Call
<1>2. Len(b64) = 0
  <2> DEFINE l == Len(b64)
  <2>1. l \in Nat /\ 3 * l = 4 * 0 - 0
    BY SMT DEF Base64Inv, Base64TypeOK, Progress, Base64Call
  <2> HIDE DEF l
  <2> QED
    BY <2>1, SMT DEF l
<1>3. Encoded(b64, n)
  BY <1>2, SMT DEF Encoded
<1>4. /\ b64' = b64 /\ srclen' = n /\ bphase' = "blocks" /\ bphase = "idle"
      /\ UNCHANGED <<bytes, carry, pos>>
  BY DEF Base64Call
<1> QED
  BY <1>1, <1>3, <1>4 DEF Base64Inv, Base64Exact

(* As many rounds as there are whole loads.                                *)
LEMMA BlocksInv == ASSUME Base64Inv, Blocks PROVE Base64Inv'
<1>1. Base64TypeOK' /\ Progress'
  BY DataLength, SMT DEF Base64Inv, Base64TypeOK, Progress, Blocks
<1>2. bphase' # "done" /\ bphase = "blocks" /\ UNCHANGED <<srclen, pos, bytes, carry, b64>>
  BY DEF Blocks
<1> QED
  BY <1>1, <1>2 DEF Base64Inv, Base64Exact

(* The loop of blocks ends.                                                *)
LEMMA RoundsEndInv == ASSUME Base64Inv, RoundsEnd PROVE Base64Inv'
<1>1. Base64TypeOK' /\ Progress'
  BY SMT DEF Base64Inv, Base64TypeOK, Progress, RoundsEnd
<1>2. bphase' # "done" /\ bphase = "rounds" /\ UNCHANGED <<srclen, pos, bytes, carry, b64>>
  BY DEF RoundsEnd
<1> QED
  BY <1>1, <1>2 DEF Base64Inv, Base64Exact

(* A round of the loop of blocks.                                          *)
LEMMA RoundsInv == ASSUME Base64Inv, Rounds PROVE Base64Inv'
<1>1. /\ bphase = "rounds" /\ pos' = pos + 6 /\ rounds' = rounds - 1 /\ b64' = b64 \o Block(pos)
      /\ UNCHANGED <<bphase, srclen, bytes, carry>>
  BY DEF Rounds
<1>2. /\ pos \in Nat /\ pos + 8 <= srclen /\ rounds \in Nat /\ rounds > 0
      /\ pos + 6 * rounds + 2 <= srclen /\ srclen \in Nat
      /\ bytes = 0 /\ pos + 0 = pos
  BY DataLength, SMT DEF Base64Inv, Base64TypeOK, Progress, Rounds
<1>3. PICK q \in Nat : pos = 3 * q + 0 /\ Len(b64) = 4 * q + 0
  BY <1>1, <1>2, GroupOf
<1>4. pos = 3 * q /\ Len(b64) = 4 * q /\ 3 * q + 8 <= srclen
  BY <1>2, <1>3, SMT
<1>5. b64' \in Seq(Byte8) /\ Len(b64') = 4 * (q + 2) /\ Encoded(b64', srclen)
  <2>1. srclen \in 0 .. Len(Data) /\ b64 \in Seq(Byte8) /\ Encoded(b64, srclen)
    BY <1>1 DEF Base64Inv, Base64TypeOK
  <2>2. b64' = b64 \o Block(3 * q)
    BY <1>1, <1>4
  <2>3. LET t == b64 \o Block(3 * q)
        IN  t \in Seq(Byte8) /\ Len(t) = 4 * (q + 2) /\ Encoded(t, srclen)
    BY <1>4, <2>1, EncodedBlock, Zenon
  <2> QED
    BY <2>2, <2>3, Zenon
<1>6. /\ 3 * (4 * (q + 2)) = 4 * pos' - 0 /\ pos' + 6 * rounds' + 2 <= srclen
      /\ pos' \in Nat /\ rounds' \in Nat /\ pos' <= srclen
  BY <1>1, <1>2, <1>4, SMT
<1>7. Base64TypeOK'
  BY <1>1, <1>5, <1>6 DEF Base64Inv, Base64TypeOK
<1>8. Progress'
  BY <1>1, <1>2, <1>5, <1>6 DEF Progress
<1> QED
  BY <1>1, <1>2, <1>5, <1>7, <1>8 DEF Base64Inv, Base64Exact

(* A byte in one of the three states of the switch.                        *)
LEMMA ByteInv == ASSUME Base64Inv, Byte PROVE Base64Inv'
<1>1. /\ bphase = "bytes" /\ pos < srclen /\ pos' = pos + 1 /\ UNCHANGED <<srclen, rounds>>
  BY DEF Byte
<1>2. /\ srclen \in 0 .. Len(Data) /\ b64 \in Seq(Byte8) /\ Encoded(b64, srclen)
      /\ pos \in Nat /\ srclen \in Nat /\ rounds \in Nat
  BY <1>1, DataLength, SMT DEF Base64Inv, Base64TypeOK
<1>3. PICK q \in Nat : pos = 3 * q + bytes /\ Len(b64) = 4 * q + bytes
  BY <1>1, GroupOf
<1>4. pos' \in Nat /\ pos' <= srclen /\ pos' - 1 = pos
  BY <1>1, <1>2, SMT
<1> DEFINE c == Source(pos)
<1>5. CASE /\ bytes = 0 /\ b64' = Append(b64, Table6(c \div 4)) /\ carry' = (c % 4) * 16
           /\ bytes' = 1 /\ UNCHANGED bphase
  <2>1. pos = 3 * q /\ Len(b64) = 4 * q /\ 3 * q < srclen
    BY <1>1, <1>2, <1>3, <1>5, SMT
  <2>2. /\ Longer(b64, Append(b64, Table6(c \div 4)), 1, srclen)
        /\ (c % 4) * 16 = Second(c, 0) /\ Second(c, 0) \in Nat
    BY <1>2, <2>1, FirstByte, Zenon
  <2>3. b64' \in Seq(Byte8) /\ Len(b64') = Len(b64) + 1 /\ Encoded(b64', srclen)
    BY <1>5, <2>2, Zenon DEF Longer
  <2>4. 3 * Len(b64') = 4 * pos' - 1 /\ 1 \in 0 .. 2
    BY <1>1, <2>1, <2>3, SMT
  <2>5. carry' = Second(Source(pos' - 1), 0) /\ carry' \in Nat
    BY <1>4, <1>5, <2>2, Zenon
  <2>6. Base64TypeOK' /\ Progress'
    BY <1>1, <1>2, <1>4, <1>5, <2>3, <2>4, <2>5 DEF Base64TypeOK, Progress
  <2>7. bytes' = 1 /\ bphase' = "bytes"
    BY <1>1, <1>5
  <2> QED
    BY <1>1, <2>3, <2>5, <2>6, <2>7 DEF Base64Inv, Base64Exact
<1>6. CASE /\ bytes = 1 /\ b64' = Append(b64, Table6(carry + c \div 16)) /\ carry' = (c % 16) * 4
           /\ bytes' = 2 /\ UNCHANGED bphase
  <2>1. pos = 3 * q + 1 /\ Len(b64) = 4 * q + 1 /\ 3 * q + 1 < srclen /\ pos - 1 = 3 * q
    BY <1>1, <1>2, <1>3, <1>6, SMT
  <2>2. carry = Second(Source(3 * q), 0)
    BY <1>6, <2>1, Zenon DEF Base64Inv
  <2>3. /\ Longer(b64, Append(b64, Table6(carry + c \div 16)), 1, srclen)
        /\ (c % 16) * 4 = Third(c, 0) /\ Third(c, 0) \in Nat
    BY <1>2, <2>1, <2>2, SecondByte, Zenon
  <2>4. b64' \in Seq(Byte8) /\ Len(b64') = Len(b64) + 1 /\ Encoded(b64', srclen)
    BY <1>6, <2>3, Zenon DEF Longer
  <2>5. 3 * Len(b64') = 4 * pos' - 2 /\ 2 \in 0 .. 2
    BY <1>1, <2>1, <2>4, SMT
  <2>6. carry' = Third(Source(pos' - 1), 0) /\ carry' \in Nat
    BY <1>4, <1>6, <2>3, Zenon
  <2>7. Base64TypeOK' /\ Progress'
    BY <1>1, <1>2, <1>4, <1>6, <2>4, <2>5, <2>6 DEF Base64TypeOK, Progress
  <2>8. bytes' = 2 /\ bphase' = "bytes"
    BY <1>1, <1>6
  <2> QED
    BY <1>1, <2>4, <2>6, <2>7, <2>8 DEF Base64Inv, Base64Exact
<1>7. CASE /\ bytes = 2 /\ b64' = b64 \o <<Table6(carry + c \div 64), Table6(c % 64)>>
           /\ bytes' = 0 /\ bphase' = "blocks" /\ UNCHANGED carry
  <2>1. pos = 3 * q + 2 /\ Len(b64) = 4 * q + 2 /\ 3 * q + 2 < srclen /\ pos - 1 = 3 * q + 1
    BY <1>1, <1>2, <1>3, <1>7, SMT
  <2>2. carry = Third(Source(3 * q + 1), 0)
    BY <1>7, <2>1, Zenon DEF Base64Inv
  <2>3. Longer(b64, b64 \o <<Table6(carry + c \div 64), Table6(c % 64)>>, 2, srclen)
    BY <1>2, <2>1, <2>2, ThirdByte, SMT
  <2>4. b64' \in Seq(Byte8) /\ Len(b64') = Len(b64) + 2 /\ Encoded(b64', srclen)
    <3> HIDE DEF c
    <3> QED
      BY <1>7, <2>3, Zenon DEF Longer
  <2>5. 3 * Len(b64') = 4 * pos' - 0 /\ 0 \in 0 .. 2
    BY <1>1, <2>1, <2>4, SMT
  <2>6. carry' \in Nat
    BY <1>7 DEF Base64Inv, Base64TypeOK
  <2>7. Base64TypeOK' /\ Progress'
    BY <1>1, <1>2, <1>4, <1>7, <2>4, <2>5, <2>6 DEF Base64TypeOK, Progress
  <2>8. bytes' = 0 /\ bphase' = "blocks"
    BY <1>7
  <2> QED
    BY <1>1, <2>4, <2>7, <2>8 DEF Base64Inv, Base64Exact
<1> QED
  BY <1>5, <1>6, <1>7 DEF Byte, c

(* The padding fits into what the capacity has left.                       *)
LEMMA TrailerInv == ASSUME Base64Inv, Trailer PROVE Base64Inv'
<1>1. /\ bphase = "bytes" /\ pos = srclen /\ bphase' = "done"
      /\ UNCHANGED <<srclen, pos, rounds, bytes, carry>>
  BY DEF Trailer
<1>2. /\ srclen \in 0 .. Len(Data) /\ b64 \in Seq(Byte8) /\ Encoded(b64, srclen)
      /\ srclen \in Nat /\ Len(b64) \in Nat /\ bytes \in 0 .. 2
  BY <1>1, DataLength, SMT DEF Base64Inv, Base64TypeOK
<1>3. PICK q \in Nat : srclen = 3 * q + bytes /\ Len(b64) = 4 * q + bytes
  BY <1>1, GroupOf
<1>4. b64' \in Seq(Byte8) /\ Len(b64') <= Capacity(srclen) /\ Exact(b64', srclen)
  <2>1. CASE bytes = 0
    <3>1. srclen = 3 * q /\ Len(b64) = 4 * q /\ b64' = b64
      BY <1>2, <1>3, <2>1, SMT DEF Trailer
    <3>2. 4 * q <= Capacity(srclen)
      BY <1>2, <3>1, SMT DEF Capacity
    <3> QED
      BY <1>2, <3>1, <3>2, NoPadding, Zenon
  <2>2. CASE bytes = 1
    <3>1. srclen = 3 * q + 1 /\ Len(b64) = 4 * q + 1 /\ pos - 1 = 3 * q
      BY <1>1, <1>3, <2>2, SMT
    <3>2. b64' = b64 \o <<Table6(carry), 61, 61>> /\ carry = Second(Source(3 * q), 0)
      BY <2>2, <3>1 DEF Trailer, Base64Inv
    <3>3. b64' \in Seq(Byte8) /\ Len(b64') = 4 * q + 4 /\ Exact(b64', srclen)
      BY <1>2, <3>1, <3>2, PaddingOfOne, SMT
    <3>4. 4 * q + 4 <= Capacity(srclen)
      BY <1>2, <3>1, SMT DEF Capacity
    <3> QED
      BY <3>3, <3>4, Zenon
  <2>3. CASE bytes = 2
    <3>1. srclen = 3 * q + 2 /\ Len(b64) = 4 * q + 2 /\ pos - 1 = 3 * q + 1
      BY <1>1, <1>3, <2>3, SMT
    <3>2. b64' = b64 \o <<Table6(carry), 61>> /\ carry = Third(Source(3 * q + 1), 0)
      BY <2>3, <3>1 DEF Trailer, Base64Inv
    <3>3. b64' \in Seq(Byte8) /\ Len(b64') = 4 * q + 4 /\ Exact(b64', srclen)
      BY <1>2, <3>1, <3>2, PaddingOfTwo, SMT
    <3>4. 4 * q + 4 <= Capacity(srclen)
      BY <1>2, <3>1, SMT DEF Capacity
    <3> QED
      BY <3>3, <3>4, Zenon
  <2> QED
    BY <1>2, <2>1, <2>2, <2>3, SMT
<1>5. Base64TypeOK'
  BY <1>1, <1>4 DEF Base64Inv, Base64TypeOK
<1>6. Progress'
  BY <1>1, <1>2, <1>4, SMT DEF Base64Inv, Progress
<1>7. Base64Exact'
  BY <1>1, <1>4 DEF Base64Exact, Exact
<1> QED
  BY <1>1, <1>5, <1>6, <1>7 DEF Base64Inv

(* The invariant bounds loads and stores.                                  *)
LEMMA InvImpliesBounds == Base64Inv => Base64InBounds
<1> SUFFICES ASSUME Base64Inv PROVE Base64InBounds
  OBVIOUS
<1>2. bphase # "done" => Len(b64) <= Capacity(srclen)
  BY DataLength, CapacityCovers, SMT DEF Base64Inv, Base64TypeOK, Progress
<1>3. bphase = "rounds" /\ rounds > 0 => pos + 6 * (rounds - 1) + 8 <= srclen
  BY DataLength, SMT DEF Base64Inv, Base64TypeOK, Progress
<1> QED
  BY <1>2, <1>3 DEF Base64Inv, Base64InBounds, Progress

(* Base64Inv is inductive.                                                 *)
LEMMA Base64StepInv ==
  ASSUME Base64Inv, [(\E n \in 0 .. Len(Data) : Base64Call(n)) \/ Base64Step]_base64Vars
  PROVE  Base64Inv'
<1>1. CASE UNCHANGED base64Vars
  BY <1>1 DEF Base64Inv, Base64TypeOK, Progress, Base64Exact, base64Vars
<1> QED
  BY <1>1, Base64CallInv, BlocksInv, RoundsInv, RoundsEndInv, ByteInv, TrailerInv DEF Base64Step

-----------------------------------------------------------------------------
(* output_convert_json.                                                    *)

(* The recursive definition of Quotients.                                  *)
QuotientsOf(f, n) == f = [k \in 0 .. 19 |-> IF k = 0 THEN n ELSE (f[k - 1] \div 10)]

(* Some function satisfies it.                                             *)
LEMMA QuotientsExist ==
  ASSUME NEW n \in Nat
  PROVE  \E f : QuotientsOf(f, n)
<1> DEFINE step == [i \in 1 .. 19 |-> [x \in Nat |-> x \div 10]]
<1>1. step \in [1 .. 19 -> [Nat -> Nat]] /\ 19 \in Nat
  OBVIOUS
<1>2. \A i \in 1 .. 19, x \in Nat : step[i][x] = x \div 10
  OBVIOUS
<1> HIDE DEF step
<1>3. PICK f : Iterates(f, 19, Nat, n, step)
  BY <1>1, IteratesExist
<1>4. f \in [0 .. 19 -> Nat] /\ f[0] = n /\ \A i \in 1 .. 19 : f[i] = step[i][f[i - 1]]
  BY <1>3 DEF Iterates
<1>5. ASSUME NEW k \in 0 .. 19
      PROVE  f[k] = IF k = 0 THEN n ELSE (f[k - 1] \div 10)
  <2>1. CASE k = 0
    BY <1>4, <2>1
  <2>2. CASE k # 0
    <3>1. k \in 1 .. 19 /\ k - 1 \in 0 .. 19
      BY <2>2
    <3>2. f[k - 1] \in Nat /\ f[k] = step[k][f[k - 1]]
      BY <1>4, <3>1
    <3> QED
      BY <1>2, <2>2, <3>1, <3>2
  <2> QED
    BY <2>1, <2>2
<1>6. f = [k \in 0 .. 19 |-> IF k = 0 THEN n ELSE (f[k - 1] \div 10)]
  BY <1>4, <1>5
<1> QED
  BY <1>6 DEF QuotientsOf

(* Quotients are naturals.                                                 *)
LEMMA QuotientsType ==
  ASSUME NEW n \in Nat, NEW k \in 0 .. 19
  PROVE  Quotients(n)[k] \in Nat
<1> DEFINE h == Quotients(n)
           T == {i \in 0 .. 19 : h[i] \in Nat}
<1>1. h = CHOOSE f : f = [i \in 0 .. 19 |-> IF i = 0 THEN n ELSE (f[i - 1] \div 10)]
  BY DEF Quotients
<1>2. h = CHOOSE f : QuotientsOf(f, n)
  BY <1>1 DEF QuotientsOf
<1>3. QuotientsOf(h, n)
  BY <1>2, QuotientsExist
<1> HIDE DEF h
<1>4. h = [i \in 0 .. 19 |-> IF i = 0 THEN n ELSE (h[i - 1] \div 10)]
  BY <1>3 DEF QuotientsOf
<1>5. h[0] = n /\ \A i \in 1 .. 19 : h[i] = (h[i - 1] \div 10)
  BY <1>4
<1>6. 0 \in T
  BY <1>5
<1>7. \A i \in 0 .. 19 - 1 : i \in T => i + 1 \in T
  <2> SUFFICES ASSUME NEW i \in 0 .. 19 - 1, i \in T PROVE i + 1 \in T
    OBVIOUS
  <2>1. i + 1 \in 1 .. 19 /\ i + 1 - 1 = i /\ i + 1 \in 0 .. 19
    OBVIOUS
  <2>2. h[i + 1] = (h[i] \div 10) /\ h[i] \in Nat
    BY <1>5, <2>1
  <2>3. \A x \in Nat : x \div 10 \in Nat
    OBVIOUS
  <2> QED
    BY <2>1, <2>2, <2>3
<1> HIDE DEF T
<1>8. 0 .. 19 \subseteq T
  BY <1>6, <1>7, UpTo
<1> QED
  BY <1>8 DEF T, h

(* The digits of a number are bytes.                                       *)
LEMMA DigitsType ==
  ASSUME NEW n \in Nat
  PROVE  Digits(n) \in Seq(Octets)
<1> DEFINE q == Quotients(n)
           K == {k \in 1 .. 19 : q[k] > 0}
           d == 1 + Cardinality(K)
<1>1. Cardinality(K) \in Nat /\ Cardinality(K) <= 19
  <2>1. IsFiniteSet(1 .. 19) /\ Cardinality(1 .. 19) = 19
    <3>1. 1 \in Int /\ 19 \in Int
      OBVIOUS
    <3>2. IsFiniteSet(1 .. 19) /\ Cardinality(1 .. 19) = IF 1 > 19 THEN 0 ELSE 19 - 1 + 1
      BY ONLY <3>1, FS_Interval, Zenon
    <3>3. (IF 1 > 19 THEN 0 ELSE 19 - 1 + 1) = 19
      OBVIOUS
    <3> QED
      BY ONLY <3>2, <3>3
  <2>2. K \in SUBSET (1 .. 19)
    OBVIOUS
  <2> HIDE DEF K
  <2>3. IsFiniteSet(K) /\ Cardinality(K) <= Cardinality(1 .. 19)
    BY <2>1, <2>2, FS_Subset
  <2> QED
    BY <2>1, <2>3, FS_CardinalityType
<1>2. Digits(n) = [i \in 1 .. d |-> 48 + (q[d - i] % 10)]
  BY DEF Digits
<1> HIDE DEF K
<1>3. d \in 1 .. 20
  BY <1>1
<1> HIDE DEF d
<1>4. ASSUME NEW i \in 1 .. d PROVE 48 + (q[d - i] % 10) \in Octets
  <2>1. d - i \in 0 .. 19
    BY <1>3
  <2>2. q[d - i] \in Nat
    BY <2>1, QuotientsType
  <2>3. \A x \in Nat : 48 + (x % 10) \in Octets
    BY DEF Octets
  <2> QED
    BY <2>2, <2>3
<1> HIDE DEF q
<1> QED
  BY <1>2, <1>3, <1>4

(* A number in decimal.                                                    *)
LEMMA DecimalType ==
  ASSUME NEW n \in Int
  PROVE  Decimal(n) \in Seq(Octets)
<1>1. CASE n < 0
  <2>1. -n \in Nat
    BY <1>1
  <2>2. Digits(-n) \in Seq(Octets)
    BY <2>1, DigitsType
  <2>3. <<45>> \in Seq(Octets)
    BY DEF Octets
  <2>4. <<45>> \o Digits(-n) \in Seq(Octets)
    BY <2>2, <2>3, ConcatProperties
  <2> QED
    BY <1>1, <2>4 DEF Decimal
<1>2. CASE ~(n < 0)
  <2>1. n \in Nat
    BY <1>2
  <2> QED
    BY <1>2, <2>1, DigitsType DEF Decimal
<1> QED
  BY <1>1, <1>2

-----------------------------------------------------------------------------
(* What is written of one byte is as long as announced.                    *)
LEMMA EscapeLength ==
  ASSUME NEW c \in Octets
  PROVE  /\ Escape(c) \in Seq(Octets) /\ Len(Escape(c)) = EscapedSize(c) /\ EscapedSize(c) \in Nat
<1>1. c \in Nat /\ c <= 255
  BY DEF Octets
<1>2. c < 32 => HexDigit(c \div 16) \in Octets /\ HexDigit(c % 16) \in Octets
  BY <1>1 DEF HexDigit, Octets
<1>3. 92 \in Octets /\ 117 \in Octets /\ 48 \in Octets
  BY DEF Octets
<1>4. CASE c = 34 \/ c = 92
  BY <1>3, <1>4 DEF Escape, EscapedSize
<1>5. CASE ~(c = 34 \/ c = 92) /\ c < 32
  <2> DEFINE x == HexDigit(c \div 16)  y == HexDigit(c % 16)
  <2>1. Escape(c) = <<92, 117, 48, 48, x, y>> /\ EscapedSize(c) = 6
    BY <1>5 DEF Escape, EscapedSize
  <2>2. x \in Octets /\ y \in Octets
    BY <1>2, <1>5
  <2> HIDE DEF x, y
  <2> QED
    BY <1>3, <2>1, <2>2
<1>6. CASE ~(c = 34 \/ c = 92) /\ ~(c < 32)
  BY <1>6 DEF Escape, EscapedSize
<1> QED
  BY <1>4, <1>5, <1>6

(* Bytes to write, as they are or escaped, and an object to convert.       *)
Text    == [kind : {"copy", "escape"}, bytes : Seq(Octets)]
Item    == [kind : {"object"}, obj : Nodes, depth : Nat]
Piece   == Text \cup Item
Segment == [size : Nat, bytes : Seq(Octets)]

(* The size asked for a piece is the size it is written with.              *)
LEMMA PieceLength ==
  ASSUME NEW p \in Text
  PROVE  /\ BytesOfPiece(p) \in Seq(Octets) /\ SizeOfPiece(p) = Len(BytesOfPiece(p))
         /\ SizeOfPiece(p) \in Nat
<1> DEFINE b == p.bytes
<1>1. p.kind \in {"copy", "escape"} /\ b \in Seq(Octets)
  BY DEF Text
<1>2. CASE p.kind = "copy" \/ SizeOfPiece(p) = Len(b)
  <2>1. BytesOfPiece(p) = b /\ SizeOfPiece(p) = Len(b)
    BY <1>2 DEF BytesOfPiece, SizeOfPiece
  <2> QED
    BY <1>1, <2>1
<1>3. CASE ~(p.kind = "copy" \/ SizeOfPiece(p) = Len(b))
  <2> DEFINE Q == Seq(Octets)
             ss == [i \in DOMAIN b |-> Escape(b[i])]
             es == [i \in DOMAIN b |-> EscapedSize(b[i])]
  <2>1. SizeOfPiece(p) = Total(es) /\ BytesOfPiece(p) = FlattenSeq(ss)
    BY <1>1, <1>3 DEF SizeOfPiece, BytesOfPiece
  <2>2. DOMAIN b = 1 .. Len(b) /\ Len(b) \in Nat /\ \A i \in 1 .. Len(b) : b[i] \in Octets
    BY <1>1
  <2>3. ASSUME NEW i \in 1 .. Len(b)
        PROVE  Escape(b[i]) \in Q /\ Len(Escape(b[i])) = EscapedSize(b[i])
    BY <2>2, EscapeLength
  <2> HIDE DEF Q
  <2>4. ss \in Seq(Q) /\ Len(ss) = Len(b)
    <3> HIDE DEF b
    <3> QED
      BY <2>2, <2>3
  <2>5. es = Lengths(ss)
    <3> HIDE DEF b
    <3> QED
      BY <2>2, <2>3, <2>4 DEF Lengths
  <2> HIDE DEF ss, es
  <2>6. FlattenSeq(ss) \in Seq(Octets) /\ Len(FlattenSeq(ss)) = Total(Lengths(ss))
    BY <2>4, FlattenType, FlattenLength DEF Q
  <2> QED
    BY <2>1, <2>5, <2>6
<1> QED
  BY <1>2, <1>3

(* Constructors of pieces.                                                 *)
LEMMA PieceTypes ==
  ASSUME NEW b \in Seq(Octets), NEW o \in Nodes, NEW d \in Nat
  PROVE  Copy(b) \in Piece /\ EscapeAll(b) \in Piece /\ Convert(o, d) \in Piece
BY DEF Copy, EscapeAll, Convert, Piece, Text, Item

(* The bytes of a quoted string before its closing quote.                  *)
LEMMA QuotedType ==
  ASSUME NEW b \in Seq(Octets)
  PROVE  Quoted(b) \in Seq(Piece)
<1>1. Quote \in Seq(Octets)
  BY DEF Quote, Octets
<1>2. Copy(Quote) \in Piece /\ EscapeAll(b) \in Piece
  BY <1>1 DEF Copy, EscapeAll, Piece, Text
<1> HIDE DEF Piece
<1> QED
  BY <1>2 DEF Quoted

(* The bytes of a short literal.                                           *)
LEMMA Literals ==
  /\ <<34>> \in Seq(Octets) /\ <<44>> \in Seq(Octets) /\ <<34, 58>> \in Seq(Octets)
  /\ <<91>> \in Seq(Octets) /\ <<93>> \in Seq(Octets) /\ <<123>> \in Seq(Octets) /\ <<125>> \in Seq(Octets)
  /\ <<116, 114, 117, 101>> \in Seq(Octets) /\ <<102, 97, 108, 115, 101>> \in Seq(Octets)
BY DEF Octets

(* Copies of literals.                                                     *)
LEMMA CopyType == ASSUME NEW b \in Seq(Octets) PROVE Copy(b) \in Piece /\ <<Copy(b)>> \in Seq(Piece)
<1>1. Copy(b) \in Piece
  BY DEF Copy, Piece, Text
<1> QED
  BY <1>1

(* The pieces of an element: a name, an object and a comma.                *)
LEMMA ElementParts ==
  ASSUME NEW o \in Nodes, o.type \in {"array", "map"}, NEW i \in 1 .. Len(o.items), NEW d \in Nat
  PROVE  /\ Convert(o.items[i], d + 1) \in Piece
         /\ \E key \in Seq(Piece), comma \in Seq(Piece) :
              Element(o, i, d) = key \o <<Convert(o.items[i], d + 1)>> \o comma
<1> DEFINE e     == o.items[i]
           comma == IF i = Len(o.items) THEN <<>> ELSE <<Copy(Comma)>>
           key   == IF o.type = "map" THEN Quoted(e.name) \o <<Copy(<<34, 58>>)>> ELSE <<>>
           item  == <<Convert(e, d + 1)>>
<1>1. Element(o, i, d) = key \o item \o comma
  BY DEF Element
<1>2. o.items \in Seq(Nodes) /\ (o.type = "map" => e.name \in Seq(Octets))
  BY NodesAssumption DEF IsNode
<1>3. e \in Nodes
  BY <1>2
<1>4. <<>> \in Seq(Piece)
  OBVIOUS
<1>5. comma \in Seq(Piece)
  <2>1. <<Copy(Comma)>> \in Seq(Piece)
    BY Literals, CopyType DEF Comma
  <2> QED
    BY <1>4, <2>1
<1>6. key \in Seq(Piece)
  <2>1. CASE o.type = "map"
    <3>1. Quoted(e.name) \in Seq(Piece) /\ <<Copy(<<34, 58>>)>> \in Seq(Piece)
      BY <1>2, <2>1, QuotedType, Literals, CopyType
    <3>2. Quoted(e.name) \o <<Copy(<<34, 58>>)>> \in Seq(Piece)
      BY <3>1, ConcatProperties
    <3> QED
      BY <2>1, <3>2
  <2>2. CASE o.type # "map"
    BY <1>4, <2>2
  <2> QED
    BY <2>1, <2>2
<1>7. Convert(e, d + 1) \in Piece
  <2>1. d + 1 \in Nat
    OBVIOUS
  <2> QED
    BY <1>3, <2>1 DEF Convert, Piece, Item
<1> HIDE DEF comma, key
<1> QED
  BY <1>1, <1>5, <1>6, <1>7

LEMMA ElementType ==
  ASSUME NEW o \in Nodes, o.type \in {"array", "map"}, NEW i \in 1 .. Len(o.items), NEW d \in Nat
  PROVE  Element(o, i, d) \in Seq(Piece)
<1> DEFINE c == Convert(o.items[i], d + 1)  item == <<c>>
<1>1. PICK key \in Seq(Piece), comma \in Seq(Piece) : Element(o, i, d) = key \o item \o comma
  BY ElementParts
<1>2. c \in Piece
  BY ElementParts
<1> HIDE DEF c
<1>3. item \in Seq(Piece)
  BY <1>2
<1> HIDE DEF item
<1>4. key \o item \in Seq(Piece)
  BY <1>3, ConcatProperties
<1>5. (key \o item) \o comma \in Seq(Piece)
  BY <1>4, ConcatProperties
<1> QED
  BY <1>1, <1>5

(* The pieces of an object.                                                *)
LEMMA PiecesType ==
  ASSUME NEW o \in Nodes, o.type # "invalid", NEW d \in Nat
  PROVE  Pieces(o, d) \in Seq(Piece)
<1> DEFINE elements == FlattenSeq([i \in 1 .. Len(o.items) |-> Element(o, i, d)])
<1>1. IsNode(o)
  BY NodesAssumption
<1>2. CASE o.type \in {"signed", "unsigned"}
  <2>1. Pieces(o, d) = <<Copy(Decimal(o.val))>>
    BY <1>2 DEF Pieces
  <2> QED
    BY <1>1, <1>2, <2>1, DecimalType, CopyType DEF IsNode
<1>3. CASE o.type = "string"
  <2>1. Pieces(o, d) = Quoted(o.val) \o <<Copy(Quote)>>
    BY <1>3 DEF Pieces
  <2>2. Quoted(o.val) \in Seq(Piece)
    BY <1>1, <1>3, QuotedType DEF IsNode
  <2>3. <<Copy(Quote)>> \in Seq(Piece)
    BY Literals, CopyType DEF Quote
  <2> QED
    BY <2>1, <2>2, <2>3, ConcatProperties
<1>4. CASE o.type = "bool"
  <2> DEFINE b == IF o.val THEN <<116, 114, 117, 101>> ELSE <<102, 97, 108, 115, 101>>
  <2>1. Pieces(o, d) = <<Copy(b)>>
    BY <1>4 DEF Pieces
  <2>2. b \in Seq(Octets)
    BY Literals
  <2> HIDE DEF b
  <2> QED
    BY <2>1, <2>2, CopyType
<1>5. CASE o.type \in {"array", "map"}
  <2> DEFINE Q == Seq(Piece)
             ss == [i \in 1 .. Len(o.items) |-> Element(o, i, d)]
  <2>1. \A i \in 1 .. Len(o.items) : Element(o, i, d) \in Q
    BY <1>5, ElementType
  <2>2. Len(o.items) \in Nat
    BY <1>1, <1>5 DEF IsNode
  <2> HIDE DEF Q
  <2>3. ss \in Seq(Q)
    BY <2>1, <2>2
  <2> HIDE DEF ss
  <2>4. FlattenSeq(ss) \in Seq(Piece)
    BY <2>3, FlattenType DEF Q
  <2>5. elements \in Seq(Piece)
    BY <2>4 DEF ss
  <2> HIDE DEF elements
  <2>6. ASSUME NEW a \in Seq(Octets), NEW b \in Seq(Octets)
        PROVE  <<Copy(a)>> \o elements \o <<Copy(b)>> \in Seq(Piece)
    <3>1. <<Copy(a)>> \in Seq(Piece) /\ <<Copy(b)>> \in Seq(Piece)
      BY CopyType
    <3>2. <<Copy(a)>> \o elements \in Seq(Piece)
      BY <2>5, <3>1, ConcatProperties
    <3> QED
      BY <3>1, <3>2, ConcatProperties
  <2>7. CASE o.type = "array"
    <3> DEFINE a == <<91>>  b == <<93>>
    <3>1. Pieces(o, d) = <<Copy(a)>> \o elements \o <<Copy(b)>>
      BY <2>7 DEF Pieces, elements
    <3>2. a \in Seq(Octets) /\ b \in Seq(Octets)
      BY Literals
    <3> HIDE DEF a, b
    <3> QED
      BY <2>6, <3>1, <3>2
  <2>8. CASE o.type = "map"
    <3> DEFINE a == <<123>>  b == <<125>>
    <3>1. Pieces(o, d) = <<Copy(a)>> \o elements \o <<Copy(b)>>
      BY <2>8 DEF Pieces, elements
    <3>2. a \in Seq(Octets) /\ b \in Seq(Octets)
      BY Literals
    <3> HIDE DEF a, b
    <3> QED
      BY <2>6, <3>1, <3>2
  <2> QED
    BY <1>5, <2>7, <2>8
<1>6. CASE o.type \in {"float", "null"}
  <2>1. Pieces(o, d) = <<>>
    BY <1>6 DEF Pieces
  <2> QED
    BY <2>1
<1> QED
  BY <1>1, <1>2, <1>3, <1>4, <1>5, <1>6 DEF IsNode

-----------------------------------------------------------------------------
(* A segment that holds no more than its size.                             *)
Fits(s) == Len(s.bytes) <= s.size

(* Segments, each of which holds no more than its size.                    *)
AllFit(ss) == ss \in Seq(Segment) /\ \A i \in 1 .. Len(ss) : Fits(ss[i])

(* A new segment has room for what it was made for.                        *)
LEMMA NewSegmentFits ==
  ASSUME NEW n \in Nat
  PROVE  NewSegment(n) \in Segment /\ Fits(NewSegment(n)) /\ Room(NewSegment(n)) >= n
<1> DEFINE z == IF n < MinSegment THEN MinSegment ELSE n
<1>1. z \in Nat /\ z >= n
  BY JsonAssumption
<1>2. NewSegment(n) = [size |-> z, bytes |-> <<>>]
  BY DEF NewSegment
<1> HIDE DEF z
<1> DEFINE s == NewSegment(n)
<1>3. s.size = z /\ s.bytes = <<>> /\ s \in Segment
  BY <1>1, <1>2 DEF Segment
<1> HIDE DEF s
<1>4. Len(s.bytes) = 0
  BY <1>3
<1> QED
  BY <1>1, <1>3, <1>4 DEF Fits, Room, s

(* Bytes for which the last segment has room.                              *)
LEMMA BytesFit ==
  ASSUME NEW s \in Segment, NEW b \in Seq(Octets), Room(s) >= Len(b)
  PROVE  LET t == [s EXCEPT !.bytes = @ \o b]
         IN  t \in Segment /\ Fits(t)
<1> DEFINE t == [s EXCEPT !.bytes = @ \o b]
<1>1. s.size \in Nat /\ s.bytes \in Seq(Octets) /\ t = [size |-> s.size, bytes |-> s.bytes \o b]
  <2>1. s.size \in Nat /\ s.bytes \in Seq(Octets) /\ s = [size |-> s.size, bytes |-> s.bytes]
    BY DEF Segment
  <2> DEFINE u == s.bytes \o b
  <2> HIDE DEF u
  <2>2. [s EXCEPT !.bytes = u] = [size |-> s.size, bytes |-> u]
    BY <2>1
  <2> QED
    BY <2>1, <2>2 DEF u
<1>2. s.bytes \o b \in Seq(Octets) /\ Len(s.bytes \o b) = Len(s.bytes) + Len(b)
  BY <1>1, ConcatProperties
<1> HIDE DEF t
<1>3. t \in Segment /\ t.size = s.size /\ t.bytes = s.bytes \o b
  BY <1>1, <1>2 DEF Segment
<1> DEFINE x == Len(s.bytes)  y == Len(b)  z == s.size
<1>4. x \in Nat /\ y \in Nat /\ z \in Nat /\ z - x >= y
  BY <1>1 DEF Room
<1> HIDE DEF x, y, z
<1>5. x + y <= z
  BY <1>4
<1>6. Fits(t)
  BY <1>2, <1>3, <1>5 DEF Fits, x, y, z
<1> QED
  BY <1>3, <1>6 DEF t

(* Bytes behind those of the last segment.                                 *)
LEMMA AppendFits ==
  ASSUME NEW ss, AllFit(ss), ss # <<>>, NEW b \in Seq(Octets), Room(ss[Len(ss)]) >= Len(b)
  PROVE  LET tt == [ss EXCEPT ![Len(ss)].bytes = @ \o b]
         IN  AllFit(tt) /\ tt # <<>>
<1> DEFINE n == Len(ss)
           t == [ss[n] EXCEPT !.bytes = @ \o b]
           tt == [ss EXCEPT ![n] = t]
<1>1. ss \in Seq(Segment) /\ n \in Nat /\ n >= 1 /\ \A i \in 1 .. n : Fits(ss[i])
  BY DEF AllFit
<1>2. ss[n] \in Segment
  BY <1>1
<1>3. t \in Segment /\ Fits(t)
  BY <1>2, BytesFit
<1> HIDE DEF t
<1>4. tt \in Seq(Segment) /\ Len(tt) = n /\ tt[n] = t /\ \A i \in 1 .. n : i # n => tt[i] = ss[i]
  BY <1>1, <1>3
<1> HIDE DEF tt
<1>5. ASSUME NEW i \in 1 .. n PROVE Fits(tt[i])
  <2>1. CASE i = n
    BY <1>3, <1>4, <2>1, Zenon
  <2>2. CASE i # n
    BY <1>1, <1>4, <2>2, Zenon
  <2> QED
    BY <2>1, <2>2
<1>6. AllFit(tt) /\ tt # <<>>
  <2>1. tt # <<>>
    BY <1>1, <1>4
  <2> QED
    BY <1>4, <1>5, <2>1 DEF AllFit
<1> QED
  BY <1>6 DEF tt, t, n

(* The invariant of a conversion to JSON: what is left to write is well    *)
(* formed, and every segment holds no more than its size.                  *)
JsonInv ==
  /\ todo \in Seq(Piece)
  /\ AllFit(segs)
  /\ jphase \in {"idle", "emit", "json", "null"}
  /\ jphase \in {"emit", "json"} => segs # <<>>

(* No conversion.                                                          *)
LEMMA JsonIdleInv == JsonIdle => JsonInv
<1> SUFFICES ASSUME JsonIdle PROVE JsonInv
  OBVIOUS
<1>1. todo = <<>> /\ segs = <<>> /\ jphase = "idle"
  BY DEF JsonIdle
<1>2. AllFit(<<>>)
  BY DEF AllFit
<1> QED
  BY <1>1, <1>2 DEF JsonInv

(* A conversion begins with one object and one segment.                    *)
LEMMA JsonInitInv == ASSUME NEW o \in Nodes, JsonInit(o) PROVE JsonInv
<1> DEFINE p == Convert(o, 0)  s == NewSegment(0)
<1>1. todo = <<p>> /\ segs = <<s>> /\ jphase = "emit"
  BY DEF JsonInit
<1>2. p \in Piece
  BY DEF Convert, Piece, Item
<1>3. s \in Segment /\ Fits(s)
  BY NewSegmentFits
<1> HIDE DEF p, s
<1>4. AllFit(<<s>>)
  <2>1. <<s>> \in Seq(Segment) /\ Len(<<s>>) = 1 /\ <<s>>[1] = s
    BY <1>3
  <2>2. ASSUME NEW i \in 1 .. Len(<<s>>) PROVE Fits(<<s>>[i])
    <3>1. i = 1
      BY <2>1
    <3> QED
      BY <1>3, <2>1, <3>1, Zenon
  <2> QED
    BY <2>1, <2>2 DEF AllFit
<1>5. <<p>> \in Seq(Piece) /\ <<s>> # <<>>
  BY <1>2
<1> QED
  BY <1>1, <1>4, <1>5 DEF JsonInv

(* An object is replaced by its pieces.                                    *)
LEMMA EmitObjectInv == ASSUME JsonInv, EmitObject PROVE JsonInv'
<1> DEFINE p == Head(todo)  q == Pieces(p.obj, p.depth)
<1>1. /\ jphase = "emit" /\ todo # <<>> /\ p.kind = "object" /\ p.obj.type # "invalid"
      /\ todo' = q \o Tail(todo) /\ UNCHANGED <<segs, jphase>>
  BY DEF EmitObject
<1>2. p \in Piece /\ Tail(todo) \in Seq(Piece)
  BY <1>1, HeadTailProperties DEF JsonInv
<1>3. p.obj \in Nodes /\ p.depth \in Nat
  <2> HIDE DEF p
  <2> QED
    BY <1>1, <1>2 DEF Piece, Text, Item
<1>4. q \in Seq(Piece)
  BY <1>1, <1>3, PiecesType
<1> HIDE DEF q
<1>5. todo' \in Seq(Piece)
  BY <1>1, <1>2, <1>4, ConcatProperties
<1> QED
  BY <1>1, <1>5 DEF JsonInv

(* Bytes are written where there is room for them.                         *)
LEMMA EmitBytesInv == ASSUME JsonInv, EmitBytes PROVE JsonInv'
<1> DEFINE p == Head(todo)  n == SizeOfPiece(p)  b == BytesOfPiece(p)
           ss == IF Room(Last(segs)) >= n THEN segs ELSE Append(segs, NewSegment(n))
<1>1. /\ jphase = "emit" /\ todo # <<>> /\ p.kind # "object"
      /\ segs' = [ss EXCEPT ![Len(ss)].bytes = @ \o b] /\ todo' = Tail(todo) /\ UNCHANGED jphase
  BY DEF EmitBytes, Appended
<1>2. p \in Piece /\ Tail(todo) \in Seq(Piece)
  BY <1>1, HeadTailProperties DEF JsonInv
<1>3. p \in Text
  <2> HIDE DEF p
  <2> QED
    BY <1>1, <1>2 DEF Piece, Item
<1>4. b \in Seq(Octets) /\ n = Len(b) /\ n \in Nat
  BY <1>3, PieceLength
<1>5. AllFit(segs) /\ segs # <<>>
  BY <1>1 DEF JsonInv
<1> HIDE DEF p, n, b
<1>6. AllFit(ss) /\ ss # <<>> /\ Room(ss[Len(ss)]) >= n
  <2>1. CASE Room(Last(segs)) >= n
    BY <1>5, <2>1 DEF Last
  <2>2. CASE ~(Room(Last(segs)) >= n)
    <3> DEFINE s == NewSegment(n)  k == Len(segs)
    <3>1. ss = Append(segs, s)
      BY <2>2
    <3>2. s \in Segment /\ Fits(s) /\ Room(s) >= n
      BY <1>4, NewSegmentFits
    <3> HIDE DEF s
    <3>3. segs \in Seq(Segment) /\ k \in Nat /\ \A i \in 1 .. k : Fits(segs[i])
      BY <1>5 DEF AllFit
    <3>4. /\ ss \in Seq(Segment) /\ Len(ss) = k + 1 /\ ss[k + 1] = s
          /\ \A i \in 1 .. k : ss[i] = segs[i]
      BY <3>1, <3>2, <3>3, AppendProperties
    <3> HIDE DEF ss, k
    <3>5. ASSUME NEW i \in 1 .. Len(ss) PROVE Fits(ss[i])
      <4>1. i = k + 1 \/ i \in 1 .. k
        BY <3>3, <3>4
      <4> QED
        BY <3>2, <3>3, <3>4, <4>1, Zenon
    <3>6. ss # <<>>
      BY <3>3, <3>4
    <3> QED
      BY <3>2, <3>4, <3>5, <3>6 DEF AllFit
  <2> QED
    BY <2>1, <2>2
<1> HIDE DEF ss
<1>7. AllFit(segs') /\ segs' # <<>>
  BY <1>1, <1>4, <1>6, AppendFits
<1> QED
  BY <1>1, <1>2, <1>7 DEF JsonInv

(* JsonInv is inductive.                                                   *)
LEMMA JsonStepInv == ASSUME JsonInv, JsonStep PROVE JsonInv'
<1>1. CASE EmitNull
  <2>1. todo' = <<>> /\ segs' = <<>> /\ jphase' = "null"
    BY <1>1 DEF EmitNull
  <2>2. AllFit(<<>>)
    BY DEF AllFit
  <2> QED
    BY <2>1, <2>2 DEF JsonInv
<1>2. CASE EmitEnds
  BY <1>2 DEF EmitEnds, JsonInv
<1> QED
  BY <1>1, <1>2, EmitObjectInv, EmitBytesInv DEF JsonStep

(* Where the segments end.                                                 *)
SegmentEnds == [k \in DOMAIN segs |-> Sums([i \in DOMAIN segs |-> Len(segs[i].bytes)])[k]]

(* The segments hold bytes, and their lengths add up.                      *)
LEMMA JsonBytesType ==
  ASSUME JsonInv
  PROVE  /\ JsonBytes \in Seq(Octets) /\ JsonLength \in Nat
         /\ SegmentEnds \in Seq(0 .. Len(JsonBytes)) /\ Len(SegmentEnds) = Len(segs)
         /\ segs # <<>> => SegmentEnds[Len(segs)] = Len(JsonBytes)
<1> DEFINE Q == Seq(Octets)  N == Len(segs)
           ss == [i \in DOMAIN segs |-> segs[i].bytes]
           ls == [i \in DOMAIN segs |-> Len(segs[i].bytes)]
           es == [k \in DOMAIN segs |-> Sums(ls)[k]]
<1>1. segs \in Seq(Segment) /\ N \in Nat /\ DOMAIN segs = 1 .. N
  BY DEF JsonInv, AllFit
<1>2. ASSUME NEW i \in 1 .. N PROVE segs[i].bytes \in Q
  <2>1. segs[i] \in Segment
    BY <1>1
  <2> QED
    BY <2>1 DEF Segment
<1> HIDE DEF Q, N
<1>3. ss \in Seq(Q) /\ Len(ss) = N /\ \A i \in 1 .. N : ss[i] = segs[i].bytes
  BY <1>1, <1>2
<1>4. ls = Lengths(ss)
  BY <1>1, <1>3 DEF Lengths
<1>5. ls \in Seq(Nat) /\ Len(ls) = N
  <2>1. ASSUME NEW i \in 1 .. N PROVE Len(segs[i].bytes) \in Nat
    BY <1>2 DEF Q
  <2> QED
    BY <1>1, <2>1
<1> HIDE DEF ss, ls
<1>6. /\ FlattenSeq(ss) \in Seq(Octets) /\ Len(FlattenSeq(ss)) = Total(ls)
  BY <1>3, <1>4, FlattenType, FlattenLength DEF Q
<1>7. JsonBytes = FlattenSeq(ss)
  BY DEF JsonBytes, ss
<1>8. ASSUME NEW k \in 1 .. N PROVE Sums(ls)[k] \in 0 .. Total(ls)
  <2>1. k \in 0 .. Len(ls)
    BY <1>1, <1>5
  <2> QED
    BY <1>5, <2>1, SumsGrow
<1>9. es \in Seq(0 .. Total(ls)) /\ Len(es) = N
  BY <1>1, <1>8
<1>a. segs # <<>> => es[N] = Total(ls)
  <2> SUFFICES ASSUME segs # <<>> PROVE es[N] = Total(ls)
    OBVIOUS
  <2>1. N \in 1 .. N
    BY <1>1 DEF N
  <2>2. es[N] = Sums(ls)[N]
    BY <1>1, <2>1
  <2> QED
    BY <1>5, <2>2 DEF Total
<1> HIDE DEF es
<1>10. es \in Seq(0 .. Len(JsonBytes)) /\ JsonBytes \in Seq(Octets)
  BY <1>6, <1>7, <1>9, Zenon
<1>11. Len(JsonBytes) \in Nat
  BY <1>10
<1>12. segs # <<>> => es[N] = Len(JsonBytes)
  BY <1>6, <1>7, <1>a
<1> QED
  BY <1>9, <1>10, <1>11, <1>12 DEF es, ls, N, JsonLength, SegmentEnds

-----------------------------------------------------------------------------
(* What output_convert_json writes, against JsonOf.                        *)

(* A string between its quotes.                                            *)
Escaped(b) == FlattenSeq([i \in DOMAIN b |-> Escape(b[i])])

(* g is what the pieces write, row what the objects at depth d write.      *)
Renders(g, row, d) ==
  /\ MapsTo(g, Piece, Octets)
  /\ \A b \in Seq(Octets) : g[Copy(b)] = b /\ g[EscapeAll(b)] = Escaped(b)
  /\ \A o \in Nodes : g[Convert(o, d)] = row[o]

(* An escaped string is bytes.                                             *)
LEMMA EscapedType == ASSUME NEW b \in Seq(Octets) PROVE Escaped(b) \in Seq(Octets)
<1> DEFINE Q == Seq(Octets)
           ss == [i \in DOMAIN b |-> Escape(b[i])]
<1>1. DOMAIN b = 1 .. Len(b) /\ Len(b) \in Nat /\ \A i \in 1 .. Len(b) : b[i] \in Octets
  OBVIOUS
<1>2. \A i \in 1 .. Len(b) : Escape(b[i]) \in Q
  BY <1>1, EscapeLength
<1> HIDE DEF Q
<1>3. ss \in Seq(Q)
  BY <1>1, <1>2
<1> HIDE DEF ss
<1>4. FlattenSeq(ss) \in Seq(Octets)
  BY <1>3, FlattenType DEF Q
<1> QED
  BY <1>4 DEF Escaped, ss

(* A text that needs no escapes is written as it is: when the sizes of its *)
(* bytes add up to its length, each is 1.                                  *)
LEMMA PieceBytes ==
  ASSUME NEW p \in Text
  PROVE  BytesOfPiece(p) = IF p.kind = "copy" THEN p.bytes ELSE Escaped(p.bytes)
<1> DEFINE b == p.bytes
           es == [i \in DOMAIN b |-> EscapedSize(b[i])]
<1>1. p.kind \in {"copy", "escape"} /\ b \in Seq(Octets)
  BY DEF Text
<1>2. DOMAIN b = 1 .. Len(b) /\ Len(b) \in Nat /\ \A i \in 1 .. Len(b) : b[i] \in Octets
  BY <1>1
<1>3. CASE p.kind = "copy"
  BY <1>3 DEF BytesOfPiece
<1>4. CASE p.kind # "copy" /\ SizeOfPiece(p) # Len(b)
  BY <1>4 DEF BytesOfPiece, Escaped
<1>5. CASE p.kind # "copy" /\ SizeOfPiece(p) = Len(b)
  <2> HIDE DEF b
  <2>1. Total(es) = Len(b)
    BY <1>5 DEF SizeOfPiece, b
  <2>2. \A c \in Octets : EscapedSize(c) \in Int /\ EscapedSize(c) >= 1
    BY DEF EscapedSize
  <2>3. es \in Seq(Int) /\ Len(es) = Len(b) /\ \A i \in 1 .. Len(b) : es[i] = EscapedSize(b[i])
    BY <1>2, <2>2
  <2> HIDE DEF es
  <2>4. \A i \in 1 .. Len(es) : es[i] >= 1
    BY <1>2, <2>2, <2>3
  <2>5. \A i \in 1 .. Len(es) : es[i] = 1
    <3>1. Total(es) = Len(es)
      BY <2>1, <2>3
    <3> QED
      BY <2>3, <2>4, <3>1, TotalOfOnes
  <2>6. \A c \in Octets : EscapedSize(c) = 1 => Escape(c) = <<c>>
    BY DEF EscapedSize, Escape
  <2>7. \A i \in 1 .. Len(b) : Escape(b[i]) = <<b[i]>>
    BY <1>2, <2>3, <2>5, <2>6
  <2>8. Escaped(b) = FlattenSeq([i \in 1 .. Len(b) |-> <<b[i]>>])
    <3>1. [i \in DOMAIN b |-> Escape(b[i])] = [i \in 1 .. Len(b) |-> <<b[i]>>]
      BY <1>2, <2>7
    <3> QED
      BY <3>1 DEF Escaped
  <2>9. Escaped(b) = b
    BY <1>1, <2>8, FlattenSingles
  <2>10. BytesOfPiece(p) = b
    BY <1>5 DEF BytesOfPiece, b
  <2> QED
    BY <1>5, <2>9, <2>10 DEF b
<1> QED
  BY <1>3, <1>4, <1>5

(* Two sequences of one element.                                           *)
LEMMA PairOf ==
  ASSUME NEW p, NEW q
  PROVE  <<p>> \o <<q>> = <<p, q>>
<1> DEFINE S == {p, q}  s == <<p>>  t == <<q>>  u == s \o t
<1>1. s \in Seq(S) /\ t \in Seq(S) /\ Len(s) = 1 /\ Len(t) = 1 /\ s[1] = p /\ t[1] = q
  OBVIOUS
<1> HIDE DEF S, s, t
<1>2. u \in Seq(S) /\ Len(u) = 2 /\ u[1] = p /\ u[2] = q
  BY <1>1, ConcatProperties
<1> HIDE DEF u
<1>3. u = <<p, q>>
  BY <1>2
<1> QED
  BY <1>3 DEF u, s, t

(* Pieces one after the other.                                             *)
LEMMA PiecesJoin ==
  ASSUME NEW g, MapsTo(g, Piece, Octets), NEW s \in Seq(Piece), NEW t \in Seq(Piece)
  PROVE  /\ Texted(g, s \o t) = Texted(g, s) \o Texted(g, t)
         /\ s \o t \in Seq(Piece) /\ Texted(g, s) \in Seq(Octets)
<1>1. Texted(g, s \o t) = Texted(g, s) \o Texted(g, t)
  BY TextedJoin
<1>2. Texted(g, s) \in Seq(Octets)
  BY TextedType
<1> QED
  BY <1>1, <1>2, ConcatProperties

(* A quoted string, before its closing quote.                              *)
LEMMA QuotedText ==
  ASSUME NEW g, MapsTo(g, Piece, Octets), NEW b \in Seq(Octets),
         g[Copy(Quote)] = Quote, g[EscapeAll(b)] = Escaped(b)
  PROVE  Texted(g, Quoted(b)) = Quote \o Escaped(b)
<1>1. Quote \in Seq(Octets)
  BY DEF Quote, Octets
<1> DEFINE p == Copy(Quote)  q == EscapeAll(b)
<1>2. p \in Piece /\ q \in Piece /\ g[p] = Quote /\ g[q] = Escaped(b)
  BY <1>1 DEF Copy, EscapeAll, Piece, Text
<1>3. Quoted(b) = <<p, q>>
  BY DEF Quoted
<1> HIDE DEF p, q
<1>4. <<p, q>> = <<p>> \o <<q>> /\ <<p>> \in Seq(Piece) /\ <<q>> \in Seq(Piece)
  <2>1. p \in Piece /\ q \in Piece
    BY <1>2
  <2>2. <<p>> \in Seq(Piece) /\ <<q>> \in Seq(Piece)
    BY ONLY <2>1
  <2>3. <<p, q>> = <<p>> \o <<q>>
    BY PairOf
  <2> QED
    BY <2>2, <2>3
<1>5. Texted(g, <<p>> \o <<q>>) = Texted(g, <<p>>) \o Texted(g, <<q>>)
  <2> DEFINE s == <<p>>  t == <<q>>
  <2>1. s \in Seq(Piece) /\ t \in Seq(Piece)
    BY <1>4
  <2> HIDE DEF s, t
  <2>2. Texted(g, s \o t) = Texted(g, s) \o Texted(g, t)
    BY <2>1, PiecesJoin
  <2> QED
    BY <2>2 DEF s, t
<1>6. Texted(g, <<p>>) = g[p] /\ Texted(g, <<q>>) = g[q]
  BY <1>2, TextedOne
<1> QED
  BY <1>2, <1>3, <1>4, <1>5, <1>6

(* Concatenations of bytes.                                                *)
LEMMA OctetsConcat ==
  ASSUME NEW a \in Seq(Octets), NEW b \in Seq(Octets), NEW c \in Seq(Octets)
  PROVE  (a \o b) \o c = a \o (b \o c) /\ a \o b \in Seq(Octets) /\ a \o <<>> = a /\ <<>> \o a = a
<1>1. a \o b \in Seq(Octets) /\ a \o <<>> = a /\ <<>> \o a = a
  OBVIOUS
<1>2. (a \o b) \o c = a \o (b \o c)
  <2> HIDE DEF Octets
  <2> QED
    OBVIOUS
<1> QED
  BY <1>1, <1>2

(* The quote that ends a name is written with the colon behind it.         *)
LEMMA NameText ==
  ASSUME NEW b \in Seq(Octets)
  PROVE  (Quote \o Escaped(b)) \o <<34, 58>> = JsonString(b) \o <<58>>
<1> DEFINE e == Escaped(b)  qe == Quote \o e
<1>1. Quote \in Seq(Octets) /\ <<58>> \in Seq(Octets) /\ Quote \o <<58>> = <<34, 58>>
  BY PairOf DEF Quote, Octets
<1>2. e \in Seq(Octets)
  BY EscapedType
<1>3. JsonString(b) = qe \o Quote
  BY DEF JsonString, Escaped
<1> HIDE DEF e
<1>4. qe \in Seq(Octets)
  BY <1>1, <1>2, OctetsConcat
<1> HIDE DEF qe
<1>5. (qe \o Quote) \o <<58>> = qe \o (Quote \o <<58>>)
  BY <1>1, <1>4, OctetsConcat, SMTT(30)
<1> QED
  BY <1>1, <1>3, <1>5 DEF e, qe

(* An element of a container, with its name and the comma behind it.       *)
LEMMA ElementText ==
  ASSUME NEW o \in Nodes, o.type \in {"array", "map"}, NEW i \in 1 .. Len(o.items), NEW d \in Nat,
         NEW g, NEW row, Renders(g, row, d + 1)
  PROVE  Texted(g, Element(o, i, d)) = JsonItem(o, i, row)
<1> DEFINE e     == o.items[i]
           comma == IF i = Len(o.items) THEN <<>> ELSE <<Copy(Comma)>>
           key   == IF o.type = "map" THEN Quoted(e.name) \o <<Copy(<<34, 58>>)>> ELSE <<>>
           item  == <<Convert(e, d + 1)>>
           name  == IF o.type = "map" THEN JsonString(e.name) \o <<58>> ELSE <<>>
           sep   == IF i = Len(o.items) THEN <<>> ELSE Comma
<1>1. Element(o, i, d) = key \o item \o comma /\ JsonItem(o, i, row) = name \o row[e] \o sep
  BY DEF Element, JsonItem
<1>2. o.items \in Seq(Nodes) /\ (o.type = "map" => e.name \in Seq(Octets))
  BY NodesAssumption DEF IsNode
<1>3. e \in Nodes /\ d + 1 \in Nat
  BY <1>2
<1>4. /\ MapsTo(g, Piece, Octets)
      /\ \A b \in Seq(Octets) : g[Copy(b)] = b /\ g[EscapeAll(b)] = Escaped(b)
      /\ g[Convert(e, d + 1)] = row[e]
  BY <1>3 DEF Renders
<1>5. Texted(g, <<>>) = <<>> /\ <<>> \in Seq(Piece)
  BY FlattenNone DEF Texted
<1>6. ASSUME NEW b \in Seq(Octets) PROVE Texted(g, <<Copy(b)>>) = b /\ <<Copy(b)>> \in Seq(Piece)
  BY <1>4, CopyType, TextedOne
<1>7. comma \in Seq(Piece) /\ Texted(g, comma) = sep
  <2>1. Comma \in Seq(Octets)
    BY Literals DEF Comma
  <2>2. Texted(g, <<Copy(Comma)>>) = Comma /\ <<Copy(Comma)>> \in Seq(Piece)
    BY <1>6, <2>1
  <2> QED
    BY <1>5, <2>2
<1>8. key \in Seq(Piece) /\ Texted(g, key) = name
  <2>1. CASE o.type = "map"
    <3> DEFINE n == e.name  c == <<34, 58>>
    <3>1. n \in Seq(Octets) /\ c \in Seq(Octets) /\ Quote \in Seq(Octets)
      BY <1>2, <2>1, Literals DEF Quote
    <3>2. key = Quoted(n) \o <<Copy(c)>> /\ name = JsonString(n) \o <<58>>
      BY <2>1
    <3> HIDE DEF n, key, name
    <3>3. Quoted(n) \in Seq(Piece) /\ <<Copy(c)>> \in Seq(Piece) /\ Texted(g, <<Copy(c)>>) = c
      BY <1>6, <3>1, QuotedType
    <3>4. Texted(g, Quoted(n)) = Quote \o Escaped(n)
      BY <1>4, <3>1, QuotedText
    <3> HIDE DEF c
    <3>5. Texted(g, Quoted(n) \o <<Copy(c)>>) = (Quote \o Escaped(n)) \o c
      <4> DEFINE s == Quoted(n)  t == <<Copy(c)>>
      <4>1. s \in Seq(Piece) /\ t \in Seq(Piece) /\ Texted(g, s) = Quote \o Escaped(n) /\ Texted(g, t) = c
        BY <3>3, <3>4
      <4> HIDE DEF s, t
      <4>2. Texted(g, s \o t) = Texted(g, s) \o Texted(g, t)
        BY <1>4, <4>1, PiecesJoin
      <4> QED
        BY <4>1, <4>2 DEF s, t
    <3>6. Quoted(n) \o <<Copy(c)>> \in Seq(Piece)
      BY <3>3, ConcatProperties
    <3>7. (Quote \o Escaped(n)) \o c = JsonString(n) \o <<58>>
      BY <3>1, NameText DEF c
    <3> QED
      BY <3>2, <3>5, <3>6, <3>7
  <2>2. CASE o.type # "map"
    BY <1>5, <2>2
  <2> QED
    BY <2>1, <2>2
<1>9. item \in Seq(Piece) /\ Texted(g, item) = row[e]
  <2>1. Convert(e, d + 1) \in Piece
    BY <1>3 DEF Convert, Piece, Item
  <2> QED
    BY <1>4, <2>1, TextedOne
<1> HIDE DEF e, comma, key, item, name, sep
<1>10. key \o item \in Seq(Piece)
  BY <1>8, <1>9, ConcatProperties
<1>11. Texted(g, key \o item) = Texted(g, key) \o Texted(g, item)
  BY <1>4, <1>8, <1>9, PiecesJoin
<1>12. Texted(g, (key \o item) \o comma) = Texted(g, key \o item) \o Texted(g, comma)
  <2> DEFINE s == key \o item
  <2>1. s \in Seq(Piece)
    BY <1>10
  <2> HIDE DEF s
  <2>2. Texted(g, s \o comma) = Texted(g, s) \o Texted(g, comma)
    BY <1>4, <1>7, <2>1, PiecesJoin
  <2> QED
    BY <2>2 DEF s
<1> QED
  BY <1>1, <1>7, <1>8, <1>9, <1>11, <1>12

(* What is between the brackets of a container: pieces and text.           *)
ElementsOf(o, d) == FlattenSeq([i \in 1 .. Len(o.items) |-> Element(o, i, d)])
ItemsOf(o, row)  == FlattenSeq([i \in 1 .. Len(o.items) |-> JsonItem(o, i, row)])

IsContainer(o) == o.type \in {"array", "map"}

RendersBelow(g, row, d) == Renders(g, row, d + 1)

(* A container between the brackets a and b is rendered as its items.      *)
RendersContainer(g, o, d, row, a, b) ==
  Texted(g, <<Copy(a)>> \o ElementsOf(o, d) \o <<Copy(b)>>) = a \o ItemsOf(o, row) \o b

(* The elements of a container between its brackets.                       *)
LEMMA ContainerText ==
  ASSUME NEW o \in Nodes, IsContainer(o), NEW d \in Nat,
         NEW g, NEW row, RendersBelow(g, row, d), NEW a \in Seq(Octets), NEW b \in Seq(Octets)
  PROVE  RendersContainer(g, o, d, row, a, b)
<1> DEFINE Q  == Seq(Piece)
           N  == Len(o.items)
           ss == [i \in 1 .. N |-> Element(o, i, d)]
           tt == [i \in 1 .. N |-> JsonItem(o, i, row)]
           s  == <<Copy(a)>>
           t  == <<Copy(b)>>
           el == FlattenSeq(ss)
<1> USE DEF IsContainer, RendersBelow
<1>1. N \in Nat
  BY NodesAssumption DEF IsNode
<1>2. ASSUME NEW i \in 1 .. N
      PROVE  Element(o, i, d) \in Q /\ Texted(g, Element(o, i, d)) = JsonItem(o, i, row)
  BY ElementType, ElementText
<1> HIDE DEF N, Q
<1>3. ss \in Seq(Q) /\ Len(ss) = N /\ \A i \in 1 .. N : Texted(g, ss[i]) = JsonItem(o, i, row)
  BY <1>1, <1>2
<1> HIDE DEF ss
<1>4. [i \in 1 .. Len(ss) |-> Texted(g, ss[i])] = tt
  BY <1>3
<1>5. MapsTo(g, Piece, Octets) /\ g[Copy(a)] = a /\ g[Copy(b)] = b
  BY DEF Renders
<1> HIDE DEF tt
<1>6. Texted(g, el) = FlattenSeq(tt) /\ el \in Seq(Piece)
  <2>1. ss \in Seq(Seq(Piece))
    BY <1>3 DEF Q
  <2>2. Texted(g, FlattenSeq(ss)) = FlattenSeq([i \in 1 .. Len(ss) |-> Texted(g, ss[i])])
    BY <1>5, <2>1, TextedFlatten
  <2> QED
    BY <1>4, <2>1, <2>2, FlattenType
<1>7. /\ Texted(g, s) = a /\ Texted(g, t) = b
      /\ s \in Seq(Piece) /\ t \in Seq(Piece)
  BY <1>5, CopyType, TextedOne
<1> HIDE DEF s, t, el
<1> DEFINE u == s \o el
<1>8. Texted(g, s \o el) = Texted(g, s) \o Texted(g, el) /\ s \o el \in Seq(Piece)
  BY <1>5, <1>6, <1>7, PiecesJoin
<1>9. u \in Seq(Piece) /\ Texted(g, u) = a \o FlattenSeq(tt)
  BY <1>6, <1>7, <1>8
<1> HIDE DEF u
<1>10. Texted(g, u \o t) = Texted(g, u) \o Texted(g, t)
  BY <1>5, <1>7, <1>9, PiecesJoin
<1>11. Texted(g, u \o t) = (a \o FlattenSeq(tt)) \o b
  BY <1>7, <1>9, <1>10
<1> QED
  BY <1>11 DEF u, s, t, el, ss, tt, N, ElementsOf, ItemsOf, RendersContainer

(* The pieces of an object write its JSON.                                 *)
LEMMA PiecesText ==
  ASSUME NEW o \in Nodes, o.type # "invalid", NEW d \in Nat, NEW g, NEW row, Renders(g, row, d + 1)
  PROVE  Texted(g, Pieces(o, d)) = JsonText(o, row)
<1>1. IsNode(o)
  BY NodesAssumption
<1>2. MapsTo(g, Piece, Octets) /\ \A b \in Seq(Octets) : g[Copy(b)] = b /\ g[EscapeAll(b)] = Escaped(b)
  BY DEF Renders
<1>3. ASSUME NEW b \in Seq(Octets) PROVE Texted(g, <<Copy(b)>>) = b /\ <<Copy(b)>> \in Seq(Piece)
  BY <1>2, CopyType, TextedOne
<1>4. CASE o.type \in {"signed", "unsigned"}
  <2> DEFINE b == Decimal(o.val)
  <2>1. Pieces(o, d) = <<Copy(b)>> /\ JsonText(o, row) = b
    BY <1>4 DEF Pieces, JsonText
  <2>2. b \in Seq(Octets)
    BY <1>1, <1>4, DecimalType DEF IsNode
  <2> HIDE DEF b
  <2> QED
    BY <1>3, <2>1, <2>2
<1>5. CASE o.type = "string"
  <2> DEFINE s == Quoted(o.val)  t == <<Copy(Quote)>>
  <2>1. Pieces(o, d) = s \o t /\ JsonText(o, row) = JsonString(o.val)
    BY <1>5 DEF Pieces, JsonText
  <2>2. o.val \in Seq(Octets) /\ Quote \in Seq(Octets)
    BY <1>1, <1>5, Literals DEF IsNode, Quote
  <2>3. s \in Seq(Piece) /\ t \in Seq(Piece) /\ Texted(g, t) = Quote
    BY <1>3, <2>2, QuotedType
  <2>4. Texted(g, s) = Quote \o Escaped(o.val)
    BY <1>2, <2>2, QuotedText
  <2> HIDE DEF s, t
  <2>5. Texted(g, s \o t) = Texted(g, s) \o Texted(g, t)
    BY <1>2, <2>3, PiecesJoin
  <2>6. JsonString(o.val) = (Quote \o Escaped(o.val)) \o Quote
    BY DEF JsonString, Escaped
  <2> QED
    BY <2>1, <2>3, <2>4, <2>5, <2>6
<1>6. CASE o.type = "bool"
  <2> DEFINE b == IF o.val THEN <<116, 114, 117, 101>> ELSE <<102, 97, 108, 115, 101>>
  <2>1. Pieces(o, d) = <<Copy(b)>> /\ JsonText(o, row) = b
    BY <1>6 DEF Pieces, JsonText
  <2>2. b \in Seq(Octets)
    BY Literals
  <2> HIDE DEF b
  <2> QED
    BY <1>3, <2>1, <2>2
<1>7. CASE o.type \in {"array", "map"}
  <2> DEFINE elements == ElementsOf(o, d)
             items    == ItemsOf(o, row)
  <2>1. ASSUME NEW a \in Seq(Octets), NEW b \in Seq(Octets)
        PROVE  Texted(g, <<Copy(a)>> \o elements \o <<Copy(b)>>) = a \o items \o b
    <3>1. IsContainer(o) /\ RendersBelow(g, row, d)
      BY <1>7 DEF IsContainer, RendersBelow
    <3>2. RendersContainer(g, o, d, row, a, b)
      BY <3>1, ContainerText
    <3> QED
      BY <3>2 DEF RendersContainer
  <2>2. CASE o.type = "array"
    <3> DEFINE a == <<91>>  b == <<93>>
    <3>1. Pieces(o, d) = <<Copy(a)>> \o elements \o <<Copy(b)>> /\ JsonText(o, row) = a \o items \o b
      BY <2>2 DEF Pieces, JsonText, ElementsOf, ItemsOf
    <3>2. a \in Seq(Octets) /\ b \in Seq(Octets)
      BY Literals
    <3> HIDE DEF a, b, elements, items
    <3> QED
      BY <2>1, <3>1, <3>2
  <2>3. CASE o.type = "map"
    <3> DEFINE a == <<123>>  b == <<125>>
    <3>1. Pieces(o, d) = <<Copy(a)>> \o elements \o <<Copy(b)>> /\ JsonText(o, row) = a \o items \o b
      BY <2>3 DEF Pieces, JsonText, ElementsOf, ItemsOf
    <3>2. a \in Seq(Octets) /\ b \in Seq(Octets)
      BY Literals
    <3> HIDE DEF a, b, elements, items
    <3> QED
      BY <2>1, <3>1, <3>2
  <2> QED
    BY <1>7, <2>2, <2>3
<1>8. CASE o.type \in {"float", "null"}
  <2>1. Pieces(o, d) = <<>> /\ JsonText(o, row) = <<>>
    BY <1>8 DEF Pieces, JsonText
  <2>2. Texted(g, <<>>) = <<>>
    BY FlattenNone DEF Texted
  <2> QED
    BY <2>1, <2>2
<1> QED
  BY <1>1, <1>4, <1>5, <1>6, <1>7, <1>8 DEF IsNode

(* What the objects of a level write, from what those of the level below   *)
(* write.                                                                  *)
Rows == [Nodes -> Seq(Octets)]

RowOf(row) == [o \in Nodes |-> JsonText(o, row)]

(* What a piece writes if row is what objects write.                       *)
Rendering(row) ==
  [p \in Piece |-> IF p.kind = "object" THEN row[p.obj]
                   ELSE IF p.kind = "copy" THEN p.bytes ELSE Escaped(p.bytes)]

LEMMA RenderingRenders ==
  ASSUME NEW row \in Rows, NEW d \in Nat
  PROVE  Renders(Rendering(row), row, d)
<1> DEFINE g == Rendering(row)
<1>1. ASSUME NEW p \in Piece PROVE g[p] \in Seq(Octets)
  <2>1. CASE p \in Item
    <3>1. p.kind = "object" /\ p.obj \in Nodes
      BY <2>1 DEF Item
    <3> QED
      BY <3>1 DEF Rendering, Rows
  <2>2. CASE p \in Text
    <3>1. p.kind # "object" /\ p.bytes \in Seq(Octets)
      BY <2>2 DEF Text
    <3> QED
      BY <3>1, EscapedType DEF Rendering
  <2> QED
    BY <2>1, <2>2 DEF Piece
<1>2. g = [p \in Piece |-> g[p]]
  BY DEF Rendering
<1>3. ASSUME NEW b \in Seq(Octets) PROVE g[Copy(b)] = b /\ g[EscapeAll(b)] = Escaped(b)
  <2>1. Copy(b) \in Piece /\ EscapeAll(b) \in Piece
    BY DEF Copy, EscapeAll, Piece, Text
  <2>2. /\ Copy(b).kind = "copy" /\ Copy(b).bytes = b
        /\ EscapeAll(b).kind = "escape" /\ EscapeAll(b).bytes = b
    BY DEF Copy, EscapeAll
  <2> QED
    BY <2>1, <2>2 DEF Rendering
<1>4. ASSUME NEW o \in Nodes PROVE g[Convert(o, d)] = row[o]
  <2>1. Convert(o, d) \in Piece /\ Convert(o, d).kind = "object" /\ Convert(o, d).obj = o
    BY DEF Convert, Piece, Item
  <2> QED
    BY <2>1 DEF Rendering
<1> HIDE DEF g
<1>5. MapsTo(g, Piece, Octets)
  BY <1>1, <1>2 DEF MapsTo
<1> QED
  BY <1>3, <1>4, <1>5 DEF Renders, g

(* JSON is bytes.                                                          *)
LEMMA JsonTextType ==
  ASSUME NEW row \in Rows, NEW o \in Nodes
  PROVE  JsonText(o, row) \in Seq(Octets)
<1>1. CASE o.type = "invalid"
  BY <1>1 DEF JsonText
<1>2. CASE o.type # "invalid"
  <2>1. PICK g : Renders(g, row, 0 + 1)
    BY RenderingRenders
  <2>2. Texted(g, Pieces(o, 0)) = JsonText(o, row)
    BY <1>2, <2>1, PiecesText
  <2>3. Pieces(o, 0) \in Seq(Piece)
    BY <1>2, PiecesType
  <2>4. Texted(g, Pieces(o, 0)) \in Seq(Octets)
    BY <2>1, <2>3, TextedType DEF Renders
  <2> QED
    BY <2>2, <2>4
<1> QED
  BY <1>1, <1>2

(* The recursive definitions of JsonTexts and Convertible, a level at a    *)
(* time.                                                                   *)
TextsOf(f) ==
  f = [n \in Nat |-> IF n = 0 THEN [o \in Nodes |-> <<>>]
                     ELSE LET text == f[n - 1] IN [o \in Nodes |-> JsonText(o, text)]]

LEMMA JsonTextsDef ==
  /\ \A n \in Nat : JsonTexts[n] \in Rows
  /\ \A n \in Nat : JsonTexts[n + 1] = RowOf(JsonTexts[n])
<1> DEFINE a == [o \in Nodes |-> <<>>]
           step == [row \in Rows |-> RowOf(row)]
<1>1. a \in Rows
  BY DEF Rows
<1>2. \A row \in Rows : RowOf(row) \in Rows
  <2> SUFFICES ASSUME NEW row \in Rows PROVE RowOf(row) \in Rows
    OBVIOUS
  <2>1. \A o \in Nodes : JsonText(o, row) \in Seq(Octets)
    BY JsonTextType
  <2> QED
    BY <2>1 DEF RowOf, Rows
<1> HIDE DEF a
<1>3. step \in [Rows -> Rows] /\ \A row \in Rows : step[row] = RowOf(row)
  <2> HIDE DEF Rows
  <2> QED
    BY <1>2
<1> HIDE DEF step
<1>4. PICK f : IteratesForever(f, Rows, a, step)
  BY <1>1, <1>3, IteratesForeverExist
<1>5. f \in [Nat -> Rows] /\ f[0] = a /\ \A n \in Nat : f[n + 1] = RowOf(f[n])
  <2>1. f \in [Nat -> Rows] /\ f[0] = a /\ \A n \in Nat : f[n + 1] = step[f[n]]
    BY <1>4 DEF IteratesForever
  <2> HIDE DEF Rows
  <2> QED
    BY <1>3, <2>1
<1>6. TextsOf(f)
  <2>1. ASSUME NEW n \in Nat
        PROVE  f[n] = IF n = 0 THEN a ELSE RowOf(f[n - 1])
    <3>1. CASE n = 0
      BY <1>5, <3>1
    <3>2. CASE n # 0
      <4>1. n - 1 \in Nat /\ (n - 1) + 1 = n
        BY <3>2
      <4> QED
        BY <1>5, <3>2, <4>1
    <3> QED
      BY <3>1, <3>2
  <2>2. f = [n \in Nat |-> f[n]]
    BY <1>5
  <2>3. f = [n \in Nat |-> IF n = 0 THEN a ELSE RowOf(f[n - 1])]
    BY <2>1, <2>2
  <2> QED
    BY <2>3 DEF TextsOf, RowOf, a
<1>7. JsonTexts = CHOOSE h : TextsOf(h)
  BY DEF JsonTexts, TextsOf
<1>8. PICK h : h = JsonTexts
  OBVIOUS
<1>9. TextsOf(h)
  BY <1>6, <1>7, <1>8
<1>10. h[0] = a /\ \A n \in Nat : h[n + 1] = RowOf(h[n])
  <2>1. h = [n \in Nat |-> IF n = 0 THEN a ELSE RowOf(h[n - 1])]
    BY <1>9 DEF TextsOf, RowOf, a
  <2>2. h[0] = a
    BY <2>1
  <2>3. ASSUME NEW n \in Nat PROVE h[n + 1] = RowOf(h[n])
    <3>1. n + 1 \in Nat /\ n + 1 # 0 /\ (n + 1) - 1 = n
      OBVIOUS
    <3> QED
      BY <2>1, <3>1
  <2> QED
    BY <2>2, <2>3
<1>11. \A n \in Nat : h[n] \in Rows
  <2> DEFINE P(n) == h[n] \in Rows
  <2>1. P(0)
    BY <1>1, <1>10
  <2>2. \A n \in Nat : P(n) => P(n + 1)
    BY <1>2, <1>10
  <2> DEFINE T == {n \in Nat : P(n)}
  <2>3. ASSUME NEW n \in Nat PROVE n \in T
    <3>1. 0 \in T /\ \A k \in 0 .. n - 1 : k \in T => k + 1 \in T
      BY <2>1, <2>2
    <3> HIDE DEF T
    <3>2. 0 .. n \subseteq T
      BY <3>1, UpTo
    <3> QED
      BY <3>2
  <2> QED
    BY <2>3
<1> QED
  BY <1>8, <1>10, <1>11

(* Objects that can be converted, from those of the level below.           *)
Fitting == [Nodes -> BOOLEAN]

FitRow(fit) ==
  [o \in Nodes |->
     /\ o.type # "invalid"
     /\ o.type \in {"array", "map"} => \A i \in 1 .. Len(o.items) : fit[o.items[i]]]

FitsOf(f) ==
  f = [n \in Nat |->
         IF n = 0 THEN [o \in Nodes |-> FALSE]
         ELSE LET fit == f[n - 1]
              IN  [o \in Nodes |->
                     /\ o.type # "invalid"
                     /\ o.type \in {"array", "map"} => \A i \in 1 .. Len(o.items) : fit[o.items[i]]]]

LEMMA ConvertibleDef ==
  \A n \in Nat : Convertible[n + 1] = FitRow(Convertible[n])
<1> DEFINE a == [o \in Nodes |-> FALSE]
           step == [fit \in Fitting |-> FitRow(fit)]
<1>1. a \in Fitting
  BY DEF Fitting
<1>2. \A fit \in Fitting : FitRow(fit) \in Fitting
  BY DEF FitRow, Fitting
<1> HIDE DEF a
<1>3. step \in [Fitting -> Fitting] /\ \A fit \in Fitting : step[fit] = FitRow(fit)
  <2> HIDE DEF Fitting
  <2> QED
    BY <1>2
<1> HIDE DEF step
<1>4. PICK f : IteratesForever(f, Fitting, a, step)
  BY <1>1, <1>3, IteratesForeverExist
<1>5. f \in [Nat -> Fitting] /\ f[0] = a /\ \A n \in Nat : f[n + 1] = FitRow(f[n])
  <2>1. f \in [Nat -> Fitting] /\ f[0] = a /\ \A n \in Nat : f[n + 1] = step[f[n]]
    BY <1>4 DEF IteratesForever
  <2> HIDE DEF Fitting
  <2> QED
    BY <1>3, <2>1
<1>6. FitsOf(f)
  <2>1. ASSUME NEW n \in Nat
        PROVE  f[n] = IF n = 0 THEN a ELSE FitRow(f[n - 1])
    <3>1. CASE n = 0
      BY <1>5, <3>1
    <3>2. CASE n # 0
      <4>1. n - 1 \in Nat /\ (n - 1) + 1 = n
        BY <3>2
      <4> QED
        BY <1>5, <3>2, <4>1
    <3> QED
      BY <3>1, <3>2
  <2>2. f = [n \in Nat |-> f[n]]
    BY <1>5
  <2>3. f = [n \in Nat |-> IF n = 0 THEN a ELSE FitRow(f[n - 1])]
    BY <2>1, <2>2
  <2> QED
    BY <2>3 DEF FitsOf, FitRow, a
<1>7. Convertible = CHOOSE h : FitsOf(h)
  BY DEF Convertible, FitsOf
<1>8. PICK h : h = Convertible
  OBVIOUS
<1>9. FitsOf(h)
  BY <1>6, <1>7, <1>8
<1>10. ASSUME NEW n \in Nat PROVE h[n + 1] = FitRow(h[n])
  <2>1. h = [k \in Nat |-> IF k = 0 THEN a ELSE FitRow(h[k - 1])]
    BY <1>9 DEF FitsOf, FitRow, a
  <2>2. n + 1 \in Nat /\ n + 1 # 0 /\ (n + 1) - 1 = n
    OBVIOUS
  <2> QED
    BY <2>1, <2>2
<1> QED
  BY <1>8, <1>10

-----------------------------------------------------------------------------
(* The levels of JSON that are left at a depth.                            *)
Levels(d) == IF d <= MaxJsonDepth + 1 THEN MaxJsonDepth + 1 - d ELSE 0

LEMMA LevelsType ==
  ASSUME NEW d \in Nat
  PROVE  /\ Levels(d) \in Nat /\ Levels(0) = MaxJsonDepth + 1
         /\ d <= MaxJsonDepth => Levels(d) = Levels(d + 1) + 1
BY JsonAssumption DEF Levels

(* What a piece writes, and whether it can be converted.                   *)
PieceTexts ==
  [p \in Piece |-> IF p.kind = "object" THEN JsonTexts[Levels(p.depth)][p.obj]
                   ELSE IF p.kind = "copy" THEN p.bytes ELSE Escaped(p.bytes)]

FitPieces == {p \in Piece : p.kind = "object" => Convertible[Levels(p.depth)][p.obj]}

LEMMA PieceTextsRender ==
  ASSUME NEW d \in Nat
  PROVE  Renders(PieceTexts, JsonTexts[Levels(d)], d)
<1> DEFINE g == PieceTexts
<1>1. ASSUME NEW p \in Piece PROVE g[p] \in Seq(Octets)
  <2>1. CASE p \in Item
    <3>1. p.kind = "object" /\ p.obj \in Nodes /\ p.depth \in Nat
      BY <2>1 DEF Item
    <3>2. JsonTexts[Levels(p.depth)] \in Rows
      BY <3>1, LevelsType, JsonTextsDef
    <3>3. g[p] = JsonTexts[Levels(p.depth)][p.obj]
      BY <3>1 DEF PieceTexts
    <3> QED
      BY <3>1, <3>2, <3>3 DEF Rows
  <2>2. CASE p \in Text
    <3>1. p.kind # "object" /\ p.bytes \in Seq(Octets)
      BY <2>2 DEF Text
    <3> QED
      BY <3>1, EscapedType DEF PieceTexts
  <2> QED
    BY <2>1, <2>2 DEF Piece
<1>2. g = [p \in Piece |-> g[p]]
  BY DEF PieceTexts
<1>3. ASSUME NEW b \in Seq(Octets) PROVE g[Copy(b)] = b /\ g[EscapeAll(b)] = Escaped(b)
  <2>1. Copy(b) \in Piece /\ EscapeAll(b) \in Piece
    BY DEF Copy, EscapeAll, Piece, Text
  <2>2. /\ Copy(b).kind = "copy" /\ Copy(b).bytes = b
        /\ EscapeAll(b).kind = "escape" /\ EscapeAll(b).bytes = b
    BY DEF Copy, EscapeAll
  <2> QED
    BY <2>1, <2>2 DEF PieceTexts
<1>4. ASSUME NEW o \in Nodes PROVE g[Convert(o, d)] = JsonTexts[Levels(d)][o]
  <2>1. /\ Convert(o, d) \in Piece /\ Convert(o, d).kind = "object" /\ Convert(o, d).obj = o
        /\ Convert(o, d).depth = d
    BY DEF Convert, Piece, Item
  <2> QED
    BY <2>1 DEF PieceTexts
<1> HIDE DEF g
<1>5. MapsTo(g, Piece, Octets)
  BY <1>1, <1>2 DEF MapsTo
<1> QED
  BY <1>3, <1>4, <1>5 DEF Renders, g

(* An object that is not too deep is replaced by pieces that write the     *)
(* same.                                                                   *)
LEMMA PiecesWriteSame ==
  ASSUME NEW o \in Nodes, NEW d \in Nat, d <= MaxJsonDepth, o.type # "invalid"
  PROVE  Texted(PieceTexts, Pieces(o, d)) = PieceTexts[Convert(o, d)]
<1>1. Levels(d) = Levels(d + 1) + 1 /\ Levels(d + 1) \in Nat
  BY LevelsType
<1> DEFINE row == JsonTexts[Levels(d + 1)]
<1>2. Renders(PieceTexts, row, d + 1)
  BY PieceTextsRender
<1>3. PieceTexts[Convert(o, d)] = JsonTexts[Levels(d)][o]
  BY PieceTextsRender DEF Renders
<1>4. JsonTexts[Levels(d)] = RowOf(row)
  BY <1>1, JsonTextsDef
<1> HIDE DEF row
<1>5. Texted(PieceTexts, Pieces(o, d)) = JsonText(o, row)
  BY <1>2, PiecesText
<1> QED
  BY <1>3, <1>4, <1>5 DEF RowOf

(* Both parts of a sequence are made of what all of it is made of.         *)
LEMMA PartsWithin ==
  ASSUME NEW S, NEW B, NEW s \in Seq(S), NEW t \in Seq(S), s \o t \in Seq(B)
  PROVE  s \in Seq(B) /\ t \in Seq(B)
<1> DEFINE u == s \o t  m == Len(s)  n == Len(t)
<1>1. /\ m \in Nat /\ n \in Nat /\ Len(u) = m + n
      /\ \A i \in 1 .. m + n : u[i] = IF i <= m THEN s[i] ELSE t[i - m]
  BY ConcatProperties
<1>2. \A i \in 1 .. m + n : u[i] \in B
  BY <1>1
<1> HIDE DEF u
<1>3. ASSUME NEW i \in 1 .. m PROVE s[i] \in B
  <2>1. i \in 1 .. m + n /\ i <= m
    BY <1>1
  <2> QED
    BY <1>1, <1>2, <2>1
<1>4. ASSUME NEW i \in 1 .. n PROVE t[i] \in B
  <2>1. i + m \in 1 .. m + n /\ ~(i + m <= m) /\ (i + m) - m = i
    BY <1>1
  <2> QED
    BY <1>1, <1>2, <2>1
<1>5. s = [i \in 1 .. m |-> s[i]] /\ t = [i \in 1 .. n |-> t[i]]
  OBVIOUS
<1> HIDE DEF m, n
<1> QED
  BY <1>1, <1>3, <1>4, <1>5

LEMMA FlattenWithin ==
  ASSUME NEW S, NEW B, NEW ss \in Seq(Seq(S)), FlattenSeq(ss) \in Seq(B)
  PROVE  \A i \in 1 .. Len(ss) : ss[i] \in Seq(B)
<1> DEFINE R == Seq(S)
           T == {tt \in Seq(R) : FlattenSeq(tt) \in Seq(B) => \A i \in 1 .. Len(tt) : tt[i] \in Seq(B)}
<1>1. <<>> \in T
  OBVIOUS
<1>2. ASSUME NEW tt \in T, NEW x \in R PROVE Append(tt, x) \in T
  <2>1. tt \in Seq(R) /\ (FlattenSeq(tt) \in Seq(B) => \A i \in 1 .. Len(tt) : tt[i] \in Seq(B))
    OBVIOUS
  <2>2. FlattenSeq(Append(tt, x)) = FlattenSeq(tt) \o x /\ FlattenSeq(tt) \in Seq(S) /\ x \in Seq(S)
    BY <2>1, FlattenAppend, FlattenType
  <2> HIDE DEF R, T
  <2>3. /\ Append(tt, x) \in Seq(R) /\ Len(Append(tt, x)) = Len(tt) + 1 /\ Len(tt) \in Nat
        /\ Append(tt, x)[Len(tt) + 1] = x /\ \A i \in 1 .. Len(tt) : Append(tt, x)[i] = tt[i]
    BY <2>1, AppendProperties
  <2> DEFINE ff == FlattenSeq(tt)
  <2>4. ASSUME FlattenSeq(Append(tt, x)) \in Seq(B)
        PROVE  \A i \in 1 .. Len(Append(tt, x)) : Append(tt, x)[i] \in Seq(B)
    <3>1. ff \o x \in Seq(B) /\ ff \in Seq(S) /\ x \in Seq(S)
      BY <2>2, <2>4
    <3>2. ff \in Seq(B) /\ x \in Seq(B)
      <4> HIDE DEF ff
      <4> QED
        BY <3>1, PartsWithin
    <3> SUFFICES ASSUME NEW i \in 1 .. Len(Append(tt, x)) PROVE Append(tt, x)[i] \in Seq(B)
      OBVIOUS
    <3>3. i = Len(tt) + 1 \/ i \in 1 .. Len(tt)
      BY <2>3
    <3> QED
      BY <2>1, <2>3, <3>2, <3>3
  <2> QED
    BY <2>3, <2>4 DEF T
<1>3. T = Seq(R)
  <2>1. T \in SUBSET Seq(R)
    OBVIOUS
  <2> HIDE DEF T, R
  <2> QED
    BY <1>1, <1>2, <2>1, SeqInduction
<1> HIDE DEF R
<1>4. ss \in T
  BY <1>3 DEF R
<1> QED
  BY <1>4

(* The elements of a container are among its pieces.                       *)
LEMMA ElementFits ==
  ASSUME NEW o \in Nodes, IsContainer(o), NEW i \in 1 .. Len(o.items), NEW d \in Nat,
         Element(o, i, d) \in Seq(FitPieces)
  PROVE  Convertible[Levels(d + 1)][o.items[i]]
<1> DEFINE c == Convert(o.items[i], d + 1)  item == <<c>>
<1>1. PICK key \in Seq(Piece), comma \in Seq(Piece) : Element(o, i, d) = key \o item \o comma
  BY ElementParts DEF IsContainer
<1>2. c \in Piece
  BY ElementParts DEF IsContainer
<1>3. c.kind = "object" /\ c.depth = d + 1 /\ c.obj = o.items[i]
  BY DEF Convert
<1> HIDE DEF c
<1>4. item \in Seq(Piece) /\ item[1] = c /\ 1 \in 1 .. Len(item)
  BY <1>2
<1> HIDE DEF item
<1> DEFINE front == key \o item
<1>5. front \in Seq(Piece) /\ front \o comma \in Seq(FitPieces)
  BY <1>1, <1>4, ConcatProperties
<1>6. front \in Seq(FitPieces)
  <2> HIDE DEF front
  <2> QED
    BY <1>5, PartsWithin
<1>7. item \in Seq(FitPieces)
  BY <1>4, <1>6, PartsWithin
<1>8. c \in FitPieces
  BY <1>4, <1>7
<1> QED
  BY <1>3, <1>8 DEF FitPieces

(* An object can be converted if its pieces can.                           *)
LEMMA PiecesFit ==
  ASSUME NEW o \in Nodes, o.type # "invalid", NEW d \in Nat, d <= MaxJsonDepth,
         Pieces(o, d) \in Seq(FitPieces)
  PROVE  Convertible[Levels(d)][o]
<1>1. Levels(d) = Levels(d + 1) + 1 /\ Levels(d + 1) \in Nat
  BY LevelsType
<1>2. Convertible[Levels(d)] = FitRow(Convertible[Levels(d + 1)])
  BY <1>1, ConvertibleDef
<1>3. ASSUME IsContainer(o), NEW i \in 1 .. Len(o.items)
      PROVE  Convertible[Levels(d + 1)][o.items[i]]
  <2> DEFINE Q  == Seq(Piece)
             N  == Len(o.items)
             ss == [k \in 1 .. N |-> Element(o, k, d)]
             el == FlattenSeq(ss)
  <2>1. N \in Nat /\ o.type \in {"array", "map"}
    BY <1>3, NodesAssumption DEF IsNode, IsContainer
  <2>2. \A k \in 1 .. N : Element(o, k, d) \in Q
    BY <2>1, ElementType
  <2>3. PICK p \in Piece, q \in Piece : Pieces(o, d) = <<p>> \o el \o <<q>>
    <3>1. CASE o.type = "array"
      <4>1. Pieces(o, d) = <<Copy(<<91>>)>> \o el \o <<Copy(<<93>>)>>
        BY <3>1 DEF Pieces
      <4>2. Copy(<<91>>) \in Piece /\ Copy(<<93>>) \in Piece
        BY Literals, CopyType
      <4> QED
        BY <4>1, <4>2
    <3>2. CASE o.type = "map"
      <4>1. Pieces(o, d) = <<Copy(<<123>>)>> \o el \o <<Copy(<<125>>)>>
        BY <3>2 DEF Pieces
      <4>2. Copy(<<123>>) \in Piece /\ Copy(<<125>>) \in Piece
        BY Literals, CopyType
      <4> QED
        BY <4>1, <4>2
    <3> QED
      BY <2>1, <3>1, <3>2
  <2> HIDE DEF N, Q
  <2>4. ss \in Seq(Q) /\ Len(ss) = N /\ ss[i] = Element(o, i, d)
    BY <1>3, <2>1, <2>2 DEF N
  <2> HIDE DEF ss
  <2>5. el \in Seq(Piece)
    BY <2>4, FlattenType DEF Q
  <2> DEFINE s == <<p>>  t == <<q>>  u == s \o el
  <2>6. s \in Seq(Piece) /\ t \in Seq(Piece) /\ u \o t \in Seq(FitPieces)
    BY <2>3
  <2> HIDE DEF el, s, t
  <2>7. u \in Seq(Piece)
    BY <2>5, <2>6, ConcatProperties
  <2>8. u \in Seq(FitPieces)
    <3> HIDE DEF u
    <3> QED
      BY <2>6, <2>7, PartsWithin
  <2>9. el \in Seq(FitPieces)
    BY <2>5, <2>6, <2>8, PartsWithin
  <2>10. ss[i] \in Seq(FitPieces)
    <3>1. ss \in Seq(Seq(Piece)) /\ FlattenSeq(ss) \in Seq(FitPieces) /\ i \in 1 .. Len(ss)
      BY <1>3, <2>4, <2>9 DEF Q, el, N
    <3> QED
      BY <3>1, FlattenWithin
  <2> QED
    BY <1>3, <2>4, <2>10, ElementFits
<1> QED
  BY <1>2, <1>3 DEF FitRow, IsContainer

-----------------------------------------------------------------------------
(* The bytes of a list of segments.                                        *)
BytesOf(ss) == FlattenSeq([i \in DOMAIN ss |-> ss[i].bytes])

LEMMA BytesOfAppend ==
  ASSUME NEW ss \in Seq(Segment), NEW s \in Segment
  PROVE  /\ BytesOf(Append(ss, s)) = BytesOf(ss) \o s.bytes
         /\ BytesOf(ss) \in Seq(Octets) /\ s.bytes \in Seq(Octets)
<1> DEFINE Q == Seq(Octets)
           M(tt) == [i \in DOMAIN tt |-> tt[i].bytes]
           x == s.bytes
<1>1. \A t \in Segment : t.bytes \in Q
  BY DEF Segment
<1> HIDE DEF Q, Segment
<1>2. M(ss) \in Seq(Q) /\ x \in Q
  BY <1>1
<1>3. M(Append(ss, s)) = Append(M(ss), x)
  BY <1>1
<1> HIDE DEF M, x
<1>4. FlattenSeq(Append(M(ss), x)) = FlattenSeq(M(ss)) \o x /\ FlattenSeq(M(ss)) \in Seq(Octets)
  BY <1>2, FlattenAppend, FlattenType, SMTT(30) DEF Q
<1> QED
  BY <1>2, <1>3, <1>4 DEF BytesOf, M, x, Q

(* Bytes behind those of the last segment.                                 *)
LEMMA BytesOfExtended ==
  ASSUME NEW ss \in Seq(Segment), ss # <<>>, NEW b \in Seq(Octets)
  PROVE  BytesOf([ss EXCEPT ![Len(ss)].bytes = @ \o b]) = BytesOf(ss) \o b
<1> DEFINE n == Len(ss)
           z == ss[n]
           c == z.bytes \o b
           t == [size |-> z.size, bytes |-> c]
           tt == [ss EXCEPT ![n].bytes = @ \o b]
           front == [i \in 1 .. n - 1 |-> ss[i]]
<1>1. n \in Nat /\ n >= 1 /\ z \in Segment
  OBVIOUS
<1>2. z.bytes \in Seq(Octets) /\ z.size \in Nat /\ z = [size |-> z.size, bytes |-> z.bytes]
  BY <1>1 DEF Segment
<1>3. c \in Seq(Octets)
  BY <1>2, ConcatProperties
<1> HIDE DEF c
<1>4. t \in Segment /\ t.bytes = c
  BY <1>2, <1>3 DEF Segment
<1>5. tt = [ss EXCEPT ![n] = t]
  <2>1. tt = [ss EXCEPT ![n] = [z EXCEPT !.bytes = c]]
    BY DEF c
  <2>2. [z EXCEPT !.bytes = c] = t
    <3> HIDE DEF z
    <3> QED
      BY <1>2
  <2> QED
    BY <2>1, <2>2
<1> HIDE DEF t, z
<1>6. front \in Seq(Segment) /\ ss = Append(front, z) /\ [ss EXCEPT ![n] = t] = Append(front, t)
  <2>1. front \in Seq(Segment) /\ Len(front) = n - 1 /\ \A i \in 1 .. n - 1 : front[i] = ss[i]
    <3>1. n - 1 \in Nat /\ \A i \in 1 .. n - 1 : ss[i] \in Segment
      BY <1>1
    <3> HIDE DEF Segment, n
    <3> QED
      BY <3>1
  <2> HIDE DEF front
  <2>2. ASSUME NEW x \in Segment
        PROVE  /\ Append(front, x) \in Seq(Segment) /\ Len(Append(front, x)) = n
               /\ Append(front, x)[n] = x /\ \A i \in 1 .. n - 1 : Append(front, x)[i] = ss[i]
    <3>1. (n - 1) + 1 = n
      BY <1>1
    <3> QED
      BY <2>1, <3>1, AppendProperties
  <2>3. ASSUME NEW x \in Segment, NEW vv \in Seq(Segment), Len(vv) = n, vv[n] = x,
               \A i \in 1 .. n - 1 : vv[i] = ss[i]
        PROVE  vv = Append(front, x)
    <3> DEFINE ww == Append(front, x)
    <3>1. ww \in Seq(Segment) /\ Len(ww) = n /\ ww[n] = x /\ \A i \in 1 .. n - 1 : ww[i] = ss[i]
      BY <2>2
    <3> HIDE DEF ww
    <3>2. ASSUME NEW i \in 1 .. n PROVE vv[i] = ww[i]
      <4>1. i = n \/ i \in 1 .. n - 1
        BY <1>1
      <4> QED
        BY <2>3, <3>1, <4>1
    <3>3. vv = [i \in 1 .. n |-> vv[i]] /\ ww = [i \in 1 .. n |-> ww[i]]
      BY <2>3, <3>1
    <3>4. vv = ww
      BY <3>2, <3>3
    <3> QED
      BY <3>4 DEF ww
  <2>4. ss = Append(front, z)
    BY <1>1, <2>3 DEF z
  <2> DEFINE uu == [ss EXCEPT ![n] = t]
  <2>5. uu \in Seq(Segment) /\ Len(uu) = n /\ uu[n] = t /\ \A i \in 1 .. n - 1 : uu[i] = ss[i]
    <3> HIDE DEF Segment
    <3> QED
      BY <1>1, <1>4
  <2> HIDE DEF uu, n
  <2>6. uu = Append(front, t)
    BY <1>4, <2>3, <2>5
  <2> QED
    BY <2>1, <2>4, <2>6 DEF uu
<1> HIDE DEF front, n, tt
<1>7. BytesOf(ss) = BytesOf(front) \o z.bytes /\ BytesOf(tt) = BytesOf(front) \o c
  BY <1>1, <1>4, <1>5, <1>6, BytesOfAppend
<1>8. BytesOf(front) \in Seq(Octets)
  BY <1>1, <1>6, BytesOfAppend
<1> DEFINE f == BytesOf(front)  y == z.bytes
<1>9. f \in Seq(Octets) /\ y \in Seq(Octets)
  BY <1>2, <1>8
<1> HIDE DEF f, y
<1>10. (f \o y) \o b = f \o (y \o b)
  BY <1>9, OctetsConcat, SMTT(30)
<1> QED
  BY <1>7, <1>10 DEF f, y, c, tt, n, z

(* The exactness of a conversion: what the segments hold and what is left  *)
(* to write are the JSON of the object, and the object can be converted if *)
(* what is left can.                                                       *)
ExactInv ==
  /\ jphase # "idle" => obj \in Nodes
  /\ jphase = "emit" => JsonBytes \o Texted(PieceTexts, todo) = JsonOf(obj)
  /\ jphase = "json" => JsonBytes = JsonOf(obj) /\ Convertible[MaxJsonDepth + 1][obj]
  /\ jphase = "emit" /\ todo \in Seq(FitPieces) => Convertible[MaxJsonDepth + 1][obj]

(* PieceTexts makes bytes of pieces.                                       *)
LEMMA PieceTextsMap == MapsTo(PieceTexts, Piece, Octets)
BY PieceTextsRender DEF Renders

(* The first piece writes its text before the others.                      *)
LEMMA TodoText ==
  ASSUME todo \in Seq(Piece), todo # <<>>
  PROVE  /\ Head(todo) \in Piece /\ Tail(todo) \in Seq(Piece)
         /\ Texted(PieceTexts, todo) = PieceTexts[Head(todo)] \o Texted(PieceTexts, Tail(todo))
<1> DEFINE p == Head(todo)  s == <<p>>  t == Tail(todo)
<1>1. p \in Piece /\ t \in Seq(Piece)
  BY HeadTailProperties
<1>2. todo = s \o t
  <2> HIDE DEF Piece
  <2> QED
    OBVIOUS
<1> HIDE DEF p, t
<1>3. s \in Seq(Piece) /\ Texted(PieceTexts, s) = PieceTexts[p]
  BY <1>1, TextedOne, PieceTextsMap
<1> HIDE DEF s
<1>4. Texted(PieceTexts, s \o t) = Texted(PieceTexts, s) \o Texted(PieceTexts, t)
  BY <1>1, <1>3, PiecesJoin, PieceTextsMap
<1> QED
  BY <1>1, <1>2, <1>3, <1>4 DEF p, t

(* A conversion begins with the object.                                    *)
LEMMA JsonInitExact == ASSUME NEW o \in Nodes, JsonInit(o) PROVE ExactInv
<1> DEFINE p == Convert(o, 0)  s == NewSegment(0)
<1>1. obj = o /\ todo = <<p>> /\ segs = <<s>> /\ jphase = "emit"
  BY DEF JsonInit
<1>2. p \in Piece /\ p.kind = "object" /\ p.depth = 0 /\ p.obj = o
  BY DEF Convert, Piece, Item
<1>3. Levels(0) = MaxJsonDepth + 1
  BY LevelsType
<1>4. PieceTexts[p] = JsonOf(o)
  BY <1>2, <1>3 DEF PieceTexts, JsonOf
<1>5. JsonBytes = <<>>
  <2>1. s \in Segment /\ s.bytes = <<>>
    BY NewSegmentFits DEF NewSegment
  <2> HIDE DEF s
  <2>2. segs = Append(<<>>, s) /\ <<>> \in Seq(Segment)
    BY <1>1
  <2>3. BytesOf(segs) = BytesOf(<<>>) \o <<>>
    BY <2>1, <2>2, BytesOfAppend
  <2>4. BytesOf(<<>>) = <<>>
    BY FlattenNone DEF BytesOf
  <2> QED
    BY <2>3, <2>4 DEF BytesOf, JsonBytes
<1>6. Texted(PieceTexts, <<p>>) = PieceTexts[p] /\ PieceTexts[p] \in Seq(Octets)
  BY <1>2, TextedOne, PieceTextsMap DEF MapsTo
<1>7. <<p>> \in Seq(FitPieces) => Convertible[MaxJsonDepth + 1][o]
  <2> DEFINE t == <<p>>
  <2>1. t[1] = p /\ Len(t) = 1
    OBVIOUS
  <2> HIDE DEF p, t
  <2>2. t \in Seq(FitPieces) => p \in FitPieces
    BY <2>1
  <2> QED
    BY <1>2, <1>3, <2>2 DEF FitPieces, t
<1> HIDE DEF p
<1>8. JsonBytes \o Texted(PieceTexts, todo) = JsonOf(obj)
  BY <1>1, <1>4, <1>5, <1>6
<1> QED
  BY <1>1, <1>7, <1>8 DEF ExactInv

(* An object is replaced by pieces that write the same.                    *)
LEMMA EmitObjectExact == ASSUME JsonInv, ExactInv, EmitObject PROVE ExactInv'
<1> DEFINE p == Head(todo)  o == p.obj  d == p.depth  q == Pieces(o, d)  t == Tail(todo)
<1>1. /\ jphase = "emit" /\ todo # <<>> /\ p.kind = "object" /\ d <= MaxJsonDepth /\ o.type # "invalid"
      /\ todo' = q \o t /\ UNCHANGED <<obj, segs, jphase>> /\ todo \in Seq(Piece)
  BY DEF EmitObject, JsonInv
<1>2. p \in Piece /\ t \in Seq(Piece) /\ Texted(PieceTexts, todo) = PieceTexts[p] \o Texted(PieceTexts, t)
  BY <1>1, TodoText
<1>3. o \in Nodes /\ d \in Nat /\ p = Convert(o, d)
  <2> HIDE DEF p
  <2>1. p \in Item
    BY <1>1, <1>2 DEF Piece, Text
  <2> QED
    BY <2>1 DEF Item, Convert
<1>4. q \in Seq(Piece) /\ Texted(PieceTexts, q) = PieceTexts[p]
  BY <1>1, <1>3, PiecesType, PiecesWriteSame
<1> HIDE DEF p, q, t
<1>5. Texted(PieceTexts, q \o t) = Texted(PieceTexts, q) \o Texted(PieceTexts, t)
  BY <1>2, <1>4, PiecesJoin, PieceTextsMap
<1>6. JsonBytes' = JsonBytes /\ obj' = obj /\ jphase' = "emit"
  BY <1>1 DEF JsonBytes
<1>7. ASSUME todo' \in Seq(FitPieces) PROVE todo \in Seq(FitPieces)
  <2>1. q \in Seq(FitPieces) /\ t \in Seq(FitPieces)
    BY <1>1, <1>2, <1>4, <1>7, PartsWithin
  <2>2. p \in FitPieces
    <3>1. Convertible[Levels(d)][o]
      BY <1>1, <1>3, <2>1, PiecesFit DEF q
    <3> QED
      BY <1>2, <3>1 DEF FitPieces
  <2>3. todo = <<p>> \o t
    BY <1>1 DEF p, t
  <2> DEFINE s == <<p>>
  <2>4. s \in Seq(FitPieces)
    BY <2>2
  <2> HIDE DEF s
  <2>5. s \o t \in Seq(FitPieces)
    BY <2>1, <2>4, ConcatProperties
  <2> QED
    BY <2>3, <2>5 DEF s
<1>8. JsonBytes \o Texted(PieceTexts, todo) = JsonOf(obj) /\ obj \in Nodes
      /\ (todo \in Seq(FitPieces) => Convertible[MaxJsonDepth + 1][obj])
  BY <1>1 DEF ExactInv
<1>9. (JsonBytes \o Texted(PieceTexts, todo) = JsonOf(obj))'
  <2>1. Texted(PieceTexts, todo') = Texted(PieceTexts, todo)
    BY <1>1, <1>2, <1>4, <1>5
  <2>2. JsonOf(obj') = JsonOf(obj)
    BY <1>6
  <2>3. JsonBytes' \o Texted(PieceTexts, todo') = JsonOf(obj')
    BY <1>6, <1>8, <2>1, <2>2
  <2>4. Texted(PieceTexts, todo)' = Texted(PieceTexts, todo')
    BY DEF Texted, PieceTexts, FlattenSeq
  <2> QED
    BY <2>3, <2>4 DEF JsonOf
<1> QED
  BY <1>6, <1>7, <1>8, <1>9 DEF ExactInv

(* Bytes are written that are the text of the first piece.                 *)
LEMMA EmitBytesExact == ASSUME JsonInv, ExactInv, EmitBytes PROVE ExactInv'
<1> DEFINE p == Head(todo)  n == SizeOfPiece(p)  b == BytesOfPiece(p)  t == Tail(todo)
           rest == Texted(PieceTexts, t)
           ss == IF Room(Last(segs)) >= n THEN segs ELSE Append(segs, NewSegment(n))
<1>1. /\ jphase = "emit" /\ todo # <<>> /\ p.kind # "object" /\ todo \in Seq(Piece)
      /\ segs' = [ss EXCEPT ![Len(ss)].bytes = @ \o b] /\ todo' = t /\ UNCHANGED <<obj, jphase>>
  BY DEF EmitBytes, Appended, JsonInv
<1>2. p \in Piece /\ t \in Seq(Piece) /\ Texted(PieceTexts, todo) = PieceTexts[p] \o rest
  BY <1>1, TodoText
<1>3. p \in Text
  <2> HIDE DEF p
  <2> QED
    BY <1>1, <1>2 DEF Piece, Item
<1>4. b \in Seq(Octets) /\ n \in Nat /\ PieceTexts[p] = b
  <2>1. b \in Seq(Octets) /\ n \in Nat
    BY <1>3, PieceLength
  <2>2. b = IF p.kind = "copy" THEN p.bytes ELSE Escaped(p.bytes)
    BY <1>3, PieceBytes
  <2> QED
    BY <1>1, <1>2, <2>1, <2>2 DEF PieceTexts
<1>5. segs \in Seq(Segment) /\ segs # <<>>
  BY <1>1 DEF JsonInv, AllFit
<1> HIDE DEF p, n, b, t
<1>6. ss \in Seq(Segment) /\ ss # <<>> /\ BytesOf(ss) = BytesOf(segs) /\ BytesOf(segs) \in Seq(Octets)
  <2> DEFINE s == NewSegment(n)
  <2>1. s \in Segment /\ s.bytes = <<>>
    BY <1>4, NewSegmentFits DEF NewSegment
  <2> HIDE DEF s
  <2>2. BytesOf(Append(segs, s)) = BytesOf(segs) \o <<>> /\ BytesOf(segs) \in Seq(Octets)
    BY <1>5, <2>1, BytesOfAppend
  <2>3. Append(segs, s) \in Seq(Segment) /\ Append(segs, s) # <<>>
    <3> HIDE DEF Segment
    <3> QED
      BY <1>5, <2>1
  <2>4. BytesOf(segs) \o <<>> = BytesOf(segs)
    <3> DEFINE x == BytesOf(segs)
    <3> HIDE DEF x
    <3>1. x \in Seq(Octets)
      BY <2>2 DEF x
    <3>2. x \o <<>> = x
      BY <3>1
    <3> QED
      BY <3>2 DEF x
  <2> QED
    BY <1>5, <2>2, <2>3, <2>4 DEF s
<1> HIDE DEF ss
<1>7. BytesOf(segs') = BytesOf(segs) \o b
  BY <1>1, <1>4, <1>6, BytesOfExtended
<1>8. JsonBytes = BytesOf(segs) /\ JsonBytes' = BytesOf(segs')
  BY DEF JsonBytes, BytesOf
<1>9. rest \in Seq(Octets)
  BY <1>2, TextedType, PieceTextsMap
<1>10. JsonBytes \o (b \o rest) = JsonOf(obj) /\ obj \in Nodes
       /\ (todo \in Seq(FitPieces) => Convertible[MaxJsonDepth + 1][obj])
  BY <1>1, <1>2, <1>4 DEF ExactInv
<1>11. (JsonBytes \o b) \o rest = JsonBytes \o (b \o rest)
  <2> DEFINE x == JsonBytes
  <2>1. x \in Seq(Octets)
    BY <1>6, <1>8
  <2> HIDE DEF x, rest
  <2>2. (x \o b) \o rest = x \o (b \o rest)
    BY <1>4, <1>9, <2>1, OctetsConcat
  <2> QED
    BY <2>2 DEF x
<1>12. (JsonBytes \o Texted(PieceTexts, todo) = JsonOf(obj))'
  <2>1. Texted(PieceTexts, todo') = rest
    BY <1>1
  <2>2. JsonBytes' \o Texted(PieceTexts, todo') = JsonOf(obj')
    <3>1. JsonBytes' = JsonBytes \o b
      BY <1>7, <1>8
    <3>2. JsonOf(obj') = JsonOf(obj)
      BY <1>1
    <3> QED
      BY <1>10, <1>11, <2>1, <3>1, <3>2
  <2>3. Texted(PieceTexts, todo)' = Texted(PieceTexts, todo')
    BY DEF Texted, PieceTexts, FlattenSeq
  <2> QED
    BY <2>2, <2>3 DEF JsonOf
<1>13. ASSUME todo' \in Seq(FitPieces) PROVE todo \in Seq(FitPieces)
  <2>1. p \in FitPieces
    BY <1>1, <1>2 DEF FitPieces
  <2>2. todo = <<p>> \o t
    BY <1>1 DEF p, t
  <2> DEFINE s == <<p>>
  <2>3. s \in Seq(FitPieces)
    BY <2>1
  <2> HIDE DEF s
  <2>4. s \o t \in Seq(FitPieces)
    BY <1>1, <1>13, <2>3, ConcatProperties
  <2> QED
    BY <2>2, <2>4 DEF s
<1> QED
  BY <1>1, <1>10, <1>12, <1>13 DEF ExactInv

(* ExactInv is inductive.                                                  *)
LEMMA JsonStepExact == ASSUME JsonInv, ExactInv, JsonStep PROVE ExactInv'
<1>1. CASE EmitNull
  BY <1>1 DEF EmitNull, ExactInv
<1>2. CASE EmitEnds
  <2>1. jphase = "emit" /\ todo = <<>> /\ jphase' = "json" /\ UNCHANGED <<obj, todo, segs>>
    BY <1>2 DEF EmitEnds
  <2>2. Texted(PieceTexts, <<>>) = <<>>
    BY FlattenNone DEF Texted
  <2>3. JsonBytes \in Seq(Octets)
    BY JsonBytesType
  <2>4. JsonBytes \o <<>> = JsonBytes
    <3> DEFINE x == JsonBytes
    <3> HIDE DEF x
    <3>1. x \in Seq(Octets)
      BY <2>3 DEF x
    <3>2. x \o <<>> = x
      BY <3>1
    <3> QED
      BY <3>2 DEF x
  <2>5. JsonBytes = JsonOf(obj) /\ obj \in Nodes /\ Convertible[MaxJsonDepth + 1][obj]
    <3>1. todo \in Seq(FitPieces)
      BY <2>1
    <3> QED
      BY <2>1, <2>2, <2>4, <3>1 DEF ExactInv
  <2>6. JsonBytes' = JsonBytes /\ obj' = obj
    BY <2>1 DEF JsonBytes
  <2> QED
    BY <2>1, <2>5, <2>6 DEF ExactInv, JsonOf
<1> QED
  BY <1>1, <1>2, EmitObjectExact, EmitBytesExact DEF JsonStep

(* Without a step of the conversion.                                       *)
LEMMA JsonStill == ASSUME ExactInv, UNCHANGED jsonVars PROVE ExactInv' /\ JsonBytes' = JsonBytes
<1>1. obj' = obj /\ todo' = todo /\ segs' = segs /\ jphase' = jphase
  BY DEF jsonVars
<1>2. JsonBytes' = JsonBytes
  BY <1>1 DEF JsonBytes
<1>3. Texted(PieceTexts, todo)' = Texted(PieceTexts, todo)
  BY <1>1 DEF Texted, PieceTexts, FlattenSeq
<1> QED
  BY <1>1, <1>2, <1>3 DEF ExactInv, JsonOf

-----------------------------------------------------------------------------
(* The compressed stream: what zlib has put out is in the buffer, and what *)
(* it holds back belongs to a segment that is not done; both are part of   *)
(* the data that is encoded.                                               *)
ZipInv ==
  /\ zphase \in {"idle", "deflate", "base64", "none"}
  /\ zseg \in Nat /\ total \in Nat /\ pending \in Nat /\ size \in Nat
  /\ total <= size
  /\ zphase = "idle" => total = 0 /\ pending = 0
  /\ zphase = "deflate" =>
       jphase = "json" /\ total + pending <= Len(Data) /\ (pending = 0 \/ zseg <= Len(segs))
  /\ zphase = "base64" => pending = 0 /\ srclen = total

(* The stream before it is begun.                                          *)
LEMMA SchemaIdleInv == ASSUME SchemaIdle PROVE ZipInv /\ Base64Inv
<1>1. ZipInv
  BY DEF SchemaIdle, ZipInv
<1> QED
  BY <1>1, Base64Initial DEF SchemaIdle

(* The size is checked and the buffer is guessed.                          *)
LEMMA DeflatableInv ==
  ASSUME JsonInv, ZipInv, Deflatable, UNCHANGED jsonVars
  PROVE  ZipInv'
<1> DEFINE n == JsonLength
<1>1. n \in Nat
  BY JsonBytesType
<1>2. /\ zphase = "idle" /\ jphase = "json" /\ zphase' \in {"none", "deflate"} /\ zseg' = 1
      /\ size' = (IF n < MinDeflated THEN MinDeflated ELSE n) /\ UNCHANGED <<total, pending, jphase, segs>>
  BY DEF Deflatable, jsonVars
<1>3. total = 0 /\ pending = 0
  BY <1>2 DEF ZipInv
<1> HIDE DEF n
<1>4. size' \in Nat
  BY <1>1, <1>2, SchemaAssumption
<1>5. 0 <= size' /\ 0 + 0 <= Len(Data)
  BY <1>4, DataLength
<1> QED
  BY <1>2, <1>3, <1>4, <1>5 DEF ZipInv

(* A call of deflate.                                                      *)
LEMMA DeflateInv ==
  ASSUME ZipInv, Deflate, UNCHANGED jsonVars
  PROVE  ZipInv'
<1>1. /\ zphase = "deflate" /\ zphase' = "deflate" /\ jphase' = "json" /\ segs' = segs
      /\ total \in Nat /\ pending \in Nat /\ size \in Nat /\ total <= size /\ zseg \in Nat
      /\ zseg <= Len(segs)
  BY DEF ZipInv, Deflate, jsonVars
<1> DEFINE avail == size' - total
<1>2. size' \in Nat /\ total <= size'
  BY <1>1 DEF Deflate
<1>3. PICK n \in Deflates :
        LET made == pending + n
            put  == IF made < avail THEN made ELSE avail
        IN  /\ total + made <= Len(Data)
            /\ total' = total + put
            /\ pending' = made - put
            /\ zseg' = IF put = avail THEN zseg ELSE zseg + 1
  BY DEF Deflate
<1>4. n \in Nat
  BY SchemaAssumption
<1>5. /\ total' \in Nat /\ pending' \in Nat /\ zseg' \in Nat /\ total' <= size'
      /\ total' + pending' <= Len(Data) /\ (pending' = 0 \/ zseg' = zseg)
  <2> DEFINE made == pending + n
             put  == IF made < avail THEN made ELSE avail
             l    == Len(Data)
  <2>1. /\ total + made <= l /\ total' = total + put /\ pending' = made - put
        /\ zseg' = IF put = avail THEN zseg ELSE zseg + 1
    BY <1>3
  <2>2. avail \in Nat /\ made \in Nat /\ l \in Nat /\ total + avail = size'
    <3>1. /\ total \in Nat /\ pending \in Nat /\ size' \in Nat /\ total <= size' /\ n \in Nat
      BY <1>1, <1>2, <1>4
    <3>2. \A t, z \in Nat : t <= z => z - t \in Nat /\ t + (z - t) = z
      OBVIOUS
    <3>3. avail \in Nat /\ total + avail = size'
      BY <3>1, <3>2
    <3>4. made \in Nat
      BY <3>1
    <3> QED
      BY <3>3, <3>4, DataLength
  <2> HIDE DEF avail, made, l
  <2>3. CASE made < avail
    <3>1. total' = total + made /\ pending' = made - made /\ zseg' = zseg + 1
      BY <2>1, <2>2, <2>3
    <3> QED
      BY <1>1, <2>1, <2>2, <2>3, <3>1 DEF l
  <2>4. CASE ~(made < avail)
    <3>1. total' = total + avail /\ pending' = made - avail /\ zseg' = zseg
      BY <2>1, <2>2, <2>4
    <3>2. total' \in Nat /\ pending' \in Nat /\ total' <= size' /\ total' + pending' <= l
      BY <1>1, <2>1, <2>2, <2>4, <3>1
    <3> QED
      BY <1>1, <3>1, <3>2 DEF l
  <2> QED
    BY <2>3, <2>4
<1> QED
  BY <1>1, <1>2, <1>5 DEF ZipInv

(* The stream is encoded: nothing of it is left in zlib.                   *)
LEMMA DeflateEndsInv ==
  ASSUME ZipInv, Base64Inv, DeflateEnds, UNCHANGED jsonVars, segs \in Seq(Segment)
  PROVE  ZipInv' /\ Base64Inv'
<1>1. /\ zphase = "deflate" /\ zphase' = "base64" /\ zseg > Len(segs) /\ Base64Call(total)
      /\ UNCHANGED <<zseg, total, pending, size>>
  BY DEF DeflateEnds
<1>2. /\ zseg \in Nat /\ total \in Nat /\ pending \in Nat /\ total + pending <= Len(Data)
      /\ Len(segs) \in Nat /\ (pending = 0 \/ zseg <= Len(segs))
  BY <1>1 DEF ZipInv
<1>3. pending = 0 /\ total \in 0 .. Len(Data)
  BY <1>1, <1>2, DataLength
<1>4. srclen' = total
  BY <1>1 DEF Base64Call
<1>5. ZipInv'
  BY <1>1, <1>3, <1>4 DEF ZipInv
<1> QED
  BY <1>1, <1>3, <1>5, Base64CallInv

(* base64_encode does not change the length it was given.                  *)
LEMMA SourceLengthKept == Base64Step => srclen' = srclen
BY DEF Base64Step, Blocks, Rounds, RoundsEnd, Byte, Trailer

(* A step of the schema's encoding.                                        *)
LEMMA SchemaStepInv ==
  ASSUME JsonInv, ZipInv, Base64Inv, SchemaStep, UNCHANGED jsonVars
  PROVE  ZipInv' /\ Base64Inv'
<1>1. UNCHANGED base64Vars => Base64Inv'
  BY Base64StepInv
<1>2. CASE Deflatable
  BY <1>1, <1>2, DeflatableInv DEF Deflatable
<1>3. CASE NoValue
  <2>1. zphase' = "none" /\ UNCHANGED <<zseg, total, pending, size, base64Vars>>
    BY <1>3 DEF NoValue
  <2>2. ZipInv'
    BY <2>1 DEF ZipInv
  <2> QED
    BY <1>1, <2>1, <2>2
<1>4. CASE Deflate
  BY <1>1, <1>4, DeflateInv DEF Deflate
<1>5. CASE DeflateEnds
  BY <1>5, DeflateEndsInv DEF JsonInv, AllFit
<1>6. CASE zphase = "base64" /\ Base64Step /\ UNCHANGED zipVars
  <2>1. ZipInv'
    BY <1>6, SourceLengthKept DEF ZipInv, zipVars
  <2> QED
    BY <1>6, <2>1, Base64StepInv
<1> QED
  BY <1>2, <1>3, <1>4, <1>5, <1>6 DEF SchemaStep

(* A step of the conversion to JSON leaves the stream alone: it has not    *)
(* begun.                                                                  *)
LEMMA JsonStepKeepsZip ==
  ASSUME ZipInv, JsonStep, UNCHANGED schemaVars
  PROVE  ZipInv'
<1>1. jphase = "emit"
  BY DEF JsonStep, EmitObject, EmitBytes, EmitNull, EmitEnds
<1> QED
  BY <1>1 DEF ZipInv, schemaVars, zipVars, base64Vars

-----------------------------------------------------------------------------
(* The invariant of all conversions.                                       *)
StrInv == UtfInv /\ TextInv /\ JsonInv /\ ZipInv /\ Base64Inv

(* No conversion to a string has begun.                                    *)
LEMMA UtfIdleInv == ASSUME UtfIdle PROVE UtfInv
<1>1. <<>> \in Seq(Units) /\ Len(<<>>) = 0 /\ <<>> \in Seq(Nat) /\ Window \in Nat /\ Window >= 6
  BY UtfAssumption
<1>2. UtfTypeOK
  <2>1. eof \in BOOLEAN
    BY Zenon DEF UtfIdle
  <2>2. /\ op = "json" /\ in = <<>> /\ ends = <<>> /\ seg = 1 /\ fed = 0 /\ buf = <<>>
        /\ cur = 0 /\ out = <<>> /\ cap = 0 /\ phase = "idle"
    BY DEF UtfIdle
  <2> QED
    BY <1>1, <2>1, <2>2 DEF UtfTypeOK, Units, Ops
<1>3. BuffersRespected
  BY <1>1 DEF UtfIdle, BuffersRespected
<1> QED
  BY <1>1, <1>2, <1>3 DEF UtfIdle, UtfInv, Outstanding

LEMMA UtfIdleText == ASSUME UtfIdle PROVE TextInv
<1>1. /\ op = "json" /\ in = <<>> /\ ends = <<>> /\ fed = 0 /\ buf = <<>> /\ eof = FALSE /\ phase = "idle"
  BY DEF UtfIdle
<1>2. IsWindow(buf, in, Base)
  <2>1. in \in Seq(Units)
    BY <1>1
  <2> QED
    BY <1>1, <2>1, Windows DEF Base
<1>3. 1 .. Len(ends) = {}
  BY <1>1
<1> QED
  BY <1>1, <1>2, <1>3 DEF TextInv

(* The initial states.                                                     *)
LEMMA StrInitInv == StrInit => StrInv
<1> SUFFICES ASSUME StrInit PROVE StrInv
  OBVIOUS
<1>1. ZipInv /\ Base64Inv
  BY SchemaIdleInv DEF StrInit
<1>2. UtfInv /\ TextInv
  BY InitInv, InitText, UtfIdleInv, UtfIdleText DEF StrInit
<1>3. JsonInv
  BY JsonIdleInv, JsonInitInv, ObjectsAssumption DEF StrInit
<1> QED
  BY <1>1, <1>2, <1>3 DEF StrInv

(* Bytes are code units.                                                   *)
LEMMA BytesAreUnits ==
  ASSUME NEW s \in Seq(0 .. 255)
  PROVE  s \in Seq(0 .. MaxUnit)
<1> DEFINE B == 0 .. 255
<1>1. s \in Seq(B)
  OBVIOUS
<1>2. ASSUME NEW x \in B PROVE x \in Units
  BY UnitsAre
<1> HIDE DEF B
<1>3. s \in Seq(Units)
  BY <1>1, <1>2
<1> QED
  BY <1>3 DEF Units

(* The text of the events is a job.                                        *)
LEMMA JsonJobIsJob == JsonInv /\ jphase = "json" => IsJob(JsonJob)
<1> SUFFICES ASSUME JsonInv, jphase = "json" PROVE IsJob(JsonJob)
  OBVIOUS
<1>1. JsonBytes \in Seq(0 .. 255)
  BY JsonBytesType DEF Octets
<1>2. JsonBytes \in Seq(0 .. MaxUnit)
  BY <1>1, BytesAreUnits
<1>3. SegmentEnds \in Seq(0 .. Len(JsonBytes))
  BY JsonBytesType
<1>4. JsonJob = [op |-> "json", str |-> JsonBytes, max |-> -1, ends |-> SegmentEnds]
  BY DEF JsonJob, SegmentEnds
<1>5. JsonJob.op = "json" /\ JsonJob.str = JsonBytes /\ JsonJob.max = -1 /\ JsonJob.ends = SegmentEnds
  BY <1>4
<1>6. SegmentEnds # <<>> /\ SegmentEnds[Len(SegmentEnds)] = Len(JsonBytes)
  <2>1. segs # <<>> /\ segs \in Seq(Segment)
    BY DEF JsonInv, AllFit
  <2>2. Len(SegmentEnds) = Len(segs) /\ SegmentEnds[Len(segs)] = Len(JsonBytes)
    BY <2>1, JsonBytesType
  <2>3. Len(segs) # 0 /\ Len(<<>>) = 0
    BY <2>1
  <2> QED
    BY <2>2, <2>3
<1> QED
  BY <1>1, <1>2, <1>3, <1>5, <1>6 DEF IsJob, Ops

(* The encoded schema is a job.                                            *)
LEMMA Base64JobIsJob ==
  Base64Inv => IsJob([op |-> "toUtf16", str |-> b64, max |-> -1, ends |-> <<>>])
<1> SUFFICES ASSUME Base64Inv PROVE IsJob([op |-> "toUtf16", str |-> b64, max |-> -1, ends |-> <<>>])
  OBVIOUS
<1>1. b64 \in Seq(0 .. 255)
  BY DEF Base64Inv, Base64TypeOK, Byte8
<1>2. b64 \in Seq(0 .. MaxUnit)
  BY <1>1, BytesAreUnits
<1> QED
  BY <1>1, <1>2 DEF IsJob, Ops

(* A call begins within its buffers, in the next state too.                *)
LEMMA CallsInvNext == (\A j : IsJob(j) /\ Calls(j) => UtfInv)'
BY CallsInv, PTL

LEMMA CallsTextNext == (\A j : IsJob(j) /\ Calls(j) => TextInv)'
BY CallsText, PTL

(* A job that is handed over begins within its buffers.                    *)
LEMMA HandInv == ASSUME NEW j, IsJob(j), Hand(j) PROVE UtfInv' /\ TextInv'
<1>1. Calls(j)'
  BY Zenon DEF Hand, Calls
<1> QED
  BY <1>1, CallsInvNext, CallsTextNext

(* StrInv is inductive.                                                    *)
LEMMA StrStepInv == ASSUME StrInv, [StrStep]_strVars PROVE StrInv'
<1> USE DEF StrInv
<1>1. UNCHANGED jsonVars => JsonInv'
  BY DEF JsonInv, jsonVars, AllFit
<1>2. UNCHANGED <<jsonVars, schemaVars>> => ZipInv' /\ Base64Inv'
  <2>1. UNCHANGED base64Vars => Base64Inv'
    BY Base64StepInv
  <2>2. UNCHANGED <<jsonVars, schemaVars>> => ZipInv'
    BY DEF ZipInv, jsonVars, schemaVars, zipVars, base64Vars
  <2> QED
    BY <2>1, <2>2 DEF schemaVars
<1>3. UNCHANGED utfVars => UtfInv' /\ TextInv'
  BY StepInv, StepText
<1>4. CASE UtfStep /\ UNCHANGED <<jsonVars, schemaVars, use>>
  BY <1>1, <1>2, <1>4, StepInv, StepText
<1>5. CASE JsonStep /\ UNCHANGED <<utfVars, schemaVars, use>>
  <2>1. Base64Inv'
    BY <1>5, Base64StepInv DEF schemaVars
  <2> QED
    BY <1>3, <1>5, <2>1, JsonStepInv, JsonStepKeepsZip
<1>6. CASE use = "schema" /\ SchemaStep /\ UNCHANGED <<utfVars, jsonVars, use>>
  BY <1>1, <1>3, <1>6, SchemaStepInv
<1>7. CASE EventsToString
  <2>1. PICK j : j = JsonJob
    OBVIOUS
  <2>2. IsJob(j) /\ Hand(j) /\ UNCHANGED <<jsonVars, schemaVars, use>>
    BY <1>7, <2>1, JsonJobIsJob DEF EventsToString, Hand
  <2> QED
    BY <1>1, <1>2, <2>2, HandInv
<1>8. CASE SchemaToString
  <2>1. PICK j : j = [op |-> "toUtf16", str |-> b64, max |-> -1, ends |-> <<>>]
    OBVIOUS
  <2>2. IsJob(j) /\ Hand(j) /\ UNCHANGED <<jsonVars, schemaVars, use>>
    BY <1>8, <2>1, Base64JobIsJob DEF SchemaToString, Hand
  <2> QED
    BY <1>1, <1>2, <2>2, HandInv
<1>9. CASE UNCHANGED strVars
  BY <1>1, <1>2, <1>3, <1>9 DEF strVars
<1> QED
  BY <1>4, <1>5, <1>6, <1>7, <1>8, <1>9 DEF StrStep

(* The invariant holds of every conversion.                                *)
THEOREM StringsInvariant == StrSpec => []StrInv
BY StrInitInv, StrStepInv, PTL DEF StrSpec

(* No segment of a JSON text holds more than was allocated for it,         *)
(* whatever has to be escaped: the size json_encode_str asks for is the    *)
(* size it writes.                                                         *)
THEOREM SegmentsAlwaysRespected == StrSpec => []SegmentsRespected
<1>1. StrInv => SegmentsRespected
  BY DEF StrInv, JsonInv, AllFit, Fits, SegmentsRespected
<1> QED
  BY StringsInvariant, <1>1, PTL

(* Nothing of the compressed stream is lost or left in zlib when it is     *)
(* encoded, however deflate distributes its output over its calls.         *)
THEOREM GzipAlwaysComplete == StrSpec => []GzipComplete
<1>1. StrInv => GzipComplete
  BY DEF StrInv, ZipInv, GzipComplete
<1> QED
  BY StringsInvariant, <1>1, PTL

(* base64_encode loads only from its source and stores only within         *)
(* base64_capacity, whatever the length of the data.                       *)
THEOREM Base64Bounded == StrSpec => []Base64InBounds
<1>1. StrInv => Base64InBounds
  BY InvImpliesBounds DEF StrInv
<1> QED
  BY StringsInvariant, <1>1, PTL

(* The text base64_encode produces is the base64 encoding of the data,     *)
(* padding included, for data of every length.                             *)
THEOREM Base64AlwaysExact == StrSpec => []Base64Exact
<1>1. StrInv => Base64Exact
  BY DEF StrInv, Base64Inv
<1> QED
  BY StringsInvariant, <1>1, PTL

(* The conversions of results and of single strings respect their buffers, *)
(* whatever the conversion to JSON and base64_encode hand over.            *)
THEOREM ResultsRespectBuffers == StrSpec => []BuffersRespected
<1>1. StrInv => BuffersRespected
  BY DEF StrInv, UtfInv
<1> QED
  BY StringsInvariant, <1>1, PTL

(* Every string handed to the WAF is converted to its UTF-8, with U+FFFD   *)
(* for each unpaired surrogate.                                            *)
THEOREM StringsEncodeExactly == StrSpec => []EncodesExactly
<1>1. StrInv => EncodesExactly
  BY TextEncoded DEF StrInv
<1> QED
  BY StringsInvariant, <1>1, PTL

(* The Java string made of a result has every well-formed character of its *)
(* text, in order and once, wherever the segments of the JSON and the      *)
(* window cut it.                                                          *)
THEOREM ResultsKeepCharacters == StrSpec => []KeepsCharacters
<1>1. StrInv => KeepsCharacters
  BY TextKept DEF StrInv
<1> QED
  BY StringsInvariant, <1>1, PTL

-----------------------------------------------------------------------------
(* The JSON of the events and the string made of it: what is converted is  *)
(* what the segments hold, and they are complete when it begins.           *)
EventsInv ==
  use = "events" /\ phase # "idle" => jphase = "json" /\ op = "json" /\ in = JsonBytes

JsonWayInv == ExactInv /\ EventsInv

LEMMA JsonWayInit == StrInit => JsonWayInv
<1> SUFFICES ASSUME StrInit PROVE JsonWayInv
  OBVIOUS
<1>1. CASE use = "string" /\ JsonIdle
  BY <1>1 DEF JsonIdle, JsonWayInv, ExactInv, EventsInv
<1>2. CASE use \in {"events", "schema"} /\ UtfIdle /\ \E o \in Objects : JsonInit(o)
  <2>1. PICK o \in Nodes : JsonInit(o)
    BY <1>2, ObjectsAssumption
  <2>2. ExactInv
    BY <2>1, JsonInitExact
  <2>3. phase = "idle"
    BY <1>2 DEF UtfIdle
  <2> QED
    BY <2>2, <2>3 DEF JsonWayInv, EventsInv
<1> QED
  BY <1>1, <1>2 DEF StrInit

LEMMA JsonWayStep ==
  ASSUME StrInv, JsonWayInv, [StrStep]_strVars
  PROVE  JsonWayInv'
<1> USE DEF JsonWayInv
<1>1. UNCHANGED jsonVars => ExactInv' /\ JsonBytes' = JsonBytes /\ jphase' = jphase
  BY JsonStill DEF jsonVars
<1>2. CASE UtfStep /\ UNCHANGED <<jsonVars, schemaVars, use>>
  <2>1. phase # "idle" /\ op' = op /\ in' = in
    BY <1>2 DEF UtfStep, ConvertFails, Encode, Refill, ReadSegment, ReadEnds, Decode, ConvertEnds, Ends
  <2> QED
    BY <1>1, <1>2, <2>1 DEF EventsInv
<1>3. CASE JsonStep /\ UNCHANGED <<utfVars, schemaVars, use>>
  <2>1. ExactInv'
    BY <1>3, JsonStepExact DEF StrInv
  <2>2. jphase = "emit"
    BY <1>3 DEF JsonStep, EmitObject, EmitBytes, EmitNull, EmitEnds
  <2>3. phase' = phase
    BY <1>3 DEF utfVars
  <2> QED
    BY <1>3, <2>1, <2>2, <2>3 DEF EventsInv
<1>4. CASE use = "schema" /\ SchemaStep /\ UNCHANGED <<utfVars, jsonVars, use>>
  BY <1>1, <1>4 DEF EventsInv
<1>5. CASE EventsToString
  <2> DEFINE j == JsonJob
  <2>1. jphase = "json" /\ Hand(j) /\ UNCHANGED <<jsonVars, use>>
    BY <1>5 DEF EventsToString, Hand
  <2>2. j.op = "json" /\ j.str = JsonBytes
    BY DEF JsonJob
  <2>3. op' = j.op /\ in' = Call(j).in
    BY <2>1 DEF Hand
  <2>4. Call(j).in = JsonBytes
    BY <2>2 DEF Call
  <2> QED
    BY <1>1, <2>1, <2>2, <2>3, <2>4 DEF EventsInv
<1>6. CASE SchemaToString
  <2>1. use' = "schema" /\ UNCHANGED jsonVars
    BY <1>6 DEF SchemaToString, Hand
  <2> QED
    BY <1>1, <2>1 DEF EventsInv
<1>7. CASE UNCHANGED strVars
  <2>1. UNCHANGED jsonVars /\ use' = use /\ phase' = phase /\ op' = op /\ in' = in
    BY <1>7 DEF strVars, utfVars
  <2> QED
    BY <1>1, <2>1 DEF EventsInv
<1> QED
  BY <1>2, <1>3, <1>4, <1>5, <1>6, <1>7 DEF StrStep

THEOREM JsonWayInvariant == StrSpec => []JsonWayInv
BY StringsInvariant, JsonWayInit, JsonWayStep, PTL DEF StrSpec

(* What output_convert_json produces is the JSON of the object, names,     *)
(* escapes and separators included, for objects of every shape: it         *)
(* produces none if the object is too deep or invalid anywhere, and the    *)
(* Java string of the events has all characters of the text.               *)
THEOREM JsonAlwaysExact == StrSpec => []JsonExact
<1>1. StrInv /\ JsonWayInv => JsonExact
  <2> SUFFICES ASSUME StrInv, JsonWayInv PROVE JsonExact
    OBVIOUS
  <2>1. jphase = "json" => JsonBytes = JsonOf(obj) /\ Convertible[MaxJsonDepth + 1][obj]
    BY DEF JsonWayInv, ExactInv
  <2>2. ASSUME jphase = "json", phase = "done", use = "events"
        PROVE  Without(REPL, out) = FoldedOf(JsonOf(obj))
    <3>1. op = "json" /\ in = JsonBytes
      BY <2>2 DEF JsonWayInv, EventsInv
    <3>2. Without(REPL, out) = FoldedOf(in)
      BY <2>2, <3>1, TextKept DEF StrInv, KeepsCharacters
    <3> QED
      BY <2>1, <2>2, <3>1, <3>2
  <2> QED
    BY <2>1, <2>2 DEF JsonExact
<1> QED
  BY StringsInvariant, JsonWayInvariant, <1>1, PTL

=============================================================================
