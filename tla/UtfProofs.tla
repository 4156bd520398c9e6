------------------------------ MODULE UtfProofs ------------------------------
(***************************************************************************)
(* Proofs that the UTF conversions respect their buffers and yield what    *)
(* Unicode defines, for strings of any length, however they are cut into   *)
(* segments, and for any window of at least six bytes.                     *)
(***************************************************************************)
EXTENDS Unicode, SequenceProofs

Units == 0 .. MaxUnit

(* A code point.                                                           *)
IsChar(k) == k \in Nat /\ k <= 1114111

(* Code units as bounded numbers, for the arithmetic below.                *)
LEMMA UnitsAre == \A c : c \in Units <=> c \in Nat /\ c <= 65535
<1>1. MaxUnit \in Nat /\ MaxUnit <= 65535 /\ MaxUnit >= 65535
  BY SMT DEF MaxUnit
<1> QED
  BY <1>1, SMT DEF Units

(* The parts of a decoded character.                                       *)
LEMMA DecodedParts == \A cp, next : Decoded(cp, next).cp = cp /\ Decoded(cp, next).next = next
BY SMT DEF Decoded

-----------------------------------------------------------------------------
(* _get_next_codepoint_utf16 passes one or two units of the string.        *)
LEMMA NextUtf16Advances ==
  ASSUME NEW str \in Seq(Units), NEW pos \in Nat, pos < Len(str)
  PROVE  /\ NextUtf16(str, pos).next \in pos + 1 .. Len(str)
         /\ IsChar(NextUtf16(str, pos).cp)
<1> DEFINE c == str[pos + 1]  c2 == str[pos + 2]
<1>1. c \in Nat /\ c <= 65535
  <2>1. c \in Units
    BY SMT
  <2> QED
    BY <2>1, UnitsAre
<1>2. pos + 2 <= Len(str) => c2 \in Nat
  <2>1. pos + 2 <= Len(str) => c2 \in Units
    BY SMT
  <2> QED
    BY <2>1, UnitsAre
<1>3. CASE ~Utf16Lead(c)
  BY <1>1, <1>3, SMT DEF NextUtf16, Decoded, REPL, IsChar
<1>4. CASE Utf16Lead(c) /\ pos + 2 <= Len(str) /\ Utf16Trail(c2)
  <2> DEFINE k == 65536 + (c - 55296) * 1024 + (c2 - 56320)
  <2>1. NextUtf16(str, pos) = Decoded(k, pos + 2)
    BY <1>4, SMT DEF NextUtf16
  <2>2. c >= 55296 /\ c <= 56319 /\ c2 >= 56320 /\ c2 <= 57343
    BY <1>4, SMT DEF Utf16Lead, Utf16Trail
  <2>3. c \in Nat /\ c2 \in Nat
    BY <1>1, <1>2, <1>4
  <2> HIDE DEF c, c2
  <2>4. IsChar(k)
    BY ONLY <2>2, <2>3, SMT DEF IsChar, k
  <2>5. pos + 2 \in pos + 1 .. Len(str)
    BY <1>4, SMT
  <2> HIDE DEF k
  <2>6. NextUtf16(str, pos).next = pos + 2 /\ NextUtf16(str, pos).cp = k
    BY <2>1, DecodedParts
  <2> QED
    BY <2>4, <2>5, <2>6, Zenon
<1>5. CASE Utf16Lead(c) /\ ~(pos + 2 <= Len(str) /\ Utf16Trail(c2))
  BY <1>5, SMT DEF NextUtf16, Decoded, REPL, IsChar
<1> QED
  BY <1>3, <1>4, <1>5, SMT

(* An illegal sequence is at least one byte and ends within the string.    *)
LEMMA IllegalLengthBounded ==
  ASSUME NEW str \in Seq(Units), NEW pos \in Nat, pos < Len(str), NEW n \in 0 .. 4
  PROVE  IllegalLength(str, pos, n) \in 1 .. Len(str) - pos
BY SMT DEF IllegalLength

(* The value of an announced sequence of n bytes.                          *)
LEMMA ValueBounded ==
  ASSUME NEW str \in Seq(Units), NEW pos \in Nat, NEW n \in 1 .. 4, pos + n <= Len(str)
  PROVE  /\ ValueOf(str, pos, n) \in Nat
         /\ n < 4 => ValueOf(str, pos, n) <= 65535
<1> DEFINE b(i) == str[pos + 1 + i] % 64  c == str[pos + 1]
<1>1. \A i \in 0 .. n - 1 : str[pos + 1 + i] \in Units
  BY SMT
<1>2. ASSUME NEW i \in 1 .. n - 1 PROVE b(i) \in Nat /\ b(i) <= 63
  <2>1. i \in 0 .. n - 1
    BY SMT
  <2>2. str[pos + 1 + i] \in Units
    BY <1>1, <2>1, Zenon
  <2>3. str[pos + 1 + i] \in Nat
    BY <2>2, UnitsAre, SMT
  <2> QED
    BY <2>3, SMT
<1>3. /\ c \in Nat /\ c <= 65535
      /\ c % 32 \in Nat /\ c % 32 <= 31 /\ c % 16 \in Nat /\ c % 16 <= 15 /\ c % 8 \in Nat
  <2>1. c = str[pos + 1 + 0]
    BY SMT
  <2>2. c \in Nat /\ c <= 65535
    BY <1>1, <2>1, UnitsAre, SMT
  <2> QED
    BY <2>2, SMTT(30)
<1>4. CASE n = 1
  BY <1>3, <1>4, SMT DEF ValueOf
<1>5. CASE n = 2
  <2>1. ValueOf(str, pos, n) = (c % 32) * 64 + b(1)
    BY <1>5, SMT DEF ValueOf
  <2>2. b(1) \in Nat /\ b(1) <= 63
    BY <1>2, <1>5, SMT
  <2> HIDE DEF b, c
  <2> QED
    BY <1>3, <1>5, <2>1, <2>2, SMT
<1>6. CASE n = 3
  <2>1. ValueOf(str, pos, n) = (c % 16) * 4096 + b(1) * 64 + b(2)
    BY <1>6, SMT DEF ValueOf
  <2>2. b(1) \in Nat /\ b(1) <= 63 /\ b(2) \in Nat /\ b(2) <= 63
    BY <1>2, <1>6, SMT
  <2> HIDE DEF b, c
  <2> QED
    BY <1>3, <1>6, <2>1, <2>2, SMT
<1>7. CASE n = 4
  <2>1. ValueOf(str, pos, n) = (c % 8) * 262144 + b(1) * 4096 + b(2) * 64 + b(3)
    BY <1>7, SMT DEF ValueOf
  <2>2. b(1) \in Nat /\ b(2) \in Nat /\ b(3) \in Nat
    BY <1>2, <1>7, SMT
  <2> HIDE DEF b, c
  <2> QED
    BY <1>3, <1>7, <2>1, <2>2, SMTT(30)
<1> QED
  BY <1>4, <1>5, <1>6, <1>7, SMT

(* _get_next_codepoint_utf8 stays within the string, and needs four bytes  *)
(* for what becomes two units of UTF-16.                                   *)
LEMMA NextUtf8Advances ==
  ASSUME NEW str \in Seq(Units), NEW pos \in Nat, pos < Len(str)
  PROVE  /\ NextUtf8(str, pos).next \in pos + 1 .. Len(str)
         /\ IsChar(NextUtf8(str, pos).cp)
         /\ NextUtf8(str, pos).cp > 65535 => NextUtf8(str, pos).next = pos + 4
<1> DEFINE c == str[pos + 1]  n == Announced(c)  k == ValueOf(str, pos, n)
<1>1. n \in 0 .. 4
  BY SMT DEF Announced
<1> DEFINE whole == /\ n > 0 /\ pos + n <= Len(str)
                    /\ \A i \in 1 .. n - 1 : Utf8Trail(str[pos + 1 + i])
<1>2. CASE whole
  <2>1. NextUtf8(str, pos) = Decoded(IF LegalValue(k, n) THEN k ELSE REPL, pos + n)
    BY <1>2, SMT DEF NextUtf8
  <2>2. k \in Nat /\ (n < 4 => k <= 65535)
    BY <1>1, <1>2, ValueBounded, SMT
  <2>3. n = 4 /\ LegalValue(k, n) => k <= 1114111
    BY <2>2, SMT DEF LegalValue
  <2>4. pos + n <= Len(str) /\ n > 0
    BY <1>2
  <2> HIDE DEF n, k
  <2> QED
    BY <1>1, <2>1, <2>2, <2>3, <2>4, SMT DEF Decoded, REPL, IsChar
<1>3. CASE ~whole
  <2>1. NextUtf8(str, pos) = Decoded(REPL, pos + IllegalLength(str, pos, n))
    BY <1>3, SMT DEF NextUtf8
  <2>2. IllegalLength(str, pos, n) \in 1 .. Len(str) - pos
    BY <1>1, IllegalLengthBounded, SMT
  <2> QED
    BY <2>1, <2>2, SMT DEF Decoded, REPL, IsChar
<1> QED
  BY <1>2, <1>3

(* What a code point is written as.                                        *)
LEMMA WriteUtf8Fits ==
  ASSUME NEW k, IsChar(k)
  PROVE  WriteUtf8(k) \in Seq(Units) /\ Len(WriteUtf8(k)) \in 1 .. 4
<1>1. /\ Six(k, 1) \in Nat /\ Six(k, 1) <= 63
      /\ Six(k, 64) \in Nat /\ Six(k, 64) <= 63
      /\ Six(k, 4096) \in Nat /\ Six(k, 4096) <= 63
  BY SMT DEF Six, IsChar
<1>2. /\ k \div 64 \in Nat /\ k \div 4096 \in Nat /\ k \div 262144 \in Nat
      /\ k < 2048 => k \div 64 <= 31
      /\ k < 65536 => k \div 4096 <= 15
      /\ k \div 262144 <= 4
  BY SMT DEF IsChar
<1>3. \A m \in Nat : m <= 63 => 128 + m \in Units
  BY UnitsAre, SMT
<1>4. \A m \in Nat : m <= 31 => 192 + m \in Units /\ 224 + m \in Units /\ 240 + m \in Units
  BY UnitsAre, SMT
<1>5. k < 128 => k \in Units
  BY UnitsAre, SMT DEF IsChar
<1> QED
  BY <1>1, <1>2, <1>3, <1>4, <1>5, SMT DEF WriteUtf8, IsChar

(* One unit for a code point up to U+FFFF, two for the others.             *)
LEMMA WriteUtf16Fits ==
  ASSUME NEW k, IsChar(k)
  PROVE  /\ WriteUtf16(k) \in Seq(Units)
         /\ Len(WriteUtf16(k)) \in Nat /\ Len(WriteUtf16(k)) <= 2
         /\ k <= 65535 => Len(WriteUtf16(k)) = 1
<1>1. /\ (k % 65536) \div 1024 \in Nat /\ (k % 65536) \div 1024 <= 63
      /\ k % 1024 \in Nat /\ k % 1024 <= 1023
  BY SMT DEF IsChar
<1>2. /\ 55296 + ((k % 65536) \div 1024) \in Units
      /\ 56320 + (k % 1024) \in Units
      /\ k < 65536 => k \in Units
  BY <1>1, UnitsAre, SMT DEF IsChar
<1> QED
  BY <1>2, SMT DEF WriteUtf16, IsChar

-----------------------------------------------------------------------------
(* The code writes the UTF-8 of a code point ...                           *)
LEMMA WritesUtf8Form == \A k \in Nat : WriteUtf8(k) = Utf8Form(k)
BY SMT DEF WriteUtf8, Utf8Form, Six

(* ... and the UTF-16 of what is left of it without its plane, with no     *)
(* U+FFFD among the surrogates.                                            *)
LEMMA WritesFolded ==
  ASSUME NEW k, IsChar(k)
  PROVE  /\ WriteUtf16(k) = Utf16Form(Folded(k))
         /\ k = REPL => WriteUtf16(k) = <<k>>
         /\ \/ WriteUtf16(k) = <<k>>
            \/ \E a, b \in Units : WriteUtf16(k) = <<a, b>> /\ a # REPL /\ b # REPL
<1>1. k \in Nat /\ k <= 1114111
  BY DEF IsChar
<1>2. CASE k < 65536
  <2>1. WriteUtf16(k) = <<k>> /\ Utf16Form(Folded(k)) = <<k>>
    BY <1>1, <1>2, SMT DEF WriteUtf16, Utf16Form, Folded
  <2> QED
    BY <2>1
<1>3. CASE k >= 65536
  <2> DEFINE a == 55296 + ((k % 65536) \div 1024)  b == 56320 + (k % 1024)
  <2>1. WriteUtf16(k) = <<a, b>>
    BY <1>1, <1>3, SMT DEF WriteUtf16
  <2>2. a \in Nat /\ b \in Nat /\ a <= 56319 /\ b <= 57343
    BY <1>1, SMT
  <2>3. Folded(k) - 65536 = k % 65536 /\ Folded(k) >= 65536
    BY <1>1, <1>3, SMT DEF Folded
  <2>4. (k % 65536) % 1024 = k % 1024
    BY <1>1, SMT
  <2>5. Utf16Form(Folded(k)) = <<a, b>>
    <3> DEFINE f == Folded(k)  r == k % 65536
    <3>1. f - 65536 = r /\ ~(f < 65536)
      <4>1. Folded(k) \in Nat
        BY <1>1, SMT DEF Folded
      <4> QED
        BY <2>3, <4>1, SMT
    <3> HIDE DEF f
    <3>2. Utf16Form(f) = <<55296 + (r \div 1024), 56320 + (r % 1024)>>
      BY <3>1 DEF Utf16Form
    <3> QED
      BY <2>4, <3>2 DEF f
  <2>6. a \in Units /\ b \in Units /\ a # REPL /\ b # REPL
    <3> HIDE DEF a, b
    <3> QED
      BY <2>2, UnitsAre, SMT DEF REPL
  <2> HIDE DEF a, b
  <2>7. WriteUtf16(k) = Utf16Form(Folded(k))
    BY <2>1, <2>5, Zenon
  <2>8. \E x, y \in Units : WriteUtf16(k) = <<x, y>> /\ x # REPL /\ y # REPL
    BY <2>1, <2>6
  <2>9. k # REPL
    BY <1>1, <1>3, SMT DEF REPL
  <2> QED
    BY <2>7, <2>8, <2>9, Zenon
<1>4. k < 65536 \/ k >= 65536
  BY <1>1, SMT
<1> QED
  BY <1>2, <1>3, <1>4

(* Forms of each length, by the code points that have them.                *)
LEMMA FormOf ==
  ASSUME NEW k, IsChar(k)
  PROVE  /\ k < 128 <=> Len(Utf8Form(k)) = 1
         /\ k >= 128 /\ k < 2048 <=> Len(Utf8Form(k)) = 2
         /\ k >= 2048 /\ k < 65536 <=> Len(Utf8Form(k)) = 3
         /\ k >= 65536 <=> Len(Utf8Form(k)) = 4
         /\ Len(Utf8Form(k)) \in 1 .. 4
         /\ Len(Utf8Form(k)) = 1 => Utf8Form(k)[1] = k
         /\ Len(Utf8Form(k)) = 2 => Utf8Form(k)[1] \in 194 .. 223
         /\ Len(Utf8Form(k)) = 3 => Utf8Form(k)[1] \in 224 .. 239
         /\ Len(Utf8Form(k)) = 4 => Utf8Form(k)[1] \in 240 .. 244
         /\ \A j \in 2 .. Len(Utf8Form(k)) : Utf8Form(k)[j] \in 128 .. 191
<1>0. k \in Nat /\ k <= 1114111
  BY DEF IsChar
<1> DEFINE t(d) == 128 + ((k \div d) % 64)
<1>1. t(1) \in 128 .. 191 /\ t(64) \in 128 .. 191 /\ t(4096) \in 128 .. 191
  BY <1>0, SMT
<1>2. CASE k < 128
  BY <1>0, <1>2, SMT DEF Utf8Form
<1>3. CASE k >= 128 /\ k < 2048
  <2>1. Utf8Form(k) = <<192 + k \div 64, t(1)>>
    BY <1>0, <1>3, SMT DEF Utf8Form
  <2>2. 192 + k \div 64 \in 194 .. 223
    BY <1>0, <1>3, SMT
  <2> DEFINE a == 192 + k \div 64  b == t(1)
  <2> HIDE DEF a, b
  <2> QED
    BY <1>0, <1>1, <1>3, <2>1, <2>2, SMT DEF a, b
<1>4. CASE k >= 2048 /\ k < 65536
  <2>1. Utf8Form(k) = <<224 + k \div 4096, t(64), t(1)>>
    BY <1>0, <1>4, SMT DEF Utf8Form
  <2>2. 224 + k \div 4096 \in 224 .. 239
    BY <1>0, <1>4, SMT
  <2> QED
    BY <1>0, <1>1, <1>4, <2>1, <2>2, SMT
<1>5. CASE k >= 65536
  <2>1. Utf8Form(k) = <<240 + k \div 262144, t(4096), t(64), t(1)>>
    BY <1>0, <1>5, SMT DEF Utf8Form
  <2>2. 240 + k \div 262144 \in 240 .. 244
    BY <1>0, <1>5, SMT
  <2> QED
    BY <1>0, <1>1, <1>5, <2>1, <2>2, SMT
<1> QED
  BY <1>0, <1>2, <1>3, <1>4, <1>5, SMT

(* The bytes of a form.                                                    *)
LEMMA FormBytes ==
  ASSUME NEW k, IsChar(k)
  PROVE  /\ Len(Utf8Form(k)) \in 1 .. 4
         /\ Len(Utf8Form(k)) = 2 => Utf8Form(k)[1] \in 194 .. 223
         /\ Len(Utf8Form(k)) = 3 => Utf8Form(k)[1] \in 224 .. 239
         /\ Len(Utf8Form(k)) = 4 => Utf8Form(k)[1] \in 240 .. 244
         /\ \A j \in 2 .. Len(Utf8Form(k)) : Utf8Form(k)[j] \in 128 .. 191
BY FormOf, SMT

(* The bits of a character and the value of as many announced bytes.       *)
LEMMA BitsAre ==
  ASSUME NEW s \in Seq(Units), NEW i \in 1 .. Len(s), i + Width(s[i]) - 1 <= Len(s)
  PROVE  /\ Width(s[i]) \in 1 .. 4
         /\ Bits(s, i) = ValueOf(s, i - 1, Width(s[i]))
         /\ Bits(s, i) \in Nat
<1>1. Width(s[i]) \in 1 .. 4
  BY SMT DEF Width
<1>2. Bits(s, i) = ValueOf(s, i - 1, Width(s[i]))
  <2>1. /\ (i - 1) + 1 = i /\ (i - 1) + 1 + 1 = i + 1 /\ (i - 1) + 1 + 2 = i + 2
        /\ (i - 1) + 1 + 3 = i + 3
    BY SMT
  <2> QED
    BY <1>1, <2>1, SMT DEF Bits, ValueOf
<1>3. i - 1 \in Nat /\ (i - 1) + Width(s[i]) <= Len(s)
  BY <1>1, SMT
<1> QED
  BY <1>1, <1>2, <1>3, ValueBounded

(* One byte is wide what is below 128.                                     *)
LEMMA WidthOne == \A c \in Nat : Width(c) = 1 => c < 128
BY SMT DEF Width

(* What a character that starts at byte i has: its bytes are the form of   *)
(* its code point, the first announces the others.                         *)
LEMMA CharParts ==
  ASSUME NEW s \in Seq(Units), NEW i \in 1 .. Len(s), CharAt(s, i) # Bad
  PROVE  /\ CharAt(s, i) = Bits(s, i) /\ IsChar(CharAt(s, i))
         /\ CharAt(s, i) \notin High \cup Low
         /\ i + Width(s[i]) - 1 <= Len(s) /\ Width(s[i]) \in 1 .. 4
         /\ Len(Utf8Form(CharAt(s, i))) = Width(s[i])
         /\ Announced(s[i]) = Width(s[i]) /\ Utf8Lead(s[i])
         /\ \A j \in 1 .. Width(s[i]) - 1 : s[i + j] \in 128 .. 191
<1> DEFINE n == Width(s[i])  k == Bits(s, i)  f == Utf8Form(k)
<1>1. i + n - 1 <= Len(s) /\ SubSeq(s, i, i + n - 1) = f
  BY SMT DEF CharAt
<1>2. k \notin High \cup Low /\ CharAt(s, i) = k
  BY SMT DEF CharAt, IsScalar
<1>3. n \in 1 .. 4 /\ k \in Nat
  BY <1>1, BitsAre
<1>4. IsChar(k)
  <2>1. k <= 1114111
    BY SMT DEF CharAt, IsScalar
  <2> HIDE DEF k
  <2> QED
    BY <1>3, <2>1, SMT DEF IsChar
<1>5. s[i] \in Nat
  BY UnitsAre, SMT
<1>6. n = 1 => s[i] < 128
  BY <1>5, WidthOne
<1> HIDE DEF n, k, f
<1>7. Len(f) = n /\ \A j \in 1 .. n : f[j] = s[i + j - 1]
  <2>1. i \in Nat /\ i >= 1 /\ n \in Nat
    BY <1>3
  <2> QED
    BY <1>1, <2>1, PartIs
<1>8. f[1] = s[i]
  <2>1. 1 \in 1 .. n /\ i + 1 - 1 = i
    BY <1>3
  <2> QED
    BY <1>7, <2>1
<1>9. /\ n = 2 => f[1] \in 194 .. 223
      /\ n = 3 => f[1] \in 224 .. 239
      /\ n = 4 => f[1] \in 240 .. 244
      /\ \A j \in 2 .. n : f[j] \in 128 .. 191
  <2>1. /\ Len(f) = 2 => f[1] \in 194 .. 223
        /\ Len(f) = 3 => f[1] \in 224 .. 239
        /\ Len(f) = 4 => f[1] \in 240 .. 244
        /\ \A j \in 2 .. Len(f) : f[j] \in 128 .. 191
    BY <1>4, FormBytes DEF f
  <2> QED
    BY <1>7, <2>1
<1>10. Announced(s[i]) = n /\ Utf8Lead(s[i])
  <2> DEFINE c == s[i]
  <2>1. n = 1 => c < 128
    BY <1>6
  <2>2. (n = 2 => c \in 194 .. 223) /\ (n = 3 => c \in 224 .. 239) /\ (n = 4 => c \in 240 .. 244)
    BY <1>8, <1>9
  <2>3. c \in Nat /\ n \in 1 .. 4
    BY <1>3, <1>5
  <2> HIDE DEF c
  <2>4. Announced(c) = n /\ Utf8Lead(c)
    BY ONLY <2>1, <2>2, <2>3, SMT DEF Announced, Utf8Lead
  <2> QED
    BY <2>4 DEF c
<1>11. \A j \in 1 .. n - 1 : s[i + j] \in 128 .. 191
  <2> TAKE j \in 1 .. n - 1
  <2>1. j + 1 \in 2 .. n /\ j + 1 \in 1 .. n /\ i + (j + 1) - 1 = i + j
    BY <1>3, SMT
  <2> QED
    BY <1>7, <1>9, <2>1
<1> QED
  BY <1>1, <1>2, <1>3, <1>4, <1>7, <1>10, <1>11 DEF n, k, f

(* Where no leading byte is, no character starts.                          *)
LEMMA NoLeadNoChar ==
  ASSUME NEW s \in Seq(Units), NEW i \in 1 .. Len(s), ~Utf8Lead(s[i])
  PROVE  CharAt(s, i) = Bad
BY CharParts

(* Bytes of each number that have a legal value are its form.              *)
LEMMA FormOne == \A c \in 0 .. 127 : Utf8Form(c) = <<c>> /\ IsScalar(c)
BY SMTT(30) DEF Utf8Form, IsScalar, High, Low

(* Quotient and remainder.                                                 *)
LEMMA Quotient ==
  ASSUME NEW q \in Nat, NEW r \in Nat
  PROVE  /\ r < 64 => (q * 64 + r) \div 64 = q /\ (q * 64 + r) % 64 = r
         /\ r < 4096 => (q * 4096 + r) \div 4096 = q
         /\ r < 262144 => (q * 262144 + r) \div 262144 = q
BY SMT

LEMMA ByOne == \A k \in Nat : k \div 1 = k
BY SMT

Two(c, b)           == (c % 32) * 64 + (b % 64)
Three(c, b1, b2)    == (c % 16) * 4096 + (b1 % 64) * 64 + (b2 % 64)
Four(c, b1, b2, b3) == (c % 8) * 262144 + (b1 % 64) * 4096 + (b2 % 64) * 64 + (b3 % 64)

Trails == 128 .. 191

FormIs(k, f) == Utf8Form(k) = f /\ IsScalar(k)

LEMMA FormTwo ==
  ASSUME NEW c \in 194 .. 223, NEW b \in 128 .. 191, NEW k, k = Two(c, b)
  PROVE  Utf8Form(k) = <<c, b>> /\ IsScalar(k)
<1> DEFINE q == c - 192  r == b - 128
<1>1. c % 32 = q /\ b % 64 = r
  BY SMT
<1>2. q \in Nat /\ r \in Nat /\ r < 64 /\ 192 + q = c /\ 128 + r = b /\ q >= 2 /\ q <= 31
  BY SMT
<1> HIDE DEF q, r
<1>3. k = q * 64 + r
  BY ONLY <1>1, k = Two(c, b), SMT DEF Two
<1>4. k \in Nat /\ k >= 128 /\ k < 2048
  BY ONLY <1>2, <1>3, SMT
<1>5. k \div 64 = q /\ k % 64 = r /\ k \div 1 = k
  BY ONLY <1>2, <1>3, <1>4, Quotient, ByOne, SMT
<1>6. 192 + k \div 64 = c /\ 128 + ((k \div 1) % 64) = b /\ ~(k < 128)
  BY ONLY <1>2, <1>4, <1>5, SMT
<1>7. IsScalar(k)
  BY ONLY <1>4, SMTT(30) DEF IsScalar, High, Low
<1>8. Utf8Form(k) = <<c, b>>
  BY ONLY <1>4, <1>6, SMT DEF Utf8Form
<1> QED
  BY ONLY <1>7, <1>8

LEMMA FormThree ==
  ASSUME NEW c \in 224 .. 239, NEW b1 \in 128 .. 191, NEW b2 \in 128 .. 191,
         NEW k, k = Three(c, b1, b2), LegalValue(k, 3)
  PROVE  Utf8Form(k) = <<c, b1, b2>> /\ IsScalar(k)
<1> DEFINE q == c - 224  r1 == b1 - 128  r2 == b2 - 128
<1>1. c % 16 = q /\ b1 % 64 = r1 /\ b2 % 64 = r2
  BY SMT
<1>2. /\ q \in Nat /\ r1 \in Nat /\ r2 \in Nat /\ r1 < 64 /\ r2 < 64 /\ q <= 15
      /\ 224 + q = c /\ 128 + r1 = b1 /\ 128 + r2 = b2
  BY SMT
<1> HIDE DEF q, r1, r2
<1>3. k = q * 4096 + r1 * 64 + r2
  BY ONLY <1>1, k = Three(c, b1, b2), SMT DEF Three
<1> DEFINE h == q * 64 + r1  l == r1 * 64 + r2
<1>4. k = h * 64 + r2 /\ k = q * 4096 + l /\ h \in Nat /\ l \in Nat /\ l < 4096 /\ k \in Nat /\ k < 65536
  BY ONLY <1>2, <1>3, SMT
<1>5. h % 64 = r1
  BY ONLY <1>2, Quotient, SMT
<1> HIDE DEF h, l
<1>6. k \div 4096 = q
  BY ONLY <1>2, <1>4, Quotient, SMT
<1>7. k \div 64 = h /\ k % 64 = r2
  BY ONLY <1>2, <1>4, Quotient, SMT
<1>8. k >= 2048 /\ ~Utf16Lead(k) /\ ~Utf16Trail(k)
  BY SMT DEF LegalValue
<1>9. /\ 224 + k \div 4096 = c /\ 128 + ((k \div 64) % 64) = b1 /\ 128 + ((k \div 1) % 64) = b2
      /\ ~(k < 128) /\ ~(k < 2048)
  BY ONLY <1>2, <1>4, <1>5, <1>6, <1>7, <1>8, ByOne, SMT
<1>10. IsScalar(k)
  BY ONLY <1>4, <1>8, SMTT(30) DEF IsScalar, High, Low, Utf16Lead, Utf16Trail
<1>11. Utf8Form(k) = <<c, b1, b2>>
  BY ONLY <1>4, <1>9, SMT DEF Utf8Form
<1> QED
  BY ONLY <1>10, <1>11

LEMMA FormFour ==
  ASSUME NEW c \in 240 .. 244, NEW b1 \in Trails, NEW b2 \in Trails, NEW b3 \in Trails,
         NEW k, k = Four(c, b1, b2, b3), LegalValue(k, 4)
  PROVE  FormIs(k, <<c, b1, b2, b3>>)
<1> DEFINE q == c - 240  r1 == b1 - 128  r2 == b2 - 128  r3 == b3 - 128
<1>1. c % 8 = q /\ b1 % 64 = r1 /\ b2 % 64 = r2 /\ b3 % 64 = r3
  BY SMT DEF Trails
<1>2. /\ q \in Nat /\ r1 \in Nat /\ r2 \in Nat /\ r3 \in Nat /\ r1 < 64 /\ r2 < 64 /\ r3 < 64 /\ q <= 4
      /\ 240 + q = c /\ 128 + r1 = b1 /\ 128 + r2 = b2 /\ 128 + r3 = b3
  BY SMT DEF Trails
<1> HIDE DEF q, r1, r2, r3
<1>3. k = q * 262144 + r1 * 4096 + r2 * 64 + r3
  BY ONLY <1>1, k = Four(c, b1, b2, b3), SMT DEF Four
<1> DEFINE g == q * 64 + r1
<1>4. g \in Nat /\ g % 64 = r1
  BY ONLY <1>2, Quotient, SMT
<1> DEFINE h == g * 64 + r2
<1>5. h \in Nat /\ h % 64 = r2
  <2> HIDE DEF g
  <2> QED
    BY ONLY <1>2, <1>4, Quotient, SMT
<1> DEFINE l == r1 * 4096 + r2 * 64 + r3  m == r2 * 64 + r3
<1>6. /\ k = h * 64 + r3 /\ k = g * 4096 + m /\ k = q * 262144 + l
      /\ l \in Nat /\ m \in Nat /\ m < 4096 /\ l < 262144 /\ k \in Nat
  BY ONLY <1>2, <1>3, SMT
<1> HIDE DEF g, h, l, m
<1>7. k \div 262144 = q
  BY ONLY <1>2, <1>6, Quotient, SMT
<1>8. k \div 4096 = g
  BY ONLY <1>4, <1>6, Quotient, SMT
<1>9. k \div 64 = h /\ k % 64 = r3
  BY ONLY <1>2, <1>5, <1>6, Quotient, SMT
<1>10. k >= 65536 /\ k <= 1114111
  BY SMT DEF LegalValue
<1>11. /\ 240 + k \div 262144 = c /\ 128 + ((k \div 4096) % 64) = b1
       /\ 128 + ((k \div 64) % 64) = b2 /\ 128 + ((k \div 1) % 64) = b3
       /\ ~(k < 128) /\ ~(k < 2048) /\ ~(k < 65536)
  BY ONLY <1>2, <1>4, <1>5, <1>6, <1>7, <1>8, <1>9, <1>10, ByOne, SMT
<1>12. IsScalar(k)
  BY ONLY <1>6, <1>10, SMTT(30) DEF IsScalar, High, Low
<1>13. Utf8Form(k) = <<c, b1, b2, b3>>
  BY ONLY <1>6, <1>11, SMT DEF Utf8Form
<1> QED
  BY ONLY <1>12, <1>13 DEF FormIs

(* What the code takes for a legal character is one.                       *)
LEMMA CharFound ==
  ASSUME NEW s \in Seq(Units), NEW pos \in Nat, NEW n \in 1 .. 4, pos + n <= Len(s),
         n = Announced(s[pos + 1]),
         \A j \in 1 .. n - 1 : Utf8Trail(s[pos + 1 + j]),
         LegalValue(ValueOf(s, pos, n), n)
  PROVE  CharAt(s, pos + 1) = ValueOf(s, pos, n) /\ Width(s[pos + 1]) = n
<1> DEFINE i == pos + 1  c == s[i]  k == ValueOf(s, pos, n)
           b(j) == s[pos + 1 + j]
<1>1. i \in 1 .. Len(s) /\ i - 1 = pos /\ i + n - 1 <= Len(s)
  BY SMT
<1>2. c \in Nat
  BY <1>1, UnitsAre
<1>3. Width(c) = n
  BY <1>2, SMT DEF Announced, Width
<1>4. k = Bits(s, i)
  BY <1>1, <1>3, BitsAre
<1>5. \A j \in 1 .. n - 1 : b(j) \in 128 .. 191
  <2> TAKE j \in 1 .. n - 1
  <2>1. pos + 1 + j \in 1 .. Len(s)
    BY SMT
  <2>2. s[pos + 1 + j] \in Nat
    BY <2>1, UnitsAre
  <2>3. Utf8Trail(s[pos + 1 + j])
    OBVIOUS
  <2> DEFINE x == s[pos + 1 + j]
  <2>4. x \in Nat /\ Utf8Trail(x)
    BY <2>2, <2>3
  <2> HIDE DEF x
  <2>5. x \in 128 .. 191
    BY ONLY <2>4, SMT DEF Utf8Trail
  <2> QED
    BY <2>5 DEF x
<1>6. /\ n = 1 => c \in 0 .. 127
      /\ n = 2 => c \in 194 .. 223
      /\ n = 3 => c \in 224 .. 239
      /\ n = 4 => c \in 240 .. 244
  <2> HIDE DEF c
  <2>1. n = Announced(c)
    BY DEF c
  <2> QED
    BY ONLY <1>2, <2>1, SMT DEF Announced
<1>7. /\ n = 1 => SubSeq(s, i, i + n - 1) = <<c>> /\ k = c
      /\ n = 2 => /\ SubSeq(s, i, i + n - 1) = <<c, b(1)>>
                  /\ k = (c % 32) * 64 + (b(1) % 64)
      /\ n = 3 => /\ SubSeq(s, i, i + n - 1) = <<c, b(1), b(2)>>
                  /\ k = (c % 16) * 4096 + (b(1) % 64) * 64 + (b(2) % 64)
      /\ n = 4 => /\ SubSeq(s, i, i + n - 1) = <<c, b(1), b(2), b(3)>>
                  /\ k = (c % 8) * 262144 + (b(1) % 64) * 4096 + (b(2) % 64) * 64 + (b(3) % 64)
  <2>1. i \in Nat /\ i >= 1
    BY <1>1
  <2>2. /\ i <= Len(s) => SubSeq(s, i, i) = <<s[i]>>
        /\ i + 1 <= Len(s) => SubSeq(s, i, i + 1) = <<s[i], s[i + 1]>>
        /\ i + 2 <= Len(s) => SubSeq(s, i, i + 2) = <<s[i], s[i + 1], s[i + 2]>>
        /\ i + 3 <= Len(s) => SubSeq(s, i, i + 3) = <<s[i], s[i + 1], s[i + 2], s[i + 3]>>
    <3> HIDE DEF i
    <3> QED
      BY <2>1, PartsAre
  <2>3. CASE n = 1
    <3>1. i + n - 1 = i /\ i <= Len(s)
      BY <1>1, <2>3
    <3>2. k = c
      BY <2>3 DEF ValueOf
    <3> QED
      BY <2>2, <2>3, <3>1, <3>2, SMT
  <2>4. CASE n = 2
    <3>1. i + n - 1 = i + 1 /\ i + 1 <= Len(s)
      BY <1>1, <2>4
    <3>2. k = (c % 32) * 64 + (b(1) % 64)
      BY <2>4 DEF ValueOf
    <3> QED
      BY <2>2, <2>4, <3>1, <3>2, SMT
  <2>5. CASE n = 3
    <3>1. i + n - 1 = i + 2 /\ i + 2 <= Len(s)
      BY <1>1, <2>5
    <3>2. k = (c % 16) * 4096 + (b(1) % 64) * 64 + (b(2) % 64)
      BY <2>5 DEF ValueOf
    <3> QED
      BY <2>2, <2>5, <3>1, <3>2, SMT
  <2>6. CASE n = 4
    <3>1. i + n - 1 = i + 3 /\ i + 3 <= Len(s)
      BY <1>1, <2>6
    <3>2. k = (c % 8) * 262144 + (b(1) % 64) * 4096 + (b(2) % 64) * 64 + (b(3) % 64)
      BY <2>6, SMT DEF ValueOf
    <3> QED
      BY <2>2, <2>6, <3>1, <3>2, SMT
  <2> QED
    BY <2>3, <2>4, <2>5, <2>6, SMTT(30)
<1>8. LegalValue(k, n)
  OBVIOUS
<1> HIDE DEF c, k, b
<1> DEFINE u == SubSeq(s, i, i + n - 1)
<1> HIDE DEF u
<1>9. Utf8Form(k) = u /\ IsScalar(k)
  <2>1. CASE n = 1
    <3>1. c \in 0 .. 127 /\ k = c /\ u = <<c>>
      BY ONLY <1>6, <1>7, <2>1, SMT DEF u
    <3> QED
      BY ONLY <3>1, FormOne, Zenon
  <2>2. CASE n = 2
    <3>1. 1 \in 1 .. n - 1
      BY <2>2, SMT
    <3>2. b(1) \in 128 .. 191 /\ c \in 194 .. 223
      BY ONLY <1>5, <1>6, <2>2, <3>1, SMT
    <3>3. k = Two(c, b(1)) /\ u = <<c, b(1)>>
      BY ONLY <1>7, <2>2, SMT DEF u, Two
    <3> QED
      BY ONLY <3>2, <3>3, FormTwo, Zenon
  <2>3. CASE n = 3
    <3>1. 1 \in 1 .. n - 1 /\ 2 \in 1 .. n - 1
      BY <2>3, SMT
    <3>2. b(1) \in 128 .. 191 /\ b(2) \in 128 .. 191 /\ c \in 224 .. 239
      BY ONLY <1>5, <1>6, <2>3, <3>1, SMT
    <3>3. k = Three(c, b(1), b(2)) /\ u = <<c, b(1), b(2)>>
      BY ONLY <1>7, <2>3, SMT DEF u, Three
    <3>4. LegalValue(k, 3)
      BY ONLY <1>8, <2>3, SMT
    <3> QED
      BY ONLY <3>2, <3>3, <3>4, FormThree, ZenonT(30)
  <2>4. CASE n = 4
    <3>1. 1 \in 1 .. n - 1 /\ 2 \in 1 .. n - 1 /\ 3 \in 1 .. n - 1
      BY <2>4, SMT
    <3>2. b(1) \in Trails /\ b(2) \in Trails /\ b(3) \in Trails /\ c \in 240 .. 244
      BY ONLY <1>5, <1>6, <2>4, <3>1, SMT DEF Trails
    <3>3. k = Four(c, b(1), b(2), b(3)) /\ u = <<c, b(1), b(2), b(3)>>
      BY ONLY <1>7, <2>4, SMT DEF u, Four
    <3>4. LegalValue(k, 4)
      BY ONLY <1>8, <2>4, SMT
    <3>5. FormIs(k, <<c, b(1), b(2), b(3)>>)
      BY ONLY <3>2, <3>3, <3>4, FormFour, Zenon
    <3> QED
      BY ONLY <3>3, <3>5, Zenon DEF FormIs
  <2>5. n = 1 \/ n = 2 \/ n = 3 \/ n = 4
    BY SMT
  <2> QED
    BY ONLY <2>1, <2>2, <2>3, <2>4, <2>5, SMT
<1>10. CharAt(s, i) = k
  <2> HIDE DEF i
  <2> QED
    BY ONLY <1>1, <1>3, <1>4, <1>9, SMT DEF CharAt, c, u
<1> QED
  BY <1>3, <1>10 DEF c, k

-----------------------------------------------------------------------------
(* The code point cp is what the character at position pos is read as, and *)
(* reading goes on at position next: behind a legal character, or not      *)
(* beyond the next byte that may start one.                                *)
Reads(s, pos, cp, next) ==
  /\ IsChar(cp)
  /\ next \in pos + 1 .. Len(s)
  /\ CharAt(s, pos + 1) # Bad => cp = CharAt(s, pos + 1) /\ next = pos + Width(s[pos + 1])
  /\ CharAt(s, pos + 1) = Bad => cp = REPL
  /\ \A j \in pos + 2 .. next : ~Utf8Lead(s[j])

(* The bytes passed over with an illegal sequence start nothing.           *)
LEMMA IllegalStartsNothing ==
  ASSUME NEW str \in Seq(Units), NEW pos \in Nat, pos < Len(str), NEW n \in 0 .. 4
  PROVE  \A i \in 1 .. IllegalLength(str, pos, n) - 1 : ~Utf8Lead(str[pos + 1 + i])
<1> DEFINE stops(i) == pos + i >= Len(str) \/ Utf8Lead(str[pos + 1 + i])
           L == IllegalLength(str, pos, n)
<1>1. L = IF n > 1 /\ stops(1) THEN 1 ELSE IF n > 2 /\ stops(2) THEN 2
          ELSE IF n > 3 /\ stops(3) THEN 3 ELSE IF n = 0 THEN 1 ELSE n
  BY DEF IllegalLength
<1> HIDE DEF stops, L
<1>2. L \in 1 .. 4 /\ (L > 1 => ~stops(1)) /\ (L > 2 => ~stops(2)) /\ (L > 3 => ~stops(3))
  BY <1>1, SMT
<1>3. \A i \in 1 .. L - 1 : ~stops(i)
  BY <1>2, SMT
<1> QED
  BY <1>3 DEF stops, L

(* A character has a legal value.                                          *)
LEMMA CharLegal ==
  ASSUME NEW k, NEW n, IsChar(k), k \notin High \cup Low, Len(Utf8Form(k)) = n
  PROVE  LegalValue(k, n)
<1>1. k \in Nat /\ k <= 1114111
  BY DEF IsChar
<1>2. (n = 2 => k >= 128) /\ (n = 3 => k >= 2048) /\ (n = 4 => k >= 65536)
  BY <1>1, FormOf, SMT
<1>3. ~Utf16Lead(k) /\ ~Utf16Trail(k)
  BY <1>1, SMT DEF Utf16Lead, Utf16Trail, High, Low
<1> QED
  BY ONLY <1>1, <1>2, <1>3, SMT DEF LegalValue

(* _get_next_codepoint_utf8 reads a legal character if there is one, and   *)
(* only then.                                                              *)
LEMMA NextUtf8Reads ==
  ASSUME NEW str \in Seq(Units), NEW pos \in Nat, pos < Len(str)
  PROVE  Reads(str, pos, NextUtf8(str, pos).cp, NextUtf8(str, pos).next)
<1> DEFINE c == str[pos + 1]  n == Announced(c)  k == ValueOf(str, pos, n)  d == NextUtf8(str, pos)
           whole == /\ n > 0 /\ pos + n <= Len(str)
                    /\ \A i \in 1 .. n - 1 : Utf8Trail(str[pos + 1 + i])
           a == CharAt(str, pos + 1)
<1>1. n \in 0 .. 4
  BY SMT DEF Announced
<1>2. d.next \in pos + 1 .. Len(str) /\ IsChar(d.cp)
  BY NextUtf8Advances
<1>3. pos + 1 \in 1 .. Len(str) /\ (pos + 1) - 1 = pos
  BY SMT
<1>4. CASE whole
  <2>1. d = Decoded(IF LegalValue(k, n) THEN k ELSE REPL, pos + n)
    BY <1>4 DEF NextUtf8
  <2>2. d.cp = (IF LegalValue(k, n) THEN k ELSE REPL) /\ d.next = pos + n
    BY <2>1, DecodedParts, ZenonT(30)
  <2>3. n \in 1 .. 4 /\ pos + n <= Len(str)
    BY <1>1, <1>4
  <2>4. LegalValue(k, n) => a = k /\ Width(c) = n
    BY <1>4, <2>3, CharFound
  <2>5. ASSUME a # Bad PROVE LegalValue(k, n) /\ a = k /\ Width(c) = n
    <3>1. /\ a = Bits(str, pos + 1) /\ IsChar(a) /\ a \notin High \cup Low
          /\ Len(Utf8Form(a)) = Width(c) /\ n = Width(c)
          /\ (pos + 1) + Width(c) - 1 <= Len(str)
      BY <1>3, <2>5, CharParts
    <3>2. Bits(str, pos + 1) = ValueOf(str, pos, Width(c))
      BY <1>3, <3>1, BitsAre
    <3>3. a = k
      BY <3>1, <3>2
    <3>4. LegalValue(a, n)
      BY <3>1, CharLegal
    <3> QED
      BY <3>1, <3>3, <3>4
  <2>6. k # Bad
    <3>1. k \in Nat
      BY <2>3, ValueBounded
    <3> QED
      BY <3>1 DEF Bad
  <2>7. \A j \in pos + 2 .. d.next : ~Utf8Lead(str[j])
    <3> SUFFICES ASSUME NEW j \in pos + 2 .. pos + n PROVE ~Utf8Lead(str[j])
      BY <2>2
    <3>1. j - pos - 1 \in 1 .. n - 1 /\ pos + 1 + (j - pos - 1) = j /\ j \in 1 .. Len(str)
      BY <2>3
    <3>2. Utf8Trail(str[j])
      BY <1>4, <3>1
    <3>3. str[j] \in Nat
      BY <3>1, UnitsAre
    <3> QED
      BY ONLY <3>2, <3>3, SMT DEF Utf8Trail, Utf8Lead
  <2> HIDE DEF c, n, k, d, a
  <2>8. a # Bad => d.cp = a /\ d.next = pos + Width(c)
    BY <2>2, <2>5
  <2>9. a = Bad => d.cp = REPL
    BY <2>2, <2>4, <2>6
  <2> QED
    BY <1>2, <2>7, <2>8, <2>9 DEF Reads, c, d, a
<1>5. CASE ~whole
  <2>1. d = Decoded(REPL, pos + IllegalLength(str, pos, n))
    BY <1>5 DEF NextUtf8
  <2>2. d.cp = REPL /\ d.next = pos + IllegalLength(str, pos, n)
    BY <2>1, DecodedParts, Zenon
  <2>3. a = Bad
    <3> SUFFICES ASSUME a # Bad PROVE FALSE
      OBVIOUS
    <3>1. /\ n = Width(c) /\ Width(c) \in 1 .. 4 /\ (pos + 1) + Width(c) - 1 <= Len(str)
          /\ \A j \in 1 .. Width(c) - 1 : str[pos + 1 + j] \in 128 .. 191
      BY <1>3, CharParts
    <3>2. n > 0 /\ pos + n <= Len(str)
      <4> HIDE DEF n, c
      <4> QED
        BY <3>1
    <3>3. \A i \in 1 .. n - 1 : Utf8Trail(str[pos + 1 + i])
      <4>1. \A x \in 128 .. 191 : Utf8Trail(x)
        BY SMT DEF Utf8Trail
      <4> QED
        BY <3>1, <4>1
    <3> QED
      BY <1>5, <3>2, <3>3
  <2>4. IllegalLength(str, pos, n) \in 1 .. Len(str) - pos
    BY <1>1, IllegalLengthBounded
  <2>5. \A i \in 1 .. IllegalLength(str, pos, n) - 1 : ~Utf8Lead(str[pos + 1 + i])
    BY <1>1, IllegalStartsNothing
  <2> DEFINE L == IllegalLength(str, pos, n)
  <2>6. \A j \in pos + 2 .. d.next : ~Utf8Lead(str[j])
    <3> SUFFICES ASSUME NEW j \in pos + 2 .. pos + L PROVE ~Utf8Lead(str[j])
      BY <2>2
    <3> HIDE DEF L
    <3>1. j - pos - 1 \in 1 .. L - 1 /\ pos + 1 + (j - pos - 1) = j
      BY <2>4 DEF L
    <3> QED
      BY <2>5, <3>1 DEF L
  <2> HIDE DEF c, n, d, a
  <2> QED
    BY <1>2, <2>2, <2>3, <2>6 DEF Reads, c, d, a
<1> QED
  BY <1>4, <1>5

(* str is the part of s behind its first base bytes.                       *)
IsWindow(str, s, base) ==
  /\ base \in Nat /\ base + Len(str) <= Len(s)
  /\ \A i \in 1 .. Len(str) : str[i] = s[base + i]

(* Bits are found in a window as in the text.                              *)
LEMMA WindowBits ==
  ASSUME NEW str \in Seq(Units), NEW s \in Seq(Units), NEW base, IsWindow(str, s, base),
         NEW i \in 1 .. Len(str), i + Width(str[i]) - 1 <= Len(str)
  PROVE  Bits(str, i) = Bits(s, base + i)
<1> DEFINE w == Width(str[i])
<1>1. base \in Nat /\ str[i] = s[base + i] /\ w \in 1 .. 4
  BY BitsAre DEF IsWindow
<1>2. \A j \in 1 .. w - 1 : str[i + j] = s[(base + i) + j]
  <2> TAKE j \in 1 .. w - 1
  <2>1. i + j \in 1 .. Len(str) /\ base + (i + j) = (base + i) + j
    BY <1>1
  <2> QED
    BY <2>1 DEF IsWindow
<1> DEFINE m == base + i
<1>3. m \in Nat
  BY <1>1
<1> HIDE DEF m, w
<1>4. str[i] = s[m] /\ Width(s[m]) = w /\ \A j \in 1 .. w - 1 : str[i + j] = s[m + j]
  BY <1>1, <1>2 DEF m, w
<1>5. Bits(str, i) = Bits(s, m)
  <2>1. /\ w >= 2 => str[i + 1] = s[m + 1]
        /\ w >= 3 => str[i + 2] = s[m + 2]
        /\ w >= 4 => str[i + 3] = s[m + 3]
    BY <1>1, <1>4, SMT
  <2> QED
    BY ONLY <1>1, <1>4, <2>1, SMT DEF Bits, w
<1> QED
  BY <1>5 DEF m

(* A character is found in a window as in the text, if four bytes are left *)
(* in the window or nothing is behind it.                                  *)
LEMMA WindowChar ==
  ASSUME NEW str \in Seq(Units), NEW s \in Seq(Units), NEW base, IsWindow(str, s, base),
         NEW i \in 1 .. Len(str), i + 3 <= Len(str) \/ base + Len(str) = Len(s)
  PROVE  CharAt(str, i) = CharAt(s, base + i)
<1> DEFINE w == Width(str[i])  m == base + i
<1>1. w \in 1 .. 4
  BY SMT DEF Width
<1>2. base \in Nat /\ base + Len(str) <= Len(s) /\ m \in 1 .. Len(s) /\ str[i] = s[m]
  BY DEF IsWindow
<1>3. Len(str) \in Nat /\ Len(s) \in Nat
  OBVIOUS
<1> DEFINE l == Len(str)  ls == Len(s)
<1>4. i + w - 1 <= l <=> m + w - 1 <= ls
  <2>1. l \in Nat /\ ls \in Nat /\ i \in 1 .. l /\ (i + 3 <= l \/ base + l = ls)
    BY <1>3
  <2>2. base + l <= ls
    BY <1>2
  <2> HIDE DEF w, l, ls
  <2> QED
    BY ONLY <1>1, <1>2, <2>1, <2>2, SMT DEF m
<1>5. CASE i + w - 1 <= Len(str)
  <2>1. Bits(str, i) = Bits(s, m)
    BY <1>5, WindowBits
  <2>2. SubSeq(str, i, i + w - 1) = SubSeq(s, m, m + w - 1)
    <3> HIDE DEF w
    <3>1. i \in Nat /\ i >= 1 /\ m \in Nat /\ m >= 1 /\ w \in Nat /\ m + w - 1 <= Len(s)
      BY <1>1, <1>2, <1>4, <1>5
    <3> DEFINE u == SubSeq(str, i, i + w - 1)  v == SubSeq(s, m, m + w - 1)
    <3>2. u \in Seq(Units) /\ Len(u) = w /\ \A j \in 1 .. w : u[j] = str[i + j - 1]
      BY <1>5, <3>1, PartIs
    <3>3. v \in Seq(Units) /\ Len(v) = w /\ \A j \in 1 .. w : v[j] = s[m + j - 1]
      <4> HIDE DEF m
      <4> QED
        BY <3>1, PartIs
    <3>4. \A j \in 1 .. w : str[i + j - 1] = s[m + j - 1]
      <4> TAKE j \in 1 .. w
      <4>1. i + j - 1 \in 1 .. Len(str) /\ base + (i + j - 1) = m + j - 1
        BY <1>1, <1>2, <1>5
      <4> QED
        BY <4>1 DEF IsWindow
    <3> HIDE DEF u, v
    <3>5. u = v
      BY <3>2, <3>3, <3>4, SeqEqual
    <3> QED
      BY <3>5 DEF u, v
  <2> QED
    BY <1>2, <1>4, <2>1, <2>2 DEF CharAt
<1>6. CASE ~(i + w - 1 <= Len(str))
  BY <1>2, <1>4, <1>6 DEF CharAt
<1> QED
  BY <1>5, <1>6

(* What is read in the window is read in the text.                         *)
LEMMA WindowReads ==
  ASSUME NEW str \in Seq(Units), NEW s \in Seq(Units), NEW base, IsWindow(str, s, base),
         NEW pos \in Nat, pos < Len(str), pos + 4 <= Len(str) \/ base + Len(str) = Len(s),
         NEW cp, NEW next, Reads(str, pos, cp, next)
  PROVE  Reads(s, base + pos, cp, base + next)
<1>1. /\ base \in Nat /\ base + Len(str) <= Len(s) /\ Len(s) \in Nat
      /\ next \in pos + 1 .. Len(str) /\ IsChar(cp)
  BY DEF IsWindow, Reads
<1>2. base + next \in (base + pos) + 1 .. Len(s)
  BY <1>1
<1>3. /\ pos + 1 \in 1 .. Len(str) /\ base + (pos + 1) = (base + pos) + 1
      /\ (pos + 1) + 3 <= Len(str) \/ base + Len(str) = Len(s)
  BY <1>1
<1>4. CharAt(str, pos + 1) = CharAt(s, (base + pos) + 1)
  BY <1>3, WindowChar
<1>5. str[pos + 1] = s[(base + pos) + 1]
  BY <1>3 DEF IsWindow
<1>6. ASSUME CharAt(s, (base + pos) + 1) # Bad
      PROVE  cp = CharAt(s, (base + pos) + 1) /\ base + next = (base + pos) + Width(s[(base + pos) + 1])
  <2> DEFINE w == Width(str[pos + 1])
  <2>1. cp = CharAt(s, (base + pos) + 1) /\ next = pos + w
    BY <1>4, <1>6 DEF Reads
  <2>2. w \in Nat
    BY SMT DEF Width
  <2> HIDE DEF w
  <2>3. base + next = (base + pos) + w
    BY <1>1, <2>1, <2>2
  <2> QED
    BY <1>5, <2>1, <2>3 DEF w
<1>7. CharAt(s, (base + pos) + 1) = Bad => cp = REPL
  BY <1>4 DEF Reads
<1>8. \A j \in (base + pos) + 2 .. base + next : ~Utf8Lead(s[j])
  <2> TAKE j \in (base + pos) + 2 .. base + next
  <2>1. j - base \in pos + 2 .. next /\ j - base \in 1 .. Len(str) /\ base + (j - base) = j
    BY <1>1
  <2>2. ~Utf8Lead(str[j - base])
    BY <2>1 DEF Reads
  <2>3. str[j - base] = s[base + (j - base)]
    BY <2>1 DEF IsWindow
  <2> QED
    BY <2>1, <2>2, <2>3
<1> QED
  BY <1>1, <1>2, <1>6, <1>7, <1>8 DEF Reads

-----------------------------------------------------------------------------
(* What a text without one of its units consists of.                       *)
Others(c, s) == [i \in 1 .. Len(s) |-> IF s[i] = c THEN <<>> ELSE <<s[i]>>]

LEMMA OthersType ==
  ASSUME NEW c, NEW s \in Seq(Units)
  PROVE  Others(c, s) \in Seq(Seq(Units)) /\ Without(c, s) \in Seq(Units)
         /\ Without(c, s) = FlattenSeq(Others(c, s))
<1> DEFINE R == Seq(Units)
<1>1. \A i \in 1 .. Len(s) : (IF s[i] = c THEN <<>> ELSE <<s[i]>>) \in R
  OBVIOUS
<1> HIDE DEF R
<1>2. Others(c, s) \in Seq(R)
  BY <1>1 DEF Others
<1>3. Without(c, s) = FlattenSeq(Others(c, s))
  BY DEF Without, Others
<1> QED
  BY <1>2, <1>3, FlattenType DEF R

(* One unit more.                                                          *)
LEMMA WithoutNext ==
  ASSUME NEW c, NEW s \in Seq(Units), NEW x \in Units
  PROVE  Without(c, s \o <<x>>) = IF x = c THEN Without(c, s) ELSE Without(c, s) \o <<x>>
<1> DEFINE u == s \o <<x>>  e == IF x = c THEN <<>> ELSE <<x>>
           R == Seq(Units)
<1>1. u \in Seq(Units) /\ Len(u) = Len(s) + 1 /\ u[Len(s) + 1] = x /\ \A i \in 1 .. Len(s) : u[i] = s[i]
  OBVIOUS
<1>2. e \in R /\ Others(c, s) \in Seq(R)
  BY OthersType
<1>3. Others(c, u) = Append(Others(c, s), e)
  <2> DEFINE v == Append(Others(c, s), e)  n == Len(s)
  <2>1. n \in Nat /\ Len(Others(c, s)) = n /\ \A i \in 1 .. n : Others(c, s)[i] = IF s[i] = c THEN <<>> ELSE <<s[i]>>
    BY DEF Others
  <2>2. \A i \in 1 .. n : Others(c, s)[i] = IF u[i] = c THEN <<>> ELSE <<u[i]>>
    BY <1>1, <2>1
  <2> HIDE DEF e, R
  <2>3. v \in Seq(R) /\ Len(v) = n + 1 /\ v[n + 1] = e /\ \A i \in 1 .. n : v[i] = Others(c, s)[i]
    BY <1>2, <2>1
  <2>4. Others(c, u) \in Seq(R)
    BY <1>1, OthersType DEF R
  <2>5. /\ Len(Others(c, u)) = n + 1
        /\ \A i \in 1 .. n + 1 : Others(c, u)[i] = IF u[i] = c THEN <<>> ELSE <<u[i]>>
    <3> HIDE DEF u
    <3> QED
      BY <1>1, <2>1 DEF Others
  <2>6. ASSUME NEW i \in 1 .. n + 1 PROVE Others(c, u)[i] = v[i]
    <3>1. CASE i = n + 1
      <4>1. Others(c, u)[n + 1] = IF u[n + 1] = c THEN <<>> ELSE <<u[n + 1]>>
        BY <2>1, <2>5
      <4>2. u[n + 1] = x
        BY <1>1
      <4>3. Others(c, u)[n + 1] = e
        BY ONLY <4>1, <4>2 DEF e
      <4> QED
        BY <2>3, <3>1, <4>3
    <3>2. CASE i # n + 1
      <4>1. i \in 1 .. n
        BY <2>1, <3>2
      <4> QED
        BY <2>2, <2>3, <2>5, <4>1
    <3> QED
      BY <3>1, <3>2
  <2> HIDE DEF v, u
  <2> QED
    BY <2>3, <2>4, <2>5, <2>6, SeqEqual DEF v
<1> HIDE DEF u, R, e
<1>4. FlattenSeq(Append(Others(c, s), e)) = FlattenSeq(Others(c, s)) \o e
  BY <1>2, FlattenAppend DEF R
<1>5. Without(c, u) = Without(c, s) \o e
  BY <1>1, <1>3, <1>4, OthersType
<1>6. CASE x = c
  <2>1. Without(c, s) \in Seq(Units) /\ e = <<>>
    BY <1>6, OthersType DEF e
  <2> QED
    BY <1>5, <1>6, <2>1 DEF u
<1>7. CASE x # c
  BY <1>5, <1>7 DEF u, e
<1> QED
  BY <1>6, <1>7

(* A text has the unit c.                                                  *)
Has(c, s) == \E i \in 1 .. Len(s) : s[i] = c

LEMMA HasNext ==
  ASSUME NEW c, NEW s \in Seq(Units), NEW x \in Units
  PROVE  Has(c, s \o <<x>>) <=> Has(c, s) \/ x = c
<1> DEFINE u == s \o <<x>>  n == Len(s)
<1>1. n \in Nat /\ Len(u) = n + 1 /\ u[n + 1] = x /\ \A i \in 1 .. n : u[i] = s[i]
  OBVIOUS
<1> HIDE DEF u, n
<1>2. 1 .. n + 1 = 1 .. n \cup {n + 1}
  BY <1>1
<1>3. Has(c, u) <=> Has(c, s) \/ x = c
  BY <1>1, <1>2 DEF Has, n
<1> QED
  BY <1>3 DEF u

(* What _write_utf16_codeunits adds to a text, U+FFFD left out.            *)
LEMMA WithoutWritten ==
  ASSUME NEW s \in Seq(Units), NEW cp, IsChar(cp)
  PROVE  /\ Without(REPL, s \o WriteUtf16(cp)) =
              IF cp = REPL THEN Without(REPL, s) ELSE Without(REPL, s) \o Utf16Form(Folded(cp))
         /\ Has(REPL, s \o WriteUtf16(cp)) <=> Has(REPL, s) \/ cp = REPL
<1> DEFINE w == WriteUtf16(cp)
<1>1. /\ w = Utf16Form(Folded(cp)) /\ w \in Seq(Units)
      /\ cp = REPL => w = <<cp>>
      /\ \/ w = <<cp>>
         \/ \E a, b \in Units : w = <<a, b>> /\ a # REPL /\ b # REPL
  BY WritesFolded, WriteUtf16Fits
<1> HIDE DEF w
<1>2. CASE w = <<cp>>
  <2>1. cp \in Units
    BY <1>1, <1>2
  <2>2. Without(REPL, s \o <<cp>>) = IF cp = REPL THEN Without(REPL, s) ELSE Without(REPL, s) \o <<cp>>
    BY <2>1, WithoutNext
  <2>3. Has(REPL, s \o <<cp>>) <=> Has(REPL, s) \/ cp = REPL
    BY <2>1, HasNext
  <2> QED
    BY <1>1, <1>2, <2>2, <2>3 DEF w
<1>3. CASE \E a, b \in Units : w = <<a, b>> /\ a # REPL /\ b # REPL
  <2>1. PICK a \in Units, b \in Units : w = <<a, b>> /\ a # REPL /\ b # REPL
    BY <1>3
  <2>2. s \o w = (s \o <<a>>) \o <<b>> /\ s \o <<a>> \in Seq(Units)
    <3>1. s \o <<a, b>> = (s \o <<a>>) \o <<b>>
      BY PairIs
    <3> QED
      BY <2>1, <3>1
  <2>3. Without(REPL, s \o <<a>>) = Without(REPL, s) \o <<a>>
    BY <2>1, WithoutNext
  <2>4. Without(REPL, (s \o <<a>>) \o <<b>>) = Without(REPL, s \o <<a>>) \o <<b>>
    BY <2>1, <2>2, WithoutNext
  <2>5. (Without(REPL, s) \o <<a>>) \o <<b>> = Without(REPL, s) \o w
    <3>1. Without(REPL, s) \in Seq(Units)
      BY OthersType
    <3>2. Without(REPL, s) \o <<a, b>> = (Without(REPL, s) \o <<a>>) \o <<b>>
      BY <3>1, PairIs
    <3> QED
      BY <2>1, <3>2
  <2>6. Has(REPL, s \o w) <=> Has(REPL, s)
    <3>1. Has(REPL, (s \o <<a>>) \o <<b>>) <=> Has(REPL, s \o <<a>>) \/ b = REPL
      BY <2>2, HasNext
    <3>2. Has(REPL, s \o <<a>>) <=> Has(REPL, s) \/ a = REPL
      BY HasNext
    <3> QED
      BY <2>1, <2>2, <3>1, <3>2
  <2>7. cp # REPL
    <3> SUFFICES ASSUME cp = REPL PROVE FALSE
      OBVIOUS
    <3>1. w = <<cp>> /\ w = <<a, b>>
      BY <1>1, <2>1
    <3>2. Len(<<cp>>) = 1 /\ Len(<<a, b>>) = 2
      OBVIOUS
    <3> QED
      BY ONLY <3>1, <3>2, SMTT(30)
  <2>8. Without(REPL, s \o w) = Without(REPL, s) \o w
    BY <2>2, <2>3, <2>4, <2>5
  <2> QED
    BY <1>1, <2>6, <2>7, <2>8 DEF w
<1> QED
  BY <1>1, <1>2, <1>3

-----------------------------------------------------------------------------
(* The first n bytes of s are converted to o.  No character is half read.  *)
FoldedPieces(s) == [i \in 1 .. Len(s) |-> FoldedPiece(s, i)]

Kept(s, o, n) ==
  /\ n \in 0 .. Len(s)
  /\ Without(REPL, o) = FlattenSeq(Prefix(FoldedPieces(s), n))
  /\ Has(REPL, o) <=> \E i \in 1 .. n : ~Covered(s, i)
  /\ \A p \in 1 .. n : Starts(s, p) => p + Width(s[p]) <= n + 1

LEMMA FoldedPiecesType ==
  ASSUME NEW s \in Seq(Units)
  PROVE  /\ FoldedPieces(s) \in Seq(Seq(Units)) /\ Len(FoldedPieces(s)) = Len(s)
         /\ \A i \in 1 .. Len(s) : FoldedPieces(s)[i] = FoldedPiece(s, i)
<1> DEFINE R == Seq(Units)
<1>1. ASSUME NEW i \in 1 .. Len(s) PROVE FoldedPiece(s, i) \in R
  <2>1. CASE Starts(s, i)
    <3>1. CharAt(s, i) # Bad
      BY <2>1 DEF Starts
    <3>2. IsChar(CharAt(s, i))
      BY <3>1, CharParts
    <3>3. Utf16Form(Folded(CharAt(s, i))) \in R
      BY <3>2, WritesFolded, WriteUtf16Fits
    <3> QED
      BY <2>1, <3>3 DEF FoldedPiece
  <2>2. CASE ~Starts(s, i)
    BY <2>2 DEF FoldedPiece
  <2> QED
    BY <2>1, <2>2
<1> HIDE DEF R
<1>2. FoldedPieces(s) \in Seq(R) /\ Len(FoldedPieces(s)) = Len(s)
  BY <1>1 DEF FoldedPieces
<1> QED
  BY <1>2 DEF R, FoldedPieces

(* Nothing is converted yet.                                               *)
LEMMA KeptNothing == ASSUME NEW s \in Seq(Units) PROVE Kept(s, <<>>, 0)
<1>1. Without(REPL, <<>>) = <<>>
  <2>1. Others(REPL, <<>>) = <<>> /\ <<>> \in Seq(Units)
    BY DEF Others
  <2> QED
    BY <2>1, OthersType, FlattenNone
<1>2. FlattenSeq(Prefix(FoldedPieces(s), 0)) = <<>>
  BY FlattenNone
<1>3. ~Has(REPL, <<>>)
  BY DEF Has
<1> QED
  BY <1>1, <1>2, <1>3 DEF Kept

(* Where no character starts nothing is added.                             *)
LEMMA NoPiece ==
  ASSUME NEW s \in Seq(Units), NEW i \in 1 .. Len(s), ~Utf8Lead(s[i])
  PROVE  ~Starts(s, i) /\ FoldedPiece(s, i) = <<>>
<1>1. CharAt(s, i) = Bad
  BY NoLeadNoChar
<1>2. ~Starts(s, i)
  BY <1>1 DEF Starts
<1> QED
  BY <1>2 DEF FoldedPiece

(* One character is read and written.                                      *)
LEMMA KeptNext ==
  ASSUME NEW s \in Seq(Units), NEW o \in Seq(Units), NEW n, Kept(s, o, n), n < Len(s),
         NEW cp, NEW m, Reads(s, n, cp, m)
  PROVE  Kept(s, o \o WriteUtf16(cp), m)
<1> DEFINE i == n + 1  a == CharAt(s, i)  w == Width(s[i])  P == FoldedPieces(s)
<1>1. /\ n \in Nat /\ Len(s) \in Nat /\ m \in Nat /\ n < m /\ m <= Len(s) /\ m \in 0 .. Len(s)
      /\ i \in 1 .. Len(s) /\ IsChar(cp)
  BY DEF Kept, Reads
<1>2. /\ a # Bad => cp = a /\ m = n + w
      /\ a = Bad => cp = REPL
  BY DEF Reads
<1>3. \A j \in n + 2 .. m : j \in 1 .. Len(s) /\ ~Starts(s, j) /\ FoldedPiece(s, j) = <<>>
  <2> TAKE j \in n + 2 .. m
  <2>1. j \in 1 .. Len(s)
    BY <1>1
  <2>2. ~Utf8Lead(s[j])
    BY DEF Reads
  <2> QED
    BY <2>1, <2>2, NoPiece
<1>4. Starts(s, i) <=> cp # REPL
  BY <1>1, <1>2 DEF Starts
<1>5. cp # REPL => a # Bad /\ cp = a /\ m = n + w
  BY <1>2
<1>6. FoldedPiece(s, i) = IF cp = REPL THEN <<>> ELSE Utf16Form(Folded(cp))
  BY <1>4, <1>5 DEF FoldedPiece
<1> HIDE DEF i, a, w, P
<1>7. FlattenSeq(Prefix(P, m)) = FlattenSeq(Prefix(P, n)) \o FoldedPiece(s, i)
  <2>1. P \in Seq(Seq(Units)) /\ Len(P) = Len(s) /\ \A j \in 1 .. Len(s) : P[j] = FoldedPiece(s, j)
    BY FoldedPiecesType DEF P
  <2>2. \A j \in n + 2 .. m : P[j] = <<>>
    BY <1>3, <2>1
  <2>3. P[n + 1] = FoldedPiece(s, i)
    BY <1>1, <2>1 DEF i
  <2> QED
    BY <1>1, <2>1, <2>2, <2>3, FlattenOne
<1> DEFINE v == o \o WriteUtf16(cp)
<1>8. Without(REPL, v) = FlattenSeq(Prefix(P, m))
  <2>1. Without(REPL, o) = FlattenSeq(Prefix(P, n)) /\ Without(REPL, o) \in Seq(Units)
    BY OthersType DEF Kept, P
  <2>2. Without(REPL, v) = IF cp = REPL THEN Without(REPL, o) ELSE Without(REPL, o) \o Utf16Form(Folded(cp))
    BY <1>1, WithoutWritten
  <2>3. CASE cp = REPL
    BY <1>6, <1>7, <2>1, <2>2, <2>3
  <2>4. CASE cp # REPL
    BY <1>6, <1>7, <2>1, <2>2, <2>4
  <2> QED
    BY <2>3, <2>4
<1>9. \A p \in 1 .. m : Starts(s, p) => p + Width(s[p]) <= m + 1
  <2> SUFFICES ASSUME NEW p \in 1 .. m, Starts(s, p) PROVE p + Width(s[p]) <= m + 1
    OBVIOUS
  <2>1. CASE p <= n
    <3>1. p \in 1 .. n
      BY <1>1, <2>1
    <3>2. p + Width(s[p]) <= n + 1
      BY <3>1 DEF Kept
    <3>3. Width(s[p]) \in Nat
      BY SMT DEF Width
    <3> DEFINE x == Width(s[p])
    <3> HIDE DEF x
    <3>4. x \in Nat /\ p + x <= n + 1
      BY <3>2, <3>3 DEF x
    <3>5. p + x <= m + 1
      BY <1>1, <3>1, <3>4
    <3> QED
      BY <3>5 DEF x
  <2>2. CASE p = i
    <3>1. m = n + w /\ w \in Nat
      <4>1. w \in Nat
        BY SMT DEF Width, w
      <4> QED
        BY <1>4, <1>5, <2>2, <4>1
    <3>2. i + w <= m + 1
      BY <1>1, <3>1 DEF i
    <3> QED
      BY <2>2, <3>2 DEF w
  <2>3. CASE p >= n + 2
    BY <1>3, <2>3, <1>1
  <2> QED
    BY <1>1, <2>1, <2>2, <2>3 DEF i
<1>10. ASSUME cp = REPL PROVE ~Covered(s, i)
  <2> SUFFICES ASSUME NEW j \in 0 .. 3, Starts(s, i - j), j < Width(s[i - j]) PROVE FALSE
    BY DEF Covered
  <2>1. i - j \in 1 .. Len(s)
    BY DEF Starts
  <2>2. j # 0
    <3> SUFFICES ASSUME j = 0 PROVE FALSE
      OBVIOUS
    <3>1. i - 0 = i
      BY <1>1
    <3> QED
      BY <1>4, <1>10, <3>1
  <2> DEFINE p == i - j  x == Width(s[p])
  <2>3. p \in 1 .. n /\ p + j = n + 1
    BY <1>1, <2>1, <2>2 DEF i
  <2>4. p + x <= n + 1
    <3> HIDE DEF p
    <3>1. Starts(s, p)
      BY DEF p
    <3> QED
      BY <2>3, <3>1 DEF Kept
  <2>5. x \in Nat /\ j < x
    BY SMT DEF Width
  <2> HIDE DEF p, x
  <2> QED
    BY <1>1, <2>3, <2>4, <2>5
<1>11. ASSUME cp # REPL, NEW j \in n + 1 .. m PROVE Covered(s, j)
  <2>1. Starts(s, i) /\ m = n + w /\ a # Bad
    BY <1>4, <1>5, <1>11
  <2>2. w \in 1 .. 4
    BY <1>1, <2>1, CharParts DEF a, w
  <2>3. j - i \in 0 .. 3 /\ j - (j - i) = i /\ j - i < w
    BY <1>1, <2>1, <2>2 DEF i
  <2>4. Starts(s, j - (j - i)) /\ j - i < Width(s[j - (j - i)])
    BY <2>1, <2>3 DEF w
  <2> QED
    BY <2>3, <2>4 DEF Covered
<1>12. Has(REPL, v) <=> \E j \in 1 .. m : ~Covered(s, j)
  <2>1. Has(REPL, v) <=> Has(REPL, o) \/ cp = REPL
    BY <1>1, WithoutWritten
  <2>2. Has(REPL, o) <=> \E j \in 1 .. n : ~Covered(s, j)
    BY DEF Kept
  <2>3. \A j : j \in 1 .. m <=> j \in 1 .. n \/ j \in n + 1 .. m
    BY <1>1
  <2>4. i \in n + 1 .. m
    BY <1>1 DEF i
  <2> HIDE DEF v
  <2> QED
    BY <1>10, <1>11, <2>1, <2>2, <2>3, <2>4
<1> QED
  BY <1>1, <1>8, <1>9, <1>12 DEF Kept, P

(* The whole text is converted.                                            *)
LEMMA KeptAll ==
  ASSUME NEW s \in Seq(Units), NEW o, Kept(s, o, Len(s))
  PROVE  Without(REPL, o) = FoldedOf(s) /\ (Has(REPL, o) <=> \E i \in 1 .. Len(s) : ~Covered(s, i))
<1>1. Prefix(FoldedPieces(s), Len(s)) = [i \in 1 .. Len(s) |-> FoldedPiece(s, i)]
  BY FoldedPiecesType DEF Prefix
<1> QED
  BY <1>1 DEF Kept, FoldedOf

-----------------------------------------------------------------------------
(* _get_next_codepoint_utf16 yields the code point of the unit, and passes *)
(* a pair as one.                                                          *)
LEMMA NextUtf16Reads ==
  ASSUME NEW s \in Seq(Units), NEW pos \in Nat, pos < Len(s)
  PROVE  /\ NextUtf16(s, pos).cp = CodePoint(s, pos + 1)
         /\ NextUtf16(s, pos).next = IF Pair(s, pos + 1) THEN pos + 2 ELSE pos + 1
<1> DEFINE i == pos + 1  c == s[pos + 1]  c2 == s[pos + 2]  d == NextUtf16(s, pos)
<1>1. i + 1 = pos + 2 /\ (i \in 1 .. Len(s) - 1 <=> pos + 2 <= Len(s)) /\ c \in Nat
  <2>1. c \in Units
    BY SMT
  <2> QED
    BY <2>1, UnitsAre, SMT
<1>2. pos + 2 <= Len(s) => c2 \in Nat
  <2>1. pos + 2 <= Len(s) => c2 \in Units
    BY SMT
  <2> QED
    BY <2>1, UnitsAre, SMT
<1>3. \A x \in Nat : (x \in High <=> Utf16Lead(x)) /\ (x \in Low <=> Utf16Trail(x)) /\ ~(Utf16Lead(x) /\ Utf16Trail(x))
  BY SMT DEF High, Low, Utf16Lead, Utf16Trail
<1>4. Pair(s, i) <=> Utf16Lead(c) /\ pos + 2 <= Len(s) /\ Utf16Trail(c2)
  <2>1. Pair(s, i) <=> i \in 1 .. Len(s) - 1 /\ c \in High /\ s[i + 1] \in Low
    BY DEF Pair
  <2> QED
    BY <1>1, <1>2, <1>3, <2>1
<1>5. CASE Pair(s, i)
  <2> DEFINE k == 65536 + (c - 55296) * 1024 + (c2 - 56320)
  <2>1. CodePoint(s, i) = k
    BY <1>1, <1>5, SMT DEF CodePoint
  <2>2. d = Decoded(k, pos + 2)
    BY <1>4, <1>5, SMT DEF NextUtf16
  <2> HIDE DEF k
  <2>3. d.cp = k /\ d.next = pos + 2
    BY <2>2, DecodedParts, Zenon
  <2> QED
    BY <1>5, <2>1, <2>3
<1>6. CASE ~Pair(s, i) /\ Utf16Lead(c)
  <2>1. CodePoint(s, i) = REPL
    BY <1>1, <1>3, <1>6, SMT DEF CodePoint
  <2>2. d = Decoded(REPL, pos + 1)
    BY <1>4, <1>6, SMT DEF NextUtf16
  <2>3. d.cp = REPL /\ d.next = pos + 1
    BY <2>2, DecodedParts, Zenon
  <2> QED
    BY <1>6, <2>1, <2>3
<1>7. CASE ~Pair(s, i) /\ ~Utf16Lead(c)
  <2> DEFINE k == IF Utf16Trail(c) THEN REPL ELSE c
  <2>1. CodePoint(s, i) = k
    <3>1. CodePoint(s, i) = IF c \in High \cup Low THEN REPL ELSE c
      BY <1>7, SMT DEF CodePoint
    <3>2. c \in High \cup Low <=> Utf16Trail(c)
      BY <1>1, <1>3, <1>7
    <3> QED
      BY <3>1, <3>2
  <2>2. d = Decoded(k, pos + 1)
    BY <1>7, SMT DEF NextUtf16
  <2> HIDE DEF k
  <2>3. d.cp = k /\ d.next = pos + 1
    BY <2>2, DecodedParts, Zenon
  <2> QED
    BY <1>7, <2>1, <2>3
<1> QED
  BY <1>5, <1>6, <1>7

(* The first n units of s are converted to o.  No pair is half read.       *)
Utf8Pieces(s) == [i \in 1 .. Len(s) |-> Utf8Piece(s, i)]

EncodedUpTo(s, o, n) ==
  /\ n \in 0 .. Len(s)
  /\ o = FlattenSeq(Prefix(Utf8Pieces(s), n))
  /\ ~Pair(s, n)

LEMMA Utf8PiecesType ==
  ASSUME NEW s \in Seq(Units)
  PROVE  /\ Utf8Pieces(s) \in Seq(Seq(Units)) /\ Len(Utf8Pieces(s)) = Len(s)
         /\ \A i \in 1 .. Len(s) : Utf8Pieces(s)[i] = Utf8Piece(s, i)
<1> DEFINE R == Seq(Units)
<1>1. ASSUME NEW i \in 1 .. Len(s) PROVE Utf8Piece(s, i) \in R
  <2>1. i - 1 \in Nat /\ i - 1 < Len(s) /\ (i - 1) + 1 = i
    OBVIOUS
  <2>2. IsChar(CodePoint(s, i))
    BY <2>1, NextUtf16Advances, NextUtf16Reads
  <2>3. CodePoint(s, i) \in Nat
    BY <2>2 DEF IsChar
  <2>4. Utf8Form(CodePoint(s, i)) \in R
    BY <2>2, <2>3, WriteUtf8Fits, WritesUtf8Form
  <2> QED
    BY <2>4 DEF Utf8Piece
<1> HIDE DEF R
<1>2. Utf8Pieces(s) \in Seq(R) /\ Len(Utf8Pieces(s)) = Len(s)
  BY <1>1 DEF Utf8Pieces
<1> QED
  BY <1>2 DEF R, Utf8Pieces

(* Nothing is converted yet.                                               *)
LEMMA EncodedNothing == ASSUME NEW s \in Seq(Units) PROVE EncodedUpTo(s, <<>>, 0)
BY FlattenNone DEF EncodedUpTo, Pair

(* One round of java_utf16_to_utf8_checked.                                *)
LEMMA EncodedNext ==
  ASSUME NEW s \in Seq(Units), NEW o, NEW n, EncodedUpTo(s, o, n), n < Len(s)
  PROVE  EncodedUpTo(s, o \o WriteUtf8(NextUtf16(s, n).cp), NextUtf16(s, n).next)
<1> DEFINE d == NextUtf16(s, n)  P == Utf8Pieces(s)  m == d.next
<1>1. n \in Nat /\ Len(s) \in Nat /\ n + 1 \in 1 .. Len(s) /\ (n + 1) - 1 = n /\ (n + 2) - 1 = n + 1
  BY DEF EncodedUpTo
<1>2. /\ d.cp = CodePoint(s, n + 1) /\ IsChar(d.cp)
      /\ m = IF Pair(s, n + 1) THEN n + 2 ELSE n + 1
  BY <1>1, NextUtf16Reads, NextUtf16Advances
<1>3. m \in n + 1 .. Len(s)
  BY <1>1, NextUtf16Advances
<1>4. Utf8Piece(s, n + 1) = WriteUtf8(d.cp)
  <2>1. d.cp \in Nat
    BY <1>2 DEF IsChar
  <2>2. Utf8Piece(s, n + 1) = Utf8Form(CodePoint(s, n + 1))
    BY <1>1 DEF Utf8Piece, EncodedUpTo
  <2> QED
    BY <1>2, <2>1, <2>2, WritesUtf8Form
<1> HIDE DEF d, P, m
<1>5. m \in Nat /\ n < m /\ m <= Len(s) /\ m \in 0 .. Len(s)
  BY <1>1, <1>3
<1>6. P \in Seq(Seq(Units)) /\ Len(P) = Len(s) /\ \A i \in 1 .. Len(s) : P[i] = Utf8Piece(s, i)
  BY Utf8PiecesType DEF P
<1>7. \A i \in n + 2 .. m : P[i] = <<>>
  <2> SUFFICES ASSUME NEW i \in n + 2 .. m PROVE P[i] = <<>>
    OBVIOUS
  <2>1. Pair(s, n + 1) /\ i = n + 2 /\ i \in 1 .. Len(s)
    BY <1>1, <1>2, <1>5
  <2>2. Utf8Piece(s, i) = <<>>
    BY <1>1, <2>1 DEF Utf8Piece
  <2> QED
    BY <1>6, <2>1, <2>2
<1>8. FlattenSeq(Prefix(P, m)) = FlattenSeq(Prefix(P, n)) \o P[n + 1]
  BY <1>1, <1>5, <1>6, <1>7, FlattenOne
<1>9. o \o WriteUtf8(d.cp) = FlattenSeq(Prefix(P, m))
  BY <1>1, <1>4, <1>6, <1>8 DEF EncodedUpTo, P
<1>10. ~Pair(s, m)
  <2>1. CASE Pair(s, n + 1)
    <3>1. m = n + 2 /\ s[(n + 1) + 1] \in Low /\ (n + 1) + 1 = n + 2
      BY <1>1, <1>2, <2>1 DEF Pair
    <3>2. \A x \in High : x \notin Low
      <4> SUFFICES ASSUME NEW x \in High, x \in Low PROVE FALSE
        OBVIOUS
      <4>1. x \in Int /\ x <= 56319
        BY SMT DEF High
      <4>2. x >= 56320
        BY SMT DEF Low
      <4> QED
        BY ONLY <4>1, <4>2, SMT
    <3>3. s[m] \notin High
      BY <3>1, <3>2
    <3> QED
      BY <3>3 DEF Pair
  <2>2. CASE ~Pair(s, n + 1)
    BY <1>2, <2>2
  <2> QED
    BY <2>1, <2>2
<1> QED
  BY <1>5, <1>9, <1>10 DEF EncodedUpTo, P, d, m

(* The whole text is converted.                                            *)
LEMMA EncodedAll ==
  ASSUME NEW s \in Seq(Units), NEW o, EncodedUpTo(s, o, Len(s))
  PROVE  o = Utf8Of(s)
<1>1. Prefix(Utf8Pieces(s), Len(s)) = [i \in 1 .. Len(s) |-> Utf8Piece(s, i)]
  BY Utf8PiecesType DEF Prefix
<1> QED
  BY <1>1 DEF EncodedUpTo, Utf8Of

-----------------------------------------------------------------------------
(* The inductive invariant.  The output of a conversion to UTF-16, what is *)
(* left in the window and what is left to read never exceed the input: a   *)
(* byte becomes at most one unit, and only four bytes become two.  Between *)
(* two reads the window is full, unless the input has ended; so what has   *)
(* to be moved lies in its second half.                                    *)
Outstanding == (Len(buf) - cur) + (Len(in) - fed)

UtfInv ==
  /\ UtfTypeOK
  /\ BuffersRespected
  /\ op = "json" => \A k \in 1 .. Len(ends) : ends[k] <= Len(in)
  /\ fed <= Len(in)
  /\ op = "toUtf8" => cap >= Len(buf) + 3
  /\ op # "toUtf8" => Len(out) + Outstanding <= cap
  /\ op # "json" => eof /\ phase # "read"
  /\ phase = "read" => cur = 0
  /\ phase = "convert" /\ ~eof => Len(buf) = Window \/ (buf = <<>> /\ cur = 0)

(* A call begins within its buffers.                                       *)
LEMMA CallsInv == \A j : IsJob(j) /\ Calls(j) => UtfInv
<1> SUFFICES ASSUME NEW j, IsJob(j), Calls(j) PROVE UtfInv
  OBVIOUS
<1>1. /\ op = j.op /\ in = Call(j).in /\ ends = j.ends /\ seg = 1 /\ fed = Call(j).fed
      /\ buf = Call(j).buf /\ cur = 0 /\ eof = (j.op # "json")
      /\ out = <<>> /\ cap = Call(j).cap /\ phase = "convert"
  BY DEF Calls
<1>2. /\ j.op \in Ops /\ j.str \in Seq(Units) /\ j.max \in Int /\ j.ends \in Seq(0 .. Len(j.str))
  BY DEF IsJob, Units
<1>3. /\ Len(j.str) \in Nat
      /\ j.ends \in Seq(Nat) /\ \A k \in 1 .. Len(j.ends) : j.ends[k] <= Len(j.str)
  BY <1>2, SMT
<1>4. CASE j.op = "json"
  <2>1. Call(j) = [in |-> j.str, fed |-> 0, buf |-> <<>>, cap |-> Len(j.str)]
    BY <1>4, SMT DEF Call
  <2>2. /\ in = j.str /\ fed = 0 /\ buf = <<>> /\ cap = Len(j.str) /\ op = "json" /\ ~eof
    <3>1. Call(j).in = j.str /\ Call(j).fed = 0 /\ Call(j).buf = <<>> /\ Call(j).cap = Len(j.str)
      BY <2>1, SMT
    <3> QED
      BY <1>1, <1>4, <3>1, Zenon
  <2>3. /\ <<>> \in Seq(Units) /\ Len(<<>>) = 0 /\ Window \in Nat /\ Window >= 6
    BY UtfAssumption, SMT
  <2>4. UtfTypeOK
    BY <1>1, <1>2, <1>3, <2>2, <2>3, SMT DEF UtfTypeOK, Units, Ops
  <2>5. BuffersRespected
    BY <1>1, <1>3, <2>2, <2>3, SMT DEF BuffersRespected, NeedsMore, Left
  <2> QED
    BY <1>1, <1>3, <2>2, <2>3, <2>4, <2>5, SMT DEF UtfInv, Outstanding
<1>5. CASE j.op # "json"
  <2> DEFINE s == Call(j).in
  <2>1. /\ Call(j).fed = Len(s) /\ Call(j).buf = s
        /\ Call(j).cap = IF j.op = "toUtf8" THEN Len(s) + 3 ELSE Len(s)
        /\ s = IF j.op = "toUtf8" THEN Region(j.str, j.max) ELSE j.str
    BY <1>5, SMT DEF Call
  <2>2. s \in Seq(Units) /\ Len(s) \in Nat
    BY <1>2, <2>1, SMT DEF Region
  <2>3. /\ in = s /\ fed = Len(s) /\ buf = s /\ op = j.op /\ eof
        /\ cap = IF j.op = "toUtf8" THEN Len(s) + 3 ELSE Len(s)
    BY <1>1, <1>5, <2>1
  <2> HIDE DEF s
  <2>4. <<>> \in Seq(Units) /\ Len(<<>>) = 0
    BY SMT
  <2>5. UtfTypeOK
    BY <1>1, <1>2, <1>3, <2>2, <2>3, <2>4, SMT DEF UtfTypeOK, Units, Ops
  <2>6. BuffersRespected
    BY <1>1, <1>5, <2>2, <2>3, <2>4, SMT DEF BuffersRespected, NeedsMore, Left
  <2> QED
    BY <1>1, <1>3, <1>5, <2>2, <2>3, <2>4, <2>5, <2>6, SMT DEF UtfInv, Outstanding
<1> QED
  BY <1>4, <1>5

(* One of the jobs begins.                                                 *)
LEMMA InitInv == UtfInit => UtfInv
BY CallsInv, UtfAssumption DEF UtfInit

(* Four bytes are free before a code point is written as UTF-8.            *)
LEMMA EncodeInv == ASSUME UtfInv, Encode PROVE UtfInv'
<1> DEFINE d == NextUtf16(buf, cur)  w == WriteUtf8(d.cp)
<1>1. /\ buf \in Seq(Units) /\ cur \in Nat /\ cur < Len(buf) /\ out \in Seq(Units)
      /\ Len(out) <= cap /\ cap \in Nat /\ cap >= Len(buf) + 3
  BY SMT DEF UtfInv, UtfTypeOK, BuffersRespected, Encode, Units
<1>2. d.next \in cur + 1 .. Len(buf) /\ IsChar(d.cp)
  BY <1>1, NextUtf16Advances
<1>3. w \in Seq(Units) /\ Len(w) \in 1 .. 4
  BY <1>2, WriteUtf8Fits
<1>4. /\ out' = out \o w /\ cur' = d.next
      /\ cap' = IF cap - Len(out) < 4 THEN 2 * cap ELSE cap
      /\ UNCHANGED <<op, in, ends, seg, fed, buf, eof, phase>>
      /\ op = "toUtf8" /\ phase = "convert"
  BY DEF Encode
<1> HIDE DEF d, w
<1>5. out' \in Seq(Units) /\ Len(out') = Len(out) + Len(w)
  BY <1>1, <1>3, <1>4, SMT
<1> DEFINE lo == Len(out)  lw == Len(w)  lb == Len(buf)
<1>a. lo \in Nat /\ lw \in 1 .. 4 /\ lb \in Nat /\ lo <= cap /\ cap >= lb + 3 /\ lb > 0 /\ cap \in Nat
  BY <1>1, <1>3, SMT
<1>b. Len(out') = lo + lw /\ cap' = IF cap - lo < 4 THEN 2 * cap ELSE cap
  BY <1>4, <1>5
<1> HIDE DEF lo, lw, lb
<1>c. lo + lw <= cap' /\ cap' \in Nat /\ cap' >= lb + 3
  BY <1>a, <1>b, SMT
<1>6. Len(out') <= cap' /\ cap' \in Nat /\ cap' >= Len(buf) + 3
  BY <1>b, <1>c DEF lb
<1>7. cur' \in Nat /\ cur' <= Len(buf)
  BY <1>1, <1>2, <1>4, SMT
<1> QED
  BY <1>4, <1>5, <1>6, <1>7, SMT
  DEF UtfInv, UtfTypeOK, BuffersRespected, Units, NeedsMore, Left, Ops

(* The output never outgrows what is left of the input.                    *)
LEMMA DecodeInv == ASSUME UtfInv, Decode PROVE UtfInv'
<1> DEFINE d == NextUtf8(buf, cur)  w == WriteUtf16(d.cp)
<1>1. /\ buf \in Seq(Units) /\ cur \in Nat /\ cur < Len(buf) /\ out \in Seq(Units)
      /\ cap \in Nat /\ fed \in Nat /\ fed <= Len(in) /\ Len(in) \in Nat
      /\ Len(out) + ((Len(buf) - cur) + (Len(in) - fed)) <= cap
  BY SMT DEF UtfInv, UtfTypeOK, Decode, Units, Left, Outstanding
<1>2. /\ d.next \in cur + 1 .. Len(buf) /\ IsChar(d.cp)
      /\ d.cp > 65535 => d.next = cur + 4
  BY <1>1, NextUtf8Advances
<1>3. /\ w \in Seq(Units) /\ Len(w) \in Nat /\ Len(w) <= 2
      /\ d.cp <= 65535 => Len(w) = 1
  BY <1>2, WriteUtf16Fits, SMT
<1>4. /\ cur' = d.next
      /\ UNCHANGED <<op, in, ends, seg, fed, buf, eof, cap>>
      /\ op # "toUtf8" /\ phase = "convert" /\ (eof \/ Len(buf) - cur >= 4)
      /\ \/ cap < Len(out) + 1 \/ (d.cp > 65535 /\ cap < Len(out) + 2)
         \/ out' = out \o w /\ phase' = phase
  BY <1>1, SMT DEF Decode, NeedsMore, Left
<1> DEFINE cp == d.cp  nx == d.next  lo == Len(out)  lw == Len(w)  lb == Len(buf)  li == Len(in)
<1>a. /\ cp \in Nat /\ nx \in Nat /\ nx >= cur + 1 /\ nx <= lb /\ (cp > 65535 => nx = cur + 4)
      /\ lo \in Nat /\ lb \in Nat /\ li \in Nat /\ fed \in Nat /\ fed <= li
      /\ cur \in Nat /\ cap \in Nat /\ lo + ((lb - cur) + (li - fed)) <= cap
      /\ lw \in Nat /\ lw <= 2 /\ (cp <= 65535 => lw = 1)
  <2>1. lo \in Nat /\ lb \in Nat
    BY <1>1, SMT
  <2>2. cp \in Nat
    BY <1>2 DEF IsChar
  <2> HIDE DEF d, w
  <2>3. nx \in Nat /\ nx >= cur + 1 /\ nx <= lb
    BY <1>1, <1>2, <2>1, SMT
  <2>4. cp > 65535 => nx = cur + 4
    BY <1>2
  <2>5. lw \in Nat /\ lw <= 2
    BY <1>3
  <2>6. cp <= 65535 => lw = 1
    BY <1>3
  <2> QED
    BY <1>1, <2>1, <2>2, <2>3, <2>4, <2>5, <2>6
<1>b. /\ cur' = nx
      /\ \/ cap < lo + 1 \/ (cp > 65535 /\ cap < lo + 2)
         \/ out' = out \o w /\ phase' = phase
  BY <1>4
<1> HIDE DEF cp, nx, lo, lw, lb, li
<1>6. out' = out \o w /\ phase' = phase
  BY <1>a, <1>b, SMT
<1>c. lo + lw + ((lb - nx) + (li - fed)) <= cap
  BY <1>a, SMT
<1>7. out' \in Seq(Units) /\ Len(out') = lo + lw
  BY <1>1, <1>3, <1>6, SMT DEF lo, lw
<1>8. /\ Len(out') + ((Len(buf) - cur') + (Len(in) - fed)) <= cap /\ Len(out') <= cap
      /\ cur' \in Nat /\ cur' <= Len(buf)
  <2>1. lo + lw <= cap
    BY <1>a, <1>c, SMT
  <2> QED
    BY <1>7, <1>a, <1>b, <1>c, <2>1 DEF lb, li
<1>9. ~eof => lb = Window /\ Window \in Nat /\ Window >= 6
  BY <1>1, <1>4, UtfAssumption, SMT DEF UtfInv, lb
<1>10. ~eof /\ Len(buf) - cur' < 4 => cur' >= Len(buf) - cur'
  <2>1. ~eof /\ lb - nx < 4 => nx >= lb - nx
    BY <1>9, <1>a, SMT
  <2> QED
    BY <1>b, <2>1 DEF lb
<1> HIDE DEF d, w
<1>11. BuffersRespected'
  BY <1>4, <1>6, <1>8, <1>10 DEF UtfInv, BuffersRespected, NeedsMore, Left
<1>12. UtfTypeOK'
  BY <1>4, <1>6, <1>7, <1>8 DEF UtfInv, UtfTypeOK, Units
<1> QED
  BY <1>4, <1>6, <1>8, <1>9, <1>11, <1>12 DEF UtfInv, Outstanding, lb

(* The window moves to the front, where it does not overlap itself.        *)
LEMMA RefillInv == ASSUME UtfInv, Refill PROVE UtfInv'
<1>1. /\ buf \in Seq(Units) /\ Len(buf) \in Nat /\ cur \in Nat /\ cur <= Len(buf) /\ ~eof
      /\ buf' = SubSeq(buf, cur + 1, Len(buf)) /\ cur' = 0 /\ phase' = "read"
      /\ UNCHANGED <<op, in, ends, seg, fed, eof, out, cap>>
  BY SMT DEF UtfInv, UtfTypeOK, BuffersRespected, Refill, NeedsMore, Units
<1>2. /\ buf' \in Seq(Units) /\ Len(buf') = Len(buf) - cur
  BY <1>1, SMT
<1>3. op = "json" /\ Len(buf) <= Window /\ Window \in Nat
  BY <1>1, UtfAssumption, SMT DEF UtfInv, UtfTypeOK, BuffersRespected, Ops
<1>4. Len(buf') \in Nat /\ Len(buf') <= Window /\ Len(buf') - 0 = Len(buf) - cur
  BY <1>1, <1>2, <1>3, SMT
<1>5. UtfTypeOK'
  BY <1>1, <1>2, SMT DEF UtfInv, UtfTypeOK, Units
<1>6. BuffersRespected'
  BY <1>1, <1>3, <1>4, SMT DEF UtfInv, BuffersRespected
<1> QED
  BY <1>1, <1>3, <1>4, <1>5, <1>6, SMT DEF UtfInv, Outstanding

(* json_it_read copies what fits of one segment.                           *)
LEMMA ReadSegmentInv == ASSUME UtfInv, ReadSegment PROVE UtfInv'
<1>1. /\ buf \in Seq(Units) /\ Len(buf) \in Nat /\ in \in Seq(Units) /\ Len(in) \in Nat
      /\ fed \in Nat /\ fed <= Len(in) /\ seg \in Nat /\ seg >= 1
      /\ phase = "read" /\ op = "json" /\ seg <= Len(ends) /\ Len(buf) < Window /\ cur = 0
      /\ Window \in Nat /\ ends \in Seq(Nat)
      /\ UNCHANGED <<op, in, ends, cur, eof, out, cap, phase>>
  BY UtfAssumption, SMT DEF UtfInv, UtfTypeOK, ReadSegment, Units
<1>2. ends[seg] \in Nat /\ ends[seg] <= Len(in)
  BY <1>1, SMT DEF UtfInv
<1>3. CASE seg' = seg + 1 /\ UNCHANGED <<fed, buf>>
  <2>1. UtfTypeOK'
    BY <1>1, <1>3, SMT DEF UtfInv, UtfTypeOK, Units
  <2>2. BuffersRespected'
    BY <1>1, <1>3, SMT DEF UtfInv, BuffersRespected, NeedsMore, Left
  <2> QED
    BY <1>1, <1>3, <2>1, <2>2 DEF UtfInv, Outstanding
<1>4. CASE /\ ends[seg] > fed /\ UNCHANGED seg
           /\ LET room == Window - Len(buf)
                  n    == IF ends[seg] - fed < room THEN ends[seg] - fed ELSE room
              IN  /\ buf' = buf \o SubSeq(in, fed + 1, fed + n)
                  /\ fed' = fed + n
  <2> DEFINE lb == Len(buf)  li == Len(in)  e == ends[seg]
             n == IF e - fed < Window - lb THEN e - fed ELSE Window - lb
  <2>1. buf' = buf \o SubSeq(in, fed + 1, fed + n) /\ fed' = fed + n /\ seg' = seg /\ e > fed
    BY <1>4
  <2>2. e \in Nat /\ e <= li /\ lb \in Nat /\ li \in Nat /\ lb < Window
    BY <1>1, <1>2
  <2>3. n \in Nat /\ fed + n <= li /\ lb + n <= Window /\ n >= 1
    <3> HIDE DEF lb, li, e
    <3> QED
      BY <1>1, <2>1, <2>2, SMT
  <2> HIDE DEF n
  <2>4. SubSeq(in, fed + 1, fed + n) \in Seq(Units) /\ Len(SubSeq(in, fed + 1, fed + n)) = n
    BY <1>1, <2>3, SMT
  <2>5. buf' \in Seq(Units) /\ Len(buf') = Len(buf) + n
    BY <1>1, <2>1, <2>4, SMT
  <2>6. /\ Len(buf') \in Nat /\ Len(buf') <= Window /\ fed' \in Nat /\ fed' <= Len(in)
        /\ (Len(buf') - 0) + (Len(in) - fed') = (Len(buf) - 0) + (Len(in) - fed)
    <3>1. Len(buf') = lb + n /\ fed' = fed + n
      BY <2>1, <2>5
    <3>2. /\ Len(buf') \in Nat /\ Len(buf') <= Window /\ fed' \in Nat /\ fed' <= li
          /\ (Len(buf') - 0) + (li - fed') = (lb - 0) + (li - fed)
      <4> HIDE DEF lb, li, e
      <4> QED
        BY <1>1, <2>2, <2>3, <3>1, SMT
    <3> QED
      BY <3>2
  <2>7. UtfTypeOK'
    BY <1>1, <2>1, <2>5, <2>6 DEF UtfInv, UtfTypeOK, Units
  <2>8. BuffersRespected'
    BY <1>1, <2>6, SMT DEF UtfInv, BuffersRespected
  <2> QED
    BY <1>1, <2>6, <2>7, <2>8, SMT DEF UtfInv, Outstanding
<1> QED
  BY <1>3, <1>4 DEF ReadSegment

(* A window that is not full is the last one.                              *)
LEMMA ReadEndsInv == ASSUME UtfInv, ReadEnds PROVE UtfInv'
<1>1. /\ phase = "read" /\ op = "json" /\ cur = 0 /\ Len(buf) \in Nat /\ Len(buf) <= Window
      /\ Window \in Nat /\ Window >= 6 /\ phase' = "convert"
      /\ UNCHANGED <<op, in, ends, seg, fed, buf, cur, out, cap>>
  BY UtfAssumption, SMT DEF UtfInv, UtfTypeOK, BuffersRespected, ReadEnds, Ops
<1>2. eof' \in BOOLEAN /\ (~eof' => Len(buf) = Window)
  <2>1. eof' = (Len(buf) < Window)
    BY DEF ReadEnds
  <2>2. ~(Len(buf) < Window) => Len(buf) = Window
    BY <1>1, SMT
  <2>3. CASE Len(buf) < Window
    BY <2>1, <2>3
  <2>4. CASE ~(Len(buf) < Window)
    BY <2>1, <2>2, <2>4
  <2> QED
    BY <2>3, <2>4
<1>3. UtfTypeOK'
  BY <1>1, <1>2 DEF UtfInv, UtfTypeOK
<1>4. BuffersRespected'
  BY <1>1, <1>2, SMT DEF UtfInv, BuffersRespected, NeedsMore, Left
<1> QED
  BY <1>1, <1>2, <1>3, <1>4 DEF UtfInv, Outstanding

(* A call that ends, well or not, leaves everything as it is.              *)
LEMMA EndsInv ==
  ASSUME UtfInv, NEW p \in {"done", "failed"}, Ends(p) PROVE UtfInv'
<1>1. UtfTypeOK'
  BY SMT DEF UtfInv, UtfTypeOK, Ends
<1>2. BuffersRespected'
  BY SMT DEF UtfInv, BuffersRespected, Ends
<1> QED
  BY <1>1, <1>2, SMT DEF UtfInv, Outstanding, Ends

(* UtfInv is inductive.                                                    *)
LEMMA StepInv == ASSUME UtfInv, [UtfStep]_utfVars PROVE UtfInv'
<1>1. CASE ConvertFails
  BY <1>1, EndsInv DEF ConvertFails
<1>2. CASE ConvertEnds
  <2>1. PICK p \in {"done", "failed"} : Ends(p)
    BY <1>2 DEF ConvertEnds
  <2> QED
    BY <2>1, EndsInv
<1>3. CASE UNCHANGED utfVars
  BY <1>3 DEF utfVars, UtfInv, UtfTypeOK, BuffersRespected, Outstanding, NeedsMore, Left
<1> QED
  BY <1>1, <1>2, <1>3, EncodeInv, DecodeInv, RefillInv, ReadSegmentInv, ReadEndsInv DEF UtfStep

-----------------------------------------------------------------------------
(* What is converted.  The window shows the part of the input that ends    *)
(* where reading has come to, the segments that are read lie before that,  *)
(* and the output is the conversion of the input up to the cursor.         *)
Base == fed - Len(buf)

TextInv ==
  /\ op # "json" => buf = in /\ fed = Len(in)
  /\ IsWindow(buf, in, Base)
  /\ op = "json" /\ phase # "idle" => ends # <<>> /\ ends[Len(ends)] = Len(in)
  /\ op = "json" => \A k \in 1 .. Len(ends) : k < seg => ends[k] <= fed
  /\ eof => fed = Len(in)
  /\ op = "toUtf8" /\ phase \in {"convert", "done"} => EncodedUpTo(in, out, cur)
  /\ op # "toUtf8" /\ phase \in {"convert", "read", "done"} => Kept(in, out, Base + cur)
  /\ phase = "done" => cur = Len(buf) /\ eof

(* The empty window at the start of a text, and the one that shows all.    *)
LEMMA Windows ==
  ASSUME NEW s \in Seq(Units)
  PROVE  IsWindow(<<>>, s, 0 - Len(<<>>)) /\ IsWindow(s, s, Len(s) - Len(s))
BY DEF IsWindow

(* A call begins with nothing converted.                                   *)
LEMMA CallsText == \A j : IsJob(j) /\ Calls(j) => TextInv
<1> SUFFICES ASSUME NEW j, IsJob(j), Calls(j) PROVE TextInv
  OBVIOUS
<1>1. /\ op = j.op /\ in = Call(j).in /\ ends = j.ends /\ seg = 1 /\ fed = Call(j).fed
      /\ buf = Call(j).buf /\ cur = 0 /\ eof = (j.op # "json")
      /\ out = <<>> /\ phase = "convert"
  BY DEF Calls
<1>2. in \in Seq(Units)
  BY CallsInv DEF UtfInv, UtfTypeOK, Units
<1>3. EncodedUpTo(in, <<>>, 0) /\ Kept(in, <<>>, 0)
  BY <1>2, EncodedNothing, KeptNothing
<1>4. CASE j.op = "json"
  <2>1. Call(j) = [in |-> j.str, fed |-> 0, buf |-> <<>>, cap |-> Len(j.str)]
    BY <1>4 DEF Call
  <2>2. in = j.str /\ fed = 0 /\ buf = <<>>
    BY <1>1, <2>1
  <2>3. ~eof
    BY <1>1, <1>4, Zenon
  <2>4. ends # <<>> /\ ends[Len(ends)] = Len(in)
    BY <1>1, <1>4, <2>2 DEF IsJob
  <2>5. IsWindow(buf, in, Base)
    BY <1>2, <2>2, Windows DEF Base
  <2>6. Base + cur = 0
    <3>1. Len(buf) = 0 /\ fed = 0 /\ cur = 0
      BY <1>1, <2>2
    <3> QED
      BY ONLY <3>1 DEF Base
  <2>7. \A k \in 1 .. Len(ends) : ~(k < seg)
    BY <1>1
  <2> QED
    BY <1>1, <1>3, <1>4, <2>2, <2>3, <2>4, <2>5, <2>6, <2>7 DEF TextInv
<1>5. CASE j.op # "json"
  <2>1. Call(j).fed = Len(Call(j).in) /\ Call(j).buf = Call(j).in
    BY <1>5 DEF Call
  <2>2. buf = in /\ fed = Len(in)
    BY <1>1, <2>1
  <2>3. IsWindow(buf, in, Base)
    BY <1>2, <2>2, Windows DEF Base
  <2>4. Base + cur = 0
    BY <1>1, <1>2, <2>2 DEF Base
  <2> QED
    BY <1>1, <1>3, <1>5, <2>2, <2>3, <2>4 DEF TextInv
<1> QED
  BY <1>4, <1>5

LEMMA InitText == UtfInit => TextInv
BY CallsText, UtfAssumption DEF UtfInit

(* One round of java_utf16_to_utf8_checked.                                *)
LEMMA EncodeText == ASSUME UtfInv, TextInv, Encode PROVE TextInv'
<1>1. /\ phase = "convert" /\ op = "toUtf8" /\ cur < Len(buf)
      /\ out' = out \o WriteUtf8(NextUtf16(buf, cur).cp) /\ cur' = NextUtf16(buf, cur).next
      /\ UNCHANGED <<op, in, ends, seg, fed, buf, eof, phase>>
  BY DEF Encode
<1>2. in \in Seq(Units)
  BY DEF UtfInv, UtfTypeOK, Units
<1>3. buf = in /\ EncodedUpTo(in, out, cur)
  BY <1>1 DEF TextInv
<1>4. EncodedUpTo(in, out', cur')
  BY <1>1, <1>2, <1>3, EncodedNext
<1> QED
  BY <1>1, <1>4 DEF TextInv, Base

(* One round of the loops that convert UTF-8.                              *)
LEMMA DecodeText == ASSUME UtfInv, TextInv, Decode PROVE TextInv'
<1> DEFINE d == NextUtf8(buf, cur)
<1>1. /\ phase = "convert" /\ op # "toUtf8" /\ cur' = d.next
      /\ UNCHANGED <<op, in, ends, seg, fed, buf, eof, cap>>
  BY DEF Decode
<1>2. /\ in \in Seq(Units) /\ buf \in Seq(Units) /\ out \in Seq(Units) /\ cur \in Nat
      /\ fed \in Nat /\ Len(buf) \in Nat /\ Len(in) \in Nat
  BY DEF UtfInv, UtfTypeOK, Units
<1>3. cur < Len(buf) /\ (cur + 4 <= Len(buf) \/ eof)
  BY <1>2 DEF Decode, Left, NeedsMore
<1>4. IsWindow(buf, in, Base) /\ Base \in Nat /\ (eof => Base + Len(buf) = Len(in))
  BY <1>2 DEF TextInv, IsWindow, Base
<1>5. out' = out \o WriteUtf16(d.cp) /\ phase' = phase
  <2>1. phase' # "short"
    BY DecodeInv DEF UtfInv, BuffersRespected
  <2> QED
    BY <2>1 DEF Decode
<1>6. Reads(buf, cur, d.cp, d.next)
  BY <1>2, <1>3, NextUtf8Reads
<1> HIDE DEF d
<1>7. Reads(in, Base + cur, d.cp, Base + d.next)
  BY <1>2, <1>3, <1>4, <1>6, WindowReads
<1>8. Kept(in, out, Base + cur)
  BY <1>1 DEF TextInv
<1>9. Base + cur < Len(in)
  <2>1. Base + Len(buf) <= Len(in)
    BY <1>4 DEF IsWindow
  <2> HIDE DEF Base
  <2> QED
    BY <1>2, <1>3, <1>4, <2>1
<1>10. Kept(in, out \o WriteUtf16(d.cp), Base + d.next)
  BY <1>2, <1>7, <1>8, <1>9, KeptNext
<1>11. Base' = Base
  BY <1>1 DEF Base
<1>12. Kept(in', out', Base' + cur')
  BY <1>1, <1>5, <1>10, <1>11
<1> QED
  BY <1>1, <1>5, <1>11, <1>12 DEF TextInv

(* What is left in the window moves to the front.                          *)
LEMMA RefillText == ASSUME UtfInv, TextInv, Refill PROVE TextInv'
<1>1. /\ phase = "convert" /\ ~eof /\ buf' = SubSeq(buf, cur + 1, Len(buf)) /\ cur' = 0 /\ phase' = "read"
      /\ UNCHANGED <<op, in, ends, seg, fed, eof, out, cap>>
  BY DEF Refill, NeedsMore
<1>2. /\ in \in Seq(Units) /\ buf \in Seq(Units) /\ cur \in Nat /\ cur <= Len(buf) /\ fed \in Nat
      /\ Len(buf) \in Nat
  BY DEF UtfInv, UtfTypeOK, Units, BuffersRespected
<1>3. op = "json"
  BY <1>1 DEF UtfInv
<1>4. Len(buf') = Len(buf) - cur /\ \A i \in 1 .. Len(buf) - cur : buf'[i] = buf[cur + i]
  BY <1>1, <1>2
<1>5. Base' = Base + cur /\ Base' + cur' = Base + cur
  <2> DEFINE lb == Len(buf)
  <2>1. Base' = fed - (lb - cur) /\ Base = fed - lb
    BY <1>1, <1>4 DEF Base
  <2>2. lb \in Nat
    BY <1>2
  <2> HIDE DEF lb
  <2> QED
    BY <1>1, <1>2, <2>1, <2>2
<1>6. IsWindow(buf', in, Base + cur)
  <2>1. Base \in Nat /\ Base + Len(buf) <= Len(in)
    BY DEF TextInv, IsWindow
  <2> DEFINE n == Len(buf) - cur
  <2>2. Base + cur \in Nat /\ (Base + cur) + n <= Len(in)
    <3> HIDE DEF Base
    <3> QED
      BY <1>2, <2>1
  <2>3. \A i \in 1 .. n : buf'[i] = in[(Base + cur) + i]
    <3> TAKE i \in 1 .. n
    <3>1. cur + i \in 1 .. Len(buf)
      BY <1>2
    <3>2. buf[cur + i] = in[Base + (cur + i)]
      BY <3>1 DEF TextInv, IsWindow
    <3>3. Base + (cur + i) = (Base + cur) + i
      <4> HIDE DEF Base
      <4> QED
        BY <1>2, <2>1
    <3> QED
      BY <1>4, <3>2, <3>3
  <2> QED
    BY <1>4, <2>2, <2>3 DEF IsWindow
<1>7. Kept(in, out, Base' + cur')
  BY <1>1, <1>3, <1>5 DEF TextInv
<1>8. IsWindow(buf', in', Base')
  BY <1>1, <1>5, <1>6
<1> QED
  BY <1>1, <1>3, <1>7, <1>8 DEF TextInv

(* json_it_read appends to the window what follows it in the text.         *)
LEMMA ReadSegmentText == ASSUME UtfInv, TextInv, ReadSegment PROVE TextInv'
<1>1. /\ buf \in Seq(Units) /\ Len(buf) \in Nat /\ in \in Seq(Units) /\ Len(in) \in Nat
      /\ fed \in Nat /\ fed <= Len(in) /\ seg \in Nat /\ seg >= 1
      /\ phase = "read" /\ op = "json" /\ seg \in 1 .. Len(ends) /\ Len(buf) < Window /\ cur = 0
      /\ Window \in Nat /\ ends \in Seq(Nat)
      /\ UNCHANGED <<op, in, ends, cur, eof, out, cap, phase>>
  BY UtfAssumption DEF UtfInv, UtfTypeOK, ReadSegment, Units
<1>2. ends[seg] \in Nat /\ ends[seg] <= Len(in)
  BY <1>1 DEF UtfInv
<1>3. Base \in Nat /\ Base + Len(buf) = fed
  BY <1>1 DEF TextInv, IsWindow, Base
<1>4. CASE ends[seg] <= fed /\ seg' = seg + 1 /\ UNCHANGED <<fed, buf>>
  <2>1. \A k \in 1 .. Len(ends) : k < seg' => ends[k] <= fed
    <3> SUFFICES ASSUME NEW k \in 1 .. Len(ends), k < seg + 1 PROVE ends[k] <= fed
      BY <1>4
    <3>1. k < seg \/ k = seg
      BY <1>1
    <3> QED
      BY <1>1, <1>4, <3>1 DEF TextInv
  <2>2. Base' = Base
    BY <1>4 DEF Base
  <2> QED
    BY <1>1, <1>4, <2>1, <2>2 DEF TextInv
<1>5. CASE /\ ends[seg] > fed /\ UNCHANGED seg
           /\ LET room == Window - Len(buf)
                  n    == IF ends[seg] - fed < room THEN ends[seg] - fed ELSE room
              IN  /\ buf' = buf \o SubSeq(in, fed + 1, fed + n)
                  /\ fed' = fed + n
  <2> DEFINE lb == Len(buf)  li == Len(in)  e == ends[seg]
             n == IF e - fed < Window - lb THEN e - fed ELSE Window - lb
             u == SubSeq(in, fed + 1, fed + n)
  <2>1. buf' = buf \o u /\ fed' = fed + n /\ seg' = seg /\ e > fed
    BY <1>5
  <2>2. e \in Nat /\ e <= li /\ lb \in Nat /\ li \in Nat /\ lb < Window
    BY <1>1, <1>2
  <2>3. n \in Nat /\ fed + n <= li /\ n >= 1
    <3> HIDE DEF lb, li, e
    <3> QED
      BY <1>1, <2>1, <2>2
  <2> HIDE DEF n
  <2>4. u \in Seq(Units) /\ Len(u) = n /\ \A i \in 1 .. n : u[i] = in[fed + i]
    <3>1. (fed + 1) + n - 1 = fed + n /\ fed + 1 \in Nat /\ fed + 1 >= 1 /\ (fed + 1) + n - 1 <= Len(in)
      BY <1>1, <2>3
    <3> DEFINE f == fed + 1
    <3>a. f \in Nat /\ f >= 1 /\ f + n - 1 <= Len(in)
      BY <3>1
    <3> HIDE DEF f
    <3>2. /\ SubSeq(in, f, f + n - 1) \in Seq(Units) /\ Len(SubSeq(in, f, f + n - 1)) = n
          /\ \A i \in 1 .. n : SubSeq(in, f, f + n - 1)[i] = in[f + i - 1]
      BY <1>1, <2>3, <3>a, PartIs, SMTT(30)
    <3>3. \A i \in 1 .. n : f + i - 1 = fed + i
      BY <1>1, <2>3 DEF f
    <3> QED
      BY <3>1, <3>2, <3>3 DEF f
  <2> HIDE DEF u
  <2>5. /\ Len(buf') = Len(buf) + n
        /\ \A i \in 1 .. Len(buf) : buf'[i] = buf[i]
        /\ \A i \in 1 .. n : buf'[Len(buf) + i] = u[i]
    <3>1. /\ Len(buf \o u) = Len(buf) + Len(u)
          /\ \A i \in 1 .. Len(buf) : (buf \o u)[i] = buf[i]
          /\ \A i \in 1 .. Len(u) : (buf \o u)[Len(buf) + i] = u[i]
      <4>1. buf \in Seq(Units) /\ u \in Seq(Units)
        BY <1>1, <2>4
      <4> QED
        BY ONLY <4>1, JoinIs
    <3> QED
      BY <2>1, <2>4, <3>1, Zenon
  <2>6. Base' = Base
    BY <1>1, <2>1, <2>3, <2>5 DEF Base
  <2>7. IsWindow(buf', in, Base)
    <3>1. Base + Len(buf') <= Len(in)
      <4> HIDE DEF Base
      <4> QED
        BY <1>1, <1>3, <2>3, <2>5
    <3>2. \A i \in 1 .. Len(buf') : buf'[i] = in[Base + i]
      <4> TAKE i \in 1 .. Len(buf')
      <4>1. CASE i <= Len(buf)
        <5>1. i \in 1 .. Len(buf)
          BY <1>1, <2>3, <2>5, <4>1
        <5> QED
          BY <2>5, <5>1 DEF TextInv, IsWindow
      <4>2. CASE i > Len(buf)
        <5> DEFINE k == i - Len(buf)
        <5>1. k \in 1 .. n /\ Len(buf) + k = i
          BY <1>1, <2>3, <2>5, <4>2
        <5>2. fed + k = Base + i
          BY <1>1, <5>1 DEF Base
        <5> HIDE DEF k
        <5>3. buf'[Len(buf) + k] = in[fed + k]
          BY <2>4, <2>5, <5>1
        <5> QED
          BY <5>1, <5>2, <5>3
      <4> QED
        BY <1>1, <2>3, <2>5, <4>1, <4>2
    <3> QED
      BY <1>3, <3>1, <3>2 DEF IsWindow
  <2>8. \A k \in 1 .. Len(ends) : k < seg => ends[k] <= fed'
    <3> SUFFICES ASSUME NEW k \in 1 .. Len(ends), k < seg PROVE ends[k] <= fed'
      OBVIOUS
    <3>1. ends[k] <= fed /\ ends[k] \in Nat
      BY <1>1 DEF TextInv
    <3> QED
      BY <1>1, <2>1, <2>3, <3>1
  <2>9. ~eof
    BY <1>1, <1>2, <2>1 DEF TextInv
  <2>10. IsWindow(buf', in', Base') /\ Kept(in', out', Base' + cur')
    BY <1>1, <2>6, <2>7 DEF TextInv
  <2> QED
    BY <1>1, <2>1, <2>8, <2>9, <2>10 DEF TextInv
<1> QED
  BY <1>4, <1>5 DEF ReadSegment

(* A window that is not full shows the end of the text.                    *)
LEMMA ReadEndsText == ASSUME UtfInv, TextInv, ReadEnds PROVE TextInv'
<1>1. /\ phase = "read" /\ phase' = "convert" /\ op = "json" /\ cur = 0
      /\ UNCHANGED <<op, in, ends, seg, fed, buf, cur, out, cap>>
      /\ eof' = (Len(buf) < Window)
      /\ seg > Len(ends) \/ Len(buf) = Window
  BY DEF ReadEnds, UtfInv
<1>2. /\ ends \in Seq(Nat) /\ seg \in Nat /\ fed \in Nat /\ fed <= Len(in) /\ Len(in) \in Nat
      /\ Len(buf) \in Nat /\ Window \in Nat
  BY UtfAssumption DEF UtfInv, UtfTypeOK
<1>3. ASSUME eof' PROVE fed = Len(in)
  <2>1. Len(buf) < Window
    BY <1>1, <1>3
  <2>2. seg > Len(ends)
    BY <1>1, <1>2, <2>1
  <2>3. ends # <<>> /\ ends[Len(ends)] = Len(in)
    BY <1>1 DEF TextInv
  <2>4. Len(ends) \in 1 .. Len(ends) /\ Len(ends) < seg
    BY <1>2, <2>2, <2>3
  <2>5. Len(in) <= fed
    BY <1>1, <2>3, <2>4 DEF TextInv
  <2> QED
    BY <1>2, <2>5
<1>4. Base' = Base
  BY <1>1 DEF Base
<1> QED
  BY <1>1, <1>3, <1>4 DEF TextInv

(* The end: the cursor has come to the end of the window and of the text.  *)
LEMMA EndsText ==
  ASSUME UtfInv, TextInv, ConvertFails \/ ConvertEnds
  PROVE  TextInv'
<1>1. PICK p \in {"done", "failed"} : Ends(p) /\ (p = "done" => Left = 0 /\ eof)
  BY DEF ConvertFails, ConvertEnds
<1>2. phase' = p /\ UNCHANGED <<op, in, ends, seg, fed, buf, cur, eof, out, cap>>
  BY <1>1 DEF Ends
<1>3. phase = "convert"
  BY DEF ConvertFails, ConvertEnds
<1>4. p = "done" => cur = Len(buf) /\ eof
  <2>1. cur \in Nat /\ Len(buf) \in Nat
    BY DEF UtfInv, UtfTypeOK
  <2> QED
    BY <1>1, <2>1 DEF Left
<1>5. Base' = Base
  BY <1>2 DEF Base
<1> QED
  BY <1>2, <1>3, <1>4, <1>5 DEF TextInv

(* TextInv is inductive.                                                   *)
LEMMA StepText == ASSUME UtfInv, TextInv, [UtfStep]_utfVars PROVE TextInv'
<1>1. CASE UNCHANGED utfVars
  BY <1>1 DEF utfVars, TextInv, Base
<1> QED
  BY <1>1, EncodeText, DecodeText, RefillText, ReadSegmentText, ReadEndsText, EndsText DEF UtfStep

(* What the invariant says of a conversion that has ended.                 *)
LEMMA TextEncoded == UtfInv /\ TextInv => EncodesExactly
<1> SUFFICES ASSUME UtfInv, TextInv, phase = "done", op = "toUtf8" PROVE out = Utf8Of(in)
  BY DEF EncodesExactly
<1>1. in \in Seq(Units)
  BY DEF UtfInv, UtfTypeOK, Units
<1>2. buf = in /\ cur = Len(buf) /\ EncodedUpTo(in, out, cur)
  BY DEF TextInv
<1> QED
  BY <1>1, <1>2, EncodedAll

LEMMA TextKept == UtfInv /\ TextInv => KeepsCharacters
<1> SUFFICES ASSUME UtfInv, TextInv, phase = "done", op # "toUtf8"
             PROVE  /\ Without(REPL, out) = FoldedOf(in)
                    /\ Has(REPL, out) <=> \E i \in 1 .. Len(in) : ~Covered(in, i)
  BY DEF KeepsCharacters, Has
<1>1. in \in Seq(Units) /\ buf \in Seq(Units)
  BY DEF UtfInv, UtfTypeOK, Units
<1>2. cur = Len(buf) /\ fed = Len(in) /\ Kept(in, out, Base + cur)
  BY DEF TextInv
<1>3. Base + cur = Len(in)
  BY <1>1, <1>2 DEF Base
<1> QED
  BY <1>1, <1>2, <1>3, KeptAll

(* No conversion of utf16_utf8.c reads or writes outside its buffers, and  *)
(* the check for an output that is too short never fires.                  *)
THEOREM ConversionsRespectBuffers == UtfSpec => []BuffersRespected
<1>1. UtfInv => BuffersRespected
  BY DEF UtfInv
<1> QED
  BY InitInv, StepInv, <1>1, PTL DEF UtfSpec

(* The variables of a conversion have their types.                         *)
THEOREM ConversionsTyped == UtfSpec => []UtfTypeOK
<1>1. UtfInv => UtfTypeOK
  BY DEF UtfInv
<1> QED
  BY InitInv, StepInv, <1>1, PTL DEF UtfSpec

(* Every string is converted to its UTF-8, with U+FFFD for each unpaired   *)
(* surrogate, those a length limit has cut off from their pair included.   *)
THEOREM ConversionsEncodeExactly == UtfSpec => []EncodesExactly
  BY InitInv, InitText, StepInv, StepText, TextEncoded, PTL DEF UtfSpec

(* Every well-formed character of a UTF-8 text arrives, in order and once, *)
(* wherever segments and windows cut it; what is malformed swallows none   *)
(* and leaves U+FFFD.                                                      *)
THEOREM ConversionsKeepCharacters == UtfSpec => []KeepsCharacters
  BY InitInv, InitText, StepInv, StepText, TextKept, PTL DEF UtfSpec

=============================================================================
