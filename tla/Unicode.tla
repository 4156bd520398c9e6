------------------------------ MODULE Unicode ------------------------------
(***************************************************************************)
(* What the conversions of Utf must produce, by the definitions of the     *)
(* Unicode standard.  Both encodings are self-synchronizing: whether a     *)
(* character starts at a place shows there, without reading what is before *)
(* it, so that a text is the sequence of the characters that start at its  *)
(* places.                                                                 *)
(***************************************************************************)
EXTENDS Utf, SequencesExt

(* UTF-8 and UTF-16 of a code point.                                       *)
Utf8Form(k) ==
  LET trail(d) == 128 + ((k \div d) % 64)
  IN  IF k < 128 THEN <<k>>
      ELSE IF k < 2048 THEN <<192 + k \div 64, trail(1)>>
      ELSE IF k < 65536 THEN <<224 + k \div 4096, trail(64), trail(1)>>
      ELSE <<240 + k \div 262144, trail(4096), trail(64), trail(1)>>

Utf16Form(k) ==
  IF k < 65536 THEN <<k>>
  ELSE <<55296 + (k - 65536) \div 1024, 56320 + ((k - 65536) % 1024)>>

(* The surrogates.                                                         *)
High == 55296 .. 56319
Low  == 56320 .. 57343

-----------------------------------------------------------------------------
(* Units i and i + 1 of a UTF-16 text are a pair.                          *)
Pair(s, i) == i \in 1 .. Len(s) - 1 /\ s[i] \in High /\ s[i + 1] \in Low

(* The code point of unit i, U+FFFD if it is a surrogate without its pair. *)
CodePoint(s, i) ==
  IF Pair(s, i) THEN 65536 + (s[i] - 55296) * 1024 + (s[i + 1] - 56320)
  ELSE IF s[i] \in High \cup Low THEN REPL ELSE s[i]

(* The UTF-8 of a UTF-16 text, and what unit i adds to it.                 *)
Utf8Piece(s, i) == IF Pair(s, i - 1) THEN <<>> ELSE Utf8Form(CodePoint(s, i))

Utf8Of(s) == FlattenSeq([i \in 1 .. Len(s) |-> Utf8Piece(s, i)])

-----------------------------------------------------------------------------
(* The code point whose UTF-8 form starts at byte i, Bad if there is none. *)
Bad == -1

Width(c) == IF c < 128 THEN 1 ELSE IF c < 224 THEN 2 ELSE IF c < 240 THEN 3 ELSE 4

Bits(s, i) ==
  LET low(j) == s[i + j] % 64
  IN  CASE Width(s[i]) = 1 -> s[i]
        [] Width(s[i]) = 2 -> (s[i] % 32) * 64 + low(1)
        [] Width(s[i]) = 3 -> (s[i] % 16) * 4096 + low(1) * 64 + low(2)
        [] Width(s[i]) = 4 -> (s[i] % 8) * 262144 + low(1) * 4096 + low(2) * 64 + low(3)

IsScalar(k) == k \notin High \cup Low /\ k <= 1114111

CharAt(s, i) ==
  IF /\ i + Width(s[i]) - 1 <= Len(s)
     /\ SubSeq(s, i, i + Width(s[i]) - 1) = Utf8Form(Bits(s, i))
     /\ IsScalar(Bits(s, i))
  THEN Bits(s, i) ELSE Bad

(* A character other than U+FFFD starts at byte i; byte i is part of one.  *)
Starts(s, i) == i \in 1 .. Len(s) /\ CharAt(s, i) \notin {Bad, REPL}

Covered(s, i) == \E j \in 0 .. 3 : Starts(s, i - j) /\ j < Width(s[i - j])

(* The UTF-16 of a UTF-8 text without what is malformed and U+FFFD.        *)
Utf16Of(s) ==
  FlattenSeq([i \in 1 .. Len(s) |-> IF Starts(s, i) THEN Utf16Form(CharAt(s, i)) ELSE <<>>])

(* What is left of a code point when its plane is lost: above U+1FFFF the  *)
(* code writes the surrogates of the same code in plane 1.                 *)
Folded(k) == IF k < 131072 THEN k ELSE 65536 + (k % 65536)

FoldedPiece(s, i) == IF Starts(s, i) THEN Utf16Form(Folded(CharAt(s, i))) ELSE <<>>

FoldedOf(s) == FlattenSeq([i \in 1 .. Len(s) |-> FoldedPiece(s, i)])

(* A text without one of its units.                                        *)
Without(c, s) == FlattenSeq([i \in 1 .. Len(s) |-> IF s[i] = c THEN <<>> ELSE <<s[i]>>])

-----------------------------------------------------------------------------
(* UTF-16 to UTF-8: exact, with U+FFFD for each unpaired surrogate, those  *)
(* a length limit has cut off from their pair included.                    *)
EncodesExactly == phase = "done" /\ op = "toUtf8" => out = Utf8Of(in)

(* UTF-8 to UTF-16, whole or through the window: every well-formed         *)
(* character arrives, in order and once, wherever segments and windows cut *)
(* it, exactly up to U+1FFFF and in plane 1 above; what is malformed       *)
(* swallows none of them and leaves at least one U+FFFD behind.            *)
KeepsCharacters ==
  phase = "done" /\ op # "toUtf8" =>
    /\ Without(REPL, out) = FoldedOf(in)
    /\ (\E i \in 1 .. Len(out) : out[i] = REPL) <=> (\E i \in 1 .. Len(in) : ~Covered(in, i))

(* The same without the exception: the surrogates of every code point are  *)
(* those UTF-16 defines, "high 10 bits excl over bit 20" and "low 10 bits" *)
(* as the comments of _write_utf16_codeunits say.  The code violates it.   *)
SupplementaryExact ==
  phase = "done" /\ op # "toUtf8" => Without(REPL, out) = Utf16Of(in)

=============================================================================
