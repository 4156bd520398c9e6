-------------------------------- MODULE Base64 --------------------------------
(***************************************************************************)
(* base64.c: base64_encode into a buffer of base64_capacity bytes.  Blocks *)
(* of six bytes are encoded from loads of eight, the rest byte by byte,    *)
(* and the trailer pads the text.                                          *)
(***************************************************************************)
EXTENDS Integers, Sequences

CONSTANT Data   (* the bytes to encode: a prefix of these                  *)

(* The greatest byte.                                                      *)
MaxByte == 255

ASSUME Base64Assumption == Data \in Seq(0 .. MaxByte)

VARIABLES
  bphase,   (* "idle", "blocks", "rounds", "bytes", "done"                 *)
  srclen,   (* the number of bytes to encode                               *)
  pos,      (* those encoded                                               *)
  rounds,   (* rounds of enc_loop_generic_64 still to do                   *)
  bytes,    (* base64_state.bytes                                          *)
  carry,    (* base64_state.carry                                          *)
  b64       (* the encoded text                                            *)

base64Vars == <<bphase, srclen, pos, rounds, bytes, carry, b64>>

Base64Idle ==
  /\ bphase = "idle" /\ srclen = 0 /\ pos = 0 /\ rounds = 0 /\ bytes = 0
  /\ carry = 0 /\ b64 = <<>>

(* base64_encode is called.                                                *)
Base64Call(n) ==
  /\ bphase = "idle"
  /\ bphase' = "blocks" /\ srclen' = n
  /\ UNCHANGED <<pos, rounds, bytes, carry, b64>>

-----------------------------------------------------------------------------
Source(i) == Data[i + 1]

(* base64_capacity.                                                        *)
Capacity(n) == ((((4 * n) \div 3) + 3) \div 4) * 4

(* base64_table_enc_6bit and base64_table_enc_12bit.                       *)
Table6(n) ==
  IF n < 26 THEN 65 + n ELSE IF n < 52 THEN 71 + n ELSE IF n < 62 THEN n - 4
  ELSE IF n = 62 THEN 43 ELSE 47

Table12(n) == <<Table6(n \div 64), Table6(n % 64)>>

(* enc_loop_generic_64_inner: 6 of the 8 bytes loaded at p.                *)
Block(p) ==
  LET even(k) == Source(p + k) * 16 + Source(p + k + 1) \div 16
      odd(k)  == (Source(p + k) % 16) * 256 + Source(p + k + 1)
  IN  Table12(even(0)) \o Table12(odd(1)) \o Table12(even(3)) \o Table12(odd(4))

(* Mutant: as many rounds as there are blocks of 6 bytes.                  *)
BlocksAll ==
  /\ bphase = "blocks"
  /\ rounds' = IF srclen - pos < 8 THEN 0 ELSE (srclen - pos) \div 6
  /\ bphase' = IF rounds' > 0 THEN "rounds" ELSE "bytes"
  /\ UNCHANGED <<srclen, pos, bytes, carry, b64>>

(* enc_loop_generic_64: whole blocks, as long as 8 bytes can be loaded.    *)
Blocks ==
  /\ bphase = "blocks"
  /\ rounds' = IF srclen - pos < 8 THEN 0 ELSE (srclen - pos - 2) \div 6
  /\ bphase' = IF rounds' > 0 THEN "rounds" ELSE "bytes"
  /\ UNCHANGED <<srclen, pos, bytes, carry, b64>>

(* Its loop, which the code unrolls 8, 4 and 2 times.                      *)
Rounds ==
  /\ bphase = "rounds" /\ rounds > 0
  /\ b64' = b64 \o Block(pos)
  /\ pos' = pos + 6
  /\ rounds' = rounds - 1
  /\ UNCHANGED <<bphase, srclen, bytes, carry>>

RoundsEnd ==
  /\ bphase = "rounds" /\ rounds = 0
  /\ bphase' = "bytes"
  /\ UNCHANGED <<srclen, pos, rounds, bytes, carry, b64>>

(* base64_stream_encode_plain: case `bytes' of the switch.                 *)
Byte ==
  /\ bphase = "bytes" /\ pos < srclen
  /\ LET c == Source(pos)
     IN  \/ /\ bytes = 0
            /\ b64' = Append(b64, Table6(c \div 4))
            /\ carry' = (c % 4) * 16 /\ bytes' = 1 /\ UNCHANGED bphase
         \/ /\ bytes = 1
            /\ b64' = Append(b64, Table6(carry + c \div 16))
            /\ carry' = (c % 16) * 4 /\ bytes' = 2 /\ UNCHANGED bphase
         \/ /\ bytes = 2
            /\ b64' = b64 \o <<Table6(carry + c \div 64), Table6(c % 64)>>
            /\ bytes' = 0 /\ bphase' = "blocks" /\ UNCHANGED carry
  /\ pos' = pos + 1
  /\ UNCHANGED <<srclen, rounds>>

(* Mutant: the padding is the same for one and for two bytes.              *)
TrailerOne ==
  /\ bphase = "bytes" /\ pos = srclen
  /\ b64' = b64 \o (IF bytes = 0 THEN <<>> ELSE <<Table6(carry), 61>>)
  /\ bphase' = "done"
  /\ UNCHANGED <<srclen, pos, rounds, bytes, carry>>

(* base64_stream_encode_final.                                             *)
Trailer ==
  /\ bphase = "bytes" /\ pos = srclen
  /\ b64' = b64 \o (IF bytes = 1 THEN <<Table6(carry), 61, 61>>
                    ELSE IF bytes = 2 THEN <<Table6(carry), 61>> ELSE <<>>)
  /\ bphase' = "done"
  /\ UNCHANGED <<srclen, pos, rounds, bytes, carry>>

Base64Step == Blocks \/ Rounds \/ RoundsEnd \/ Byte \/ Trailer

-----------------------------------------------------------------------------
(* Every load of base64_encode, eight bytes at a time for the blocks, lies *)
(* within the compressed data, and every store within base64_capacity.     *)
Base64InBounds ==
  /\ bphase = "rounds" /\ rounds > 0 => pos + 6 * (rounds - 1) + 8 <= srclen
  /\ pos <= srclen
  /\ Len(b64) <= Capacity(srclen)

(* Six bits from bit 6 * i of the first n bytes of the data, and what      *)
(* moves them to the end of the two bytes that have them.                  *)
Shift(i) == <<1024, 16, 64, 256>>[1 + (i % 4)]

SixBits(i, n) ==
  LET k   == (6 * i) \div 8
      two == Source(k) * 256 + (IF k + 1 < n THEN Source(k + 1) ELSE 0)
  IN  (two \div Shift(i)) % 64

(* The encoded text is the data, six bits to a character, padded to a      *)
(* multiple of four: the blocks, the single bytes and the trailer meet     *)
(* without a gap, whatever the length.                                     *)
Base64Exact ==
  bphase = "done" =>
    b64 = [i \in 1 .. 4 * ((srclen + 2) \div 3) |->
             IF 6 * (i - 1) < 8 * srclen THEN Table6(SixBits(i - 1, srclen)) ELSE 61]

=============================================================================
