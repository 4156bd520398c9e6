--------------------------------- MODULE Utf ---------------------------------
(***************************************************************************)
(* utf16_utf8.c: Java strings to UTF-8 and UTF-8 to Java strings, each in  *)
(* a buffer whose size was guessed from the input, and the same from a     *)
(* list of JSON segments (json.h) through a small window.                  *)
(*                                                                         *)
(* A job is one call.  Code units are numbers.  The UTF-8 of a JSON text   *)
(* is `in', cut into segments that end at ends[1], ends[2], ...; segments  *)
(* may be empty and cut a character in two.  A whole string is converted   *)
(* from a window that holds all of it.                                     *)
(***************************************************************************)
EXTENDS Integers, Sequences

CONSTANTS
  Jobs,      (* the calls: op, str, max (a limit, or negative) and ends    *)
  Window,    (* sizeof(buffer) in java_json_to_jstring_checked             *)
  MaxUnits   (* INT_MAX, the longest string of NewString                   *)

(* The greatest code unit.                                                 *)
MaxUnit == 65535

Ops == {"toUtf8", "toUtf16", "json"}

IsJob(j) ==
  /\ j.op \in Ops
  /\ j.str \in Seq(0 .. MaxUnit)
  /\ j.op # "toUtf8" => j.str \in Seq(0 .. 255)
  /\ j.max \in Int
  /\ j.ends \in Seq(0 .. Len(j.str))
  /\ j.op = "json" => j.ends # <<>> /\ j.ends[Len(j.ends)] = Len(j.str)

ASSUME UtfAssumption ==
  /\ Window \in Nat /\ Window >= 6
  /\ MaxUnits \in Nat
  /\ \A j \in Jobs : IsJob(j)

VARIABLES
  op,     (* which of the three functions runs                             *)
  in,     (* its input                                                     *)
  ends,   (* ends of the segments of a JSON text                           *)
  seg,    (* json_iterator: the segment ...                                *)
  fed,    (* ... and the position in the text                              *)
  buf,    (* the window on the input                                       *)
  cur,    (* units of the window that are converted                        *)
  eof,    (* no more input after the window                                *)
  out,    (* the output so far                                             *)
  cap,    (* units allocated for it, the terminator not counted            *)
  phase   (* "idle", "convert", "read" (in json_it_read), "done", "short"  *)
          (* (output string is unexpectedly too short), "failed" (throws)  *)

utfVars == <<op, in, ends, seg, fed, buf, cur, eof, out, cap, phase>>

-----------------------------------------------------------------------------
REPL == 65533                                                      \* REPL_CHAR

Utf16Lead(c)  == c >= 55296 /\ c <= 56319
Utf16Trail(c) == c >= 56320 /\ c <= 57343
Utf8Lead(c)   == c < 128 \/ (c >= 194 /\ c <= 244)
Utf8Trail(c)  == c >= 128 /\ c <= 191

Decoded(cp, next) == [cp |-> cp, next |-> next]

(* Mutant: the unit after a lone leading surrogate is skipped with it.     *)
NextUtf16Greedy(str, pos) ==
  LET c  == str[pos + 1]
      c2 == str[pos + 2]
  IN  IF ~Utf16Lead(c) THEN Decoded(IF Utf16Trail(c) THEN REPL ELSE c, pos + 1)
      ELSE IF pos + 2 <= Len(str)
      THEN Decoded(IF Utf16Trail(c2) THEN 65536 + (c - 55296) * 1024 + (c2 - 56320)
                                     ELSE REPL, pos + 2)
      ELSE Decoded(REPL, pos + 1)

(* _get_next_codepoint_utf16: the code point behind the first pos units,   *)
(* REPL for an unpaired surrogate, and the units then passed.              *)
NextUtf16(str, pos) ==
  LET c  == str[pos + 1]
      c2 == str[pos + 2]
  IN  IF ~Utf16Lead(c) THEN Decoded(IF Utf16Trail(c) THEN REPL ELSE c, pos + 1)
      ELSE IF pos + 2 <= Len(str) /\ Utf16Trail(c2)
      THEN Decoded(65536 + (c - 55296) * 1024 + (c2 - 56320), pos + 2)
      ELSE Decoded(REPL, pos + 1)

(* The number of bytes a leading byte announces, 0 if it is not one.       *)
Announced(c) ==
  IF c < 128 THEN 1 ELSE IF c < 194 THEN 0 ELSE IF c < 224 THEN 2
  ELSE IF c < 240 THEN 3 ELSE IF c < 245 THEN 4 ELSE 0

(* Mutant: an illegal sequence is as long as announced.                    *)
IllegalLengthBeyond(str, pos, n) == IF n = 0 THEN 1 ELSE n

(* Mutant: the byte that does not belong to it is not passed over.         *)
IllegalLengthZero(str, pos, n) == 0

(* The length reported for an illegal sequence of n announced bytes: it    *)
(* ends before the input does and before any byte that may start another   *)
(* character.                                                              *)
IllegalLength(str, pos, n) ==
  LET stops(i) == pos + i >= Len(str) \/ Utf8Lead(str[pos + 1 + i])
  IN  IF n > 1 /\ stops(1) THEN 1
      ELSE IF n > 2 /\ stops(2) THEN 2
      ELSE IF n > 3 /\ stops(3) THEN 3
      ELSE IF n = 0 THEN 1 ELSE n

(* The value of n bytes, of which the first announces the others.          *)
ValueOf(str, pos, n) ==
  LET b(i) == str[pos + 1 + i] % 64
      c    == str[pos + 1]
  IN  IF n = 1 THEN c
      ELSE IF n = 2 THEN (c % 32) * 64 + b(1)
      ELSE IF n = 3 THEN (c % 16) * 4096 + b(1) * 64 + b(2)
      ELSE (c % 8) * 262144 + b(1) * 4096 + b(2) * 64 + b(3)

(* Neither a longer form than needed, nor a surrogate, nor out of range.   *)
LegalValue(k, n) ==
  /\ n = 2 => k >= 128
  /\ n = 3 => k >= 2048 /\ ~Utf16Lead(k) /\ ~Utf16Trail(k)
  /\ n = 4 => k >= 65536 /\ k <= 1114111

(* _get_next_codepoint_utf8.                                               *)
NextUtf8(str, pos) ==
  LET n == Announced(str[pos + 1])
      k == ValueOf(str, pos, n)
  IN  IF /\ n > 0 /\ pos + n <= Len(str)
         /\ \A i \in 1 .. n - 1 : Utf8Trail(str[pos + 1 + i])
      THEN Decoded(IF LegalValue(k, n) THEN k ELSE REPL, pos + n)
      ELSE Decoded(REPL, pos + IllegalLength(str, pos, n))

(* Six bits of a code point, from the one worth d.                         *)
Six(k, d) == (k \div d) % 64

(* _write_utf8_codeunits.                                                  *)
WriteUtf8(k) ==
  IF k < 128 THEN <<k>>
  ELSE IF k < 2048 THEN <<192 + (k \div 64), 128 + Six(k, 1)>>
  ELSE IF k < 65536 THEN <<224 + (k \div 4096), 128 + Six(k, 64), 128 + Six(k, 1)>>
  ELSE <<240 + (k \div 262144), 128 + Six(k, 4096), 128 + Six(k, 64), 128 + Six(k, 1)>>

(* _write_utf16_codeunits.  The bits above the sixteenth are masked, where *)
(* UTF-16 subtracts 65536 from the code point.                             *)
WriteUtf16(k) ==
  IF k < 65536 THEN <<k>>
  ELSE <<55296 + ((k % 65536) \div 1024), 56320 + (k % 1024)>>

-----------------------------------------------------------------------------
(* java_to_utf8_limited_checked: the region of the string that is taken.   *)
Region(str, max) ==
  IF max < 0 \/ Len(str) <= max THEN str ELSE SubSeq(str, 1, max)

(* A call begins: malloc of a guess, an optimistic one for UTF-8.          *)
Call(j) ==
  LET s == IF j.op = "toUtf8" THEN Region(j.str, j.max) ELSE j.str
  IN  [in |-> s, fed |-> IF j.op = "json" THEN 0 ELSE Len(s),
       buf |-> IF j.op = "json" THEN <<>> ELSE s,
       cap |-> IF j.op = "toUtf8" THEN Len(s) + 3 ELSE Len(s)]

Calls(j) ==
  /\ op = j.op /\ in = Call(j).in /\ ends = j.ends /\ seg = 1 /\ fed = Call(j).fed
  /\ buf = Call(j).buf /\ cur = 0 /\ eof = (j.op # "json")
  /\ out = <<>> /\ cap = Call(j).cap /\ phase = "convert"

UtfInit == \E j \in Jobs : Calls(j)

Ends(p) == /\ phase' = p
           /\ UNCHANGED <<op, in, ends, seg, fed, buf, cur, eof, out, cap>>

(* The string's characters cannot be had, or malloc fails, at the start or *)
(* when the output has to grow: the buffer is freed and the call throws.   *)
ConvertFails ==
  /\ phase = "convert"
  /\ (cur = 0 /\ out = <<>>) \/ (op = "toUtf8" /\ cur < Len(buf) /\ cap - Len(out) < 4)
  /\ Ends("failed")

(* java_utf16_to_utf8_checked: one round of its loop.                      *)
Encode ==
  /\ phase = "convert" /\ op = "toUtf8"
  /\ cur < Len(buf)
  /\ LET d == NextUtf16(buf, cur)
     IN  /\ cap' = IF cap - Len(out) < 4 THEN 2 * cap ELSE cap
         /\ out' = out \o WriteUtf8(d.cp)
         /\ cur' = d.next
  /\ UNCHANGED <<op, in, ends, seg, fed, buf, eof, phase>>

Left == Len(buf) - cur

(* Mutant: three bytes in the window will do.                              *)
NeedsMoreLate == ~eof /\ Left < 3

(* Fewer than 4 bytes in the window may be a character cut in two.         *)
NeedsMore == ~eof /\ Left < 4

(* java_json_to_jstring_checked: what is left moves to the front ...       *)
Refill ==
  /\ phase = "convert" /\ NeedsMore
  /\ buf' = SubSeq(buf, cur + 1, Len(buf))
  /\ cur' = 0
  /\ phase' = "read"
  /\ UNCHANGED <<op, in, ends, seg, fed, eof, out, cap>>

(* ... and json_it_read fills the rest, segment after segment.             *)
ReadSegment ==
  /\ phase = "read"
  /\ seg <= Len(ends) /\ Len(buf) < Window
  /\ \/ /\ ends[seg] <= fed
        /\ seg' = seg + 1
        /\ UNCHANGED <<fed, buf>>
     \/ /\ ends[seg] > fed
        /\ LET room == Window - Len(buf)
               n    == IF ends[seg] - fed < room THEN ends[seg] - fed ELSE room
           IN  /\ buf' = buf \o SubSeq(in, fed + 1, fed + n)
               /\ fed' = fed + n
        /\ UNCHANGED seg
  /\ UNCHANGED <<op, in, ends, cur, eof, out, cap, phase>>

ReadEnds ==
  /\ phase = "read"
  /\ seg > Len(ends) \/ Len(buf) = Window
  /\ eof' = (Len(buf) < Window)
  /\ phase' = "convert"
  /\ UNCHANGED <<op, in, ends, seg, fed, buf, cur, out, cap>>

(* One round of the loop of java_utf8_to_jstring_checked, and of the same  *)
(* loop in java_json_to_jstring_checked.                                   *)
Decode ==
  /\ phase = "convert" /\ op # "toUtf8"
  /\ Left > 0 /\ ~NeedsMore
  /\ LET d == NextUtf8(buf, cur)
     IN  /\ cur' = d.next
         /\ \/ /\ cap < Len(out) + 1 \/ (d.cp > 65535 /\ cap < Len(out) + 2)
               /\ phase' = "short"
               /\ UNCHANGED out
            \/ /\ ~(cap < Len(out) + 1 \/ (d.cp > 65535 /\ cap < Len(out) + 2))
               /\ out' = out \o WriteUtf16(d.cp)
               /\ UNCHANGED phase
  /\ UNCHANGED <<op, in, ends, seg, fed, buf, eof, cap>>

(* The input is converted.  NewString takes no more than INT_MAX units.    *)
ConvertEnds ==
  /\ phase = "convert" /\ Left = 0 /\ eof
  /\ Ends(IF op # "toUtf8" /\ Len(out) > MaxUnits THEN "failed" ELSE "done")

UtfStep ==
  ConvertFails \/ Encode \/ Decode \/ Refill \/ ReadSegment \/ ReadEnds \/ ConvertEnds

UtfSpec == UtfInit /\ [][UtfStep]_utfVars /\ WF_utfVars(UtfStep)

-----------------------------------------------------------------------------
UtfTypeOK ==
  /\ op \in Ops
  /\ in \in Seq(0 .. MaxUnit) /\ buf \in Seq(0 .. MaxUnit) /\ out \in Seq(0 .. MaxUnit)
  /\ ends \in Seq(Nat)
  /\ seg \in Nat \ {0} /\ fed \in Nat /\ cur \in Nat /\ cap \in Nat
  /\ eof \in BOOLEAN
  /\ phase \in {"idle", "convert", "read", "done", "short", "failed"}

(* No read or write leaves its buffer: the cursor stays within the window  *)
(* (beyond it the length left would wrap around), the output within what   *)
(* was allocated, the window within its array, the four bytes that may be  *)
(* moved to the front do not overlap their target (memcpy), and the check  *)
(* for an output that is "unexpectedly too short" never fires.             *)
BuffersRespected ==
  /\ cur <= Len(buf)
  /\ Len(out) <= cap
  /\ op = "json" => Len(buf) <= Window
  /\ phase = "convert" /\ NeedsMore => cur >= Left
  /\ phase # "short"

=============================================================================
