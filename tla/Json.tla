--------------------------------- MODULE Json ---------------------------------
(***************************************************************************)
(* output_convert_json (output.c) and json.h: a ddwaf_object as JSON in a  *)
(* list of segments.                                                       *)
(*                                                                         *)
(* An object is a record with a type; val is its number, boolean or bytes, *)
(* and items its entries (records with a name, for a map).  The recursion  *)
(* of _convert_json is a list of what is still to be written: bytes to     *)
(* copy, bytes to escape, and objects with their depth.  Once a call has   *)
(* returned NULL every later one does, so NULL ends the conversion.        *)
(***************************************************************************)
EXTENDS SequenceSums, FiniteSets, SequencesExt

CONSTANTS
  MinSegment,    (* MIN_JSON_SEGMENT_SIZE                                  *)
  MaxJsonDepth,  (* MAX_JSON_DEPTH                                         *)
  Nodes          (* the ddwaf_objects, those inside others included        *)

ASSUME JsonAssumption == MinSegment \in Nat \ {0} /\ MaxJsonDepth \in Nat

Octets == 0 .. 255

IsNode(o) ==
  /\ o.type \in {"signed", "unsigned", "string", "bool", "array", "map", "float", "null", "invalid"}
  /\ o.type \in {"signed", "unsigned"} => o.val \in Int
  /\ o.type = "string" => o.val \in Seq(Octets)
  /\ o.type \in {"array", "map"} => o.items \in Seq(Nodes)
  /\ o.type = "map" => \A i \in 1 .. Len(o.items) : o.items[i].name \in Seq(Octets)

ASSUME NodesAssumption == \A o \in Nodes : IsNode(o)

VARIABLES
  obj,     (* the object                                                   *)
  todo,    (* what is still to be written                                  *)
  segs,    (* the segments: size and bytes of each                         *)
  jphase   (* "idle", "emit", "json" (done) or "null" (given up)           *)

jsonVars == <<obj, todo, segs, jphase>>

-----------------------------------------------------------------------------
Quote == <<34>>
Comma == <<44>>

(* sprintf of PRId64 and PRIu64, which have at most 20 digits: a number    *)
(* without its last k digits, and the digits of those that are not 0.      *)
Quotients(n) ==
  LET quotient[k \in 0 .. 19] == IF k = 0 THEN n ELSE (quotient[k - 1] \div 10)
  IN  quotient

Digits(n) ==
  LET q == Quotients(n)
      d == 1 + Cardinality({k \in 1 .. 19 : q[k] > 0})
  IN  [i \in 1 .. d |-> 48 + (q[d - i] % 10)]

Decimal(n) == IF n < 0 THEN <<45>> \o Digits(-n) ELSE Digits(n)

HexDigit(n) == IF n < 10 THEN 48 + n ELSE 55 + n

(* _json_encode_str for one byte.                                          *)
Escape(c) ==
  IF c = 34 \/ c = 92 THEN <<92, c>>
  ELSE IF c < 32 THEN <<92, 117, 48, 48, HexDigit(c \div 16), HexDigit(c % 16)>>
  ELSE <<c>>

(* Mutant: control characters are counted as one byte.                     *)
EscapedSizeShort(c) == IF c = 34 \/ c = 92 THEN 2 ELSE 1

(* _json_str_encoded_size for one byte.                                    *)
EscapedSize(c) == IF c = 34 \/ c = 92 THEN 2 ELSE IF c < 32 THEN 6 ELSE 1

Copy(bytes)        == [kind |-> "copy", bytes |-> bytes]
EscapeAll(bytes)   == [kind |-> "escape", bytes |-> bytes]
Convert(o, depth)  == [kind |-> "object", obj |-> o, depth |-> depth]
Quoted(bytes)      == <<Copy(Quote), EscapeAll(bytes)>>

(* Mutant: a comma behind every element.                                   *)
ElementComma(o, i, depth) ==
  LET e   == o.items[i]
      key == IF o.type = "map" THEN Quoted(e.name) \o <<Copy(<<34, 58>>)>> ELSE <<>>
  IN  key \o <<Convert(e, depth + 1), Copy(Comma)>>

(* What an element of a container writes, its name and the comma behind it *)
(* included.                                                               *)
Element(o, i, depth) ==
  LET e     == o.items[i]
      comma == IF i = Len(o.items) THEN <<>> ELSE <<Copy(Comma)>>
      key   == IF o.type = "map" THEN Quoted(e.name) \o <<Copy(<<34, 58>>)>> ELSE <<>>
  IN  key \o <<Convert(e, depth + 1)>> \o comma

(* The switch of _convert_json.  Floats and nulls have no case: they write *)
(* nothing.                                                                *)
Pieces(o, depth) ==
  LET elements == FlattenSeq([i \in 1 .. Len(o.items) |-> Element(o, i, depth)])
  IN  CASE o.type = "signed"   -> <<Copy(Decimal(o.val))>>
        [] o.type = "unsigned" -> <<Copy(Decimal(o.val))>>
        [] o.type = "string"   -> Quoted(o.val) \o <<Copy(Quote)>>
        [] o.type = "bool"     -> <<Copy(IF o.val THEN <<116, 114, 117, 101>>
                                                  ELSE <<102, 97, 108, 115, 101>>)>>
        [] o.type = "array"    -> <<Copy(<<91>>)>> \o elements \o <<Copy(<<93>>)>>
        [] o.type = "map"      -> <<Copy(<<123>>)>> \o elements \o <<Copy(<<125>>)>>
        [] o.type \in {"float", "null"} -> <<>>

(* json_seg_new.                                                           *)
NewSegment(n) == [size |-> IF n < MinSegment THEN MinSegment ELSE n, bytes |-> <<>>]

Room(s) == s.size - Len(s.bytes)

(* _json_seg_ensure for n bytes, and the copy of what is written there.    *)
Appended(n, bytes) ==
  LET ss == IF Room(Last(segs)) >= n THEN segs ELSE Append(segs, NewSegment(n))
  IN  [ss EXCEPT ![Len(ss)].bytes = @ \o bytes]

-----------------------------------------------------------------------------
JsonIdle == obj = <<>> /\ todo = <<>> /\ segs = <<>> /\ jphase = "idle"

(* output_convert_json.                                                    *)
JsonInit(o) ==
  /\ obj = o
  /\ todo = <<Convert(o, 0)>>
  /\ segs = <<NewSegment(0)>>
  /\ jphase = "emit"

EmitObject ==
  /\ jphase = "emit" /\ todo # <<>> /\ Head(todo).kind = "object"
  /\ Head(todo).depth <= MaxJsonDepth /\ Head(todo).obj.type # "invalid"
  /\ todo' = Pieces(Head(todo).obj, Head(todo).depth) \o Tail(todo)
  /\ UNCHANGED <<obj, segs, jphase>>

(* The bytes asked of _json_seg_ensure for a piece, and those written.     *)
SizeOfPiece(p) ==
  IF p.kind = "copy" THEN Len(p.bytes)
  ELSE Total([i \in DOMAIN p.bytes |-> EscapedSize(p.bytes[i])])

BytesOfPiece(p) ==
  IF p.kind = "copy" \/ SizeOfPiece(p) = Len(p.bytes) THEN p.bytes
  ELSE FlattenSeq([i \in DOMAIN p.bytes |-> Escape(p.bytes[i])])

(* json_append and json_encode_str.                                        *)
EmitBytes ==
  /\ jphase = "emit" /\ todo # <<>> /\ Head(todo).kind # "object"
  /\ segs' = Appended(SizeOfPiece(Head(todo)), BytesOfPiece(Head(todo)))
  /\ todo' = Tail(todo)
  /\ UNCHANGED <<obj, jphase>>

(* Too deep, an invalid object, or malloc fails, for the first segment or  *)
(* a later one: NULL, and the segments are freed.                          *)
GivesUp(p) ==
  \/ p.kind = "object" /\ (p.depth > MaxJsonDepth \/ p.obj.type = "invalid")
  \/ p.kind = "object" /\ segs = <<NewSegment(0)>>
  \/ p.kind # "object" /\ Room(Last(segs)) < SizeOfPiece(p)

EmitNull ==
  /\ jphase = "emit" /\ todo # <<>> /\ GivesUp(Head(todo))
  /\ todo' = <<>> /\ segs' = <<>> /\ jphase' = "null"
  /\ UNCHANGED obj

EmitEnds ==
  /\ jphase = "emit" /\ todo = <<>>
  /\ jphase' = "json"
  /\ UNCHANGED <<obj, todo, segs>>

JsonStep == EmitObject \/ EmitBytes \/ EmitNull \/ EmitEnds

(* json_length, and the bytes in the order an iterator finds them.         *)
JsonBytes  == FlattenSeq([i \in DOMAIN segs |-> segs[i].bytes])
JsonLength == Len(JsonBytes)

-----------------------------------------------------------------------------
(* No segment holds more than was allocated for it: the size computed for  *)
(* an escaped string is the size it is then written with.                  *)
SegmentsRespected == \A i \in DOMAIN segs : Len(segs[i].bytes) <= segs[i].size

=============================================================================
