---------------------------- MODULE ConvertConfig ----------------------------
(***************************************************************************)
(* _convert_checked (waf_jni.c): a Java value as a ddwaf_object, for the   *)
(* configurations given to the builder.                                    *)
(*                                                                         *)
(* A value has a kind; a text has a length, a container items.  The keys   *)
(* of a map are any objects but null.  Character sequences are "string",   *)
(* "array" (a CharBuffer with an array), "direct" (one in native order) or *)
(* "reversed" (one in the other order) CharBuffers, or "plain".            *)
(***************************************************************************)
EXTENDS JniEnv

Chars      == {"array", "direct", "reversed", "plain"}
Containers == {"objects", "map", "iterable"}     \* "objects": an Object[]

IsText(v) == v.kind \in Chars \cup {"string"}

TypeOf(v) == IF v.kind = "objects" \/ v.kind = "iterable" THEN "array" ELSE v.kind

Min2(a, b) == IF a < b THEN a ELSE b

(* Way out of _convert_checked through error: with what was made freed.    *)
Error(e, o) == Ret(Free(e, o), Invalid)

(* A leaf, unless an exception is pending.                                 *)
Leaf(e, o) == IF e.exc # 0 THEN Error(e, Invalid) ELSE Ret(Alloc(e), o)

(* _get_char_buffer_data: position, limit, hasArray, and the array and its *)
(* elements, which are held, or the order.                                 *)
CharBufferData(kind, e) ==
  LET Hold(g) == IF g.exc # 0 THEN Local(g, -1) ELSE [g EXCEPT !.held = @ + 1]
      Data(c) == IF kind = "array" THEN Hold(Call(c)) ELSE Local(c, -1)
  IN  IF kind = "plain" THEN e ELSE Then(News(Calls(e, 3), 1), Data)

(* Mutant: the elements of the array are not released if the conversion    *)
(* failed.                                                                 *)
ReleasedLate(kind, e) ==
  IF kind = "array" /\ e.exc = 0 THEN Local([e EXCEPT !.held = @ - 1], -1) ELSE e

(* ReleaseCharArrayElements, before the exception is looked at.            *)
Released(kind, e) ==
  IF kind = "array" THEN Local([e EXCEPT !.held = @ - 1], -1) ELSE e

(* The string toString() makes of a sequence is not deleted.               *)
SequenceString(len, max, e) ==
  LET SubSequence(c) == IF len > max THEN New(c) ELSE c
      AsString(s) == Local(New(s), IF len > max THEN -1 ELSE 0)
  IN  Calls(Then(Then(Call(e), SubSequence), AsString), 2)       \* Call: length()

ConvertChars(v, max, e) ==
  LET Bytes(d) == IF v.kind \in {"plain", "reversed"} THEN SequenceString(v.len, max, d)
                  ELSE Then(Released(v.kind, Call(d)), Call)
  IN  Leaf(Then(CharBufferData(v.kind, e), Bytes), Object("string", Min2(v.len, max), <<>>))

(* The class of an unknown object is named in the log; what that throws is *)
(* cleared.                                                                *)
Unknown(e) ==
  LET c == Then(News([Local(e, 1) EXCEPT !.aside = TRUE], 1), Call)
  IN  Ret(IF e.logs THEN Log([c EXCEPT !.exc = 0, !.aside = e.aside]) ELSE e, Invalid)

(* Everything but a container.  Two calls: for the value, or the bytes of  *)
(* the string, and for the object.                                         *)
Scalar(v, max, e) ==
  IF v.kind = "null" THEN Leaf(e, Object("null", 0, <<>>))
  ELSE IF v.kind \in Chars THEN ConvertChars(v, max, e)
  ELSE IF v.kind = "other" THEN Unknown(e)
  ELSE Leaf(Calls(e, 2), Object(v.kind, IF v.kind = "string" THEN Min2(v.len, max) ELSE 0, <<>>))

-----------------------------------------------------------------------------
(* entrySet() and iterator(), iterator(), or nothing.                      *)
Opening(kind) == IF kind = "map" THEN 2 ELSE IF kind = "iterable" THEN 1 ELSE 0

(* The next element: for a map the entry, its key, the key's toString(),   *)
(* whose exception is wrapped, and the value; the first two are deleted.   *)
Fetch(kind, e) ==
  LET Text(k)  == Wrap(New(k))
      Value(s) == Then(New(s), LAMBDA v : Local(v, -2))
  IN  IF kind = "objects" THEN Local(e, 1)
      ELSE IF kind = "iterable" THEN New(e)
      ELSE Then(Then(News(e, 2), Text), Value)

Fetched(kind) == IF kind = "map" THEN 2 ELSE 1

(* Mutant: the limit lets one more element in.                             *)
ExhaustedLate(e) == e.left < 0

(* lims->max_elements <= 0.                                                *)
Exhausted(e) == e.left <= 0

RECURSIVE Convert(_, _, _, _), Elements(_, _, _, _, _, _)

(* The loop of a container, from element i on.  If hasNext() throws and    *)
(* its undefined answer is false, the loop ends as if there were no more,  *)
(* with the exception pending.  When an element cannot be added, or its    *)
(* key not converted, it is not freed.                                     *)
Elements(v, i, lims, level, e, o) ==
  LET Key(c) == IF v.kind = "map" THEN Call(c) ELSE c
      Add(c) == Local(Call(c), - Fetched(v.kind))
      Added(c, x) ==
        IF c.exc # 0 THEN Error(c, o)
        ELSE Elements(v, i + 1, lims, level, c, [o EXCEPT !.items = Append(@, x)])
      Converted(r) == Added(Then(Then(r.e, Key), Add), r.o)
      Element(f) ==
        IF f.exc # 0 THEN Error(f, o)
        ELSE Converted(Convert(v.items[i], lims, level + 1, f))
      Asked(h) ==
        LET more == IF h.exc # 0 THEN h.answer ELSE i <= Len(v.items)
        IN  IF more /\ h.exc # 0 THEN Error(h, o)
            ELSE IF more /\ ~Exhausted(h) THEN Element(Fetch(v.kind, h))
            ELSE Ret(Local(IF more THEN Log(h) ELSE h, - Opening(v.kind)), o)
  IN  Asked(IF v.kind = "objects" THEN e ELSE Call(e))   \* hasNext()

Convert(v, lims, level, e0) ==
  LET e == [e0 EXCEPT !.left = @ - 1]
      o == Empty(TypeOf(v))
      Opened(b) == IF b.exc # 0 THEN Error(b, o) ELSE Elements(v, 1, lims, level, b, o)
      Typed(c) ==
        IF c.exc # 0 THEN Error(c, Invalid)
        ELSE IF v.kind \notin Containers THEN Scalar(v, lims.text, c)
        ELSE IF level >= lims.depth THEN Ret(Log(Alloc(c)), o)
        ELSE Opened(News(Alloc(c), Opening(v.kind)))
  IN  IF level > lims.depth                              \* frees what was never set
      THEN Error([ThrowNew(e) EXCEPT !.misused = TRUE], Invalid)
      ELSE Typed(IF v.kind = "null" THEN e ELSE Call(e)) \* Class.isArray()

=============================================================================
