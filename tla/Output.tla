-------------------------------- MODULE Output --------------------------------
(***************************************************************************)
(* output.c: ddwaf_objects as Java objects, for the diagnostics of a       *)
(* configuration and for the actions and attributes of a run.              *)
(*                                                                         *)
(* A Java object is written like the ddwaf_object it is made from; Null    *)
(* is NULL.  The text of strings is left out (module Utf).                 *)
(***************************************************************************)
EXTENDS JniEnv

Null == Object("NULL", 0, <<>>)

(* The object that a call returned, unless it threw.                       *)
Answered(c, o) == Ret(c, IF c.exc # 0 THEN Null ELSE o)

(* An element was made, with its key if there is one; it is put into the   *)
(* list or map ret, and both are deleted, before the exception is checked. *)
Put(e, refs, ret, o) ==
  LET Added(c) == IF c.exc # 0 THEN Ret(Local(c, -1), Null)
                  ELSE Ret(c, [ret EXCEPT !.items = Append(@, o)])
  IN  Added(Local(Call(e), - refs))

(* An empty list or map, filled by Elem for every entry of o until one     *)
(* throws.                                                                 *)
Fill(e, type, items, Elem(_, _)) ==
  FoldLeft(LAMBDA acc, x : IF acc.e.exc # 0 THEN acc ELSE Elem(acc, x),
           Answered(New(e), Empty(type)), items)

(* convert_ddwaf_object_to_jobject.  If a value of a map fails, the key is *)
(* deleted and the map is not.                                             *)
RECURSIVE ToJava(_, _)
ToJava(e, o) ==
  LET Element(acc, x) ==
        LET Add(r) == IF r.e.exc # 0 THEN Ret(Local(r.e, -1), Null) ELSE Put(r.e, 1, acc.o, r.o)
        IN  Add(ToJava(acc.e, x))
      Entry(acc, x) ==
        LET Add(r) == IF r.e.exc # 0 THEN Ret(Local(r.e, -1), Null)
                      ELSE Put(r.e, 2, acc.o, Named(x.name, r.o))
            Value(k) == IF k.exc # 0 THEN Ret(k, Null) ELSE ToJava(k, x)
        IN  Add(Value(New(acc.e)))
  IN  IF o.type \in {"invalid", "null"} THEN Ret(ThrowNew(e), Null)
      ELSE IF o.type = "array" THEN Fill(e, "array", o.items, Element)
      ELSE IF o.type = "map" THEN Fill(e, "map", o.items, Entry)
      ELSE Answered(New(e), Object(o.type, o.len, <<>>))

(* Stands for the names with the prefix _dd.appsec.fp.                     *)
Fingerprint == "fp"

(* The value of an attribute: NULL without an exception if it has a type   *)
(* that is not known here, or is an "oversized" schema (module Schema).    *)
(* A fingerprint (_dd.appsec.fp.) is read as a string whatever it is: of a *)
(* container it takes as many bytes as there are entries, of a scalar none.*)
AttributeValue(e, x) ==
  IF x.name = Fingerprint
  THEN Answered(New(e), Object("string", IF x.type = "string" THEN x.len ELSE Len(x.items), <<>>))
  ELSE IF x.type = "map" THEN ToJava(e, x)
  ELSE IF x.type \in {"array", "null", "invalid", "oversized"} THEN Ret(e, Null)
  ELSE Answered(New(e), Object(x.type, x.len, <<>>))

(* output_convert_attributes_checked: an attribute without a value is left *)
(* out, and the others are kept.                                           *)
Attributes(e, o) ==
  LET Attribute(acc, x) ==
        LET Add(r) == IF r.e.exc # 0 THEN Ret(Local(r.e, -2), Null)
                      ELSE IF r.o = Null THEN Ret(Local(Log(r.e), -1), acc.o)
                      ELSE Put(r.e, 2, acc.o, Named(x.name, r.o))
            Value(k) == IF k.exc # 0 THEN Ret(Local(k, -1), Null) ELSE Add(AttributeValue(k, x))
        IN  Value(New(acc.e))
  IN  Fill(e, "map", o.items, Attribute)

-----------------------------------------------------------------------------
(* _map_get_object_checked.                                                *)
MapGetObject(e, o, name) ==
  IF o.type # "map" THEN Ret(ThrowNew(e), Null)
  ELSE LET found == SelectSeq(o.items, LAMBDA x : x.name = name)
       IN  Ret(e, IF found = <<>> THEN Null ELSE found[1])

(* _map_get_string_checked.                                                *)
MapGetString(e, o, name) ==
  LET Text(g) ==
        IF g.e.exc # 0 \/ g.o = Null THEN Ret(g.e, Null)
        ELSE IF g.o.type # "string" THEN Ret(ThrowNew(g.e), Null)
        ELSE Answered(New(g.e), Object("string", g.o.len, <<>>))
  IN  Text(MapGetObject(e, o, name))

(* _convert_strarr_checked: NULL for an empty array.                       *)
StrArr(e, o) ==
  LET Element(acc, x) ==
        LET Add(c) == IF c.exc # 0 THEN Ret(Local(c, -1), Null)
                      ELSE Put(c, 1, acc.o, Object("string", x.len, <<>>))
        IN  Add(IF x.type # "string" THEN ThrowNew(acc.e) ELSE New(acc.e))
  IN  IF o.type # "array" THEN Ret(ThrowNew(e), Null)
      ELSE IF o.items = <<>> THEN Ret(e, Null)
      ELSE Fill(e, "array", o.items, Element)

(* The loop of _map_get_object_errmap_checked: NULL for an empty map.      *)
ErrMap(e, o) ==
  LET Entry(acc, x) ==
        LET Add(r) == IF r.e.exc # 0 THEN Ret(Local(r.e, -2), Null)
                      ELSE Put(r.e, IF r.o = Null THEN 1 ELSE 2,      \* DeleteLocalRef of NULL
                               acc.o, Named(x.name, r.o))
            Value(k) == IF k.exc # 0 THEN Ret(Local(k, -1), Null) ELSE Add(StrArr(k, x))
        IN  Value(IF x.type # "array" THEN ThrowNew(acc.e) ELSE New(acc.e))
  IN  IF o.type # "map" THEN Ret(ThrowNew(e), Null)
      ELSE IF o.items = <<>> THEN Ret(e, Null)
      ELSE Fill(e, "map", o.items, Entry)

(* Several parts of a map, one after the other until one throws, then the  *)
(* constructor; the parts are deleted on every way out.                    *)
Parts(acc0, names, Part(_, _)) ==
  FoldLeft(LAMBDA acc, name :
             LET r == Part(acc.e, name)
             IN  IF acc.e.exc # 0 THEN acc
                 ELSE Ret(r.e, IF r.o = Null THEN acc.o
                               ELSE [acc.o EXCEPT !.items = Append(@, Named(name, r.o))]),
           acc0, names)

Built(acc, type) ==
  Answered(Local(Then(acc.e, New), - Len(acc.o.items)), [acc.o EXCEPT !.type = type])

(* _convert_section_checked.                                               *)
Section(e, root, name) ==
  LET List(part, g) ==
        IF g.e.exc # 0 \/ g.o = Null THEN g
        ELSE IF part \in {"warnings", "errors"} THEN ErrMap(g.e, g.o) ELSE StrArr(g.e, g.o)
      Lists(s, r) ==
        IF r.e.exc # 0 THEN r
        ELSE IF r.o # Null
             THEN Built(Ret(r.e, Object("failed", 0, <<Named("error", r.o)>>)), "failed")
        ELSE Built(Parts(Ret(r.e, Empty("map")), <<"loaded", "skipped", "failed", "warnings", "errors">>,
                         LAMBDA e1, part : List(part, MapGetObject(e1, s, part))), "section")
      Found(s) ==
        IF s.e.exc # 0 \/ s.o = Null THEN s ELSE Lists(s.o, MapGetString(s.e, s.o, "error"))
  IN  Found(MapGetObject(e, root, name))

(* The sections of a ruleset.                                              *)
SectionNames ==
  <<"rules", "custom_rules", "rules_data", "rules_override", "exclusions", "exclusion_data",
    "actions", "processors", "scanners">>

(* output_convert_diagnostics_checked.  The first string is not checked    *)
(* before the second is asked for.                                         *)
Diagnostics(e, o) ==
  LET Text(name, x) == IF x = Null THEN <<>> ELSE <<Named(name, x)>>
      Sections(version, r) ==
        IF r.e.exc # 0 THEN Ret(r.e, Null)
        ELSE Built(Parts(Ret(r.e, Object("map", 0, Text("ruleset_version", version) \o Text("error", r.o))),
                         SectionNames, LAMBDA e1, name : Section(e1, o, name)), "diagnostics")
      Version(v) == Sections(v.o, MapGetString(v.e, o, "error"))
  IN  Version(MapGetString(e, o, "ruleset_version"))

=============================================================================
