------------------------------ MODULE StringsRef ------------------------------
(***************************************************************************)
(* What the conversions of Strings must produce, by definition: Unicode    *)
(* has the part for strings, this module the JSON.                         *)
(***************************************************************************)
EXTENDS Strings, Unicode

(* A string in JSON, and the JSON of an object, if text[e] is that of each  *)
(* object e in it.  Floats and nulls leave nothing.                        *)
JsonString(b) == Quote \o FlattenSeq([i \in DOMAIN b |-> Escape(b[i])]) \o Quote

JsonItem(o, i, text) ==
  (IF o.type = "map" THEN JsonString(o.items[i].name) \o <<58>> ELSE <<>>)
  \o text[o.items[i]] \o (IF i = Len(o.items) THEN <<>> ELSE Comma)

JsonText(o, text) ==
  LET items == FlattenSeq([i \in 1 .. Len(o.items) |-> JsonItem(o, i, text)])
  IN  CASE o.type \in {"signed", "unsigned"} -> Decimal(o.val)
        [] o.type = "string" -> JsonString(o.val)
        [] o.type = "bool"   -> IF o.val THEN <<116, 114, 117, 101>> ELSE <<102, 97, 108, 115, 101>>
        [] o.type = "array"  -> <<91>> \o items \o <<93>>
        [] o.type = "map"    -> <<123>> \o items \o <<125>>
        [] OTHER -> <<>>

(* JSON of the objects with up to n - 1 levels inside them.                *)
JsonTexts ==
  LET texts[n \in Nat] ==
        IF n = 0 THEN [o \in Nodes |-> <<>>]
        ELSE LET text == texts[n - 1] IN [o \in Nodes |-> JsonText(o, text)]
  IN  texts

JsonOf(o) == JsonTexts[MaxJsonDepth + 1][o]

(* An object has no more levels inside it, and none of them is invalid.    *)
Convertible ==
  LET fits[n \in Nat] ==
        IF n = 0 THEN [o \in Nodes |-> FALSE]
        ELSE LET fit == fits[n - 1]
             IN  [o \in Nodes |->
                    /\ o.type # "invalid"
                    /\ o.type \in {"array", "map"} => \A i \in 1 .. Len(o.items) : fit[o.items[i]]]
  IN  fits

-----------------------------------------------------------------------------
(* The segments hold the JSON of the object, which is neither too deep nor *)
(* invalid, and the string made of them has all of its characters: exactly *)
(* up to U+1FFFF, see KeepsCharacters.                                     *)
JsonExact ==
  /\ jphase = "json" => JsonBytes = JsonOf(obj) /\ Convertible[MaxJsonDepth + 1][obj]
  /\ jphase = "json" /\ phase = "done" /\ use = "events" =>
       Without(REPL, out) = FoldedOf(JsonOf(obj))

=============================================================================
