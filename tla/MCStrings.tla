------------------------------ MODULE MCStrings ------------------------------
(* Strings with short inputs that meet every branch, for TLC.              *)
EXTENDS StringsRef

CONSTANT Supplementary   (* code points above U+FFFF to convert            *)

Job(o, s, m, e) == [op |-> o, str |-> s, max |-> m, ends |-> e]

(* Bytes that start, continue and break characters of each length: ASCII,  *)
(* trailing bytes that make a form too long, a surrogate or too large, and *)
(* leading bytes of two to four bytes, two of them never legal.            *)
Malformed == BoundedSeq({65, 128, 159, 160, 191, 193, 195, 224, 237, 240, 244, 245}, 3)
             \cup [1 .. 4 -> {65, 128, 144, 226, 240, 244}]

(* Text of characters of one to four bytes, and a broken one.              *)
Texts == {FlattenSeq([i \in 1 .. 3 |-> Utf8Form(t[i])]) \o x :
            t \in [1 .. 3 -> {65, 233, 8364} \cup Supplementary], x \in {<<>>, <<226, 130>>}}

Cuts(n) == {<<n>>, <<0, 1, n>>, <<n \div 2, n \div 2, n>>, <<5, n>>}

Utf16Texts == BoundedSeq({65, 233, 8364, 55357, 56832}, 4)

MCJobs ==
  {Job("toUtf16", s, -1, <<>>) : s \in Malformed \cup Texts}
  \cup UNION {{Job("json", s, -1, e) : e \in Cuts(Len(s))} : s \in {t \in Texts : Len(t) >= 5}}
  \cup {Job("toUtf8", s, m, <<>>) : s \in Utf16Texts, m \in {-1, 0, 2}}

Signed(n)   == [type |-> "signed", val |-> n, name |-> <<97>>]
Unsigned(n)  == [type |-> "unsigned", val |-> n, name |-> <<10>>]
Bool(b)  == [type |-> "bool", val |-> b, name |-> <<98>>]
Str(s)   == [type |-> "string", val |-> s, name |-> <<34>>]
Invalid  == [type |-> "invalid", name |-> <<99>>]
Null     == [type |-> "null", name |-> <<101>>]
Arr(is)  == [type |-> "array", items |-> is, name |-> <<226, 130, 172>>]
MapOf(is) == [type |-> "map", items |-> is, name |-> <<100>>]

MCObjects == {
  Arr(<<>>),
  Arr(<<Signed(-12), Unsigned(345), Bool(TRUE)>>),
  MapOf(<<Str(<<34, 92, 10, 31, 195, 169>>), MapOf(<<>>), Bool(FALSE)>>),
  MapOf(<<Arr(<<Str(<<>>), Arr(<<Signed(0)>>)>>), Signed(7)>>),
  Arr(<<Arr(<<Arr(<<Arr(<<Signed(1)>>)>>)>>), Signed(2)>>),
  Arr(<<Str(<<65, 66, 67, 240, 159, 152, 128, 68, 69, 70, 226, 130, 172>>)>>),
  MapOf(<<Signed(1), Invalid>>),
  Arr(<<Null, Bool(TRUE), Null>>)
}

(* The objects and those inside them, to the depth of the deepest.         *)
Inside(os) == UNION {{o.items[i] : i \in DOMAIN o.items} :
                       o \in {p \in os : p.type \in {"array", "map"}}}
MCNodes ==
  LET one == MCObjects \cup Inside(MCObjects)
      two == one \cup Inside(one)
      three == two \cup Inside(two)
  IN  three \cup Inside(three)

MCData == [i \in 1 .. 110 |-> (i * 37 + 91 * (i \div 3)) % 256]

=============================================================================
