---------------------------- MODULE MCSerializer ----------------------------
EXTENDS SerializerRef

Scalar(n) == [kind |-> "scalar", val |-> n]
Str(t)    == [kind |-> "string", text |-> t]
List(is)  == [kind |-> "list", iterable |-> FALSE, claimed |-> Len(is), items |-> is]
Iter(is)  == [List(is) EXCEPT !.iterable = TRUE]
Map(is)   == [kind |-> "map", iterable |-> FALSE, claimed |-> Len(is), items |-> is]

(* Elements of a list and of a map.                                        *)
E(v)     == [name |-> Absent, val |-> v]
KV(k, v) == [name |-> k, val |-> v]

(* Names and texts of one or more characters of 1 to 3 bytes.              *)
A  == <<1>>
B  == <<3>>
AB == <<1, 2>>
Long == <<1, 1, 1>>

(* Iterables: one that yields more the second time, one without end.       *)
Grown  == [Iter(<<E(Scalar(1)), E(Scalar(2))>>) EXCEPT !.claimed = 1]
Endless == [Iter([i \in 1 .. MaxInt |-> E(Scalar(i))]) EXCEPT !.claimed = MaxInt + 1]
Wide   == List(<<E(List(<<E(Scalar(1)), E(Scalar(2)), E(Scalar(3))>>)),
                 E(Scalar(4)), E(Scalar(5)), E(Scalar(6))>>)
Deep   == List(<<E(List(<<E(List(<<E(Scalar(1))>>))>>)), E(Scalar(2))>>)

(* A map that shrinks, and whose code and that of its values may throw.    *)
Changing == [Map(<<KV(A, Grown)>>) EXCEPT !.claimed = 2]

MCMaps == {
  EmptyMap,
  Map(<<KV(B, Str(AB)), KV(A, Str(Long)), KV(A, Endless), KV(AB, Scalar(3))>>),
  Map(<<KV(A, Wide), KV(A, Scalar(7)), KV(A, Scalar(8)), KV(A, Scalar(9)), KV(A, Scalar(1))>>),
  Map(<<KV(Long, Deep)>>),
  Changing
}

(* The maps and the values inside them, to the depth of Deep.              *)
Inside(vs) == UNION {{v.items[i].val : i \in DOMAIN v.items} :
                       v \in {w \in vs : w.kind \in {"list", "map"}}}
MCValues ==
  LET one == MCMaps \cup Inside(MCMaps)
      two == one \cup Inside(one)
      three == two \cup Inside(two)
  IN  three \cup Inside(three)

MCThrowing == {Changing}

(* The second string limit is beyond what fits below MaxInt.               *)
Roomy == [maxElements |-> 6, maxDepth |-> 2, maxStringSize |-> 2]
Tight == [maxElements |-> 3, maxDepth |-> 1, maxStringSize |-> 3]
MCLimits == {Roomy, Tight}

=============================================================================
