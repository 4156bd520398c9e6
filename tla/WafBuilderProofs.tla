--------------------------- MODULE WafBuilderProofs ---------------------------
(***************************************************************************)
(* Proof that the configurations of a WafBuilder are what its caller may   *)
(* expect under every path of ASCII characters, for any set of paths.      *)
(*                                                                         *)
(* The native code cuts the bytes of a path after as many as the path has  *)
(* UTF-16 units.  Of an ASCII path this is all of it, and no cut of        *)
(* another path is the same: a unit that is not ASCII has no byte that     *)
(* could be taken for one.                                                 *)
(***************************************************************************)
EXTENDS WafBuilder, SequenceProofs

(* The bytes of modified UTF-8.                                            *)
Byte == 1 .. 255

(* What is known of a path.                                                *)
LEMMA PathIs ==
  ASSUME NEW p \in Paths
  PROVE  /\ p \in Seq(Seq(Byte)) /\ Len(p) \in Nat
         /\ \A i \in 1 .. Len(p) : p[i] \in Seq(Byte) /\ Len(p[i]) \in 1 .. 3
         /\ \A i \in 1 .. Len(p) : IsUnit(p[i])
  <1>1. p \in Seq(Seq(Byte)) /\ \A i \in DOMAIN p : IsUnit(p[i])
    BY PathsAssumption DEF Byte
  <1>2. ASSUME NEW i \in 1 .. Len(p)
        PROVE  p[i] \in Seq(Byte) /\ IsUnit(p[i]) /\ Len(p[i]) \in 1 .. 3
    <2> DEFINE u == p[i]
    <2>1. IsUnit(u) /\ u \in Seq(Byte)
      BY <1>1
    <2> HIDE DEF u
    <2>2. Len(u) \in 1 .. 3
      BY <2>1 DEF IsUnit
    <2> QED
      BY <2>1, <2>2 DEF u
  <1> QED
    BY <1>1, <1>2

(* The bytes of the first n units.                                         *)
Bytes(p, n) == FlattenSeq(Prefix(p, n))

(* One unit more: its bytes follow.                                        *)
LEMMA BytesNext ==
  ASSUME NEW p \in Paths, NEW n \in Nat, n < Len(p)
  PROVE  /\ Bytes(p, n) \in Seq(Byte) /\ p[n + 1] \in Seq(Byte) /\ Len(p[n + 1]) \in 1 .. 3
         /\ Bytes(p, n + 1) = Bytes(p, n) \o p[n + 1]
         /\ Len(Bytes(p, n + 1)) = Len(Bytes(p, n)) + Len(p[n + 1])
  <1>1. p \in Seq(Seq(Byte)) /\ Len(p) \in Nat /\ n + 1 \in 1 .. Len(p) /\ n \in 0 .. Len(p)
    BY PathIs
  <1>2. p[n + 1] \in Seq(Byte) /\ Len(p[n + 1]) \in 1 .. 3
    BY <1>1, PathIs
  <1>3. Bytes(p, n) \in Seq(Byte)
    <2> DEFINE R == Seq(Byte)
    <2>1. p \in Seq(R)
      BY <1>1
    <2> HIDE DEF R
    <2>2. Prefix(p, n) \in Seq(R)
      BY <1>1, <2>1, PrefixType
    <2> QED
      BY <2>2, FlattenType DEF R, Bytes
  <1>4. Bytes(p, n + 1) = Bytes(p, n) \o p[n + 1]
    BY <1>1, FlattenNext DEF Bytes
  <1>5. Len(Bytes(p, n) \o p[n + 1]) = Len(Bytes(p, n)) + Len(p[n + 1])
    BY <1>2, <1>3, JoinIs
  <1> QED
    BY <1>2, <1>3, <1>4, <1>5

(* The bytes of the path itself.                                           *)
LEMMA BytesAll ==
  ASSUME NEW p \in Paths
  PROVE  /\ Bytes(p, Len(p)) = FlattenSeq(p) /\ Bytes(p, 0) = <<>>
         /\ FlattenSeq(p) \in Seq(Byte)
  <1> DEFINE R == Seq(Byte)
  <1>1. p \in Seq(R)
    BY PathIs
  <1>2. FlattenSeq(p) \in Seq(Byte)
    BY <1>1, FlattenType
  <1> HIDE DEF R
  <1>3. Prefix(p, Len(p)) = p
    BY <1>1 DEF Prefix
  <1> QED
    BY <1>2, <1>3, FlattenNone DEF Bytes

(* Every unit has a byte, so n units have at least n of them, and they are *)
(* the first bytes of the path.                                            *)
LEMMA BytesReach ==
  ASSUME NEW p \in Paths, NEW n \in 0 .. Len(p)
  PROVE  /\ Bytes(p, n) \in Seq(Byte) /\ Len(Bytes(p, n)) \in Nat /\ Len(Bytes(p, n)) >= n
  <1> DEFINE T == {k \in 0 .. Len(p) : Bytes(p, k) \in Seq(Byte) /\ Len(Bytes(p, k)) >= k}
  <1>1. Len(p) \in Nat /\ 0 \in T
    <2>1. Len(p) \in Nat /\ 0 \in 0 .. Len(p) /\ Bytes(p, 0) = <<>>
      BY PathIs, BytesAll
    <2>2. <<>> \in Seq(Byte) /\ Len(<<>>) >= 0
      OBVIOUS
    <2> QED
      BY <2>1, <2>2
  <1>2. ASSUME NEW k \in 0 .. Len(p) - 1, k \in T
        PROVE  k + 1 \in T
    <2>1. k \in Nat /\ k < Len(p) /\ Len(p) \in Nat
      BY <1>1
    <2>2. /\ Bytes(p, k) \in Seq(Byte) /\ p[k + 1] \in Seq(Byte) /\ Len(p[k + 1]) \in 1 .. 3
          /\ Bytes(p, k + 1) = Bytes(p, k) \o p[k + 1]
          /\ Len(Bytes(p, k + 1)) = Len(Bytes(p, k)) + Len(p[k + 1])
      BY <2>1, BytesNext
    <2>3. Bytes(p, k + 1) \in Seq(Byte)
      BY <2>2, JoinIs
    <2>4. Len(Bytes(p, k)) \in Nat /\ Len(Bytes(p, k)) >= k
      BY <1>2, <2>2
    <2>5. Len(Bytes(p, k + 1)) >= k + 1 /\ k + 1 \in 0 .. Len(p)
      <3>1. \A a \in Nat, b \in 1 .. 3 : a >= k => a + b >= k + 1
        BY <2>1
      <3>2. k + 1 \in 0 .. Len(p)
        BY <2>1
      <3>3. Len(Bytes(p, k)) + Len(p[k + 1]) >= k + 1
        BY <2>2, <2>4, <3>1
      <3> QED
        BY <2>2, <3>2, <3>3
    <2> QED
      BY <2>3, <2>5
  <1> HIDE DEF T
  <1>3. 0 .. Len(p) \subseteq T
    BY <1>1, <1>2, UpTo
  <1>4. n \in T
    BY <1>3
  <1> QED
    BY <1>4 DEF T

(* The bytes of the first units are the first bytes of the path.           *)
LEMMA BytesBegin ==
  ASSUME NEW p \in Paths, NEW n \in 0 .. Len(p), NEW i \in 1 .. Len(Bytes(p, n))
  PROVE  i \in 1 .. Len(FlattenSeq(p)) /\ FlattenSeq(p)[i] = Bytes(p, n)[i]
  <1> DEFINE T == {k \in 0 .. Len(p) : k < n \/
                     (i \in 1 .. Len(Bytes(p, k)) /\ Bytes(p, k)[i] = Bytes(p, n)[i])}
  <1>1. Len(p) \in Nat /\ n \in Nat
    BY PathIs
  <1>2. 0 \in T
    BY <1>1
  <1>3. ASSUME NEW k \in 0 .. Len(p) - 1, k \in T
        PROVE  k + 1 \in T
    <2>1. k \in Nat /\ k < Len(p) /\ k + 1 \in 0 .. Len(p)
      BY <1>1
    <2>2. CASE k + 1 <= n
      <3>1. k + 1 < n \/ k + 1 = n
        BY <1>1, <2>1, <2>2
      <3> QED
        BY <2>1, <3>1
    <2>3. CASE k >= n
      <3>1. i \in 1 .. Len(Bytes(p, k)) /\ Bytes(p, k)[i] = Bytes(p, n)[i]
        BY <1>1, <1>3, <2>1, <2>3
      <3>2. /\ Bytes(p, k) \in Seq(Byte) /\ p[k + 1] \in Seq(Byte) /\ Len(p[k + 1]) \in 1 .. 3
            /\ Bytes(p, k + 1) = Bytes(p, k) \o p[k + 1]
            /\ Len(Bytes(p, k + 1)) = Len(Bytes(p, k)) + Len(p[k + 1])
        BY <2>1, BytesNext
      <3>3. Bytes(p, k + 1)[i] = Bytes(p, k)[i]
        BY <3>1, <3>2, JoinIs
      <3>4. i \in 1 .. Len(Bytes(p, k + 1))
        BY <3>1, <3>2
      <3> QED
        BY <2>1, <3>1, <3>3, <3>4
    <2> QED
      BY <1>1, <2>1, <2>2, <2>3
  <1> HIDE DEF T
  <1>4. 0 .. Len(p) \subseteq T
    BY <1>1, <1>2, <1>3, UpTo
  <1>5. Len(p) \in T /\ ~(Len(p) < n)
    BY <1>1, <1>4
  <1> QED
    BY <1>5, BytesAll DEF T

-----------------------------------------------------------------------------
(* The length of a key is that of its path.                                *)
LEMMA KeyIs ==
  ASSUME NEW p \in Paths
  PROVE  /\ Len(Key(p)) = Len(p)
         /\ \A i \in 1 .. Len(p) : i \in 1 .. Len(FlattenSeq(p)) /\ Key(p)[i] = FlattenSeq(p)[i]
  <1> DEFINE f == FlattenSeq(p)  n == Len(p)
  <1>1. f \in Seq(Byte) /\ n \in Nat /\ Len(f) \in Nat /\ Len(f) >= n
    <2>1. n \in Nat /\ n \in 0 .. Len(p)
      BY PathIs
    <2>2. Len(Bytes(p, n)) \in Nat /\ Len(Bytes(p, n)) >= n
      BY <2>1, BytesReach
    <2> QED
      BY <2>1, <2>2, BytesAll
  <1>2. Key(p) = SubSeq(f, 1, n)
    BY DEF Key
  <1> HIDE DEF f, n
  <1>3. Len(SubSeq(f, 1, n)) = n /\ \A i \in 1 .. n : SubSeq(f, 1, n)[i] = f[i]
    BY <1>1
  <1>4. \A i \in 1 .. n : i \in 1 .. Len(f)
    BY <1>1
  <1> QED
    BY <1>2, <1>3, <1>4 DEF f, n

(* As long as the units are of one byte, the next unit starts at its own   *)
(* index.                                                                  *)
LEMMA NextStartsAt ==
  ASSUME NEW p \in Paths, NEW n \in Nat, n < Len(p), Len(Bytes(p, n)) = n
  PROVE  Key(p)[n + 1] = p[n + 1][1]
  <1>1. /\ Bytes(p, n) \in Seq(Byte) /\ p[n + 1] \in Seq(Byte) /\ Len(p[n + 1]) \in 1 .. 3
        /\ Bytes(p, n + 1) = Bytes(p, n) \o p[n + 1]
        /\ Len(Bytes(p, n + 1)) = n + Len(p[n + 1])
    BY BytesNext
  <1>2. n + 1 \in 0 .. Len(p) /\ n + 1 \in 1 .. Len(p) /\ n + 1 \in 1 .. Len(Bytes(p, n + 1))
    <2>1. \A a \in 1 .. 3 : n + 1 \in 1 .. n + a
      OBVIOUS
    <2>2. n + 1 \in 0 .. Len(p) /\ n + 1 \in 1 .. Len(p)
      BY PathIs
    <2> QED
      BY <1>1, <2>1, <2>2
  <1>3. FlattenSeq(p)[n + 1] = Bytes(p, n + 1)[n + 1]
    BY <1>2, BytesBegin
  <1>4. 1 \in 1 .. Len(p[n + 1])
    <2>1. \A a \in 1 .. 3 : 1 \in 1 .. a
      OBVIOUS
    <2> QED
      BY <1>1, <2>1
  <1>5. (Bytes(p, n) \o p[n + 1])[Len(Bytes(p, n)) + 1] = p[n + 1][1]
    BY <1>1, <1>4, JoinIs
  <1> QED
    BY <1>1, <1>2, <1>3, <1>5, KeyIs

(* A unit that begins with the byte of an ASCII character is that          *)
(* character.                                                              *)
LEMMA UnitByFirst ==
  ASSUME NEW u, IsUnit(u), NEW v, IsUnit(v), Len(u) = 1, u[1] = v[1]
  PROVE  v = u
  <1>1. u \in Seq(1 .. 127) /\ 1 \in 1 .. Len(u)
    BY DEF IsUnit
  <1>2. u[1] \in 1 .. 127
    BY <1>1, ElementOfSeq
  <1>3. CASE v \in Seq(1 .. 127) /\ Len(v) = 1
    <2>1. Len(v) = Len(u) /\ \A i \in 1 .. Len(v) : v[i] = u[i]
      BY <1>3
    <2> QED
      BY <1>1, <1>3, <2>1, SeqEqual
  <1>4. CASE v \in Seq(128 .. 255) /\ Len(v) \in {2, 3}
    <2>1. 1 \in 1 .. Len(v)
      BY <1>4
    <2>2. v[1] \in 128 .. 255
      BY <1>4, <2>1, ElementOfSeq
    <2> QED
      BY <1>2, <2>2
  <1> QED
    BY <1>3, <1>4 DEF IsUnit

(* A path of ASCII characters shares its key with no other path.           *)
LEMMA AsciiUnshared ==
  ASSUME NEW p \in Paths, Ascii(p)
  PROVE  Unshared(p)
  <1> SUFFICES ASSUME NEW q \in Paths, Key(q) = Key(p)
               PROVE  q = p
    BY DEF Unshared
  <1> DEFINE N == Len(p)
             T == {n \in 0 .. N : /\ \A i \in 1 .. n : q[i] = p[i]
                                  /\ Len(Bytes(p, n)) = n /\ Len(Bytes(q, n)) = n}
  <1>1. N \in Nat /\ Len(q) = N /\ p \in Seq(Seq(Byte)) /\ q \in Seq(Seq(Byte))
    BY PathIs, KeyIs
  <1>2. 0 \in T
    BY <1>1, BytesAll
  <1>3. ASSUME NEW n \in 0 .. N - 1, n \in T
        PROVE  n + 1 \in T
    <2>1. n \in Nat /\ n < Len(p) /\ n < Len(q) /\ n + 1 \in 1 .. Len(p) /\ n + 1 \in 1 .. Len(q)
          /\ n + 1 \in 0 .. N
      BY <1>1
    <2>2. /\ \A i \in 1 .. n : q[i] = p[i]
          /\ Len(Bytes(p, n)) = n /\ Len(Bytes(q, n)) = n
      BY <1>3
    <2> HIDE DEF T, N
    <2>3. q[n + 1][1] = p[n + 1][1]
      BY <2>1, <2>2, NextStartsAt
    <2>4. IsUnit(p[n + 1]) /\ IsUnit(q[n + 1])
      BY <2>1, PathIs
    <2>5. Len(p[n + 1]) = 1
      <3>1. n + 1 \in DOMAIN p
        BY <1>1, <2>1
      <3> QED
        BY <3>1 DEF Ascii
    <2>6. q[n + 1] = p[n + 1]
      BY <2>3, <2>4, <2>5, UnitByFirst
    <2>7. Len(Bytes(p, n + 1)) = n + 1 /\ Len(Bytes(q, n + 1)) = n + 1
      BY <2>1, <2>2, <2>5, <2>6, BytesNext
    <2>8. \A i \in 1 .. n + 1 : i \in 1 .. n \/ i = n + 1
      BY <2>1
    <2> QED
      BY <2>1, <2>2, <2>6, <2>7, <2>8 DEF T
  <1> HIDE DEF T
  <1>4. 0 .. N \subseteq T
    BY <1>1, <1>2, <1>3, UpTo
  <1>5. \A i \in 1 .. N : q[i] = p[i]
    <2>1. N \in T
      BY <1>1, <1>4
    <2> QED
      BY <2>1 DEF T
  <1> DEFINE R == Seq(Byte)
  <1>6. p \in Seq(R) /\ q \in Seq(R)
    BY <1>1
  <1> HIDE DEF R
  <1> HIDE DEF N
  <1>7. Len(p) = N
    BY DEF N
  <1> QED
    BY <1>1, <1>5, <1>6, <1>7, SeqEqual

-----------------------------------------------------------------------------
(* A call on path p puts in force what it adds to the expectation of p, or *)
(* leaves what was there, and touches no path with another key.            *)
LEMMA UpdateInv ==
  ASSUME BuilderInv, NEW p \in Paths, NEW values, state = "online",
         state' = state, Expect(p, values),
         values \subseteq WithRules \cup Others \cup {Nothing},
         InForce(p)' \in values \/ (InForce(p)' = InForce(p) /\ expected[p] \subseteq values),
         \A q \in Paths : Key(q) # Key(p) => InForce(q)' = InForce(q)
  PROVE  BuilderInv'
  <1>1. /\ expected' \in [Paths -> SUBSET (WithRules \cup Others \cup {Nothing})]
        /\ expected'[p] = values
        /\ \A q \in Paths : q # p => expected'[q] = expected[q]
    BY DEF BuilderInv, Expect
  <1>2. ASSUME NEW q \in Paths, Unshared(q)
        PROVE  InForce(q)' \in expected'[q]
    <2>1. InForce(q) \in expected[q]
      BY <1>2 DEF BuilderInv
    <2>2. CASE q = p
      BY <1>1, <2>1, <2>2
    <2>3. CASE q # p
      <3>1. Key(q) # Key(p)
        BY <1>2, <2>3 DEF Unshared
      <3>2. InForce(q)' = InForce(q)
        BY <3>1
      <3> QED
        BY <1>1, <2>1, <2>3, <3>2
    <2> QED
      BY <2>2, <2>3
  <1>3. \A q \in Paths : Unshared(q)' <=> Unshared(q)
    BY DEF Unshared, Key
  <1> QED
    BY <1>1, <1>2, <1>3 DEF BuilderInv

(* What a path has in force when the store is updated at one key.          *)
LEMMA StoreUpdated ==
  ASSUME NEW p \in Paths, NEW q \in Paths, NEW config
  PROVE  /\ configs' = Set(configs, Key(p), config) =>
              InForce(q)' = IF Key(q) = Key(p) THEN config ELSE InForce(q)
         /\ configs' = Unset(configs, Key(p)) =>
              InForce(q)' = IF Key(q) = Key(p) THEN Nothing ELSE InForce(q)
         /\ configs' = configs => InForce(q)' = InForce(q)
  <1>1. Key(q)' = Key(q)
    BY DEF Key
  <1> HIDE DEF Key
  <1>2. ASSUME configs' = Set(configs, Key(p), config)
        PROVE  InForce(q)' = IF Key(q) = Key(p) THEN config ELSE InForce(q)
    BY <1>1, <1>2 DEF InForce, Set
  <1>3. ASSUME configs' = Unset(configs, Key(p))
        PROVE  InForce(q)' = IF Key(q) = Key(p) THEN Nothing ELSE InForce(q)
    BY <1>1, <1>3 DEF InForce, Unset, Restrict
  <1>4. ASSUME configs' = configs
        PROVE  InForce(q)' = InForce(q)
    BY <1>1, <1>4 DEF InForce
  <1> QED
    BY <1>2, <1>3, <1>4

(* addOrUpdateConfig, whichever way it ends after libddwaf was called.     *)
LEMMA AddInv ==
  ASSUME BuilderInv, NEW p \in Paths, NEW c \in WithRules \cup Others \cup Invalid,
         AddOrUpdateConfig(p, c) \/ AddDiagnosticsFail(p, c) \/ AddInvalid(p, c)
  PROVE  BuilderInv'
  <1>1. state = "online" /\ state' = state
    BY DEF AddOrUpdateConfig, AddDiagnosticsFail, AddInvalid
  <1>2. expected[p] \subseteq WithRules \cup Others \cup {Nothing}
    BY DEF BuilderInv
  <1>3. CASE AddOrUpdateConfig(p, c)
    <2>1. Expect(p, {c}) /\ {c} \subseteq WithRules \cup Others \cup {Nothing}
          /\ configs' = Set(configs, Key(p), c)
      BY <1>3 DEF AddOrUpdateConfig
    <2>2. InForce(p)' \in {c} /\ \A q \in Paths : Key(q) # Key(p) => InForce(q)' = InForce(q)
      BY <2>1, StoreUpdated
    <2> QED
      BY <1>1, <2>1, <2>2, UpdateInv
  <1>4. CASE AddDiagnosticsFail(p, c)
    <2> DEFINE values == expected[p] \cup {c}
    <2>1. Expect(p, values) /\ values \subseteq WithRules \cup Others \cup {Nothing}
          /\ configs' = Set(configs, Key(p), c)
      BY <1>2, <1>4 DEF AddDiagnosticsFail
    <2>2. InForce(p)' \in values /\ \A q \in Paths : Key(q) # Key(p) => InForce(q)' = InForce(q)
      BY <2>1, StoreUpdated
    <2> HIDE DEF values
    <2> QED
      BY <1>1, <2>1, <2>2, UpdateInv
  <1>5. CASE AddInvalid(p, c)
    <2> DEFINE values == expected[p] \cup {Nothing}
    <2>1. /\ Expect(p, values) /\ values \subseteq WithRules \cup Others \cup {Nothing}
          /\ expected[p] \subseteq values
          /\ configs' = configs \/ configs' = Unset(configs, Key(p))
      BY <1>2, <1>5 DEF AddInvalid
    <2>2. /\ InForce(p)' \in values \/ InForce(p)' = InForce(p)
          /\ \A q \in Paths : Key(q) # Key(p) => InForce(q)' = InForce(q)
      BY <2>1, StoreUpdated
    <2> HIDE DEF values
    <2> QED
      BY <1>1, <2>1, <2>2, UpdateInv
  <1> QED
    BY <1>3, <1>4, <1>5

(* removeConfig, of a path with a configuration and of one without.        *)
LEMMA RemoveInv ==
  ASSUME BuilderInv, NEW p \in Paths, RemoveConfig(p) \/ RemoveMissing(p)
  PROVE  BuilderInv'
  <1>1. state = "online" /\ state' = state /\ Expect(p, {Nothing})
        /\ {Nothing} \subseteq WithRules \cup Others \cup {Nothing}
    BY DEF RemoveConfig, RemoveMissing
  <1>2. /\ InForce(p)' \in {Nothing}
        /\ \A q \in Paths : Key(q) # Key(p) => InForce(q)' = InForce(q)
    <2>1. CASE RemoveConfig(p)
      <3>1. configs' = Unset(configs, Key(p))
        BY <2>1 DEF RemoveConfig
      <3> QED
        BY <3>1, StoreUpdated
    <2>2. CASE RemoveMissing(p)
      <3>1. configs' = configs /\ InForce(p) = Nothing
        BY <2>2 DEF RemoveMissing, InForce
      <3> QED
        BY <3>1, StoreUpdated
    <2> QED
      BY <2>1, <2>2
  <1> QED
    BY <1>1, <1>2, UpdateInv

(* A step that changes neither the store nor the history.                  *)
LEMMA OtherInv ==
  ASSUME BuilderInv, state' = state, configs' = configs, expected' = expected
  PROVE  BuilderInv'
  BY DEF BuilderInv, InForce, Unshared, Key

(* Nothing is in force, and nothing is expected.                           *)
LEMMA EmptyInv ==
  ASSUME configs' = None, expected' = [p \in Paths |-> {Nothing}]
  PROVE  BuilderInv'
  <1>1. \A p \in Paths : InForce(p)' = Nothing /\ expected'[p] = {Nothing}
    BY DEF InForce, None
  <1> QED
    BY <1>1 DEF BuilderInv

(* The builder keeps the configurations of unshared paths as expected, for *)
(* any set of paths.                                                       *)
THEOREM BuilderInvariant == Spec => []BuilderInv
<1>1. Init => BuilderInv
  BY DEF Init, BuilderInv
<1>2. BuilderInv /\ [Next]_vars => BuilderInv'
  <2> SUFFICES ASSUME BuilderInv, [Next]_vars PROVE BuilderInv'
    OBVIOUS
  <2>1. CASE UNCHANGED vars
    BY <2>1, OtherInv DEF vars
  <2>2. CASE NewBuilder
    BY <2>2, EmptyInv DEF NewBuilder, BuilderInv
  <2>3. CASE BuildWafHandleInstance \/ BuildFails
    BY <2>3, OtherInv DEF BuildWafHandleInstance, BuildFails
  <2>4. CASE Close
    BY <2>4, EmptyInv DEF Close
  <2>5. ASSUME NEW op, CallFails(op) \/ CallOffline(op) PROVE BuilderInv'
    BY <2>5, OtherInv DEF CallFails, CallOffline
  <2> QED
    BY <2>1, <2>2, <2>3, <2>4, <2>5, AddInv, RemoveInv DEF Next
<1> QED
  BY <1>1, <1>2, PTL DEF Spec

(* Every handle is built from exactly the configurations that the caller   *)
(* of the Java methods may expect under the paths of ASCII characters,     *)
(* whatever other paths are in use: the count of UTF-16 units that the     *)
(* native code takes for a count of bytes does no harm to them.            *)
THEOREM AlwaysAsciiAsAsked == Spec => []AsciiAsAsked
<1>1. BuilderInv => AsciiAsAsked
  BY AsciiUnshared DEF BuilderInv, AsciiAsAsked
<1> QED
  BY <1>1, BuilderInvariant, PTL

=============================================================================
