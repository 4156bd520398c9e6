--------------------------- MODULE SequenceProofs ---------------------------
(***************************************************************************)
(* Induction over naturals, and from it facts about sums of sequences and  *)
(* about FlattenSeq.  The induction theorems of the library take an        *)
(* operator for a parameter; here the property is the set of the numbers   *)
(* that have it, and a recursive definition is unfolded by showing that a  *)
(* function exists that satisfies it.                                      *)
(***************************************************************************)
EXTENDS SequenceSums, SequencesExt, SequenceTheorems, WellFoundedInduction, TLAPS

(* A set of naturals that has 0 and the successor of each member has all   *)
(* of them.                                                                *)
LEMMA SetInduction ==
  ASSUME NEW T \in SUBSET Nat, 0 \in T, \A n \in T : n + 1 \in T
  PROVE  T = Nat
  <1> DEFINE C == Nat \ T
  <1>1. SUFFICES ASSUME C # {} PROVE FALSE
    OBVIOUS
  <1>2. IsWellFoundedOn(OpToRel(<, Nat), Nat)
    BY NatLessThanWellFounded
  <1>3. PICK x \in C : \A y \in C : ~(<<y, x>> \in OpToRel(<, Nat))
    <2>1. C \subseteq Nat /\ C # {}
      BY <1>1
    <2> HIDE DEF C
    <2> QED
      BY <1>2, <2>1, WFMin
  <1>4. \A y \in C : ~(y < x)
    BY <1>3 DEF OpToRel
  <1>5. x # 0 /\ x - 1 \in Nat
    BY SMT
  <1>6. x - 1 \in T
    BY <1>4, <1>5, SMT
  <1> QED
    BY <1>6, SMT

(* A set of sequences that is closed under Append holds all of them.       *)
LEMMA SeqInduction ==
  ASSUME NEW S, NEW T \in SUBSET Seq(S), <<>> \in T,
         \A s \in T, e \in S : Append(s, e) \in T
  PROVE  T = Seq(S)
  <1> DEFINE U == {n \in Nat : \A s \in Seq(S) : Len(s) = n => s \in T}
  <1>1. 0 \in U
    <2>1. \A s \in Seq(S) : Len(s) = 0 => s = <<>>
      BY EmptySeq
    <2> QED
      BY <2>1
  <1>2. ASSUME NEW n \in U
        PROVE  n + 1 \in U
    <2> SUFFICES ASSUME NEW s \in Seq(S), Len(s) = n + 1
                 PROVE  s \in T
      OBVIOUS
    <2>1. s # <<>>
      OBVIOUS
    <2>2. PICK u \in Seq(S), e \in S : s = Append(u, e)
      BY <2>1, SequenceEmptyOrAppend
    <2>3. Len(u) = n
      <3>1. Len(s) = Len(u) + 1
        BY <2>2, AppendProperties
      <3> QED
        BY <3>1
    <2>4. u \in T
      BY <1>2, <2>3
    <2> QED
      BY <2>2, <2>4
  <1> HIDE DEF U
  <1>3. U \in SUBSET Nat
    BY DEF U
  <1>4. U = Nat
    BY <1>1, <1>2, <1>3, SetInduction
  <1>5. ASSUME NEW s \in Seq(S)
        PROVE  s \in T
    <2>1. Len(s) \in U
      BY <1>4
    <2> QED
      BY <2>1 DEF U
  <1> QED
    BY <1>5

(* A set that holds 0, and n + 1 with n as long as n < N, holds 0 .. N.    *)
LEMMA UpTo ==
  ASSUME NEW N \in Nat, NEW T, 0 \in T, \A n \in 0 .. N - 1 : n \in T => n + 1 \in T
  PROVE  0 .. N \subseteq T
  <1> DEFINE U == {n \in Nat : n <= N => n \in T}
  <1>1. U \in SUBSET Nat /\ 0 \in U
    OBVIOUS
  <1>2. \A n \in U : n + 1 \in U
    OBVIOUS
  <1> HIDE DEF U
  <1>3. U = Nat
    BY <1>1, <1>2, SetInduction
  <1> QED
    BY <1>3 DEF U

(* f is the function with f[0] = a whose value at i is step[i] of the      *)
(* value before.                                                           *)
Iterates(f, N, S, a, step) ==
  /\ f \in [0 .. N -> S]
  /\ f[0] = a
  /\ \A i \in 1 .. N : f[i] = step[i][f[i - 1]]

(* There is such a function: a recursion over 0 .. N defines one.          *)
LEMMA IteratesExist ==
  ASSUME NEW S, NEW a \in S, NEW N \in Nat, NEW step \in [1 .. N -> [S -> S]]
  PROVE  \E f : Iterates(f, N, S, a, step)
  <1> DEFINE T == {n \in 0 .. N : \E f : Iterates(f, n, S, a, step)}
  <1>1. 0 \in T
    <2> DEFINE f == [i \in 0 .. 0 |-> a]
    <2>1. Iterates(f, 0, S, a, step)
      BY DEF Iterates
    <2>2. 0 \in 0 .. N
      OBVIOUS
    <2> HIDE DEF f
    <2> QED
      BY <2>1, <2>2
  <1>2. ASSUME NEW n \in 0 .. N - 1, n \in T
        PROVE  n + 1 \in T
    <2>1. PICK f : Iterates(f, n, S, a, step)
      BY <1>2
    <2> DEFINE g == [i \in 0 .. n + 1 |-> IF i = n + 1 THEN step[n + 1][f[n]] ELSE f[i]]
    <2>2. g \in [0 .. n + 1 -> S]
      <3>1. step[n + 1] \in [S -> S]
        OBVIOUS
      <3>2. f[n] \in S
        BY <2>1 DEF Iterates
      <3> QED
        BY <2>1, <3>1, <3>2 DEF Iterates
    <2>3. g[0] = a
      BY <2>1 DEF Iterates
    <2>4. ASSUME NEW i \in 1 .. n + 1
          PROVE  g[i] = step[i][g[i - 1]]
      <3>1. CASE i = n + 1
        BY <3>1
      <3>2. CASE i # n + 1
        <4>1. i \in 1 .. n /\ i - 1 \in 0 .. n + 1 /\ i \in 0 .. n + 1 /\ i - 1 # n + 1
          BY <3>2
        <4>2. f[i] = step[i][f[i - 1]]
          BY <2>1, <4>1 DEF Iterates
        <4> QED
          BY <3>2, <4>1, <4>2
      <3> QED
        BY <3>1, <3>2
    <2> HIDE DEF g
    <2>5. Iterates(g, n + 1, S, a, step)
      BY <2>2, <2>3, <2>4 DEF Iterates
    <2>6. n + 1 \in 0 .. N
      OBVIOUS
    <2> QED
      BY <2>5, <2>6
  <1> HIDE DEF T
  <1>3. 0 .. N \subseteq T
    BY <1>1, <1>2, UpTo
  <1>4. N \in T
    BY <1>3
  <1> QED
    BY <1>4 DEF T

(* The recursive definition of Sums.                                       *)
SumsOf(f, N, s) == f = [i \in 0 .. N |-> IF i = 0 THEN 0 ELSE f[i - 1] + s[i]]

(* Some function satisfies the recursive definition of Sums.               *)
LEMMA SumsExist ==
  ASSUME NEW N \in Nat, NEW s \in [1 .. N -> Int]
  PROVE  \E f : SumsOf(f, N, s)
  <1> DEFINE step == [i \in 1 .. N |-> [x \in Int |-> x + s[i]]]
  <1>1. step \in [1 .. N -> [Int -> Int]] /\ 0 \in Int
    OBVIOUS
  <1>2. \A i \in 1 .. N, x \in Int : step[i][x] = x + s[i]
    OBVIOUS
  <1> HIDE DEF step
  <1>3. PICK f : Iterates(f, N, Int, 0, step)
    BY <1>1, IteratesExist
  <1>4. f \in [0 .. N -> Int] /\ f[0] = 0 /\ \A i \in 1 .. N : f[i] = step[i][f[i - 1]]
    BY <1>3 DEF Iterates
  <1>5. ASSUME NEW i \in 1 .. N
        PROVE  f[i] = f[i - 1] + s[i]
    <2>1. i - 1 \in 0 .. N
      OBVIOUS
    <2>2. f[i - 1] \in Int
      BY <1>4, <2>1
    <2> QED
      BY <1>2, <1>4, <2>2
  <1>6. f = [i \in 0 .. N |-> IF i = 0 THEN 0 ELSE f[i - 1] + s[i]]
    BY <1>4, <1>5
  <1> QED
    BY <1>6 DEF SumsOf

(* The recursive definition of Sums, unfolded.                             *)
SumsFrom(f, N, s) ==
  /\ f \in [0 .. N -> Int]
  /\ f[0] = 0
  /\ \A i \in 1 .. N : f[i] = f[i - 1] + s[i]

(* A function that satisfies it has integer values, each the one before    *)
(* and the next element.                                                   *)
LEMMA SumsValues ==
  ASSUME NEW N \in Nat, NEW s \in [1 .. N -> Int], NEW h, SumsOf(h, N, s)
  PROVE  SumsFrom(h, N, s)
  <1>1. h = [i \in 0 .. N |-> IF i = 0 THEN 0 ELSE h[i - 1] + s[i]]
    BY DEF SumsOf
  <1>2. h[0] = 0
    BY <1>1
  <1>3. \A i \in 1 .. N : h[i] = h[i - 1] + s[i]
    BY <1>1
  <1> DEFINE T == {i \in 0 .. N : h[i] \in Int}
  <1>4. 0 \in T
    BY <1>2
  <1>5. \A n \in 0 .. N - 1 : n \in T => n + 1 \in T
    <2> SUFFICES ASSUME NEW n \in 0 .. N - 1, n \in T
                 PROVE  n + 1 \in T
      OBVIOUS
    <2>1. n + 1 \in 1 .. N /\ n + 1 - 1 = n
      OBVIOUS
    <2>2. h[n + 1] = h[n] + s[n + 1]
      BY <1>3, <2>1
    <2>3. s[n + 1] \in Int /\ h[n] \in Int
      BY <2>1
    <2> QED
      BY <2>1, <2>2, <2>3
  <1> HIDE DEF T
  <1>6. 0 .. N \subseteq T
    BY <1>4, <1>5, UpTo
  <1>7. \A i \in 0 .. N : h[i] \in Int
    BY <1>6 DEF T
  <1> QED
    BY <1>1, <1>2, <1>3, <1>7 DEF SumsFrom

(* Sums(s), the function CHOOSE takes, is such a function.                 *)
LEMMA SumsDef ==
  ASSUME NEW s \in Seq(Int)
  PROVE  SumsFrom(Sums(s), Len(s), s)
  <1>1. Len(s) \in Nat /\ s \in [1 .. Len(s) -> Int]
    OBVIOUS
  <1>2. PICK f : SumsOf(f, Len(s), s)
    BY <1>1, SumsExist
  <1>3. Sums(s) = CHOOSE g : g = [i \in 0 .. Len(s) |-> IF i = 0 THEN 0 ELSE g[i - 1] + s[i]]
    BY DEF Sums
  <1>4. Sums(s) = CHOOSE g : SumsOf(g, Len(s), s)
    BY <1>3 DEF SumsOf
  <1>5. SumsOf(Sums(s), Len(s), s)
    BY <1>2, <1>4
  <1> QED
    BY <1>1, <1>5, SumsValues
(* Total(s) is an integer.                                                 *)
LEMMA TotalType ==
  ASSUME NEW s \in Seq(Int)
  PROVE  Total(s) \in Int
  <1>1. SumsFrom(Sums(s), Len(s), s) /\ Len(s) \in 0 .. Len(s)
    BY SumsDef
  <1> QED
    BY <1>1 DEF SumsFrom, Total

(* The first n elements of two sequences are the same.                     *)
SameUpTo(s, t, n) ==
  /\ n \in 0 .. Len(s) /\ n \in 0 .. Len(t)
  /\ \A i \in 1 .. n : s[i] = t[i]

(* Sums over the same elements are the same.                               *)
LEMMA SumsUpTo ==
  ASSUME NEW s \in Seq(Int), NEW t \in Seq(Int), NEW n, SameUpTo(s, t, n)
  PROVE  Sums(s)[n] = Sums(t)[n] /\ Sums(s)[n] \in Int
  <1> DEFINE f == Sums(s)
             g == Sums(t)
             T == {i \in 0 .. n : f[i] = g[i] /\ f[i] \in Int}
  <1>1. /\ f \in [0 .. Len(s) -> Int] /\ f[0] = 0 /\ \A i \in 1 .. Len(s) : f[i] = f[i - 1] + s[i]
        /\ g \in [0 .. Len(t) -> Int] /\ g[0] = 0 /\ \A i \in 1 .. Len(t) : g[i] = g[i - 1] + t[i]
    BY SumsDef DEF SumsFrom
  <1>2. /\ Len(s) \in Nat /\ Len(t) \in Nat /\ n \in Nat /\ n <= Len(s) /\ n <= Len(t)
        /\ \A i \in 1 .. n : s[i] = t[i] /\ s[i] \in Int
    BY DEF SameUpTo
  <1> HIDE DEF f, g
  <1>3. 0 \in T
    BY <1>1, <1>2
  <1>4. ASSUME NEW i \in 0 .. n - 1, i \in T
        PROVE  i + 1 \in T
    <2> DEFINE j == i + 1
    <2>1. j \in 1 .. n /\ j \in 1 .. Len(s) /\ j \in 1 .. Len(t) /\ j - 1 = i
      BY <1>2
    <2> HIDE DEF j
    <2>2. f[j] = f[i] + s[j] /\ g[j] = g[i] + t[j] /\ s[j] = t[j] /\ s[j] \in Int
      BY <1>1, <1>2, <2>1
    <2>3. f[i] = g[i] /\ f[i] \in Int
      BY <1>4
    <2>4. f[j] = g[j] /\ f[j] \in Int
      BY <2>2, <2>3
    <2>5. j \in T
      BY <1>2, <2>1, <2>4
    <2> QED
      BY <2>5 DEF j
  <1> HIDE DEF T
  <1>5. 0 .. n \subseteq T
    BY <1>2, <1>3, <1>4, UpTo
  <1>6. n \in T
    BY <1>2, <1>5
  <1> QED
    BY <1>6 DEF T, f, g

(* So are the elements behind the first k of one and the first l of the    *)
(* other.                                                                  *)
SameAfter(s, k, t, l) ==
  /\ k \in 0 .. Len(s) /\ l \in 0 .. Len(t) /\ Len(s) - k = Len(t) - l
  /\ \A i \in k + 1 .. Len(s) : s[i] = t[i + (l - k)]

(* What comes behind the same elements adds the same.                      *)
LEMMA SumsAfter ==
  ASSUME NEW s \in Seq(Int), NEW t \in Seq(Int), NEW k, NEW l, SameAfter(s, k, t, l)
  PROVE  Total(s) + Sums(t)[l] = Total(t) + Sums(s)[k]
  <1> DEFINE f == Sums(s)
             g == Sums(t)
             n == Len(s) - k
             d == l - k
             T == {i \in 0 .. n : f[k + i] + g[l] = g[l + i] + f[k]}
  <1>1. /\ f \in [0 .. Len(s) -> Int] /\ \A i \in 1 .. Len(s) : f[i] = f[i - 1] + s[i]
        /\ g \in [0 .. Len(t) -> Int] /\ \A i \in 1 .. Len(t) : g[i] = g[i - 1] + t[i]
    BY SumsDef DEF SumsFrom
  <1>2. /\ Len(s) \in Nat /\ Len(t) \in Nat /\ k \in 0 .. Len(s) /\ l \in 0 .. Len(t)
        /\ Len(s) - k = Len(t) - l
        /\ \A i \in k + 1 .. Len(s) : s[i] = t[i + d] /\ s[i] \in Int
    <2>1. /\ Len(s) \in Nat /\ Len(t) \in Nat /\ k \in 0 .. Len(s) /\ l \in 0 .. Len(t)
          /\ Len(s) - k = Len(t) - l
      BY DEF SameAfter
    <2>2. ASSUME NEW i \in k + 1 .. Len(s)
          PROVE  s[i] = t[i + d] /\ s[i] \in Int
      <3>1. i \in 1 .. Len(s)
        BY <2>1
      <3> QED
        BY <3>1 DEF SameAfter
    <2> QED
      BY <2>1, <2>2
  <1> HIDE DEF f, g
  <1>3. 0 \in T
    <2>1. k + 0 = k /\ l + 0 = l /\ 0 \in 0 .. n
      BY <1>2
    <2>2. f[k] \in Int /\ g[l] \in Int
      BY <1>1, <1>2
    <2>3. f[k] + g[l] = g[l] + f[k]
      BY <2>2
    <2>4. f[k + 0] + g[l] = g[l + 0] + f[k]
      BY <2>1, <2>3
    <2> QED
      BY <2>1, <2>4
  <1>4. ASSUME NEW i \in 0 .. n - 1, i \in T
        PROVE  i + 1 \in T
    <2> DEFINE a == k + i + 1
               b == l + i + 1
    <2>1. /\ a \in 1 .. Len(s) /\ b \in 1 .. Len(t) /\ a \in k + 1 .. Len(s) /\ b = a + d
          /\ a - 1 = k + i /\ b - 1 = l + i /\ k + (i + 1) = a /\ l + (i + 1) = b
          /\ k + i \in 0 .. Len(s) /\ l + i \in 0 .. Len(t) /\ i + 1 \in 0 .. n
      BY <1>2
    <2> HIDE DEF a, b, d
    <2>2. f[a] = f[k + i] + s[a] /\ g[b] = g[l + i] + t[b]
      BY <1>1, <2>1
    <2>3. s[a] = t[b] /\ s[a] \in Int
      BY <1>2, <2>1
    <2>4. f[k + i] \in Int /\ g[l + i] \in Int /\ f[k] \in Int /\ g[l] \in Int
      BY <1>1, <1>2, <2>1
    <2>5. f[k + i] + g[l] = g[l + i] + f[k]
      BY <1>4
    <2>6. (f[k + i] + s[a]) + g[l] = (g[l + i] + s[a]) + f[k]
      <3> DEFINE u == f[k + i]
                 v == g[l + i]
                 x == s[a]
                 p == g[l]
                 q == f[k]
      <3>1. u \in Int /\ v \in Int /\ x \in Int /\ p \in Int /\ q \in Int /\ u + p = v + q
        BY <2>3, <2>4, <2>5
      <3> HIDE DEF u, v, x, p, q
      <3>2. (u + x) + p = (v + x) + q
        BY <3>1
      <3> QED
        BY <3>2 DEF u, v, x, p, q
    <2>7. f[a] + g[l] = g[b] + f[k]
      BY <2>2, <2>3, <2>6
    <2> QED
      BY <2>1, <2>7
  <1>5. 0 .. n \subseteq T
    <2>1. n \in Nat
      BY <1>2
    <2> HIDE DEF T, n
    <2> QED
      BY <1>3, <1>4, <2>1, UpTo
  <1>6. n \in T
    <2>1. n \in 0 .. n
      BY <1>2
    <2> QED
      BY <1>5, <2>1
  <1>7. k + n = Len(s) /\ l + n = Len(t)
    BY <1>2
  <1>8. f[k + n] + g[l] = g[l + n] + f[k]
    BY <1>6
  <1> QED
    BY <1>7, <1>8 DEF Total, f, g

(* The sum of no elements.                                                 *)
LEMMA TotalEmpty == Total(<<>>) = 0
  <1>1. <<>> \in Seq(Int) /\ Len(<<>>) = 0
    OBVIOUS
  <1> QED
    BY <1>1, SumsDef DEF SumsFrom, Total

(* One element more at the end.                                            *)
LEMMA TotalAppend ==
  ASSUME NEW s \in Seq(Int), NEW x \in Int
  PROVE  Total(Append(s, x)) = Total(s) + x
  <1> DEFINE t == Append(s, x)
             n == Len(s)
  <1>1. t \in Seq(Int) /\ Len(t) = n + 1 /\ t[n + 1] = x /\ n \in Nat /\ SameUpTo(s, t, n)
    BY DEF SameUpTo
  <1> HIDE DEF t
  <1>2. Sums(t)[n + 1] = Sums(t)[n] + x
    <2>1. \A i \in 1 .. n + 1 : Sums(t)[i] = Sums(t)[i - 1] + t[i]
      BY <1>1, SumsDef DEF SumsFrom
    <2>2. n + 1 \in 1 .. n + 1 /\ n + 1 - 1 = n
      BY <1>1
    <2> QED
      BY <1>1, <2>1, <2>2
  <1>3. Sums(s)[n] = Sums(t)[n]
    BY <1>1, SumsUpTo
  <1>4. Total(t) = Sums(t)[n + 1] /\ Total(s) = Sums(s)[n]
    BY <1>1 DEF Total
  <1> QED
    BY <1>2, <1>3, <1>4 DEF t

(* One element less at the front.                                          *)
LEMMA TotalTail ==
  ASSUME NEW s \in Seq(Int), s # <<>>
  PROVE  Total(s) = Head(s) + Total(Tail(s))
  <1> DEFINE t == Tail(s)
             n == Len(t)
  <1>1. t \in Seq(Int) /\ Len(s) = n + 1 /\ n \in Nat /\ s[1] = Head(s) /\ s[1] \in Int
    OBVIOUS
  <1>2. SameAfter(s, 1, t, 0)
    <2>1. \A i \in 1 + 1 .. Len(s) : s[i] = t[i + (0 - 1)]
      BY <1>1
    <2> QED
      BY <1>1, <2>1 DEF SameAfter
  <1> HIDE DEF t
  <1>3. Total(s) + Sums(t)[0] = Total(t) + Sums(s)[1]
    BY <1>1, <1>2, SumsAfter
  <1>4. Sums(t)[0] = 0 /\ Sums(s)[1] = s[1]
    <2>1. SumsFrom(Sums(t), Len(t), t) /\ SumsFrom(Sums(s), Len(s), s)
      BY <1>1, SumsDef
    <2>2. 1 \in 1 .. Len(s) /\ 1 - 1 = 0
      BY <1>1
    <2>3. Sums(t)[0] = 0 /\ Sums(s)[0] = 0 /\ Sums(s)[1] = Sums(s)[0] + s[1]
      BY <2>1, <2>2 DEF SumsFrom
    <2> QED
      BY <1>1, <2>3
  <1>5. Total(s) \in Int /\ Total(t) \in Int
    BY <1>1, TotalType
  <1> QED
    BY <1>1, <1>3, <1>4, <1>5 DEF t

(* One element more at the front.                                          *)
LEMMA TotalCons ==
  ASSUME NEW s \in Seq(Int), NEW x \in Int
  PROVE  Total(<<x>> \o s) = x + Total(s)
  <1>1. /\ <<x>> \o s \in Seq(Int) /\ <<x>> \o s # <<>>
        /\ Head(<<x>> \o s) = x /\ Tail(<<x>> \o s) = s
    OBVIOUS
  <1> QED
    BY <1>1, TotalTail

(* An element that grows by n makes the sum grow by n.                     *)
LEMMA TotalUpdate ==
  ASSUME NEW s \in Seq(Int), NEW k \in 1 .. Len(s), NEW n \in Int
  PROVE  Total([s EXCEPT ![k] = @ + n]) = Total(s) + n
  <1> DEFINE t == [s EXCEPT ![k] = @ + n]
             l == Len(s)
  <1>1. /\ t \in Seq(Int) /\ Len(t) = l /\ l \in Nat /\ t[k] = s[k] + n /\ s[k] \in Int
        /\ \A i \in 1 .. l : i # k => t[i] = s[i]
    OBVIOUS
  <1>2. /\ Sums(s) \in [0 .. l -> Int] /\ Sums(s)[0] = 0
        /\ \A i \in 1 .. l : Sums(s)[i] = Sums(s)[i - 1] + s[i]
        /\ Sums(t) \in [0 .. l -> Int] /\ Sums(t)[0] = 0
        /\ \A i \in 1 .. l : Sums(t)[i] = Sums(t)[i - 1] + t[i]
    <2>1. SumsFrom(Sums(s), l, s) /\ SumsFrom(Sums(t), l, t)
      BY <1>1, SumsDef
    <2> HIDE DEF t
    <2> QED
      BY <2>1 DEF SumsFrom
  <1>3. k \in 1 .. l /\ k - 1 \in 0 .. l
    BY <1>1
  <1>4. SameUpTo(s, t, k - 1)
    BY <1>1, <1>3 DEF SameUpTo
  <1>5. SameAfter(s, k, t, k)
    <2>1. \A i \in k + 1 .. l : s[i] = t[i + (k - k)]
      BY <1>1, <1>3
    <2> QED
      BY <1>1, <1>3, <2>1 DEF SameAfter
  <1> HIDE DEF t, l
  <1>6. Sums(s)[k - 1] = Sums(t)[k - 1] /\ Sums(s)[k - 1] \in Int
    BY <1>1, <1>4, SumsUpTo
  <1>7. Sums(s)[k] = Sums(s)[k - 1] + s[k] /\ Sums(t)[k] = Sums(t)[k - 1] + t[k]
    BY <1>2, <1>3
  <1>8. Total(s) + Sums(t)[k] = Total(t) + Sums(s)[k]
    BY <1>1, <1>5, SumsAfter
  <1>9. Total(s) \in Int /\ Total(t) \in Int
    BY <1>1, TotalType
  <1>10. Total(t) = Total(s) + n
    <2> DEFINE p == Sums(s)[k - 1]
               x == s[k]
               u == Total(s)
               v == Total(t)
    <2>1. p \in Int /\ x \in Int /\ u \in Int /\ v \in Int
      BY <1>1, <1>6, <1>9
    <2>2. u + (p + (x + n)) = v + (p + x)
      BY <1>1, <1>6, <1>7, <1>8
    <2> HIDE DEF p, x, u, v
    <2>3. v = u + n
      BY <2>1, <2>2
    <2> QED
      BY <2>3 DEF u, v
  <1> QED
    BY <1>10 DEF t

(* The sums of naturals grow.                                              *)
LEMMA SumsGrow ==
  ASSUME NEW s \in Seq(Nat), NEW i \in 0 .. Len(s)
  PROVE  Sums(s)[i] \in 0 .. Total(s)
  <1> DEFINE f == Sums(s)
             N == Len(s)
             T == {j \in 0 .. N : f[j] \in Nat}
             U == {j \in 0 .. N : j <= N - i => f[i] <= f[i + j]}
  <1>1. /\ N \in Nat /\ f \in [0 .. N -> Int] /\ f[0] = 0
        /\ \A j \in 1 .. N : f[j] = f[j - 1] + s[j] /\ s[j] \in Nat
    <2>1. s \in Seq(Int)
      OBVIOUS
    <2>2. SumsFrom(Sums(s), Len(s), s)
      BY <2>1, SumsDef
    <2> QED
      BY <2>2 DEF SumsFrom
  <1>2. i \in 0 .. N
    OBVIOUS
  <1> HIDE DEF f, N
  <1>3. 0 .. N \subseteq T
    <2>1. 0 \in T
      BY <1>1
    <2>2. ASSUME NEW j \in 0 .. N - 1, j \in T
          PROVE  j + 1 \in T
      <3>1. j + 1 \in 1 .. N /\ j + 1 - 1 = j
        BY <1>1
      <3> QED
        <4>1. f[j + 1] = f[j] + s[j + 1] /\ s[j + 1] \in Nat
          BY <1>1, <3>1
        <4>2. f[j] \in Nat
          BY <2>2
        <4>3. f[j + 1] \in Nat
          BY <4>1, <4>2
        <4> QED
          BY <1>1, <3>1, <4>3
    <2> HIDE DEF T
    <2> QED
      BY <1>1, <2>1, <2>2, UpTo
  <1>4. 0 .. N \subseteq U
    <2>1. 0 \in U
      BY <1>1, <1>2
    <2>2. ASSUME NEW j \in 0 .. N - 1, j \in U
          PROVE  j + 1 \in U
      <3> SUFFICES ASSUME j + 1 <= N - i
                   PROVE  f[i] <= f[i + (j + 1)]
        BY <1>1
      <3>1. i + (j + 1) \in 1 .. N /\ i + (j + 1) - 1 = i + j /\ i + j \in 0 .. N
        BY <1>1, <1>2
      <3>2. f[i] <= f[i + j] /\ f[i + j] \in Int /\ f[i] \in Int
        BY <1>1, <1>2, <2>2, <3>1
      <3>3. f[i + (j + 1)] = f[i + j] + s[i + (j + 1)] /\ s[i + (j + 1)] \in Nat
        BY <1>1, <3>1
      <3> QED
        BY <3>2, <3>3
    <2> HIDE DEF U
    <2> QED
      BY <1>1, <2>1, <2>2, UpTo
  <1>5. f[i] <= f[N]
    <2>1. N - i \in 0 .. N /\ i + (N - i) = N /\ N - i <= N - i
      BY <1>1, <1>2
    <2>2. N - i \in U
      BY <1>4, <2>1
    <2> QED
      BY <2>1, <2>2
  <1>6. f[i] \in Nat /\ f[N] \in Nat
    BY <1>1, <1>2, <1>3
  <1> QED
    BY <1>5, <1>6 DEF Total, f, N

(* A bound on the elements bounds the total.                               *)
LEMMA TotalBound ==
  ASSUME NEW s \in Seq(Int), NEW m \in Int, \A i \in 1 .. Len(s) : s[i] <= m
  PROVE  Total(s) <= Len(s) * m
  <1> DEFINE f == Sums(s)
             N == Len(s)
             T == {j \in 0 .. N : f[j] <= j * m}
  <1>1. /\ N \in Nat /\ f \in [0 .. N -> Int] /\ f[0] = 0
        /\ \A j \in 1 .. N : f[j] = f[j - 1] + s[j] /\ s[j] \in Int /\ s[j] <= m
    <2>1. SumsFrom(Sums(s), Len(s), s)
      BY SumsDef
    <2> QED
      BY <2>1 DEF SumsFrom
  <1> HIDE DEF f, N
  <1>2. 0 \in T
    BY <1>1
  <1>3. ASSUME NEW j \in 0 .. N - 1, j \in T
        PROVE  j + 1 \in T
    <2>1. j + 1 \in 1 .. N /\ j + 1 - 1 = j /\ j \in Nat
      BY <1>1
    <2>2. (j + 1) * m = j * m + m /\ j * m \in Int
      BY <2>1
    <2>3. f[j + 1] = f[j] + s[j + 1] /\ s[j + 1] <= m /\ s[j + 1] \in Int /\ f[j] \in Int /\ f[j] <= j * m
      BY <1>1, <1>3, <2>1
    <2>4. f[j + 1] <= (j + 1) * m
      BY <2>2, <2>3
    <2> QED
      BY <2>1, <2>4
  <1> HIDE DEF T
  <1>4. 0 .. N \subseteq T
    BY <1>1, <1>2, <1>3, UpTo
  <1>5. N \in T
    BY <1>1, <1>4
  <1> QED
    BY <1>5 DEF T, Total, f, N

-----------------------------------------------------------------------------
(* f[i] is the concatenation of the first i elements of ss.                *)
Flattens(f, N, S, ss) ==
  /\ f \in [1 .. N -> Seq(S)]
  /\ f[1] = ss[1]
  /\ \A i \in 2 .. N : f[i] = f[i - 1] \o ss[i]

(* There is a function with these values.                                  *)
LEMMA FlattensExist ==
  ASSUME NEW S, NEW ss \in Seq(Seq(S)), ss # <<>>
  PROVE  \E f : Flattens(f, Len(ss), S, ss)
  <1> DEFINE N == Len(ss)
             M == N - 1
             step == [i \in 1 .. M |-> [x \in Seq(S) |-> x \o ss[i + 1]]]
  <1>1. N \in Nat /\ N # 0 /\ M \in Nat /\ \A i \in 1 .. N : ss[i] \in Seq(S)
    OBVIOUS
  <1>2. step \in [1 .. M -> [Seq(S) -> Seq(S)]] /\ ss[1] \in Seq(S)
    <2>1. \A i \in 1 .. M : i + 1 \in 1 .. N
      BY <1>1
    <2> QED
      BY <1>1, <2>1
  <1>3. \A i \in 1 .. M, x \in Seq(S) : step[i][x] = x \o ss[i + 1]
    OBVIOUS
  <1> HIDE DEF step, N, M
  <1>4. PICK h : Iterates(h, M, Seq(S), ss[1], step)
    BY <1>1, <1>2, IteratesExist
  <1>5. /\ h \in [0 .. M -> Seq(S)] /\ h[0] = ss[1]
        /\ \A i \in 1 .. M : h[i] = step[i][h[i - 1]]
    BY <1>4 DEF Iterates
  <1> DEFINE f == [i \in 1 .. N |-> h[i - 1]]
  <1>6. M = N - 1
    BY DEF M
  <1>7. f \in [1 .. N -> Seq(S)] /\ f[1] = ss[1]
    BY <1>1, <1>5, <1>6
  <1>8. ASSUME NEW i \in 2 .. N
        PROVE  f[i] = f[i - 1] \o ss[i]
    <2> DEFINE j == i - 1
    <2>1. j \in 1 .. M /\ j \in 1 .. N /\ i \in 1 .. N /\ j + 1 = i /\ j - 1 \in 0 .. M
      BY <1>1, <1>6
    <2> HIDE DEF j
    <2>2. h[j - 1] \in Seq(S)
      BY <1>5, <2>1
    <2>3. h[j] = h[j - 1] \o ss[i]
      BY <1>3, <1>5, <2>1, <2>2
    <2>4. f[i] = h[j] /\ f[j] = h[j - 1]
      BY <2>1 DEF j
    <2> HIDE DEF f
    <2>5. f[i] = f[j] \o ss[i]
      BY <2>3, <2>4
    <2> QED
      BY <2>5 DEF j
  <1> HIDE DEF f
  <1>9. Flattens(f, N, S, ss)
    BY <1>7, <1>8 DEF Flattens
  <1> QED
    BY <1>9 DEF N

(* The recursive definition inside FlattenSeq.                             *)
FlattenOf(f, ss) ==
  f = [i \in 1 .. Len(ss) |-> IF i = 1 THEN ss[i] ELSE f[i - 1] \o ss[i]]

(* A function that satisfies the definition inside FlattenSeq has these    *)
(* values.                                                                 *)
LEMMA FlattenValues ==
  ASSUME NEW S, NEW ss \in Seq(Seq(S)), ss # <<>>, NEW f, FlattenOf(f, ss)
  PROVE  Flattens(f, Len(ss), S, ss)
  <1> DEFINE N == Len(ss)
             T == {i \in 0 .. N - 1 : f[i + 1] \in Seq(S)}
  <1>1. N \in Nat /\ N # 0 /\ \A i \in 1 .. N : ss[i] \in Seq(S)
    OBVIOUS
  <1>2. f = [i \in 1 .. N |-> IF i = 1 THEN ss[i] ELSE f[i - 1] \o ss[i]]
    BY DEF FlattenOf
  <1> HIDE DEF N
  <1>3. f[1] = ss[1]
    BY <1>1, <1>2
  <1>4. ASSUME NEW i \in 2 .. N
        PROVE  f[i] = f[i - 1] \o ss[i]
    <2>1. i \in 1 .. N /\ i # 1
      BY <1>1
    <2> QED
      BY <1>2, <2>1
  <1>5. 0 \in T
    BY <1>1, <1>3
  <1>6. ASSUME NEW i \in 0 .. (N - 1) - 1, i \in T
        PROVE  i + 1 \in T
    <2> DEFINE j == i + 2
    <2>1. j \in 2 .. N /\ j - 1 = i + 1 /\ (i + 1) + 1 = j /\ j \in 1 .. N /\ i + 1 \in 0 .. N - 1
      BY <1>1
    <2> HIDE DEF j
    <2>2. f[j] = f[i + 1] \o ss[j] /\ ss[j] \in Seq(S)
      BY <1>1, <1>4, <2>1
    <2>3. f[i + 1] \in Seq(S)
      BY <1>6
    <2>4. f[j] \in Seq(S)
      BY <2>2, <2>3
    <2> QED
      BY <2>1, <2>4
  <1>7. N - 1 \in Nat
    BY <1>1
  <1>8. 0 .. N - 1 \subseteq T
    <2> HIDE DEF T
    <2> QED
      BY <1>5, <1>6, <1>7, UpTo
  <1>9. ASSUME NEW i \in 1 .. N
        PROVE  f[i] \in Seq(S)
    <2>1. i - 1 \in 0 .. N - 1 /\ (i - 1) + 1 = i
      BY <1>1
    <2>2. i - 1 \in T
      BY <1>8, <2>1
    <2> QED
      BY <2>1, <2>2
  <1>10. f \in [1 .. N -> Seq(S)]
    BY <1>2, <1>9
  <1> QED
    BY <1>3, <1>4, <1>10 DEF Flattens, N

(* FlattenSeq is the last of these values.                                 *)
LEMMA FlattenDef ==
  ASSUME NEW S, NEW ss \in Seq(Seq(S)), ss # <<>>
  PROVE  \E f : Flattens(f, Len(ss), S, ss) /\ FlattenSeq(ss) = f[Len(ss)]
  <1>1. PICK g : Flattens(g, Len(ss), S, ss)
    BY FlattensExist
  <1> DEFINE N == Len(ss)
  <1>2. FlattenOf(g, ss)
    <2>1. /\ g \in [1 .. N -> Seq(S)] /\ g[1] = ss[1]
          /\ \A i \in 2 .. N : g[i] = g[i - 1] \o ss[i]
      BY <1>1 DEF Flattens
    <2>2. \A i \in 1 .. N : i # 1 => i \in 2 .. N
      OBVIOUS
    <2> HIDE DEF N
    <2>3. \A i \in 1 .. N : g[i] = IF i = 1 THEN ss[i] ELSE g[i - 1] \o ss[i]
      BY <2>1, <2>2
    <2>4. g = [i \in 1 .. N |-> IF i = 1 THEN ss[i] ELSE g[i - 1] \o ss[i]]
      BY <2>1, <2>3
    <2> QED
      BY <2>4 DEF FlattenOf, N
  <1> DEFINE f == CHOOSE h : FlattenOf(h, ss)
  <1>3. FlattenOf(f, ss)
    BY <1>2
  <1>4. Len(ss) # 0
    OBVIOUS
  <1>5. FlattenSeq(ss) = (CHOOSE h : h = [i \in 1 .. Len(ss) |->
                            IF i = 1 THEN ss[i] ELSE h[i - 1] \o ss[i]])[Len(ss)]
    BY <1>4 DEF FlattenSeq
  <1>6. FlattenSeq(ss) = f[Len(ss)]
    BY <1>5 DEF FlattenOf
  <1> HIDE DEF f
  <1>7. Flattens(f, Len(ss), S, ss)
    BY <1>3, FlattenValues
  <1> QED
    BY <1>6, <1>7

(* A sequence of sequences is flattened from left to right.                *)
LEMMA FlattenType ==
  ASSUME NEW S, NEW ss \in Seq(Seq(S))
  PROVE  FlattenSeq(ss) \in Seq(S)
  <1>1. CASE ss = <<>>
    BY <1>1 DEF FlattenSeq
  <1>2. CASE ss # <<>>
    <2>1. PICK f : Flattens(f, Len(ss), S, ss) /\ FlattenSeq(ss) = f[Len(ss)]
      BY <1>2, FlattenDef
    <2>2. Len(ss) \in 1 .. Len(ss)
      BY <1>2
    <2> QED
      BY <2>1, <2>2 DEF Flattens
  <1> QED
    BY <1>1, <1>2

(* Concatenations of the same sequences are the same.                      *)
LEMMA FlattensSame ==
  ASSUME NEW S, NEW ss \in Seq(Seq(S)), NEW tt \in Seq(Seq(S)), NEW n \in Nat \ {0}, SameUpTo(ss, tt, n),
         NEW f, Flattens(f, Len(ss), S, ss), NEW g, Flattens(g, Len(tt), S, tt)
  PROVE  f[n] = g[n]
  <1> DEFINE T == {i \in 0 .. n - 1 : f[i + 1] = g[i + 1]}
  <1>1. /\ n \in 1 .. Len(ss) /\ n \in 1 .. Len(tt) /\ Len(ss) \in Nat /\ Len(tt) \in Nat
        /\ \A i \in 1 .. n : ss[i] = tt[i]
    BY DEF SameUpTo
  <1>2. f[1] = ss[1] /\ \A i \in 2 .. Len(ss) : f[i] = f[i - 1] \o ss[i]
    BY DEF Flattens
  <1>3. g[1] = tt[1] /\ \A i \in 2 .. Len(tt) : g[i] = g[i - 1] \o tt[i]
    BY DEF Flattens
  <1>4. 0 \in T
    BY <1>1, <1>2, <1>3
  <1>5. ASSUME NEW i \in 0 .. (n - 1) - 1, i \in T
        PROVE  i + 1 \in T
    <2> DEFINE j == i + 2
    <2>1. /\ j \in 2 .. Len(ss) /\ j \in 2 .. Len(tt) /\ j - 1 = i + 1 /\ (i + 1) + 1 = j
          /\ j \in 1 .. n /\ i + 1 \in 0 .. n - 1
      BY <1>1
    <2> HIDE DEF j
    <2>2. f[j] = f[i + 1] \o ss[j] /\ g[j] = g[i + 1] \o tt[j] /\ ss[j] = tt[j]
      BY <1>1, <1>2, <1>3, <2>1
    <2>3. f[i + 1] = g[i + 1]
      BY <1>5
    <2>4. f[j] = g[j]
      BY <2>2, <2>3
    <2> QED
      BY <2>1, <2>4
  <1>6. n - 1 \in Nat
    BY <1>1
  <1>7. 0 .. n - 1 \subseteq T
    <2> HIDE DEF T
    <2> QED
      BY <1>4, <1>5, <1>6, UpTo
  <1>8. n - 1 \in 0 .. n - 1 /\ (n - 1) + 1 = n
    BY <1>1
  <1>9. n - 1 \in T
    BY <1>7, <1>8
  <1> QED
    BY <1>8, <1>9

(* One sequence more at the end.                                           *)
LEMMA FlattenAppend ==
  ASSUME NEW S, NEW ss \in Seq(Seq(S)), NEW x \in Seq(S)
  PROVE  FlattenSeq(Append(ss, x)) = FlattenSeq(ss) \o x
  <1> DEFINE tt == Append(ss, x)
             n  == Len(ss)
  <1>1. /\ tt \in Seq(Seq(S)) /\ tt # <<>> /\ Len(tt) = n + 1 /\ tt[n + 1] = x /\ n \in Nat
        /\ \A i \in 1 .. n : tt[i] = ss[i]
    <2> DEFINE R == Seq(S)
    <2>1. n \in Nat /\ ss \in Seq(R) /\ x \in R
      OBVIOUS
    <2> HIDE DEF R
    <2>2. /\ tt \in Seq(R) /\ tt # <<>> /\ Len(tt) = n + 1 /\ tt[n + 1] = x
          /\ \A i \in 1 .. n : tt[i] = ss[i]
      BY <2>1, AppendProperties
    <2> QED
      BY <2>1, <2>2 DEF R
  <1> HIDE DEF tt
  <1>2. PICK g : Flattens(g, n + 1, S, tt) /\ FlattenSeq(tt) = g[n + 1]
    BY <1>1, FlattenDef
  <1>3. CASE ss = <<>>
    <2>1. n = 0 /\ FlattenSeq(ss) = <<>>
      BY <1>3 DEF FlattenSeq
    <2>2. g[1] = tt[1]
      BY <1>2 DEF Flattens
    <2>3. FlattenSeq(tt) = x
      BY <1>1, <1>2, <2>1, <2>2
    <2>4. <<>> \o x = x
      OBVIOUS
    <2> QED
      BY <2>1, <2>3, <2>4 DEF tt
  <1>4. CASE ss # <<>>
    <2>1. PICK f : Flattens(f, Len(ss), S, ss) /\ FlattenSeq(ss) = f[Len(ss)]
      BY <1>4, FlattenDef
    <2>2. n # 0
      BY <1>4
    <2>3. Flattens(g, Len(tt), S, tt)
      BY <1>1, <1>2
    <2>4. f[n] = g[n]
      <3>1. SameUpTo(ss, tt, n)
        BY <1>1 DEF SameUpTo
      <3>2. Flattens(f, Len(ss), S, ss)
        BY <2>1
      <3>3. ss \in Seq(Seq(S)) /\ tt \in Seq(Seq(S)) /\ n \in Nat \ {0}
        BY <1>1, <2>2
      <3> HIDE DEF n
      <3> QED
        BY ONLY <2>3, <3>1, <3>2, <3>3, FlattensSame
    <2>5. n + 1 \in 2 .. n + 1 /\ n + 1 - 1 = n
      BY <1>1, <2>2
    <2>6. g[n + 1] = g[n] \o tt[n + 1]
      <3> DEFINE m == n + 1
      <3>1. m \in 2 .. m /\ m - 1 = n
        BY <2>5
      <3>2. \A i \in 2 .. m : g[i] = g[i - 1] \o tt[i]
        BY <1>2 DEF Flattens
      <3> HIDE DEF m
      <3>3. g[m] = g[n] \o tt[m]
        BY ONLY <3>1, <3>2
      <3> QED
        BY <3>3 DEF m
    <2> QED
      BY <1>1, <1>2, <2>1, <2>4, <2>6 DEF tt
  <1> QED
    BY <1>3, <1>4

(* The lengths of the elements.                                            *)
Lengths(ss) == [i \in 1 .. Len(ss) |-> Len(ss[i])]

(* The length of a concatenation is the sum of the lengths.                *)
LEMMA FlattenLength ==
  ASSUME NEW S, NEW ss \in Seq(Seq(S))
  PROVE  Len(FlattenSeq(ss)) = Total(Lengths(ss))
  <1> DEFINE T == {tt \in Seq(Seq(S)) : Len(FlattenSeq(tt)) = Total(Lengths(tt))}
  <1>1. <<>> \in T
    <2>1. FlattenSeq(<<>>) = <<>>
      BY DEF FlattenSeq
    <2>2. Lengths(<<>>) = <<>>
      BY DEF Lengths
    <2> QED
      BY <2>1, <2>2, TotalEmpty
  <1>2. ASSUME NEW u \in T, NEW x \in Seq(S)
        PROVE  Append(u, x) \in T
    <2> DEFINE tt == Append(u, x)
               n  == Len(u)
    <2>1. u \in Seq(Seq(S)) /\ Len(FlattenSeq(u)) = Total(Lengths(u))
      OBVIOUS
    <2>2. /\ tt \in Seq(Seq(S)) /\ Len(tt) = n + 1 /\ tt[n + 1] = x
          /\ \A i \in 1 .. n : tt[i] = u[i]
      BY <2>1, AppendProperties
    <2>3. n \in Nat /\ \A i \in 1 .. n : Len(u[i]) \in Nat
      BY <2>1
    <2>4. FlattenSeq(tt) = FlattenSeq(u) \o x /\ FlattenSeq(u) \in Seq(S)
      BY <2>1, FlattenAppend, FlattenType
    <2>5. Lengths(tt) = Append(Lengths(u), Len(x)) /\ Lengths(u) \in Seq(Int) /\ Len(x) \in Int
      <3> HIDE DEF tt, n
      <3>1. Lengths(u) = [i \in 1 .. n |-> Len(u[i])] /\ Lengths(tt) = [i \in 1 .. n + 1 |-> Len(tt[i])]
        BY <2>2 DEF Lengths, n
      <3>2. Lengths(u) \in Seq(Int) /\ Len(x) \in Int
        BY <2>3, <3>1
      <3> QED
        BY <2>2, <2>3, <3>1, <3>2, SMTT(30)
    <2>6. Total(Lengths(tt)) = Total(Lengths(u)) + Len(x)
      BY <2>5, TotalAppend
    <2> HIDE DEF tt
    <2>7. Len(FlattenSeq(tt)) = Total(Lengths(tt))
      <3>1. Len(FlattenSeq(u) \o x) = Len(FlattenSeq(u)) + Len(x)
        BY <2>4
      <3> QED
        BY <2>1, <2>4, <2>6, <3>1, Zenon
    <2>8. tt \in T
      BY <2>2, <2>7
    <2> QED
      BY <2>8 DEF tt
  <1> HIDE DEF T
  <1>3. T \in SUBSET Seq(Seq(S))
    BY DEF T
  <1>4. T = Seq(Seq(S))
    BY <1>1, <1>2, <1>3, SeqInduction
  <1> QED
    BY <1>4 DEF T

(* Two sequences, one after the other.                                     *)
LEMMA JoinIs ==
  ASSUME NEW S, NEW s \in Seq(S), NEW t \in Seq(S)
  PROVE  /\ s \o t \in Seq(S) /\ Len(s \o t) = Len(s) + Len(t)
         /\ \A i \in 1 .. Len(s) : (s \o t)[i] = s[i]
         /\ \A i \in 1 .. Len(t) : (s \o t)[Len(s) + i] = t[i]
  <1> DEFINE u == s \o t  n == Len(s)  m == Len(t)
  <1>1. n \in Nat /\ m \in Nat /\ u \in Seq(S) /\ Len(u) = n + m
    OBVIOUS
  <1>2. \A i \in 1 .. n : u[i] = s[i]
    OBVIOUS
  <1>3. \A i \in 1 .. n + m : i > n => u[i] = t[i - n]
    OBVIOUS
  <1> HIDE DEF u, n, m
  <1>4. ASSUME NEW i \in 1 .. m PROVE u[n + i] = t[i]
    <2>1. n + i \in 1 .. n + m /\ n + i > n /\ (n + i) - n = i
      BY <1>1
    <2>2. u[n + i] = t[(n + i) - n]
      BY <1>3, <2>1
    <2> QED
      BY <2>1, <2>2
  <1> QED
    BY <1>1, <1>2, <1>4 DEF u, n, m

(* Two elements, one after the other.                                      *)
LEMMA PairIs ==
  ASSUME NEW S, NEW s \in Seq(S), NEW a \in S, NEW b \in S
  PROVE  s \o <<a, b>> = (s \o <<a>>) \o <<b>>
  <1> DEFINE n == Len(s)  u == s \o <<a>>  v == u \o <<b>>  w == s \o <<a, b>>
  <1>1. n \in Nat /\ <<a, b>> \in Seq(S) /\ <<a>> \in Seq(S) /\ <<b>> \in Seq(S)
    OBVIOUS
  <1>2. u \in Seq(S) /\ Len(u) = n + 1 /\ u[n + 1] = a /\ \A i \in 1 .. n : u[i] = s[i]
    OBVIOUS
  <1>3. w \in Seq(S) /\ Len(w) = n + 2 /\ w[n + 1] = a /\ w[n + 2] = b /\ \A i \in 1 .. n : w[i] = s[i]
    <2>1. w \in Seq(S) /\ Len(w) = n + 2
      BY <1>1
    <2>2. \A i \in 1 .. n : w[i] = s[i]
      BY <1>1
    <2>3. \A i \in n + 1 .. n + 2 : w[i] = <<a, b>>[i - n]
      BY <1>1
    <2>4. w[n + 1] = <<a, b>>[(n + 1) - n] /\ w[n + 2] = <<a, b>>[(n + 2) - n]
      BY <1>1, <2>3
    <2>5. (n + 1) - n = 1 /\ (n + 2) - n = 2
      BY <1>1
    <2> HIDE DEF w, n
    <2>6. w[n + 1] = a /\ w[n + 2] = b
      BY <2>4, <2>5
    <2> QED
      BY <2>1, <2>2, <2>6
  <1> HIDE DEF u, n
  <1>4. v \in Seq(S) /\ Len(v) = n + 2 /\ v[n + 2] = b /\ \A i \in 1 .. n + 1 : v[i] = u[i]
    BY <1>1, <1>2
  <1> HIDE DEF v, w
  <1>5. ASSUME NEW i \in 1 .. n + 2 PROVE w[i] = v[i]
    <2>1. i \in 1 .. n \/ i = n + 1 \/ i = n + 2
      BY <1>1
    <2>2. i \in 1 .. n => i \in 1 .. n + 1
      BY <1>1
    <2>3. n + 1 \in 1 .. n + 1
      BY <1>1
    <2> QED
      BY <1>2, <1>3, <1>4, <2>1, <2>2, <2>3
  <1>6. w = v
    BY <1>3, <1>4, <1>5, SeqEqual
  <1> QED
    BY <1>6 DEF u, v, w

(* A part of a sequence.                                                   *)
LEMMA PartIs ==
  ASSUME NEW S, NEW s \in Seq(S), NEW i \in Nat, i >= 1, NEW n \in Nat, i + n - 1 <= Len(s)
  PROVE  /\ SubSeq(s, i, i + n - 1) \in Seq(S)
         /\ Len(SubSeq(s, i, i + n - 1)) = n
         /\ \A j \in 1 .. n : SubSeq(s, i, i + n - 1)[j] = s[i + j - 1]
  <1> DEFINE m == i + n - 1
  <1>1. m \in Int /\ m - i + 1 = n /\ m <= Len(s)
    OBVIOUS
  <1> HIDE DEF m
  <1>2. Len(SubSeq(s, i, m)) = n
    BY <1>1
  <1>3. SubSeq(s, i, m) \in Seq(S)
    BY <1>1
  <1>4. \A j \in 1 .. n : SubSeq(s, i, m)[j] = s[i + j - 1]
    BY <1>1
  <1> QED
    BY <1>2, <1>3, <1>4 DEF m

(* The parts of up to four elements.                                       *)
LEMMA PartsAre ==
  ASSUME NEW S, NEW s \in Seq(S), NEW i \in Nat, i >= 1
  PROVE  /\ i <= Len(s) => SubSeq(s, i, i) = <<s[i]>>
         /\ i + 1 <= Len(s) => SubSeq(s, i, i + 1) = <<s[i], s[i + 1]>>
         /\ i + 2 <= Len(s) => SubSeq(s, i, i + 2) = <<s[i], s[i + 1], s[i + 2]>>
         /\ i + 3 <= Len(s) => SubSeq(s, i, i + 3) = <<s[i], s[i + 1], s[i + 2], s[i + 3]>>
  <1>1. ASSUME NEW n \in 0 .. 3, i + n <= Len(s)
        PROVE  /\ SubSeq(s, i, i + n) \in Seq(S) /\ Len(SubSeq(s, i, i + n)) = n + 1
               /\ \A j \in 1 .. n + 1 : SubSeq(s, i, i + n)[j] = s[i + j - 1]
               /\ \A j \in 0 .. n : s[i + j] \in S
    <2>1. i + (n + 1) - 1 = i + n /\ n + 1 \in Nat /\ i + (n + 1) - 1 <= Len(s)
      BY <1>1
    <2>2. \A j \in 0 .. n : s[i + j] \in S
      BY <1>1
    <2> DEFINE m == n + 1
    <2>3. m \in Nat /\ i + m - 1 <= Len(s) /\ i + m - 1 = i + n /\ m = n + 1
      BY <2>1
    <2> HIDE DEF m
    <2>4. /\ SubSeq(s, i, i + m - 1) \in Seq(S) /\ Len(SubSeq(s, i, i + m - 1)) = m
          /\ \A j \in 1 .. m : SubSeq(s, i, i + m - 1)[j] = s[i + j - 1]
      BY <2>3, PartIs
    <2> QED
      BY <2>2, <2>3, <2>4
  <1>2. ASSUME i <= Len(s) PROVE SubSeq(s, i, i) = <<s[i]>>
    <2> DEFINE t == SubSeq(s, i, i)
    <2>1. t \in Seq(S) /\ Len(t) = 1 /\ t[1] = s[i]
      <3>1. 0 \in 0 .. 3 /\ i + 0 = i /\ i + 0 <= Len(s) /\ 1 \in 1 .. 0 + 1 /\ i + 1 - 1 = i /\ 0 + 1 = 1
        BY <1>2
      <3> QED
        BY <1>1, <3>1
    <2> HIDE DEF t
    <2>2. t = <<s[i]>>
      BY <2>1
    <2> QED
      BY <2>2 DEF t
  <1>3. ASSUME i + 1 <= Len(s) PROVE SubSeq(s, i, i + 1) = <<s[i], s[i + 1]>>
    <2> DEFINE t == SubSeq(s, i, i + 1)
    <2>1. t \in Seq(S) /\ Len(t) = 2 /\ t[1] = s[i] /\ t[2] = s[i + 1]
      <3>1. /\ 1 \in 0 .. 3 /\ 1 \in 1 .. 1 + 1 /\ 2 \in 1 .. 1 + 1
            /\ i + 1 - 1 = i /\ i + 2 - 1 = i + 1 /\ 1 + 1 = 2
        OBVIOUS
      <3> QED
        BY <1>1, <1>3, <3>1
    <2> HIDE DEF t
    <2>2. t = <<s[i], s[i + 1]>>
      BY <2>1
    <2> QED
      BY <2>2 DEF t
  <1>4. ASSUME i + 2 <= Len(s) PROVE SubSeq(s, i, i + 2) = <<s[i], s[i + 1], s[i + 2]>>
    <2> DEFINE t == SubSeq(s, i, i + 2)
    <2>1. t \in Seq(S) /\ Len(t) = 3 /\ t[1] = s[i] /\ t[2] = s[i + 1] /\ t[3] = s[i + 2]
      <3>1. /\ 2 \in 0 .. 3 /\ 1 \in 1 .. 2 + 1 /\ 2 \in 1 .. 2 + 1 /\ 3 \in 1 .. 2 + 1
            /\ i + 1 - 1 = i /\ i + 2 - 1 = i + 1 /\ i + 3 - 1 = i + 2 /\ 2 + 1 = 3
        OBVIOUS
      <3> QED
        BY <1>1, <1>4, <3>1
    <2> HIDE DEF t
    <2>2. t = <<s[i], s[i + 1], s[i + 2]>>
      BY <2>1
    <2> QED
      BY <2>2 DEF t
  <1>5. ASSUME i + 3 <= Len(s) PROVE SubSeq(s, i, i + 3) = <<s[i], s[i + 1], s[i + 2], s[i + 3]>>
    <2> DEFINE t == SubSeq(s, i, i + 3)
    <2>1. t \in Seq(S) /\ Len(t) = 4 /\ t[1] = s[i] /\ t[2] = s[i + 1] /\ t[3] = s[i + 2] /\ t[4] = s[i + 3]
      <3>1. /\ 3 \in 0 .. 3 /\ 1 \in 1 .. 3 + 1 /\ 2 \in 1 .. 3 + 1 /\ 3 \in 1 .. 3 + 1 /\ 4 \in 1 .. 3 + 1
            /\ i + 1 - 1 = i /\ i + 2 - 1 = i + 1 /\ i + 3 - 1 = i + 2 /\ i + 4 - 1 = i + 3 /\ 3 + 1 = 4
        OBVIOUS
      <3> QED
        BY <1>1, <1>5, <3>1
    <2> HIDE DEF t
    <2>2. t = <<s[i], s[i + 1], s[i + 2], s[i + 3]>>
      BY <2>1
    <2> QED
      BY <2>2 DEF t
  <1> QED
    BY <1>2, <1>3, <1>4, <1>5

(* The first n elements of a sequence, and one more.                       *)
Prefix(ss, n) == [i \in 1 .. n |-> ss[i]]

LEMMA PrefixType ==
  ASSUME NEW S, NEW ss \in Seq(S), NEW n \in 0 .. Len(ss)
  PROVE  Prefix(ss, n) \in Seq(S) /\ Len(Prefix(ss, n)) = n
  BY DEF Prefix

LEMMA FlattenNext ==
  ASSUME NEW S, NEW ss \in Seq(Seq(S)), NEW n \in Nat, n < Len(ss)
  PROVE  FlattenSeq(Prefix(ss, n + 1)) = FlattenSeq(Prefix(ss, n)) \o ss[n + 1]
  <1> DEFINE R == Seq(S)
  <1>1. /\ ss \in Seq(R) /\ n \in 0 .. Len(ss) /\ n + 1 \in 1 .. Len(ss)
    OBVIOUS
  <1> HIDE DEF R
  <1>2. Prefix(ss, n) \in Seq(R) /\ ss[n + 1] \in R
    BY <1>1, PrefixType
  <1>3. Prefix(ss, n + 1) = Append(Prefix(ss, n), ss[n + 1])
    BY <1>1, <1>2 DEF Prefix
  <1> QED
    BY <1>2, <1>3, FlattenAppend DEF R

(* Empty elements leave no trace.                                          *)
LEMMA FlattenSkip ==
  ASSUME NEW S, NEW ss \in Seq(Seq(S)), NEW n \in Nat, NEW m \in Nat, n <= m, m <= Len(ss),
         \A i \in n + 1 .. m : ss[i] = <<>>
  PROVE  FlattenSeq(Prefix(ss, m)) = FlattenSeq(Prefix(ss, n))
  <1> DEFINE T == {d \in 0 .. m - n : FlattenSeq(Prefix(ss, n + d)) = FlattenSeq(Prefix(ss, n))}
  <1>1. 0 \in T /\ m - n \in Nat
    <2>1. n + 0 = n /\ 0 \in 0 .. m - n /\ m - n \in Nat
      OBVIOUS
    <2> QED
      BY <2>1
  <1>2. ASSUME NEW d \in 0 .. (m - n) - 1, d \in T PROVE d + 1 \in T
    <2> DEFINE k == n + d
    <2>1. k \in Nat /\ k < Len(ss) /\ k + 1 \in n + 1 .. m /\ n + (d + 1) = k + 1 /\ d + 1 \in 0 .. m - n
      OBVIOUS
    <2>2. FlattenSeq(Prefix(ss, k)) = FlattenSeq(Prefix(ss, n))
      BY <1>2
    <2> HIDE DEF k
    <2>3. FlattenSeq(Prefix(ss, k + 1)) = FlattenSeq(Prefix(ss, k)) \o ss[k + 1]
      BY <2>1, FlattenNext
    <2>4. ss[k + 1] = <<>>
      BY <2>1
    <2>5. FlattenSeq(Prefix(ss, k)) \in Seq(S)
      <3> DEFINE R == Seq(S)
      <3>1. ss \in Seq(R) /\ k \in 0 .. Len(ss)
        BY <2>1
      <3> HIDE DEF R
      <3>2. Prefix(ss, k) \in Seq(R)
        BY <3>1, PrefixType
      <3> QED
        BY <3>2, FlattenType DEF R
    <2>6. FlattenSeq(Prefix(ss, k + 1)) = FlattenSeq(Prefix(ss, n))
      BY ONLY <2>2, <2>3, <2>4, <2>5
    <2> QED
      BY <2>1, <2>6
  <1>3. 0 .. m - n \subseteq T
    <2> HIDE DEF T
    <2> QED
      BY <1>1, <1>2, UpTo
  <1>4. m - n \in 0 .. m - n /\ n + (m - n) = m
    OBVIOUS
  <1>5. m - n \in T
    BY <1>3, <1>4
  <1> QED
    BY <1>4, <1>5

(* One element and empty ones behind it.                                   *)
LEMMA FlattenOne ==
  ASSUME NEW S, NEW ss \in Seq(Seq(S)), NEW n \in Nat, NEW m \in Nat, n < m, m <= Len(ss),
         \A i \in n + 2 .. m : ss[i] = <<>>
  PROVE  FlattenSeq(Prefix(ss, m)) = FlattenSeq(Prefix(ss, n)) \o ss[n + 1]
  <1>1. /\ n + 1 \in Nat /\ n + 1 <= m /\ n < Len(ss) /\ (n + 1) + 1 = n + 2
    OBVIOUS
  <1>2. FlattenSeq(Prefix(ss, m)) = FlattenSeq(Prefix(ss, n + 1))
    BY <1>1, FlattenSkip
  <1> QED
    BY <1>1, <1>2, FlattenNext

(* Nothing but empty elements.                                             *)
LEMMA FlattenNone == FlattenSeq(<<>>) = <<>> /\ \A ss : Prefix(ss, 0) = <<>>
  BY DEF FlattenSeq, Prefix

-----------------------------------------------------------------------------
(* f is the function on Nat with f[0] = a whose value at n + 1 is step of  *)
(* the value at n: what a recursion over Nat defines.                      *)
IteratesForever(f, S, a, step) ==
  /\ f \in [Nat -> S]
  /\ f[0] = a
  /\ \A n \in Nat : f[n + 1] = step[f[n]]

Repeated(step, n) == [i \in 1 .. n |-> step]

(* Two functions that iterate the same step agree.                         *)
LEMMA IteratesAgree ==
  ASSUME NEW S, NEW a, NEW step, NEW N \in Nat, NEW M \in Nat, N <= M, NEW f, NEW g,
         Iterates(f, N, S, a, Repeated(step, N)), Iterates(g, M, S, a, Repeated(step, M))
  PROVE  f[N] = g[N]
  <1> DEFINE T == {i \in 0 .. N : f[i] = g[i]}
  <1>1. 0 \in T
    BY DEF Iterates
  <1>2. ASSUME NEW i \in 0 .. N - 1, i \in T PROVE i + 1 \in T
    <2>1. i + 1 \in 1 .. N /\ i + 1 \in 1 .. M /\ (i + 1) - 1 = i /\ i + 1 \in 0 .. N
      OBVIOUS
    <2>2. f[i + 1] = step[f[i]]
      BY <2>1 DEF Iterates, Repeated
    <2>3. g[i + 1] = step[g[i]]
      BY <2>1 DEF Iterates, Repeated
    <2> QED
      BY <1>2, <2>1, <2>2, <2>3
  <1>3. 0 .. N \subseteq T
    <2> HIDE DEF T
    <2> QED
      BY <1>1, <1>2, UpTo
  <1>4. N \in T
    BY <1>3
  <1> QED
    BY <1>4

(* A recursion over Nat defines a function.                                *)
LEMMA IteratesForeverExist ==
  ASSUME NEW S, NEW a \in S, NEW step \in [S -> S]
  PROVE  \E f : IteratesForever(f, S, a, step)
  <1> DEFINE Approx(g, n) == Iterates(g, n, S, a, Repeated(step, n))
             F(n) == CHOOSE g : Approx(g, n)
             f == [n \in Nat |-> F(n)[n]]
  <1>1. ASSUME NEW n \in Nat PROVE Approx(F(n), n)
    <2>1. Repeated(step, n) \in [1 .. n -> [S -> S]]
      BY DEF Repeated
    <2>2. \E g : Approx(g, n)
      BY <2>1, IteratesExist
    <2> HIDE DEF Approx
    <2> QED
      BY <2>2
  <1>2. ASSUME NEW n \in Nat PROVE F(n)[n] \in S /\ F(n + 1)[n + 1] = step[F(n)[n]]
    <2>1. Approx(F(n), n) /\ Approx(F(n + 1), n + 1) /\ n + 1 \in Nat /\ n <= n + 1
      BY <1>1
    <2> HIDE DEF F
    <2>2. F(n)[n] = F(n + 1)[n]
      <3> DEFINE g == F(n)  h == F(n + 1)  m == n + 1
      <3>1. /\ Iterates(g, n, S, a, Repeated(step, n)) /\ Iterates(h, m, S, a, Repeated(step, m))
            /\ m \in Nat /\ n <= m
        BY <2>1
      <3> HIDE DEF g, h, m
      <3>2. g[n] = h[n]
        BY <3>1, IteratesAgree
      <3> QED
        BY <3>2 DEF g, h
    <2>3. n \in 0 .. n /\ n + 1 \in 1 .. n + 1 /\ (n + 1) - 1 = n
      OBVIOUS
    <2>4. F(n)[n] \in S
      BY <2>1, <2>3 DEF Iterates
    <2>5. F(n + 1)[n + 1] = step[F(n + 1)[n]]
      BY <2>1, <2>3 DEF Iterates, Repeated
    <2> QED
      BY <2>2, <2>4, <2>5
  <1>3. F(0)[0] = a
    BY <1>1 DEF Iterates
  <1> HIDE DEF F, Approx
  <1>4. f[0] = a /\ f \in [Nat -> S] /\ \A n \in Nat : f[n + 1] = step[f[n]]
    BY <1>2, <1>3
  <1> HIDE DEF f
  <1> QED
    BY <1>4 DEF IteratesForever

(* Concatenations, one after the other.                                    *)
LEMMA FlattenJoin ==
  ASSUME NEW S, NEW ss \in Seq(Seq(S)), NEW tt \in Seq(Seq(S))
  PROVE  FlattenSeq(ss \o tt) = FlattenSeq(ss) \o FlattenSeq(tt)
  <1> DEFINE R == Seq(S)
             T == {t \in Seq(R) : FlattenSeq(ss \o t) = FlattenSeq(ss) \o FlattenSeq(t)}
  <1>1. <<>> \in T
    <2>1. ss \o <<>> = ss /\ FlattenSeq(<<>>) = <<>> /\ FlattenSeq(ss) \in Seq(S)
      BY FlattenType, FlattenNone
    <2>2. FlattenSeq(ss) \o <<>> = FlattenSeq(ss)
      BY <2>1
    <2>3. <<>> \in Seq(R)
      OBVIOUS
    <2> QED
      BY <2>1, <2>2, <2>3
  <1>2. ASSUME NEW t \in T, NEW x \in R PROVE Append(t, x) \in T
    <2>1. t \in Seq(R) /\ FlattenSeq(ss \o t) = FlattenSeq(ss) \o FlattenSeq(t)
      OBVIOUS
    <2>2. Append(t, x) \in Seq(R) /\ ss \o Append(t, x) = Append(ss \o t, x) /\ ss \o t \in Seq(R)
      <3> HIDE DEF R, T
      <3>1. ss \in Seq(R)
        BY DEF R
      <3> QED
        BY <2>1, <3>1
    <2>3. /\ FlattenSeq(Append(ss \o t, x)) = FlattenSeq(ss \o t) \o x
          /\ FlattenSeq(Append(t, x)) = FlattenSeq(t) \o x
      BY <2>1, <2>2, FlattenAppend
    <2>4. FlattenSeq(ss) \in Seq(S) /\ FlattenSeq(t) \in Seq(S) /\ x \in Seq(S)
      BY <2>1, FlattenType
    <2>5. (FlattenSeq(ss) \o FlattenSeq(t)) \o x = FlattenSeq(ss) \o (FlattenSeq(t) \o x)
      <3> DEFINE p == FlattenSeq(ss)  q == FlattenSeq(t)
      <3> HIDE DEF p, q
      <3>1. p \in Seq(S) /\ q \in Seq(S)
        BY <2>4 DEF p, q
      <3>2. (p \o q) \o x = p \o (q \o x)
        BY <3>1, <2>4, SMTT(30)
      <3> QED
        BY <3>2 DEF p, q
    <2> HIDE DEF R, T
    <2>6. FlattenSeq(ss \o Append(t, x)) = FlattenSeq(ss) \o FlattenSeq(Append(t, x))
      BY <2>1, <2>2, <2>3, <2>5, Zenon
    <2> QED
      BY <2>2, <2>6 DEF T
  <1>3. T = Seq(R)
    <2>1. T \in SUBSET Seq(R)
      OBVIOUS
    <2> HIDE DEF T, R
    <2> QED
      BY <1>1, <1>2, <2>1, SeqInduction
  <1> HIDE DEF T
  <1>4. tt \in T
    BY <1>3
  <1> QED
    BY <1>4 DEF T

(* Sequences of one element each.                                          *)
LEMMA FlattenSingles ==
  ASSUME NEW S, NEW s \in Seq(S)
  PROVE  FlattenSeq([i \in 1 .. Len(s) |-> <<s[i]>>]) = s
  <1> DEFINE One(t) == [i \in 1 .. Len(t) |-> <<t[i]>>]
             T == {t \in Seq(S) : FlattenSeq(One(t)) = t}
  <1>1. <<>> \in T
    <2>1. One(<<>>) = <<>>
      OBVIOUS
    <2> QED
      BY <2>1, FlattenNone
  <1>2. ASSUME NEW t \in T, NEW x \in S PROVE Append(t, x) \in T
    <2>1. t \in Seq(S) /\ FlattenSeq(One(t)) = t
      OBVIOUS
    <2>2. One(Append(t, x)) = Append(One(t), <<x>>) /\ One(t) \in Seq(Seq(S)) /\ <<x>> \in Seq(S)
      BY <2>1
    <2>3. FlattenSeq(Append(One(t), <<x>>)) = FlattenSeq(One(t)) \o <<x>>
      <3> HIDE DEF One
      <3> QED
        BY <2>2, FlattenAppend
    <2>4. Append(t, x) = t \o <<x>> /\ Append(t, x) \in Seq(S)
      BY <2>1
    <2> HIDE DEF One
    <2> QED
      BY <2>1, <2>2, <2>3, <2>4
  <1>3. T = Seq(S)
    <2>1. T \in SUBSET Seq(S)
      OBVIOUS
    <2> HIDE DEF T
    <2> QED
      BY <1>1, <1>2, <2>1, SeqInduction
  <1> HIDE DEF One
  <1>4. s \in T
    BY <1>3
  <1> QED
    BY <1>4 DEF One

(* What g makes of the elements of a sequence, one after the other.        *)
Texted(g, s) == FlattenSeq([i \in 1 .. Len(s) |-> g[s[i]]])

MapsTo(g, P, S) == g \in [P -> Seq(S)]

LEMMA TextedType ==
  ASSUME NEW S, NEW P, NEW g, MapsTo(g, P, S), NEW s \in Seq(P)
  PROVE  Texted(g, s) \in Seq(S)
  <1> DEFINE R == Seq(S)
  <1>1. g \in [P -> R]
    BY DEF MapsTo
  <1> HIDE DEF R
  <1>2. [i \in 1 .. Len(s) |-> g[s[i]]] \in Seq(R)
    BY <1>1
  <1> QED
    BY <1>2, FlattenType DEF R, Texted

LEMMA TextedJoin ==
  ASSUME NEW S, NEW P, NEW g, MapsTo(g, P, S), NEW s \in Seq(P), NEW t \in Seq(P)
  PROVE  Texted(g, s \o t) = Texted(g, s) \o Texted(g, t)
  <1> DEFINE R == Seq(S)
             M(u) == [i \in 1 .. Len(u) |-> g[u[i]]]
  <1>1. g \in [P -> R]
    BY DEF MapsTo
  <1> HIDE DEF R
  <1>2. M(s) \in Seq(R) /\ M(t) \in Seq(R) /\ M(s \o t) = M(s) \o M(t)
    <2> DEFINE n == Len(s)  m == Len(t)  u == s \o t
    <2>1. n \in Nat /\ m \in Nat
      OBVIOUS
    <2>2. /\ M(s) \in Seq(R) /\ Len(M(s)) = n /\ \A i \in 1 .. n : M(s)[i] = g[s[i]]
          /\ M(t) \in Seq(R) /\ Len(M(t)) = m /\ \A i \in 1 .. m : M(t)[i] = g[t[i]]
      BY <1>1
    <2>3. /\ Len(u) = n + m /\ \A i \in 1 .. n : u[i] = s[i]
          /\ \A i \in 1 .. m : u[n + i] = t[i]
      BY JoinIs
    <2>4. M(u) = [i \in 1 .. n + m |-> g[u[i]]]
      BY <2>3
    <2> HIDE DEF n, m, u
    <2> DEFINE v == M(s) \o M(t)
    <2>5. /\ v \in Seq(R) /\ Len(v) = n + m /\ \A i \in 1 .. n : v[i] = g[s[i]]
          /\ \A i \in 1 .. m : v[n + i] = g[t[i]]
      <3> DEFINE x == M(s)  y == M(t)
      <3>1. /\ x \in Seq(R) /\ Len(x) = n /\ \A i \in 1 .. n : x[i] = g[s[i]]
            /\ y \in Seq(R) /\ Len(y) = m /\ \A i \in 1 .. m : y[i] = g[t[i]]
        BY <2>2
      <3> HIDE DEF x, y
      <3>2. /\ x \o y \in Seq(R) /\ Len(x \o y) = Len(x) + Len(y)
            /\ \A i \in 1 .. Len(x) : (x \o y)[i] = x[i]
            /\ \A i \in 1 .. Len(y) : (x \o y)[Len(x) + i] = y[i]
        <4>1. x \in Seq(R) /\ y \in Seq(R)
          BY <3>1
        <4> QED
          BY ONLY <4>1, JoinIs
      <3>3. /\ x \o y \in Seq(R) /\ Len(x \o y) = n + m
            /\ \A i \in 1 .. n : (x \o y)[i] = g[s[i]]
            /\ \A i \in 1 .. m : (x \o y)[n + i] = g[t[i]]
        BY <3>1, <3>2
      <3> QED
        BY <3>3 DEF x, y
    <2> HIDE DEF v, M
    <2>6. ASSUME NEW i \in 1 .. n + m PROVE v[i] = g[u[i]]
      <3>1. CASE i \in 1 .. n
        BY <2>3, <2>5, <3>1
      <3>2. CASE i \notin 1 .. n
        <4> DEFINE k == i - n
        <4>1. k \in 1 .. m /\ n + k = i
          BY <2>1, <3>2
        <4> HIDE DEF k
        <4> QED
          BY <2>3, <2>5, <4>1
      <3> QED
        BY <3>1, <3>2
    <2>7. v = M(u)
      BY <2>4, <2>5, <2>6
    <2> QED
      BY <2>2, <2>7 DEF u, v
  <1>3. FlattenSeq(M(s) \o M(t)) = FlattenSeq(M(s)) \o FlattenSeq(M(t))
    <2> HIDE DEF M
    <2> QED
      BY <1>2, FlattenJoin DEF R
  <1> QED
    BY <1>2, <1>3 DEF Texted

LEMMA TextedOne ==
  ASSUME NEW S, NEW P, NEW g, MapsTo(g, P, S), NEW p \in P
  PROVE  Texted(g, <<p>>) = g[p] /\ Texted(g, <<>>) = <<>>
  <1> DEFINE R == Seq(S)  x == g[p]
  <1>1. x \in R
    BY DEF MapsTo
  <1>2. [i \in 1 .. Len(<<p>>) |-> g[<<p>>[i]]] = <<x>> /\ [i \in 1 .. Len(<<>>) |-> g[<<>>[i]]] = <<>>
    OBVIOUS
  <1>3. FlattenSeq(Append(<<>>, x)) = FlattenSeq(<<>>) \o x
    <2>1. <<>> \in Seq(Seq(S)) /\ x \in Seq(S)
      BY <1>1
    <2> HIDE DEF x
    <2> QED
      BY <2>1, FlattenAppend
  <1>4. FlattenSeq(<<>>) = <<>> /\ Append(<<>>, x) = <<x>> /\ <<>> \o x = x
    BY <1>1, FlattenNone
  <1> HIDE DEF x
  <1> QED
    BY <1>2, <1>3, <1>4 DEF Texted, x

(* What it makes of a concatenation of sequences.                          *)
LEMMA TextedFlatten ==
  ASSUME NEW S, NEW P, NEW g, MapsTo(g, P, S), NEW ss \in Seq(Seq(P))
  PROVE  Texted(g, FlattenSeq(ss)) = FlattenSeq([i \in 1 .. Len(ss) |-> Texted(g, ss[i])])
  <1> DEFINE R == Seq(P)
             M(tt) == [i \in 1 .. Len(tt) |-> Texted(g, tt[i])]
             T == {tt \in Seq(R) : Texted(g, FlattenSeq(tt)) = FlattenSeq(M(tt))}
  <1>1. <<>> \in T
    <2>1. M(<<>>) = <<>> /\ FlattenSeq(<<>>) = <<>> /\ <<>> \in Seq(R)
      BY FlattenNone
    <2>2. Texted(g, <<>>) = <<>>
      BY FlattenNone DEF Texted
    <2> QED
      BY <2>1, <2>2
  <1>2. ASSUME NEW tt \in T, NEW x \in R PROVE Append(tt, x) \in T
    <2>1. tt \in Seq(R) /\ Texted(g, FlattenSeq(tt)) = FlattenSeq(M(tt))
      OBVIOUS
    <2> DEFINE Q == Seq(S)  y == Texted(g, x)
    <2>2. \A u \in R : Texted(g, u) \in Q
      BY TextedType
    <2> HIDE DEF Q, R
    <2>3. /\ M(Append(tt, x)) = Append(M(tt), y) /\ M(tt) \in Seq(Q) /\ y \in Q
          /\ Append(tt, x) \in Seq(R)
      BY <2>1, <2>2
    <2>4. FlattenSeq(Append(M(tt), y)) = FlattenSeq(M(tt)) \o y
      <3> HIDE DEF M, y
      <3> QED
        BY <2>3, FlattenAppend DEF Q
    <2>5. FlattenSeq(Append(tt, x)) = FlattenSeq(tt) \o x /\ FlattenSeq(tt) \in Seq(P)
      BY <2>1, FlattenAppend, FlattenType DEF R
    <2>6. Texted(g, FlattenSeq(tt) \o x) = Texted(g, FlattenSeq(tt)) \o y
      <3> HIDE DEF T, y
      <3>1. PICK z \in Seq(P), w \in Seq(P) : z = FlattenSeq(tt) /\ w = x
        BY <2>5 DEF R
      <3>2. Texted(g, z \o w) = Texted(g, z) \o Texted(g, w)
        BY TextedJoin
      <3> QED
        BY <3>1, <3>2 DEF y
    <2>7. Texted(g, FlattenSeq(Append(tt, x))) = FlattenSeq(M(Append(tt, x)))
      <3> HIDE DEF M, y, T
      <3> QED
        BY <2>1, <2>3, <2>4, <2>5, <2>6
    <2> QED
      BY <2>3, <2>7
  <1>3. T = Seq(R)
    <2>1. T \in SUBSET Seq(R)
      OBVIOUS
    <2> HIDE DEF T, R
    <2> QED
      BY <1>1, <1>2, <2>1, SeqInduction
  <1> HIDE DEF M
  <1>4. ss \in T
    BY <1>3
  <1> QED
    BY <1>4 DEF M

(* As many numbers as they add up to, none of them below 1: all are 1.     *)
LEMMA TotalOfOnes ==
  ASSUME NEW s \in Seq(Int), \A i \in 1 .. Len(s) : s[i] >= 1, Total(s) = Len(s)
  PROVE  \A i \in 1 .. Len(s) : s[i] = 1
  <1> DEFINE f == Sums(s)  N == Len(s)
             T == {i \in 0 .. N : f[i] \in Int /\ f[i] >= i /\ (f[i] = i => \A k \in 1 .. i : s[k] = 1)}
  <1>1. /\ f \in [0 .. N -> Int] /\ f[0] = 0 /\ \A i \in 1 .. N : f[i] = f[i - 1] + s[i]
        /\ N \in Nat /\ \A i \in 1 .. N : s[i] \in Int /\ s[i] >= 1
    BY SumsDef DEF SumsFrom
  <1>2. f[N] = N
    BY DEF Total
  <1> HIDE DEF f, N
  <1>3. 0 \in T
    BY <1>1
  <1>4. ASSUME NEW i \in 0 .. N - 1, i \in T PROVE i + 1 \in T
    <2> DEFINE j == i + 1
    <2>1. j \in 1 .. N /\ j - 1 = i /\ i \in Nat /\ j \in 0 .. N /\ \A k \in 1 .. j : k \in 1 .. i \/ k = j
      BY <1>1
    <2>2. f[j] = f[i] + s[j] /\ s[j] \in Int /\ s[j] >= 1
      BY <1>1, <2>1
    <2>3. f[i] \in Int /\ f[i] >= i /\ (f[i] = i => \A k \in 1 .. i : s[k] = 1)
      BY <1>4
    <2>4. f[j] \in Int /\ f[j] >= j /\ (f[j] = j => f[i] = i /\ s[j] = 1)
      BY <2>1, <2>2, <2>3
    <2> HIDE DEF j
    <2>5. f[j] = j => \A k \in 1 .. j : s[k] = 1
      BY <2>1, <2>3, <2>4
    <2>6. j \in T
      BY <2>1, <2>4, <2>5
    <2> QED
      BY <2>6 DEF j
  <1>5. 0 .. N \subseteq T
    <2> HIDE DEF T
    <2> QED
      BY <1>1, <1>3, <1>4, UpTo
  <1>6. N \in T
    BY <1>1, <1>5
  <1> QED
    BY <1>2, <1>6 DEF N

(* The same when every step is a function of its own.                      *)
IteratesAlong(f, S, a, step) ==
  /\ f \in [Nat -> S]
  /\ f[0] = a
  /\ \A n \in Nat : f[n + 1] = step[n][f[n]]

(* A recursion over the naturals that uses the number of the step defines  *)
(* a function.                                                             *)
LEMMA IteratesAlongExist ==
  ASSUME NEW S, NEW a \in S, NEW step \in [Nat -> [S -> S]]
  PROVE  \E f : IteratesAlong(f, S, a, step)
<1> DEFINE P == Nat \X S
           q == [p \in P |-> <<p[1] + 1, step[p[1]][p[2]]>>]
<1>1. <<0, a>> \in P
  OBVIOUS
<1>2. /\ q \in [P -> P]
      /\ \A n \in Nat, s \in S : q[<<n, s>>] = <<n + 1, step[n][s]>>
  <2>1. \A n \in Nat, s \in S : step[n][s] \in S
    OBVIOUS
  <2>2. ASSUME NEW p \in P PROVE <<p[1] + 1, step[p[1]][p[2]]>> \in P
    <3>1. p \in Nat \X S
      OBVIOUS
    <3>2. p[1] \in Nat /\ p[2] \in S
      BY ONLY <3>1
    <3>3. PICK n \in Nat, s \in S : n = p[1] /\ s = p[2]
      BY ONLY <3>2
    <3>4. n + 1 \in Nat
      BY ONLY n \in Nat
    <3>5. step[n][s] \in S
      BY ONLY <2>1, n \in Nat, s \in S
    <3> QED
      BY ONLY <3>3, <3>4, <3>5
  <2>3. q \in [P -> P]
    <3> HIDE DEF P
    <3> QED
      BY <2>2
  <2>4. \A n \in Nat, s \in S : <<n, s>> \in P /\ q[<<n, s>>] = <<n + 1, step[n][s]>>
    OBVIOUS
  <2> HIDE DEF P, q
  <2> QED
    BY <2>3, <2>4
<1> HIDE DEF q
<1>3. PICK g : IteratesForever(g, P, <<0, a>>, q)
  <2> HIDE DEF P
  <2> QED
    BY <1>1, <1>2, IteratesForeverExist
<1>4. /\ \A n \in Nat : g[n] \in P
      /\ g[0] = <<0, a>> /\ \A n \in Nat : g[n + 1] = q[g[n]]
  BY <1>3 DEF IteratesForever
<1>5. ASSUME NEW n \in Nat
      PROVE  g[n] = <<g[n][1], g[n][2]>> /\ g[n][1] \in Nat /\ g[n][2] \in S
  <2>1. g[n] \in Nat \X S
    BY <1>4
  <2> QED
    BY <2>1
<1>6. \A n \in Nat : g[n + 1] = <<g[n][1] + 1, step[g[n][1]][g[n][2]]>>
  <2> SUFFICES ASSUME NEW n \in Nat
               PROVE  g[n + 1] = <<g[n][1] + 1, step[g[n][1]][g[n][2]]>>
    OBVIOUS
  <2>1. q[<<g[n][1], g[n][2]>>] = <<g[n][1] + 1, step[g[n][1]][g[n][2]]>>
    BY <1>2, <1>5
  <2> QED
    BY <1>4, <1>5, <2>1
<1>7. \A n \in Nat : g[n][1] = n
  <2> DEFINE T == {n \in Nat : g[n][1] = n}
  <2>1. T \in SUBSET Nat /\ 0 \in T
    BY <1>4
  <2>2. \A n \in T : n + 1 \in T
    BY <1>6
  <2> HIDE DEF T
  <2>3. T = Nat
    BY <2>1, <2>2, SetInduction
  <2> QED
    BY <2>3 DEF T
<1> DEFINE f == [n \in Nat |-> g[n][2]]
<1>8. f \in [Nat -> S] /\ f[0] = a
  BY <1>4, <1>5
<1>9. \A n \in Nat : f[n + 1] = step[n][f[n]]
  BY <1>6, <1>7
<1> HIDE DEF f
<1> QED
  BY <1>8, <1>9 DEF IteratesAlong

=============================================================================
