----------------------------- MODULE SerializerProofs ---------------------------
(***************************************************************************)
(* Proofs about Arena and Serializer, for every size of segments, arrays   *)
(* and strings, every value and all limits: the serializer asks the arena  *)
(* only for what it allows, so nothing it writes overlaps, one call takes  *)
(* a bounded number of slots, truncations are counted exactly, and what    *)
(* was returned can be read back until the arena is reset.                 *)
(***************************************************************************)
EXTENDS SerializerRef, SequenceProofs

(* An element of a sequence of naturals is a natural.                      *)
LEMMA NatElement ==
  ASSUME NEW s \in Seq(Nat), NEW i \in 1 .. Len(s)
  PROVE  s[i] \in Nat
  OBVIOUS

(* The position and the capacity of every segment of a region (the         *)
(* buffers of PWArgsSegment and StringsSegment) are naturals.              *)
LEMMA SegmentValues ==
  ASSUME NEW q, RegionOK(q), NEW i \in 1 .. Len(q.cap)
  PROVE  q.pos[i] \in Nat /\ q.cap[i] \in Nat
  <1>1. q.pos \in Seq(Nat) /\ q.cap \in Seq(Nat) /\ Len(q.pos) = Len(q.cap)
    BY DEF RegionOK
  <1>2. i \in 1 .. Len(q.pos)
    BY <1>1
  <1>3. q.pos[i] \in Nat
    BY ONLY <1>1, <1>2, NatElement
  <1>4. q.cap[i] \in Nat
    BY ONLY <1>1, i \in 1 .. Len(q.cap), NatElement
  <1>5. QED
    BY <1>3, <1>4

(* Region q is region r after m units were taken from segment k.           *)
Advanced(r, q, k, m) ==
  /\ RegionOK(q) /\ WithinCapacity(q)
  /\ k \in 1 .. Len(q.cap) /\ Start(r, k) \in Nat
  /\ q.pos[k] = Start(r, k) + m
  /\ Len(q.cap) = (IF k <= Len(r.cap) THEN Len(r.cap) ELSE Len(r.cap) + 1)
  /\ k <= Len(r.cap) + 1
  /\ \A j \in 1 .. Len(r.cap) : q.cap[j] = r.cap[j] /\ r.pos[j] <= q.pos[j]

(* An allocation of m units in a segment with room for n >= m: it starts   *)
(* at the old position of the segment, and ends at the new one.            *)
LEMMA RegionAdvance ==
  ASSUME NEW r, RegionOK(r), WithinCapacity(r), NEW n \in Nat, NEW m \in 0 .. n,
         NEW cap \in Nat, n <= cap, NEW k, Takes(r, n, k),
         NEW q, q = Advance(WithSegment(r, k, cap), k, m)
  PROVE  Advanced(r, q, k, m)
  <1> USE DEF Advanced
  <1> DEFINE C == r.cap
             P == r.pos
             l == Len(C)
  <1>1. /\ C \in Seq(Nat) /\ P \in Seq(Nat) /\ l \in Nat /\ Len(P) = l
        /\ k \in 1 .. l + 1
        /\ k <= l => P[k] + n <= C[k]
        /\ \A j \in 1 .. l : P[j] \in Nat /\ C[j] \in Nat /\ P[j] <= C[j]
    <2>1. C \in Seq(Nat) /\ P \in Seq(Nat)
      BY DEF RegionOK
    <2>2. l \in Nat /\ Len(P) = l
      BY DEF RegionOK
    <2>3. k \in 1 .. l + 1
      BY DEF RegionOK, Takes, Candidates
    <2>4. k <= l => P[k] + n <= C[k]
      <3> SUFFICES ASSUME k <= l PROVE P[k] + n <= C[k]
        OBVIOUS
      <3>1. r.cap[k] - r.pos[k] >= n
        BY DEF Takes, Left
      <3>2. C[k] - P[k] >= n
        BY <3>1
      <3> HIDE DEF C, P, l
      <3>3. k \in 1 .. l /\ k \in 1 .. Len(P) /\ k \in 1 .. Len(C)
        BY <2>2, <2>3 DEF l
      <3>4. P[k] \in Nat /\ C[k] \in Nat
        BY <2>1, <3>3
      <3> QED
        BY <3>2, <3>4
    <2>5. \A j \in 1 .. l : P[j] \in Nat /\ C[j] \in Nat
      BY SMTT(30) DEF RegionOK
    <2>6. \A j \in 1 .. l : P[j] <= C[j]
      BY DEF WithinCapacity
    <2>7. QED
      BY <2>1, <2>2, <2>3, <2>4, <2>5, <2>6
  <1>2. Start(r, k) = IF k <= l THEN P[k] ELSE 0
    BY DEF Start
  <1>3. CASE k <= l
    <2> DEFINE P2 == [P EXCEPT ![k] = @ + m]
    <2>1. q = [cap |-> C, pos |-> P2, cur |-> k]
      BY <1>3 DEF WithSegment, Advance
    <2>2. q.cap = C /\ q.pos = P2 /\ q.cur = k
      BY <2>1
    <2>3. Len(C) = l /\ r.cap = C /\ r.pos = P
      OBVIOUS
    <2> HIDE DEF C, P, l
    <2>4. /\ P2 \in Seq(Nat) /\ Len(P2) = l /\ P2[k] = P[k] + m
          /\ \A j \in 1 .. l : j # k => P2[j] = P[j]
      BY <1>1, <1>3, SMTT(30)
    <2> HIDE DEF P2
    <2>5. RegionOK(q)
      BY <1>1, <1>3, <2>1, <2>2, <2>3, <2>4 DEF RegionOK
    <2>6. ASSUME NEW j \in 1 .. l
          PROVE  P2[j] <= C[j] /\ P[j] <= P2[j]
      <3>1. P[j] \in Nat /\ C[j] \in Nat /\ P[j] <= C[j]
        BY <1>1
      <3>2. CASE j = k
        <4>1. P[j] + n <= C[j] /\ P2[j] = P[j] + m
          BY <1>1, <1>3, <2>4, <3>2
        <4>2. QED
          BY <3>1, <4>1
      <3>3. CASE j # k
        <4>1. P2[j] = P[j]
          BY <2>4, <3>3
        <4>2. QED
          BY <3>1, <4>1
      <3>4. QED
        BY <3>2, <3>3
    <2>7. WithinCapacity(q)
      BY <2>2, <2>3, <2>6 DEF WithinCapacity
    <2>8. k \in 1 .. Len(q.cap) /\ Start(r, k) \in Nat /\ q.pos[k] = Start(r, k) + m
      BY <1>1, <1>2, <1>3, <2>2, <2>3, <2>4
    <2>9. /\ k <= Len(r.cap) + 1
          /\ Len(q.cap) = (IF k <= Len(r.cap) THEN Len(r.cap) ELSE Len(r.cap) + 1)
      BY <1>1, <1>3, <2>2, <2>3
    <2>10. \A j \in 1 .. Len(r.cap) : q.cap[j] = r.cap[j] /\ r.pos[j] <= q.pos[j]
      BY <2>2, <2>3, <2>6
    <2>11. QED
      BY <2>5, <2>7, <2>8, <2>9, <2>10
  <1>4. CASE k = l + 1
    <2> DEFINE C2 == Append(C, cap)
               P1 == Append(P, 0)
               P2 == [P1 EXCEPT ![k] = @ + m]
    <2>1. ~(k <= Len(r.cap))
      BY <1>1, <1>4
    <2>2. WithSegment(r, k, cap) = [cap |-> C2, pos |-> P1, cur |-> r.cur]
      BY <2>1 DEF WithSegment
    <2>3. q = [cap |-> C2, pos |-> P2, cur |-> k]
      <3> DEFINE w == WithSegment(r, k, cap)
      <3>1. w.cap = C2 /\ w.pos = P1
        BY <2>2
      <3>2. q = Advance(w, k, m)
        OBVIOUS
      <3> HIDE DEF w, C2, P1
      <3>3. QED
        BY <3>1, <3>2 DEF Advance
    <2>4. Len(C) = l /\ r.cap = C /\ r.pos = P
      OBVIOUS
    <2> HIDE DEF C, P, l
    <2>5. /\ C2 \in Seq(Nat) /\ Len(C2) = k /\ C2[k] = cap
          /\ \A j \in 1 .. l : C2[j] = C[j]
      BY <1>1, <1>4, <2>4
    <2>6. /\ P1 \in Seq(Nat) /\ Len(P1) = k /\ P1[k] = 0
          /\ \A j \in 1 .. l : P1[j] = P[j]
      BY <1>1, <1>4
    <2> HIDE DEF C2, P1
    <2>7. /\ P2 \in Seq(Nat) /\ Len(P2) = k /\ P2[k] = m
          /\ \A j \in 1 .. l : P2[j] = P[j]
      BY <1>1, <1>4, <2>6
    <2> HIDE DEF P2
    <2>8. q.cap = C2 /\ q.pos = P2 /\ q.cur = k
      BY <2>3
    <2>9. RegionOK(q)
      BY <1>1, <1>4, <2>3, <2>5, <2>7, <2>8 DEF RegionOK
    <2>10. ASSUME NEW j \in 1 .. k
           PROVE  P2[j] <= C2[j]
      <3>1. CASE j = k
        BY <2>5, <2>7, <3>1
      <3>2. CASE j # k
        <4>1. j \in 1 .. l
          BY <1>1, <1>4, <3>2
        <4>2. C2[j] = C[j] /\ P2[j] = P[j]
          BY <2>5, <2>7, <4>1
        <4>3. P[j] <= C[j]
          BY <1>1, <4>1
        <4>4. QED
          BY <4>2, <4>3
      <3>3. QED
        BY <3>1, <3>2
    <2>11. WithinCapacity(q)
      BY <2>5, <2>8, <2>10 DEF WithinCapacity
    <2>12. k \in 1 .. Len(q.cap) /\ Start(r, k) \in Nat /\ q.pos[k] = Start(r, k) + m
      BY <1>1, <1>2, <1>4, <2>5, <2>7, <2>8
    <2>13. ASSUME NEW j \in 1 .. l
           PROVE  q.cap[j] = C[j] /\ P[j] <= q.pos[j]
      <3>1. C2[j] = C[j] /\ P2[j] = P[j]
        BY <2>5, <2>7
      <3>2. P[j] \in Nat
        BY <1>1
      <3>3. QED
        BY <2>8, <3>1, <3>2
    <2>14. Len(q.cap) = l + 1 /\ ~(k <= l)
      BY <1>1, <1>4, <2>5, <2>8
    <2>15. k <= Len(r.cap) + 1
      BY <1>1, <1>4, <2>4
    <2>16. Len(q.cap) = (IF k <= Len(r.cap) THEN Len(r.cap) ELSE Len(r.cap) + 1)
      BY <2>4, <2>14
    <2>17. \A j \in 1 .. Len(r.cap) : q.cap[j] = r.cap[j] /\ r.pos[j] <= q.pos[j]
      BY <2>4, <2>13
    <2>18. QED
      BY <2>9, <2>11, <2>12, <2>15, <2>16, <2>17
  <1>5. k <= l \/ k = l + 1
    BY <1>1
  <1>6. QED
    BY <1>3, <1>4, <1>5

(* What was handed out before an allocation is below its start, so the new *)
(* block is separate from all of it.                                       *)
LEMMA BlockAdded ==
  ASSUME NEW r, RegionOK(r), WithinCapacity(r), NEW n \in Nat, NEW m \in 1 .. n,
         NEW cap \in Nat, n <= cap, NEW k, Takes(r, n, k),
         NEW q, q = Advance(WithSegment(r, k, cap), k, m),
         NEW bs, Below(bs, r), Separate(bs, r),
         NEW b, b.seg = k, b.start = Start(r, k), b.num = m
  PROVE  Advanced(r, q, k, m) /\ Below(bs \cup {b}, q) /\ Separate(bs \cup {b}, q)
  <1>1. m \in 0 .. n /\ Len(r.cap) \in Nat
    BY DEF RegionOK
  <1>2. Advanced(r, q, k, m)
    BY <1>1, RegionAdvance
  <1> USE DEF Advanced
  <1>3. ASSUME NEW j \in 1 .. Len(r.cap)
        PROVE  r.pos[j] \in Nat /\ q.pos[j] \in Nat /\ j \in 1 .. Len(q.cap)
    <2>1. j \in 1 .. Len(q.cap)
      BY <1>1, <1>2
    <2>2. r.pos[j] \in Nat
      BY DEF RegionOK
    <2>3. q.pos[j] \in Nat
      <3>1. q.pos \in Seq(Nat) /\ Len(q.pos) = Len(q.cap)
        BY <1>2 DEF RegionOK
      <3>2. QED
        BY <2>1, <3>1
    <2>4. QED
      BY <2>1, <2>2, <2>3
  <1>4. ASSUME NEW c \in bs
        PROVE  /\ c.seg \in 1 .. Len(q.cap) /\ c.start \in Nat /\ c.num \in Nat \ {0}
               /\ c.start + c.num <= q.pos[c.seg]
    <2>1. /\ c.seg \in 1 .. Len(r.cap) /\ c.start \in Nat /\ c.num \in Nat \ {0}
          /\ c.start + c.num <= r.pos[c.seg]
      BY DEF Below
    <2>2. r.pos[c.seg] <= q.pos[c.seg]
      BY <1>2, <2>1
    <2>3. r.pos[c.seg] \in Nat /\ q.pos[c.seg] \in Nat /\ c.seg \in 1 .. Len(q.cap)
      BY <1>3, <2>1
    <2>4. QED
      BY <2>1, <2>2, <2>3
  <1>5. b.start + b.num <= q.pos[b.seg]
    BY <1>2
  <1>6. Below(bs \cup {b}, q)
    BY <1>2, <1>4, <1>5, SMTT(30) DEF Below
  <1>7. ASSUME NEW c \in bs
        PROVE  Disjoint(b, c) /\ Disjoint(c, b)
    <2> SUFFICES ASSUME c.seg = k
                 PROVE  c.start + c.num <= b.start
      BY DEF Disjoint
    <2>1. k \in 1 .. Len(r.cap) /\ c.start + c.num <= r.pos[k]
      BY DEF Below
    <2>2. QED
      BY <1>1, <2>1 DEF Start
  <1>8. ASSUME NEW c \in bs \cup {b}
        PROVE  c.start + c.num <= q.cap[c.seg]
    <2>1. /\ c.seg \in 1 .. Len(q.cap) /\ c.start \in Nat /\ c.num \in Nat
          /\ c.start + c.num <= q.pos[c.seg]
      BY <1>6 DEF Below
    <2>2. q.pos[c.seg] <= q.cap[c.seg]
      BY <1>2, <2>1 DEF WithinCapacity
    <2>3. q.pos[c.seg] \in Nat /\ q.cap[c.seg] \in Nat
      <3>1. RegionOK(q) /\ c.seg \in 1 .. Len(q.cap)
        BY <1>2, <2>1
      <3>2. QED
        BY ONLY <3>1, SegmentValues
    <2>4. QED
      BY <2>1, <2>2, <2>3, SMTT(30)
  <1>9. QED
    BY <1>2, <1>6, <1>7, <1>8 DEF Separate

(* Recycling the view after the first n of a segment, or adding one, gives *)
(* the new array a view and leaves the first n alone.                      *)
LEMMA ViewRecycled ==
  ASSUME NEW V, NEW s \in Seq(V), NEW n \in 0 .. Len(s), NEW v \in V,
         NEW t, t = IF n >= Len(s) THEN Append(s, v) ELSE [s EXCEPT ![n + 1] = v]
  PROVE  /\ t \in Seq(V) /\ n + 1 <= Len(t) /\ t[n + 1] = v
         /\ \A i \in 1 .. n : t[i] = s[i]
  <1>1. CASE n >= Len(s)
    BY <1>1
  <1>2. CASE ~(n >= Len(s))
    BY <1>2
  <1>3. QED
    BY <1>1, <1>2

(* An array of slots is added to the arena.                                *)
LEMMA AllocateKeepsInv ==
  ASSUME ArenaInv, NEW num \in Nat \ {0}, NEW compat \in BOOLEAN, NEW k,
         AllocatePWArgs(num, compat, k)
  PROVE  ArenaInv'
  <1> DEFINE r  == WithSegment(slots, k, Max2(MinSlots, num))
             vs == IF k <= Len(views) THEN views ELSE Append(views, <<>>)
             nv == IF k <= Len(nextView) THEN nextView ELSE Append(nextView, 0)
             v  == [start |-> Start(slots, k), num |-> num]
             w  == IF compat THEN 0 ELSE nv[k] + 1
             b  == [seg |-> k, start |-> v.start, num |-> num, view |-> w]
  <1>1. /\ Takes(slots, num, k) /\ slots' = Advance(r, k, num)
        /\ blocks' = blocks \cup {b} /\ UNCHANGED <<strings, texts>>
        /\ compat => views' = vs /\ nextView' = nv
        /\ ~compat => /\ views' = [vs EXCEPT ![k] =
                                     IF nv[k] >= Len(@) THEN Append(@, v)
                                                        ELSE [@ EXCEPT ![nv[k] + 1] = v]]
                      /\ nextView' = [nv EXCEPT ![k] = @ + 1]
    BY DEF AllocatePWArgs
  <1>2. Max2(MinSlots, num) \in Nat /\ num <= Max2(MinSlots, num)
    BY SizesAssumption DEF Max2
  <1>3. b.seg = k /\ b.start = Start(slots, k) /\ b.num = num /\ b.view = w
    OBVIOUS
  <1>4. /\ Advanced(slots, slots', k, num)
        /\ Below(blocks', slots') /\ Separate(blocks', slots')
    <2> HIDE DEF b
    <2>1. num \in 1 .. num /\ num \in Nat
      OBVIOUS
    <2>2. /\ RegionOK(slots) /\ WithinCapacity(slots)
          /\ Below(blocks, slots) /\ Separate(blocks, slots)
      BY DEF ArenaInv, ArenaTypeOK, LiveSeparate
    <2>3. /\ Advanced(slots, slots', k, num)
          /\ Below(blocks \cup {b}, slots') /\ Separate(blocks \cup {b}, slots')
      BY <1>1, <1>2, <1>3, <2>1, <2>2, BlockAdded
    <2>4. QED
      BY <1>1, <2>3
  <1> DEFINE V == [start : Nat, num : Nat]
             L == Len(slots.cap)
  <1>5. /\ views \in Seq(Seq(V)) /\ nextView \in Seq(Nat)
        /\ Len(views) = L /\ Len(nextView) = L /\ L \in Nat
    BY DEF ArenaInv, ArenaTypeOK, RegionOK
  <1>6. /\ k \in 1 .. L + 1 /\ v \in V
        /\ Len(slots'.cap) = IF k <= L THEN L ELSE L + 1
        /\ k \in 1 .. Len(slots'.cap)
    <2>1. k \in 1 .. L + 1
      BY <1>4, <1>5 DEF Advanced
    <2>2. Start(slots, k) \in Nat
      BY <1>4 DEF Advanced
    <2>3. v \in V
      BY <2>2
    <2>4. QED
      BY <1>4, <2>1, <2>3 DEF Advanced
  <1> HIDE DEF V
  <1>7. /\ vs \in Seq(Seq(V)) /\ nv \in Seq(Nat)
        /\ Len(vs) = Len(slots'.cap) /\ Len(nv) = Len(slots'.cap)
        /\ nv[k] \in 0 .. Len(vs[k]) /\ vs[k] \in Seq(V)
        /\ \A j \in 1 .. L : vs[j] = views[j] /\ nv[j] = nextView[j]
    <2>1. CASE k <= L
      BY <1>5, <1>6, <2>1 DEF ArenaInv, ViewsInUse
    <2>2. CASE k = L + 1
      <3>1. vs = Append(views, <<>>) /\ nv = Append(nextView, 0)
        BY <1>5, <2>2
      <3>2. QED
        BY <1>5, <1>6, <2>2, <3>1
    <2>3. QED
      BY <1>6, <2>1, <2>2, SMTT(30)
  <1>8. /\ views' \in Seq(Seq(V)) /\ nextView' \in Seq(Nat)
        /\ Len(views') = Len(slots'.cap) /\ Len(nextView') = Len(slots'.cap)
        /\ \A j \in 1 .. Len(slots'.cap) :
             /\ nv[j] <= nextView'[j] /\ nextView'[j] <= Len(views'[j])
             /\ \A i \in 1 .. nv[j] : views'[j][i] = vs[j][i]
        /\ w \in 0 .. nextView'[k]
        /\ w # 0 => views'[k][w] = v
    <2>1. \A j \in 1 .. Len(slots'.cap) : nv[j] <= Len(vs[j])
      BY <1>5, <1>6, <1>7 DEF ArenaInv, ViewsInUse
    <2> HIDE DEF vs, nv, v
    <2>2. CASE compat
      <3>1. views' = vs /\ nextView' = nv /\ w = 0
        BY <1>1, <2>2
      <3>2. \A j \in 1 .. Len(slots'.cap) : nv[j] \in Nat
        BY <1>7, SMTT(30)
      <3>3. w \in 0 .. nextView'[k]
        BY <1>6, <3>1, <3>2
      <3>4. \A j \in 1 .. Len(slots'.cap) :
              /\ nv[j] <= nextView'[j] /\ nextView'[j] <= Len(views'[j])
              /\ \A i \in 1 .. nv[j] : views'[j][i] = vs[j][i]
        BY <2>1, <3>1, <3>2
      <3>5. QED
        BY <1>7, <3>1, <3>3, <3>4
    <2>3. CASE ~compat
      <3> DEFINE s == vs[k]
                 n == nv[k]
                 t == IF n >= Len(s) THEN Append(s, v) ELSE [s EXCEPT ![n + 1] = v]
      <3>1. s \in Seq(V) /\ n \in 0 .. Len(s) /\ v \in V
        BY <1>6, <1>7
      <3>2. views' = [vs EXCEPT ![k] = t] /\ nextView' = [nv EXCEPT ![k] = n + 1] /\ w = n + 1
        BY <1>1, <2>3
      <3>3. s = vs[k] /\ n = nv[k]
        OBVIOUS
      <3>4. t = IF n >= Len(s) THEN Append(s, v) ELSE [s EXCEPT ![n + 1] = v]
        OBVIOUS
      <3> HIDE DEF s, n, t, w
      <3>5. /\ t \in Seq(V) /\ n + 1 <= Len(t) /\ t[n + 1] = v
            /\ \A i \in 1 .. n : t[i] = s[i]
        BY <3>1, <3>4, ViewRecycled
      <3>6. /\ views' \in Seq(Seq(V)) /\ Len(views') = Len(slots'.cap) /\ views'[k] = t
            /\ \A j \in 1 .. Len(slots'.cap) : j # k => views'[j] = vs[j]
        BY <1>6, <1>7, <3>2, <3>5, SMTT(30)
      <3>7. n \in Nat /\ Len(s) \in Nat
        BY <3>1
      <3>8. /\ nextView' \in Seq(Nat) /\ Len(nextView') = Len(slots'.cap)
            /\ nextView'[k] = n + 1
            /\ \A j \in 1 .. Len(slots'.cap) : j # k => nextView'[j] = nv[j]
        BY <1>6, <1>7, <3>2, <3>7
      <3>9. ASSUME NEW j \in 1 .. Len(slots'.cap)
            PROVE  /\ nv[j] <= nextView'[j] /\ nextView'[j] <= Len(views'[j])
                   /\ \A i \in 1 .. nv[j] : views'[j][i] = vs[j][i]
        <4>1. CASE j = k
          <5>1. nv[j] = n /\ vs[j] = s /\ nextView'[j] = n + 1 /\ views'[j] = t
            BY <3>3, <3>6, <3>8, <4>1
          <5>2. n <= n + 1 /\ n + 1 <= Len(t) /\ \A i \in 1 .. n : t[i] = s[i]
            BY <3>5, <3>7
          <5>3. QED
            BY ONLY <5>1, <5>2
        <4>2. CASE j # k
          <5>1. nv[j] \in Nat
            BY <1>7, SMTT(30)
          <5>2. nextView'[j] = nv[j] /\ views'[j] = vs[j] /\ nv[j] <= Len(vs[j])
            BY ONLY j \in 1 .. Len(slots'.cap), <2>1, <3>6, <3>8, <4>2, Zenon
          <5>3. nv[j] <= nv[j]
            BY <5>1
          <5>4. QED
            BY ONLY <5>2, <5>3, Zenon
        <4>3. QED
          BY <4>1, <4>2
      <3>10. w \in 0 .. nextView'[k] /\ (w # 0 => views'[k][w] = v)
        BY <3>2, <3>5, <3>6, <3>7, <3>8
      <3>11. QED
        BY <3>6, <3>8, <3>9, <3>10
    <2>4. QED
      BY <2>2, <2>3
  <1>9. ArenaTypeOK'
    BY <1>1, <1>4, <1>8 DEF ArenaInv, ArenaTypeOK, RegionOK, Advanced, V
  <1>10. ViewsInUse' /\ ViewsStable'
    <2>1. ASSUME NEW c \in blocks
          PROVE  /\ c.view \in 0 .. nextView'[c.seg]
                 /\ c.view # 0 => views'[c.seg][c.view] = [start |-> c.start, num |-> c.num]
      <3>1. c.seg \in 1 .. L /\ c.view \in 0 .. nextView[c.seg]
        BY DEF ArenaInv, Below, ViewsInUse
      <3>2. nextView[c.seg] = nv[c.seg] /\ views[c.seg] = vs[c.seg] /\ nextView[c.seg] \in Nat
        BY <1>5, <1>7, <3>1, SMTT(30)
      <3>3. c.seg \in 1 .. Len(slots'.cap)
        BY <1>5, <1>6, <3>1
      <3>4. nextView'[c.seg] \in Nat
        BY <1>8, <3>3
      <3> HIDE DEF vs, nv
      <3>5. c.view \in 0 .. nextView'[c.seg]
        BY <1>8, <3>1, <3>2, <3>3, <3>4, SMTT(30)
      <3>6. c.view # 0 => views'[c.seg][c.view] = views[c.seg][c.view]
        <4>1. \A i \in 1 .. nv[c.seg] : views'[c.seg][i] = vs[c.seg][i]
          BY <1>8, <3>3
        <4>2. c.view # 0 => c.view \in 1 .. nv[c.seg]
          BY <3>1, <3>2
        <4>3. QED
          BY <3>2, <4>1, <4>2
      <3>7. QED
        BY <3>5, <3>6 DEF ArenaInv, ViewsStable
    <2>2. b.view \in 0 .. nextView'[b.seg]
      BY <1>3, <1>8
    <2>3. b.view # 0 => views'[b.seg][b.view] = [start |-> b.start, num |-> b.num]
      BY <1>3, <1>8
    <2> HIDE DEF b
    <2>4. \A c \in blocks' : c \in blocks \/ c = b
      BY <1>1
    <2>5. QED
      BY <1>8, <2>1, <2>2, <2>3, <2>4 DEF ViewsInUse, ViewsStable
  <1>11. QED
    BY <1>1, <1>4, <1>9, <1>10
       DEF ArenaInv, Advanced, LiveSeparate, WithinCapacity, Below, Separate, Disjoint

(* A string is added to the arena: no more bytes are written than room was *)
(* asked for.                                                              *)
LEMMA WriteStringKeepsInv ==
  ASSUME ArenaInv, NEW chars \in Nat, NEW size \in Nat, size <= chars * BytesPerChar,
         NEW k, WriteString(chars, size, k)
  PROVE  ArenaInv'
  <1> DEFINE n == MaxBytes(chars)
             m == size + 1
             cap == Max2(MinBytes, n)
             b == [seg |-> k, start |-> Start(strings, k), num |-> m]
  <1>1. n \in Nat /\ m \in 1 .. n
    <2>1. chars * BytesPerChar \in Nat
      BY SizesAssumption
    <2>2. QED
      BY <2>1 DEF MaxBytes
  <1>2. cap \in Nat /\ n <= cap
    BY <1>1, SizesAssumption DEF Max2
  <1>3. b.seg = k /\ b.start = Start(strings, k) /\ b.num = m
    OBVIOUS
  <1>4. /\ Takes(strings, n, k)
        /\ strings' = Advance(WithSegment(strings, k, cap), k, m)
        /\ texts' = texts \cup {b}
        /\ UNCHANGED <<slots, views, nextView, blocks>>
    BY DEF WriteString
  <1> HIDE DEF n, m, cap, b
  <1>5. /\ RegionOK(strings) /\ WithinCapacity(strings)
        /\ Below(texts, strings) /\ Separate(texts, strings)
    BY DEF ArenaInv, ArenaTypeOK, LiveSeparate
  <1>6. /\ Advanced(strings, strings', k, m)
        /\ Below(texts \cup {b}, strings') /\ Separate(texts \cup {b}, strings')
    BY <1>1, <1>2, <1>3, <1>4, <1>5, BlockAdded
  <1>7. /\ RegionOK(strings') /\ WithinCapacity(strings')
        /\ Below(texts', strings') /\ Separate(texts', strings')
    BY <1>4, <1>6 DEF Advanced
  <1>8. ArenaTypeOK'
    BY <1>4, <1>7 DEF ArenaInv, ArenaTypeOK
  <1>9. WithinCapacity(slots') /\ Below(blocks', slots') /\ Separate(blocks', slots')
    BY <1>4 DEF ArenaInv, LiveSeparate
  <1>10. ViewsInUse' /\ ViewsStable'
    BY <1>4 DEF ArenaInv, ViewsInUse, ViewsStable
  <1>11. QED
    BY <1>7, <1>8, <1>9, <1>10 DEF ArenaInv, LiveSeparate

(* A rewound region is empty and has lost no segment.                      *)
LEMMA RewindOK ==
  ASSUME NEW r, RegionOK(r)
  PROVE  RegionOK(Rewind(r)) /\ WithinCapacity(Rewind(r)) /\ Rewind(r).cap = r.cap
  <1> DEFINE P == [k \in DOMAIN r.pos |-> 0]
             q == Rewind(r)
  <1>1. r.cap \in Seq(Nat) /\ r.pos \in Seq(Nat) /\ Len(r.pos) = Len(r.cap)
        /\ 1 \in 1 .. Len(r.cap)
    BY DEF RegionOK
  <1>2. P \in Seq(Nat) /\ Len(P) = Len(r.cap) /\ \A k \in 1 .. Len(r.cap) : P[k] = 0
    BY <1>1
  <1>3. q = [cap |-> r.cap, pos |-> P, cur |-> 1]
    BY DEF Rewind
  <1> HIDE DEF P, q
  <1>4. q.cap = r.cap /\ q.pos = P /\ q.cur = 1
    BY <1>3
  <1>5. RegionOK(q)
    BY <1>1, <1>2, <1>3, <1>4 DEF RegionOK
  <1>6. WithinCapacity(q)
    BY <1>1, <1>2, <1>4 DEF WithinCapacity
  <1>7. QED
    BY <1>4, <1>5, <1>6 DEF q

(* reset() forgets what was handed out.                                    *)
LEMMA ResetKeepsInv ==
  ASSUME ArenaInv, Reset
  PROVE  ArenaInv'
  <1>1. /\ RegionOK(slots') /\ WithinCapacity(slots') /\ slots'.cap = slots.cap
        /\ RegionOK(strings') /\ WithinCapacity(strings')
    BY RewindOK DEF ArenaInv, ArenaTypeOK, Reset
  <1>2. blocks' = {} /\ texts' = {} /\ views' = views
    BY DEF Reset
  <1>3. /\ nextView' \in Seq(Nat) /\ Len(nextView') = Len(nextView)
        /\ \A k \in 1 .. Len(nextView) : nextView'[k] = 0
    BY DEF Reset, ArenaInv, ArenaTypeOK
  <1>4. ArenaTypeOK'
    BY <1>1, <1>2, <1>3 DEF ArenaInv, ArenaTypeOK
  <1>5. ViewsInUse'
    <2>1. \A k \in 1 .. Len(views) : Len(views[k]) \in Nat
      BY DEF ArenaInv, ArenaTypeOK
    <2>2. Len(nextView) = Len(views)
      BY DEF ArenaInv, ArenaTypeOK
    <2>3. QED
      BY <1>2, <1>3, <2>1, <2>2 DEF ViewsInUse
  <1>6. QED
    BY <1>1, <1>2, <1>4, <1>5
       DEF ArenaInv, LiveSeparate, Below, Separate, ViewsStable

(* A new arena has one empty segment of each kind.                         *)
LEMMA ArenaInitInv ==
  ASSUME ArenaInit
  PROVE  ArenaInv
  <1>1. ASSUME NEW min \in Nat \ {0}, NEW r, r = NewRegion(min)
        PROVE  RegionOK(r) /\ WithinCapacity(r) /\ Len(r.cap) = 1
    BY <1>1 DEF NewRegion, RegionOK, WithinCapacity
  <1>2. /\ RegionOK(slots) /\ WithinCapacity(slots) /\ Len(slots.cap) = 1
        /\ RegionOK(strings) /\ WithinCapacity(strings)
    BY <1>1, SizesAssumption DEF ArenaInit
  <1>3. views = <<<<>>>> /\ nextView = <<0>> /\ blocks = {} /\ texts = {}
    BY DEF ArenaInit
  <1>4. ArenaTypeOK
    BY <1>2, <1>3 DEF ArenaTypeOK
  <1>5. ViewsInUse
    BY <1>3 DEF ViewsInUse
  <1>6. QED
    BY <1>2, <1>3, <1>4, <1>5
       DEF ArenaInv, LiveSeparate, Below, Separate, ViewsStable

(* A step of the arena that its specification allows keeps the invariant.  *)
LEMMA ArenaStepInv ==
  ASSUME ArenaInv, [ArenaNext]_arenaVars
  PROVE  ArenaInv'
  <1>1. CASE Reset
    BY <1>1, ResetKeepsInv
  <1>2. ASSUME NEW k, AllocatePWArgs(1, TRUE, k)
        PROVE  ArenaInv'
    <2>1. 1 \in Nat \ {0} /\ TRUE \in BOOLEAN
      OBVIOUS
    <2>2. QED
      BY <1>2, <2>1, AllocateKeepsInv
  <1>3. ASSUME NEW num \in 1 .. MaxInt, NEW k, AllocatePWArgs(num, FALSE, k)
        PROVE  ArenaInv'
    <2>1. num \in Nat \ {0} /\ FALSE \in BOOLEAN
      BY SizesAssumption
    <2>2. QED
      BY <1>3, <2>1, AllocateKeepsInv
  <1>4. ASSUME NEW chars \in 0 .. MaxInt, NEW size \in 0 .. chars * BytesPerChar, NEW k,
               WriteString(chars, size, k)
        PROVE  ArenaInv'
    <2>1. chars \in Nat /\ size \in Nat /\ size <= chars * BytesPerChar
      BY SizesAssumption
    <2>2. QED
      BY <1>4, <2>1, WriteStringKeepsInv
  <1>5. CASE UNCHANGED arenaVars
    BY <1>5 DEF arenaVars, ArenaInv, ArenaTypeOK, RegionOK, WithinCapacity, Below,
       LiveSeparate, Separate, Disjoint, ViewsInUse, ViewsStable
  <1>6. QED
    BY <1>1, <1>2, <1>3, <1>4, <1>5 DEF ArenaNext, ArenaAllocate

(* The inductive invariant of the arena.                                   *)
THEOREM ArenaInvariant == ArenaSpec => []ArenaInv
  BY ArenaInitInv, ArenaStepInv, PTL DEF ArenaSpec

(* What was handed out since reset() never overlaps, whatever the sizes.   *)
THEOREM LiveAlwaysSeparate == ArenaSpec => []LiveSeparate
  <1>1. ArenaInv => LiveSeparate
    BY DEF ArenaInv
  <1>2. QED
    BY <1>1, ArenaInvariant, PTL

(* A PWArgsArrayBuffer in use is never recycled for another array.         *)
THEOREM ViewsAlwaysStable == ArenaSpec => []ViewsStable
  <1>1. ArenaInv => ViewsStable
    BY DEF ArenaInv
  <1>2. QED
    BY <1>1, ArenaInvariant, PTL

-----------------------------------------------------------------------------
(* The bytes of a text are at most BytesPerChar for each unit, which is    *)
(* what room is asked for.                                                 *)
LEMMA Utf8LenBound ==
  ASSUME NEW text \in Texts
  PROVE  Utf8Len(text) \in 0 .. Len(text) * BytesPerChar
  <1> DEFINE B == BytesPerChar
  <1>1. B \in Nat /\ text \in Seq(0 .. B)
    BY SizesAssumption DEF Texts
  <1> HIDE DEF B
  <1>2. text \in Seq(Int) /\ text \in Seq(Nat) /\ B \in Int /\ \A i \in 1 .. Len(text) : text[i] <= B
    BY <1>1
  <1>3. Total(text) <= Len(text) * B
    BY <1>2, TotalBound
  <1>4. Total(text) \in Nat
    <2>1. Len(text) \in 0 .. Len(text)
      BY <1>2
    <2>2. Sums(text)[Len(text)] \in 0 .. Total(text)
      BY <1>2, <2>1, SumsGrow
    <2>3. Total(text) \in Int
      BY <1>2, TotalType
    <2> QED
      BY <2>2, <2>3 DEF Total
  <1>5. Len(text) * B \in Int
    BY <1>1
  <1> QED
    BY <1>3, <1>4, <1>5 DEF Utf8Len, B

(* writeNulTerminated is a step the arena allows.                          *)
LEMMA EncodeUsesArena ==
  ASSUME NEW text \in Texts, NEW k \in Candidates(strings), Encode(text, k)
  PROVE  ArenaNext
  <1> DEFINE chars == Len(text)
             size == Utf8Len(text)
  <1>1. WriteString(chars, size, k)
    BY DEF Encode
  <1>2. chars \in Nat /\ size \in 0 .. chars * BytesPerChar
    BY Utf8LenBound DEF Texts
  <1> HIDE DEF chars, size
  <1>3. chars \in 0 .. MaxInt
    <2>1. chars * BytesPerChar + 1 <= MaxInt
      BY <1>1 DEF WriteString, MaxBytes
    <2>2. chars <= chars * BytesPerChar
      BY <1>2, SizesAssumption
    <2>3. chars * BytesPerChar \in Nat
      BY <1>2, SizesAssumption
    <2> QED
      BY <1>2, <2>1, <2>2, <2>3, SizesAssumption
  <1> QED
    BY <1>1, <1>2, <1>3 DEF ArenaNext, ArenaAllocate

(* Names and texts are cut, never changed.                                 *)
LEMMA TruncatedType ==
  ASSUME NEW max \in Nat
  PROVE  /\ \A t \in Texts : SubSeq(t, 1, AtMost(Len(t), max)) \in Texts
         /\ \A t \in Texts : Truncated(t, max) \in Texts
         /\ \A t \in Names : Truncated(t, max) \in Names
         /\ \A t \in Names : Truncated(t, max) # Absent => Truncated(t, max) \in Texts
  <1>1. \A t \in Texts : SubSeq(t, 1, AtMost(Len(t), max)) \in Texts
    <2> SUFFICES ASSUME NEW t \in Texts PROVE SubSeq(t, 1, AtMost(Len(t), max)) \in Texts
      OBVIOUS
    <2>1. AtMost(Len(t), max) \in 0 .. Len(t)
      BY DEF AtMost, Texts
    <2> DEFINE m == AtMost(Len(t), max)
               C == 0 .. BytesPerChar
    <2>2. t \in Seq(C)
      BY DEF Texts
    <2> HIDE DEF m, C
    <2>3. 1 \in Int /\ m \in Int /\ \A i \in 1 .. m : t[i] \in C
      BY <2>1, <2>2 DEF m
    <2>4. SubSeq(t, 1, m) \in Seq(C)
      BY <2>3, SubSeqProperties
    <2> QED
      BY <2>4 DEF m, C, Texts
  <1> QED
    BY <1>1 DEF Truncated, Names

(* The parts of the limits of the current call.                            *)
LEMMA LimitsType ==
  ASSUME SerTypeOK, phase # "idle"
  PROVE  /\ root.limits.maxElements \in Nat /\ root.limits.maxElements <= MaxInt
         /\ root.limits.maxDepth \in Nat /\ root.limits.maxStringSize \in Nat
  BY LimitsAssumption, SizesAssumption DEF SerTypeOK

(* Whether it was counted by size() or by iterating, a container gets as   *)
(* many slots as it claims elements and as are left: an array the arena    *)
(* can hold.                                                               *)
LEMMA SizeOfType ==
  ASSUME SerTypeOK, CountOK, phase = "value", call.val.kind \in {"list", "map"}
  PROVE  /\ IsContainer(call.val) /\ SizeOf(call.val) \in Int
         /\ SizeOf(call.val) = AtMost(call.val.claimed, remaining)
         /\ SizeOf(call.val) <= call.val.claimed /\ SizeOf(call.val) <= remaining
  <1>1. IsValue(call.val) /\ remaining \in Int
    BY DEF SerTypeOK, CallOK
  <1>2. IsContainer(call.val)
    BY <1>1 DEF IsValue
  <1>3. call.val.claimed \in Int
    BY <1>2 DEF IsContainer
  <1>4. SizeOf(call.val) = AtMost(call.val.claimed, remaining)
    BY DEF SizeOf, CountOK
  <1> QED
    BY <1>1, <1>2, <1>3, <1>4 DEF AtMost

(* Each step of the serializer is a step the arena allows.                 *)
LEMMA StepUsesArena ==
  ASSUME SerTypeOK, CountOK, [SerNext]_serVars
  PROVE  [ArenaNext]_arenaVars
  <1>1. ASSUME NEW m \in Maps, NEW lim \in AllLimits, SerializeMap(m, lim)
        PROVE  ArenaNext
    BY <1>1 DEF SerializeMap, ArenaNext, ArenaAllocate
  <1>2. CASE Enter
    <2>1. CASE KeptName = Absent
      BY <1>2, <2>1 DEF Enter
    <2>2. CASE KeptName # Absent
      <3>1. phase = "enter"
        BY <1>2 DEF Enter
      <3>2. call.name \in Names /\ MaxString \in Nat
        BY <3>1, LimitsType DEF SerTypeOK, CallOK, MaxString
      <3>3. KeptName \in Texts
        BY <2>2, <3>2, TruncatedType DEF KeptName
      <3>4. PICK k \in Candidates(strings) : Encode(KeptName, k)
        BY <1>2, <2>2 DEF Enter
      <3> QED
        BY <3>3, <3>4, EncodeUsesArena
    <2> QED
      BY <2>1, <2>2
  <1>3. CASE WriteText
    <2>1. call.val.text \in Texts
      BY <1>3 DEF WriteText, SerTypeOK, CallOK, IsValue, IsString, IsContainer
    <2>2. PICK k \in Candidates(strings) : Encode(call.val.text, k)
      BY <1>3 DEF WriteText
    <2> QED
      BY <2>1, <2>2, EncodeUsesArena
  <1>4. CASE WriteContainer
    <2> DEFINE n == SizeOf(call.val)
    <2>1. phase = "value" /\ call.val.kind \in {"list", "map"}
      BY <1>4 DEF WriteContainer
    <2>2. n \in Int /\ n <= remaining /\ remaining \in Int /\ remaining <= root.limits.maxElements
      BY <2>1, SizeOfType DEF SerTypeOK
    <2>3. root.limits.maxElements \in Nat /\ root.limits.maxElements <= MaxInt
      BY <2>1, LimitsType
    <2>4. PICK k \in Candidates(slots) : AllocatePWArgs(n, FALSE, k)
      BY <1>4 DEF WriteContainer
    <2>5. n > 0
      BY <1>4 DEF WriteContainer
    <2> HIDE DEF n
    <2>6. n \in 1 .. MaxInt
      BY <2>2, <2>3, <2>5, SizesAssumption
    <2> QED
      BY <2>4, <2>6 DEF ArenaNext, ArenaAllocate
  <1>5. CASE Release
    BY <1>5 DEF Release, ArenaNext
  <1>6. CASE \/ CountElement \/ NameTooLarge \/ WriteScalar \/ TextTooLarge \/ WriteEmpty
             \/ NextElement \/ EndLoop \/ Modified \/ ApplicationThrows \/ Return
    BY <1>6 DEF CountElement, NameTooLarge, WriteScalar, TextTooLarge, WriteEmpty, NextElement,
       EndLoop, Modified, ApplicationThrows, Return
  <1>7. CASE UNCHANGED serVars
    BY <1>7 DEF serVars
  <1> QED
    BY <1>1, <1>2, <1>3, <1>4, <1>5, <1>6, <1>7 DEF SerNext, Step

-----------------------------------------------------------------------------
(* One loop more or less around the current call.                          *)
LEMMA Pushed ==
  ASSUME NEW S, NEW s \in Seq(S), NEW f \in S
  PROVE  /\ <<f>> \o s \in Seq(S) /\ Len(<<f>> \o s) = Len(s) + 1
         /\ (<<f>> \o s)[1] = f /\ \A j \in 1 .. Len(s) : (<<f>> \o s)[j + 1] = s[j]
  OBVIOUS

(* A loop is left: the one around it becomes the innermost.                *)
LEMMA Popped ==
  ASSUME NEW S, NEW s \in Seq(S), s # <<>>
  PROVE  /\ Head(s) \in S /\ Head(s) = s[1] /\ Tail(s) \in Seq(S) /\ Len(s) = Len(Tail(s)) + 1
         /\ s = <<Head(s)>> \o Tail(s) /\ \A j \in 1 .. Len(Tail(s)) : Tail(s)[j] = s[j + 1]
  OBVIOUS

(* A loop one level below those around it, over fewer slots than there are *)
(* elements, keeps them in order.                                          *)
LEMMA PushLevels ==
  ASSUME NEW lim, lim.maxDepth \in Int, lim.maxElements \in Int,
         NEW s \in Seq(Frame), LoopsOK(s, lim), NEW f \in Frame,
         f.depth = lim.maxDepth - Len(s), f.i <= f.size, f.size <= lim.maxElements - 1
  PROVE  LoopsOK(<<f>> \o s, lim)
  <1> DEFINE t == <<f>> \o s
             n == Len(s)
             D == lim.maxDepth
  <1>1. /\ t \in Seq(Frame) /\ Len(t) = n + 1 /\ t[1] = f /\ \A j \in 1 .. n : t[j + 1] = s[j]
        /\ n \in Nat /\ D \in Int
    BY Pushed
  <1> HIDE DEF t, D
  <1>2. ASSUME NEW j \in 1 .. n + 1
        PROVE  t[j].depth = D - (n + 1) + j /\ t[j].i <= t[j].size /\ t[j].size <= lim.maxElements - 1
    <2>1. CASE j = 1
      BY <1>1, <2>1 DEF D
    <2>2. CASE j # 1
      <3>1. PICK l \in 1 .. n : j = l + 1
        <4>1. j - 1 \in 1 .. n /\ j = (j - 1) + 1
          BY <1>1, <2>2
        <4> QED
          BY <4>1
      <3>2. t[j] = s[l]
        BY <1>1, <3>1
      <3>3. s[l].depth = D - n + l /\ s[l].i <= s[l].size /\ s[l].size <= lim.maxElements - 1
        BY DEF LoopsOK, D
      <3>4. D - n + l = D - (n + 1) + j
        BY <1>1, <3>1
      <3> QED
        BY <3>2, <3>3, <3>4
    <2> QED
      BY <2>1, <2>2
  <1> QED
    BY <1>1, <1>2 DEF LoopsOK, t, D

(* So does leaving the innermost loop.                                     *)
LEMMA PopLevels ==
  ASSUME NEW lim, lim.maxDepth \in Int, NEW s \in Seq(Frame), s # <<>>, LoopsOK(s, lim)
  PROVE  LoopsOK(Tail(s), lim)
  <1> DEFINE t == Tail(s)
             n == Len(t)
             D == lim.maxDepth
  <1>1. /\ t \in Seq(Frame) /\ Len(s) = n + 1 /\ \A j \in 1 .. n : t[j] = s[j + 1]
        /\ n \in Nat /\ D \in Int
    BY Popped
  <1> HIDE DEF t, D, n
  <1>2. ASSUME NEW j \in 1 .. n
        PROVE  t[j].depth = D - n + j /\ t[j].i <= t[j].size /\ t[j].size <= lim.maxElements - 1
    <2>1. j + 1 \in 1 .. Len(s) /\ t[j] = s[j + 1] /\ D - (n + 1) + (j + 1) = D - n + j
      BY <1>1
    <2> QED
      BY <1>1, <2>1 DEF LoopsOK, D
  <1> QED
    BY <1>1, <1>2 DEF LoopsOK, t, D, n

(* A loop adds the slots it has yet to fill.                               *)
LEMMA PushUnfilled ==
  ASSUME NEW s \in Seq(Frame), NEW f \in Frame
  PROVE  /\ Unfilled(s) \in Int
         /\ Unfilled(<<f>> \o s) = f.size - f.i + Unfilled(s)
  <1> DEFINE t == <<f>> \o s
             n == Len(s)
             u == [j \in 1 .. n |-> s[j].size - s[j].i]
             w == [j \in 1 .. Len(t) |-> t[j].size - t[j].i]
             x == f.size - f.i
  <1>1. /\ t \in Seq(Frame) /\ Len(t) = n + 1 /\ t[1] = f /\ \A j \in 1 .. n : t[j + 1] = s[j]
        /\ n \in Nat
    BY Pushed
  <1>2. x \in Int /\ \A j \in 1 .. n : s[j].size - s[j].i \in Int
    <2>1. \A g \in Frame : g.size - g.i \in Int
      BY DEF Frame
    <2>2. \A j \in 1 .. n : s[j] \in Frame
      OBVIOUS
    <2> QED
      BY <2>1, <2>2
  <1>3. u \in Seq(Int) /\ Len(u) = n
    BY <1>1, <1>2
  <1>4. w = <<x>> \o u
    <2>1. /\ <<x>> \o u \in Seq(Int) /\ Len(<<x>> \o u) = n + 1 /\ (<<x>> \o u)[1] = x
          /\ \A j \in 1 .. n : (<<x>> \o u)[j + 1] = u[j]
      BY <1>2, <1>3, Pushed
    <2>2. w[1] = x
      BY <1>1
    <2>3. ASSUME NEW j \in 1 .. n PROVE w[j + 1] = u[j]
      <3>1. j + 1 \in 1 .. Len(t) /\ t[j + 1] = s[j]
        BY <1>1
      <3> QED
        BY <3>1
    <2>4. w = [j \in 1 .. n + 1 |-> w[j]]
      BY <1>1
    <2> HIDE DEF w, u, x
    <2>5. ASSUME NEW j \in 1 .. n + 1 PROVE w[j] = (<<x>> \o u)[j]
      <3>1. CASE j = 1
        BY <2>1, <2>2, <3>1
      <3>2. CASE j # 1
        <4>1. j - 1 \in 1 .. n /\ j = (j - 1) + 1
          BY <1>1, <3>2
        <4> QED
          BY <2>1, <2>3, <4>1
      <3> QED
        BY <3>1, <3>2
    <2>6. <<x>> \o u = [j \in 1 .. n + 1 |-> (<<x>> \o u)[j]]
      BY <2>1
    <2> QED
      BY <2>4, <2>5, <2>6
  <1>5. Unfilled(s) = Total(u) /\ Unfilled(t) = Total(w)
    BY DEF Unfilled
  <1> HIDE DEF w, u, x
  <1>6. Total(u) \in Int /\ Total(<<x>> \o u) = x + Total(u)
    BY <1>2, <1>3, TotalType, TotalCons
  <1> QED
    BY <1>4, <1>5, <1>6 DEF x

(* The slots still to fill are a number.                                   *)
LEMMA UnfilledType ==
  ASSUME NEW s \in Seq(Frame)
  PROVE  Unfilled(s) \in Int
  <1> DEFINE u == [j \in 1 .. Len(s) |-> s[j].size - s[j].i]
  <1>1. ASSUME NEW j \in 1 .. Len(s) PROVE s[j].size - s[j].i \in Int
    <2>1. s[j] \in Frame
      OBVIOUS
    <2> QED
      BY <2>1 DEF Frame
  <1>2. u \in Seq(Int)
    BY <1>1
  <1> HIDE DEF u
  <1>3. Total(u) \in Int
    BY <1>2, TotalType
  <1> QED
    BY <1>3 DEF Unfilled, u

(* Every open loop has fewer slots left than there are elements.           *)
LEMMA UnfilledBound ==
  ASSUME NEW lim, lim.maxElements \in Int, NEW s \in Seq(Frame), LoopsOK(s, lim)
  PROVE  Unfilled(s) <= Len(s) * (lim.maxElements - 1)
  <1> DEFINE u == [j \in 1 .. Len(s) |-> s[j].size - s[j].i]
             c == lim.maxElements - 1
  <1>1. c \in Int
    OBVIOUS
  <1>2. ASSUME NEW j \in 1 .. Len(s) PROVE s[j].size - s[j].i \in Int /\ s[j].size - s[j].i <= c
    <2>1. s[j] \in Frame
      OBVIOUS
    <2>2. s[j].size \in Nat /\ s[j].i \in Nat
      BY <2>1 DEF Frame
    <2>3. s[j].size <= c
      BY DEF LoopsOK
    <2> HIDE DEF c
    <2> QED
      BY <1>1, <2>2, <2>3
  <1> HIDE DEF c
  <1>3. u \in Seq(Int) /\ Len(u) = Len(s) /\ \A j \in 1 .. Len(u) : u[j] <= c
    BY <1>2
  <1> HIDE DEF u
  <1>4. Total(u) <= Len(s) * c
    BY <1>1, <1>3, TotalBound
  <1> QED
    BY <1>4 DEF Unfilled, u, c

(* An allocation of slots moves the positions by their number.             *)
LEMMA AllocatedTotal ==
  ASSUME ArenaInv, NEW num \in Nat \ {0}, NEW compat \in BOOLEAN, NEW k,
         AllocatePWArgs(num, compat, k)
  PROVE  Total(slots.pos) \in Int /\ Total(slots'.pos) = Total(slots.pos) + num
  <1> DEFINE P == slots.pos
             cap == Max2(MinSlots, num)
             w == WithSegment(slots, k, cap)
  <1>1. /\ P \in Seq(Int) /\ Len(P) = Len(slots.cap) /\ k \in 1 .. Len(P) + 1
        /\ slots' = Advance(w, k, num)
    <2>1. P \in Seq(Nat) /\ Len(P) = Len(slots.cap) /\ slots.cur \in 1 .. Len(P)
      BY DEF ArenaInv, ArenaTypeOK, RegionOK
    <2>2. k \in slots.cur .. Len(P) + 1
      BY <2>1 DEF AllocatePWArgs, Takes, Candidates
    <2>3. slots' = Advance(w, k, num)
      BY DEF AllocatePWArgs
    <2> HIDE DEF P, w
    <2> QED
      BY <2>1, <2>2, <2>3
  <1>2. slots'.pos = [w.pos EXCEPT ![k] = @ + num]
    BY <1>1 DEF Advance
  <1>3. w.pos \in Seq(Int) /\ k \in 1 .. Len(w.pos) /\ Total(w.pos) = Total(P) /\ Total(P) \in Int
    <2>1. CASE k <= Len(P)
      <3>1. w.pos = P
        BY <1>1, <2>1 DEF WithSegment
      <3> QED
        BY <1>1, <2>1, <3>1, TotalType
    <2>2. CASE ~(k <= Len(P))
      <3>1. w.pos = Append(P, 0)
        BY <1>1, <2>2 DEF WithSegment
      <3> HIDE DEF P, w
      <3>2. Total(Append(P, 0)) = Total(P) + 0 /\ Total(P) \in Int
        BY <1>1, TotalAppend, TotalType
      <3>3. Append(P, 0) \in Seq(Int) /\ Len(Append(P, 0)) = Len(P) + 1
        BY <1>1
      <3> QED
        BY <1>1, <3>1, <3>2, <3>3
    <2> QED
      BY <2>1, <2>2
  <1> HIDE DEF P, w
  <1>4. num \in Int
    OBVIOUS
  <1>5. Total(slots'.pos) = Total(w.pos) + num
    BY <1>2, <1>3, <1>4, TotalUpdate
  <1> QED
    BY <1>3, <1>5 DEF P

(* Positions of 0 add up to 0.                                             *)
LEMMA ZeroTotal ==
  ASSUME NEW s \in Seq(Nat), \A i \in 1 .. Len(s) : s[i] = 0
  PROVE  Total(s) = 0
  <1>1. s \in Seq(Int) /\ 0 \in Int /\ Len(s) \in 0 .. Len(s) /\ \A i \in 1 .. Len(s) : s[i] <= 0
    OBVIOUS
  <1>2. Total(s) \in Int /\ Total(s) <= Len(s) * 0
    BY <1>1, TotalType, TotalBound
  <1>3. Sums(s)[Len(s)] \in 0 .. Total(s)
    BY <1>1, SumsGrow
  <1> QED
    BY <1>2, <1>3 DEF Total

-----------------------------------------------------------------------------
(* A new arena, and no call.                                               *)
LEMMA SerInitInv == ASSUME SerInit PROVE SerInv
  <1>1. phase = "idle" /\ calls = 0 /\ counted = 0 /\ stack = <<>> /\ stack \in Seq(Frame)
    BY DEF SerInit
  <1>2. slots.pos = <<0>>
    BY DEF SerInit, ArenaInit, NewRegion
  <1>3. <<0>> \in Seq(Nat) /\ \A i \in 1 .. Len(<<0>>) : <<0>>[i] = 0
    OBVIOUS
  <1>4. Total(slots.pos) = 0
    BY <1>2, <1>3, ZeroTotal
  <1> QED
    BY <1>1, <1>4 DEF SerInv, SerTypeOK, CountOK, LevelsOK, SlotsCounted, SlotsBounded

(* No step of the serializer changes these, except where it says so.       *)
Quiet ==
  slots' = slots /\ counted' = counted /\ stack' = stack /\ root' = root /\ calls' = calls

(* Leaving serializeMore: its slots stay taken until the lease is closed.  *)
LEMMA LeaveInv ==
  ASSUME SerInv, phase # "idle", Leave, slots' = slots, calls' = calls
  PROVE  SerInv'
  BY DEF SerInv, SerTypeOK, CountOK, LevelsOK, SlotsCounted, SlotsBounded, Leave

(* Writing a value without elements.                                       *)
LEMMA WrittenInv ==
  ASSUME SerInv, phase = "value", phase' = "loop", Quiet, remaining' = remaining
  PROVE  SerInv'
  <1>1. Unfilled(stack)' = Unfilled(stack)
    BY DEF Quiet, Unfilled
  <1>2. LoopsOK(stack, root.limits)'
    BY DEF Quiet, SerInv, LevelsOK, LoopsOK
  <1> QED
    BY <1>1, <1>2 DEF Quiet, SerInv, SerTypeOK, CountOK, LevelsOK, SlotsCounted, SlotsBounded

(* A loop that has filled its slots is left.                               *)
LEMMA EndLoopInv ==
  ASSUME SerInv, EndLoop
  PROVE  SerInv'
  <1> DEFINE t == Tail(stack)
             f == Head(stack)
  <1>1. /\ phase = "loop" /\ phase' = "loop" /\ stack # <<>> /\ stack \in Seq(Frame) /\ stack' = t
        /\ f.i = f.size
        /\ slots' = slots /\ root' = root /\ calls' = calls /\ remaining' = remaining
        /\ counted' = counted
    BY DEF EndLoop, SerInv, SerTypeOK, arenaVars, histVars
  <1>2. f \in Frame /\ t \in Seq(Frame) /\ stack = <<f>> \o t
    BY <1>1, Popped
  <1>3. Unfilled(t) \in Int /\ Unfilled(stack) = f.size - f.i + Unfilled(t)
    BY <1>2, PushUnfilled
  <1>4. Unfilled(stack) = Unfilled(t)
    <2>1. f.size \in Nat /\ f.i \in Nat
      BY <1>2 DEF Frame
    <2> QED
      BY <1>1, <1>3, <2>1
  <1>5. LoopsOK(t, root.limits)
    BY <1>1, LimitsType, PopLevels DEF SerInv, LevelsOK
  <1>6. SerTypeOK' /\ CountOK'
    BY <1>1, <1>2 DEF SerInv, SerTypeOK, CountOK
  <1>7. LevelsOK'
    BY <1>1, <1>5 DEF SerInv, LevelsOK
  <1>8. SlotsCounted' /\ SlotsBounded'
    BY <1>1, <1>4 DEF SerInv, SlotsCounted, SlotsBounded
  <1> QED
    BY <1>6, <1>7, <1>8 DEF SerInv

(* A loop after its next element was taken.                                *)
LEMMA NextFrame ==
  ASSUME NEW f \in Frame, f.items # <<>>,
         NEW g, g = [f EXCEPT !.i = @ + 1, !.items = Tail(@)]
  PROVE  /\ f.i \in Nat /\ f.size \in Nat /\ f.items \in Seq(Element) /\ f.depth \in Int
         /\ g \in Frame /\ g.i = f.i + 1 /\ g.size = f.size /\ g.depth = f.depth
  <1> DEFINE Q == Seq(Element)
  <1>1. f \in [seg : Int, view : Int, i : Nat, size : Nat, items : Q, depth : Int]
    BY DEF Frame
  <1>2. Tail(f.items) \in Q
    <2>1. f.items \in Seq(Element)
      BY <1>1
    <2> QED
      BY <2>1
  <1> HIDE DEF Q
  <1>3. /\ g \in [seg : Int, view : Int, i : Nat, size : Nat, items : Q, depth : Int]
        /\ g.i = f.i + 1 /\ g.size = f.size /\ g.depth = f.depth
        /\ f.i \in Nat /\ f.size \in Nat /\ f.items \in Q /\ f.depth \in Int
    <2>1. PICK t : t = Tail(f.items)
      OBVIOUS
    <2>2. t \in Q /\ g = [f EXCEPT !.i = @ + 1, !.items = t]
      BY <1>2, <2>1
    <2>3. /\ f.seg \in Int /\ f.view \in Int /\ f.i \in Nat /\ f.size \in Nat /\ f.items \in Q
          /\ f.depth \in Int
      BY ONLY <1>1
    <2>4. PICK n : n = f.i + 1
      OBVIOUS
    <2>5. n \in Nat /\ g = [f EXCEPT !.i = n, !.items = t]
      BY <2>2, <2>3, <2>4
    <2>6. g = [seg |-> f.seg, view |-> f.view, i |-> n, size |-> f.size, items |-> t, depth |-> f.depth]
      BY ONLY <1>1, <2>5, ZenonT(30)
    <2> QED
      BY ONLY <2>2, <2>3, <2>4, <2>5, <2>6
  <1> QED
    BY <1>3 DEF Frame, Q

(* A call that begins has counted nothing.                                 *)
LEMMA CountStarts ==
  ASSUME SerTypeOK', phase' = "enter", counted' = 0
  PROVE  CountOK'
  <1> SUFFICES ASSUME ~Dropped', call'.val.kind = "list"
               PROVE  0 <= AtMost(call'.val.claimed, remaining' - 1)
    BY DEF CountOK
  <1>1. IsValue(call'.val) /\ remaining' \in Int
    BY DEF SerTypeOK, CallOK
  <1>2. call'.val.claimed \in Nat
    BY <1>1 DEF IsValue, IsString, IsContainer
  <1>3. ~(remaining' - 1 < 0)
    BY DEF Dropped
  <1>4. \A c \in Nat, r \in Int : ~(r - 1 < 0) => 0 <= AtMost(c, r - 1)
    BY DEF AtMost
  <1> QED
    BY <1>1, <1>2, <1>3, <1>4

(* The first pass over an Iterable sees one element more.                  *)
LEMMA CountElementInv ==
  ASSUME SerInv, CountElement
  PROVE  SerInv'
  <1>1. /\ phase = "enter" /\ phase' = "enter" /\ counted' = counted + 1
        /\ call' = call /\ remaining' = remaining /\ stack' = stack /\ root' = root
        /\ calls' = calls /\ slots' = slots
    BY DEF CountElement, arenaVars, histVars
  <1>2. call.val.claimed \in Nat /\ remaining \in Int /\ counted \in Nat
    <2>1. IsValue(call.val) /\ remaining \in Int /\ counted \in Nat
      BY <1>1 DEF SerInv, SerTypeOK, CallOK
    <2>2. call.val.kind = "list"
      BY DEF CountElement, MoreToCount
    <2> QED
      BY <2>1, <2>2 DEF IsValue, IsString, IsContainer
  <1>3. counted + 1 <= AtMost(call.val.claimed, remaining - 1)
    <2>1. /\ counted < remaining - 1
          /\ counted < call.val.claimed \/ call.val.claimed > MaxInt
      BY DEF CountElement, MoreToCount, HasNext
    <2>2. remaining <= MaxInt /\ MaxInt \in Int
      <3>1. /\ remaining <= root.limits.maxElements /\ root.limits.maxElements \in Nat
            /\ root.limits.maxElements <= MaxInt
        BY <1>1, LimitsType DEF SerInv, SerTypeOK
      <3> QED
        BY <1>2, <3>1, SizesAssumption
    <2> QED
      BY <1>2, <2>1, <2>2 DEF AtMost
  <1>4. SerTypeOK' /\ CountOK'
    BY <1>1, <1>2, <1>3 DEF SerInv, SerTypeOK, CallOK, CountOK
  <1>5. Unfilled(stack') = Unfilled(stack)
    BY <1>1
  <1> QED
    BY <1>1, <1>4, <1>5 DEF SerInv, LevelsOK, SlotsCounted, SlotsBounded

(* A loop hands its next element to doSerialize.                           *)
LEMMA NextElementInv ==
  ASSUME SerInv, NextElement
  PROVE  SerInv'
  <1> DEFINE t == Tail(stack)
             f == Head(stack)
             g == [f EXCEPT !.i = @ + 1, !.items = Tail(@)]
             e == Head(f.items)
             lim == root.limits
  <1>1. /\ phase = "loop" /\ phase' = "enter" /\ stack # <<>> /\ stack \in Seq(Frame)
        /\ stack' = <<g>> \o t /\ f.items # <<>> /\ f.i < f.size
        /\ slots' = slots /\ root' = root /\ calls' = calls /\ remaining' = remaining
        /\ counted' = 0
    BY SMTT(30) DEF NextElement, SerInv, SerTypeOK, arenaVars, histVars
  <1>2. PICK a : call' = [slot |-> a, name |-> e.name, val |-> e.val, depth |-> f.depth - 1]
    BY DEF NextElement
  <1>3. f \in Frame /\ t \in Seq(Frame) /\ stack = <<f>> \o t /\ f = stack[1] /\ Len(stack) = Len(t) + 1
    BY <1>1, Popped
  <1>4. /\ f.i \in Nat /\ f.size \in Nat /\ f.items \in Seq(Element) /\ f.depth \in Int
        /\ g \in Frame /\ g.i = f.i + 1 /\ g.size = f.size /\ g.depth = f.depth
    <2> HIDE DEF f, t
    <2> QED
      BY <1>1, <1>3, NextFrame
  <1>5. e \in Element
    <2> HIDE DEF f
    <2> QED
      BY <1>1, <1>4
  <1>6. lim.maxDepth \in Nat /\ lim.maxElements \in Nat
    BY <1>1, LimitsType DEF SerInv
  <1>7. /\ f.depth = lim.maxDepth - Len(t) /\ f.size <= lim.maxElements - 1
        /\ Len(t) \in Nat /\ LoopsOK(stack, lim)
    <2>1. LoopsOK(stack, lim)
      BY <1>1 DEF SerInv, LevelsOK
    <2>2. Len(t) \in Nat /\ 1 \in 1 .. Len(stack)
      BY <1>3
    <2>3. stack[1].depth = lim.maxDepth - Len(stack) + 1 /\ stack[1].size <= lim.maxElements - 1
      BY <2>1, <2>2 DEF LoopsOK
    <2>4. lim.maxDepth - Len(stack) + 1 = lim.maxDepth - Len(t)
      BY <1>3, <1>6, <2>2
    <2> QED
      BY <1>3, <2>1, <2>2, <2>3, <2>4
  <1>8. call'.name \in Names /\ IsValue(call'.val) /\ call'.depth = f.depth - 1
    BY <1>2, <1>5, ValuesAssumption DEF Element
  <1> HIDE DEF f, g, t, e
  <1>9. LoopsOK(<<g>> \o t, lim)
    <2>1. LoopsOK(t, lim)
      BY <1>1, <1>6, <1>7, PopLevels DEF t
    <2>2. g.depth = lim.maxDepth - Len(t) /\ g.i <= g.size /\ g.size <= lim.maxElements - 1
      BY <1>1, <1>4, <1>7
    <2>3. lim.maxDepth \in Int /\ lim.maxElements \in Int
      BY <1>6
    <2> HIDE DEF lim
    <2> QED
      BY <1>3, <1>4, <2>1, <2>2, <2>3, PushLevels
  <1>10. <<g>> \o t \in Seq(Frame) /\ Len(<<g>> \o t) = Len(t) + 1 /\ <<g>> \o t # <<>>
    BY <1>3, <1>4
  <1>11. CallOK'
    BY <1>2, <1>4, <1>8 DEF CallOK
  <1>12. SerTypeOK' /\ CountOK'
    <2>1. SerTypeOK'
      BY <1>1, <1>10, <1>11 DEF SerInv, SerTypeOK
    <2> QED
      BY <1>1, <2>1, CountStarts
  <1>13. LevelsOK'
    <2>1. call'.depth = lim.maxDepth - Len(stack')
      BY <1>1, <1>4, <1>6, <1>7, <1>8, <1>10, SMTT(30)
    <2>2. remaining <= lim.maxElements - 1
      BY <1>1 DEF SerInv, LevelsOK
    <2> QED
      BY <1>1, <1>9, <2>1, <2>2 DEF LevelsOK
  <1>14. Unfilled(stack) = 1 + Unfilled(<<g>> \o t) /\ Unfilled(<<g>> \o t) \in Int
    <2>1. /\ Unfilled(t) \in Int /\ Unfilled(stack) = f.size - f.i + Unfilled(t)
          /\ Unfilled(<<g>> \o t) = g.size - g.i + Unfilled(t)
      BY <1>3, <1>4, PushUnfilled
    <2> QED
      BY <1>4, <2>1
  <1>15. SlotsCounted'
    <2>1. calls # 0 /\ (calls = 1 => Total(slots.pos) = lim.maxElements - remaining + 0 + Unfilled(stack))
      BY <1>1 DEF SerInv, SlotsCounted
    <2>2. remaining \in Int
      BY <1>1 DEF SerInv, SerTypeOK
    <2>3. lim.maxElements - remaining + 0 + Unfilled(stack)
            = lim.maxElements - remaining + 1 + Unfilled(<<g>> \o t)
      BY <1>6, <1>14, <2>2
    <2> QED
      BY <1>1, <2>1, <2>3 DEF SlotsCounted
  <1>16. SlotsBounded'
    BY <1>1 DEF SerInv, SlotsBounded
  <1> QED
    BY <1>12, <1>13, <1>15, <1>16 DEF SerInv

(* The limits are applied to an element, and it is counted.                *)
LEMMA EnterInv ==
  ASSUME SerInv, Enter
  PROVE  SerInv'
  <1> DEFINE lim == root.limits
  <1>1. /\ phase = "enter" /\ phase' = "value" /\ Quiet /\ remaining' = remaining - 1
        /\ call' = [call EXCEPT !.name = KeptName, !.val = Kept]
    BY DEF Enter, Encode, WriteString, Quiet, arenaVars, histVars
  <1>2. CallOK /\ remaining \in Int /\ remaining <= lim.maxElements
    BY <1>1 DEF SerInv, SerTypeOK
  <1>3. lim.maxDepth \in Nat /\ lim.maxElements \in Nat /\ MaxString \in Nat
    BY <1>1, LimitsType DEF SerInv, MaxString
  <1>4. KeptName \in Names
    BY <1>2, <1>3, TruncatedType DEF KeptName, CallOK
  <1>5. IsValue(Kept)
    <2>1. CASE Dropped
      BY <2>1 DEF Kept, EmptyMap, IsValue, IsContainer
    <2>2. CASE ~Dropped /\ call.val.kind = "string"
      <3>1. IsString(call.val)
        BY <1>2, <2>2 DEF CallOK, IsValue, IsContainer
      <3>2. Truncated(call.val.text, MaxString) \in Texts
        BY <1>3, <3>1, TruncatedType DEF IsString
      <3>3. Kept = [kind |-> "string", text |-> Truncated(call.val.text, MaxString)]
        <4>1. Kept = [call.val EXCEPT !.text = Truncated(@, MaxString)]
          BY <2>2 DEF Kept
        <4>2. call.val = [kind |-> "string", text |-> call.val.text]
          BY <3>1 DEF IsString
        <4> QED
          BY <4>1, <4>2
      <3> QED
        BY <3>2, <3>3 DEF IsValue, IsString
    <2>3. CASE ~Dropped /\ call.val.kind # "string"
      BY <1>2, <2>3 DEF Kept, CallOK
    <2> QED
      BY <2>1, <2>2, <2>3
  <1>6. call' = [slot |-> call.slot, name |-> KeptName, val |-> Kept, depth |-> call.depth]
    <2>1. call = [slot |-> call.slot, name |-> call.name, val |-> call.val, depth |-> call.depth]
      BY <1>2 DEF CallOK
    <2> HIDE DEF lim
    <2> QED
      BY <1>1, <2>1
  <1>7. call'.name = KeptName /\ call'.val = Kept /\ call'.depth = call.depth /\ call.depth \in Int
    BY <1>2, <1>6 DEF CallOK
  <1>8. CallOK'
    BY <1>4, <1>5, <1>6, <1>7 DEF CallOK
  <1>9. SerTypeOK'
    BY <1>1, <1>2, <1>3, <1>8 DEF SerInv, SerTypeOK, Quiet
  <1>13. CountOK'
    <2> SUFFICES ASSUME Kept.kind \in {"list", "map"}, Kept.iterable
                 PROVE  counted = AtMost(Kept.claimed, remaining - 1)
      BY <1>1, <1>7 DEF CountOK, Quiet
    <2>1. ~Dropped /\ Kept = call.val
      BY DEF Kept, EmptyMap
    <2>2. call.val.claimed \in Nat /\ call.val.kind = "list"
      BY <1>2, <2>1 DEF CallOK, IsValue, IsString, IsContainer
    <2>3. counted <= AtMost(call.val.claimed, remaining - 1) /\ counted \in Nat
      BY <1>1, <2>1, <2>2 DEF SerInv, SerTypeOK, CountOK
    <2>4. ~(counted < call.val.claimed) \/ ~(counted < remaining - 1)
      BY <2>1, <2>2 DEF Enter, MoreToCount, HasNext
    <2> QED
      BY <1>2, <2>1, <2>2, <2>3, <2>4 DEF AtMost
  <1>10. LevelsOK'
    <2>1. LoopsOK(stack, lim) /\ call.depth = lim.maxDepth - Len(stack)
      BY <1>1 DEF SerInv, LevelsOK
    <2>2. remaining - 1 <= lim.maxElements - 1
      BY <1>2, <1>3
    <2>3. call.depth < 0 => Kept = EmptyMap
      BY DEF Kept, Dropped
    <2> QED
      BY <1>1, <1>7, <2>1, <2>2, <2>3 DEF LevelsOK, Quiet
  <1>11. SlotsCounted'
    <2>1. calls # 0 /\ (calls = 1 => Total(slots.pos) = lim.maxElements - remaining + 1 + Unfilled(stack))
      BY <1>1 DEF SerInv, SlotsCounted
    <2>2. Unfilled(stack) \in Int
      <3>1. stack \in Seq(Frame)
        BY DEF SerInv, SerTypeOK
      <3> QED
        BY <3>1, UnfilledType
    <2>3. lim.maxElements - remaining + 1 + Unfilled(stack)
            = lim.maxElements - (remaining - 1) + 0 + Unfilled(stack)
      BY <1>2, <1>3, <2>2
    <2> QED
      BY <1>1, <2>1, <2>3 DEF SlotsCounted, Quiet
  <1>12. SlotsBounded'
    BY <1>1 DEF SerInv, SlotsBounded, Quiet
  <1> QED
    BY <1>9, <1>10, <1>11, <1>12, <1>13 DEF SerInv

(* Slots for the elements of a container: as many as are left to count, so *)
(* only what the loops around it have yet to fill comes on top.            *)
LEMMA WithinBound ==
  ASSUME NEW M \in Int, NEW D \in Nat, NEW n \in Nat, n <= D, NEW left \in Int, left <= M - 1,
         NEW num \in Nat \ {0}, num <= left, NEW U \in Int, U <= n * (M - 1),
         NEW T, T = M - left + U + num
  PROVE  T <= 1 + Max2(0, M - 1) * (D + 1)
  <1> DEFINE c == M - 1
             a == n * c
             b == D * c
  <1>1. c \in Nat /\ Max2(0, M - 1) = c /\ M = c + 1
    BY DEF Max2
  <1> HIDE DEF c
  <1>2. a \in Int /\ b \in Int
    BY <1>1
  <1>3. a <= b
    BY <1>1
  <1>4. c * (D + 1) = b + c
    BY <1>1
  <1>5. U <= a
    BY DEF c
  <1> HIDE DEF a, b
  <1> QED
    BY <1>1, <1>2, <1>3, <1>4, <1>5

(* writeArray and writeMap take slots and open a loop over them.           *)
LEMMA WriteContainerInv ==
  ASSUME SerInv, ArenaInv, WriteContainer
  PROVE  SerInv'
  <1> DEFINE num == SizeOf(call.val)
             lim == root.limits
             n == Len(stack)
  <1>1. /\ phase = "value" /\ call.val.kind \in {"list", "map"} /\ num > 0 /\ phase' = "loop"
        /\ call' = call /\ remaining' = remaining /\ root' = root /\ calls' = calls
        /\ counted' = counted
    BY DEF WriteContainer, histVars
  <1>2. PICK k \in Candidates(slots) :
          /\ AllocatePWArgs(num, FALSE, k)
          /\ stack' = <<[seg |-> k, view |-> ViewIndex(k), i |-> 0, size |-> num,
                         items |-> call.val.items, depth |-> call.depth]>> \o stack
    BY DEF WriteContainer
  <1>3. /\ lim.maxDepth \in Nat /\ lim.maxElements \in Nat /\ lim.maxDepth \in Int
        /\ lim.maxElements \in Int
    BY <1>1, LimitsType DEF SerInv
  <1>4. /\ remaining \in Int /\ remaining <= lim.maxElements - 1 /\ LoopsOK(stack, lim)
        /\ stack \in Seq(Frame) /\ n \in Nat /\ call.depth = lim.maxDepth - n /\ call.depth \in Int
    <2>1. stack \in Seq(Frame) /\ remaining \in Int /\ call.depth \in Int
      BY <1>1 DEF SerInv, SerTypeOK, CallOK
    <2>2. /\ remaining <= lim.maxElements - 1 /\ LoopsOK(stack, lim)
          /\ call.depth = lim.maxDepth - n
      BY <1>1 DEF SerInv, LevelsOK
    <2> QED
      BY <2>1, <2>2
  <1>5. /\ num \in Nat \ {0} /\ num <= remaining /\ num <= call.val.claimed
        /\ call.val.items \in Seq(Element) /\ call.val.claimed \in Int
    <2>1. /\ IsContainer(call.val) /\ num \in Int /\ num <= remaining /\ num <= call.val.claimed
      BY <1>1, SizeOfType DEF SerInv
    <2>2. call.val.items \in Seq(Element) /\ call.val.claimed \in Int
      BY <2>1 DEF IsContainer, Element
    <2> HIDE DEF num
    <2> QED
      BY <1>1, <2>1, <2>2
  <1>6. n <= lim.maxDepth
    <2>1. ~(call.depth < 0)
      <3> SUFFICES ASSUME call.depth < 0 PROVE FALSE
        OBVIOUS
      <3>1. call.val = EmptyMap
        BY <1>1 DEF SerInv, LevelsOK
      <3>2. call.val.claimed = 0
        BY <3>1 DEF EmptyMap
      <3> HIDE DEF num
      <3> QED
        BY <1>5, <3>2
    <2> HIDE DEF n, lim
    <2> QED
      BY <1>3, <1>4, <2>1
  <1>7. k \in Int /\ ViewIndex(k) \in Int
    <2>1. /\ slots.cur \in 1 .. Len(slots.cap) /\ Len(slots.cap) \in Nat /\ nextView \in Seq(Nat)
          /\ k \in slots.cur .. Len(slots.cap) + 1
      BY DEF ArenaInv, ArenaTypeOK, RegionOK, Candidates
    <2>2. k \in Nat \ {0}
      BY <2>1
    <2> QED
      BY <2>1, <2>2 DEF ViewIndex
  <1>8. PICK f : f = [seg |-> k, view |-> ViewIndex(k), i |-> 0, size |-> num,
                      items |-> call.val.items, depth |-> call.depth]
    OBVIOUS
  <1>9. f \in Frame /\ f.i = 0 /\ f.size = num /\ f.depth = call.depth
    <2> HIDE DEF num
    <2> DEFINE Q == Seq(Element)
    <2>1. call.val.items \in Q
      BY <1>5
    <2> HIDE DEF Q
    <2>2. f \in [seg : Int, view : Int, i : Nat, size : Nat, items : Q, depth : Int]
      BY <1>4, <1>5, <1>7, <1>8, <2>1
    <2> QED
      BY <1>8, <2>2 DEF Frame, Q
  <1>10. stack' = <<f>> \o stack /\ AllocatePWArgs(num, FALSE, k)
    BY <1>2, <1>8
  <1> HIDE DEF num, lim, n
  <1>11. Total(slots.pos) \in Int /\ Total(slots'.pos) = Total(slots.pos) + num
    BY <1>5, <1>10, AllocatedTotal
  <1>12. LoopsOK(<<f>> \o stack, lim)
    <2>1. f.depth = lim.maxDepth - Len(stack) /\ f.i <= f.size /\ f.size <= lim.maxElements - 1
      BY <1>3, <1>4, <1>5, <1>9 DEF n
    <2> QED
      BY <1>3, <1>4, <1>9, <2>1, PushLevels
  <1>13. /\ Unfilled(stack) \in Int /\ Unfilled(<<f>> \o stack) = num + Unfilled(stack)
         /\ Unfilled(stack) <= n * (lim.maxElements - 1)
    <2>1. Unfilled(stack) \in Int /\ Unfilled(<<f>> \o stack) = f.size - f.i + Unfilled(stack)
      BY <1>4, <1>9, PushUnfilled
    <2>2. Unfilled(stack) <= n * (lim.maxElements - 1)
      BY <1>3, <1>4, UnfilledBound DEF n
    <2> QED
      BY <1>5, <1>9, <2>1, <2>2
  <1>14. calls # 0 /\ (calls = 1 => Total(slots.pos) = lim.maxElements - remaining + 0 + Unfilled(stack))
    BY <1>1 DEF SerInv, SlotsCounted, lim
  <1>15. calls = 1 => Total(slots'.pos) <= 1 + Max2(0, lim.maxElements - 1) * (lim.maxDepth + 1)
    <2> SUFFICES ASSUME calls = 1
                 PROVE  Total(slots'.pos) <= 1 + Max2(0, lim.maxElements - 1) * (lim.maxDepth + 1)
      OBVIOUS
    <2>1. Total(slots'.pos) = lim.maxElements - remaining + Unfilled(stack) + num
      BY <1>3, <1>4, <1>5, <1>11, <1>13, <1>14
    <2> QED
      BY <1>3, <1>4, <1>5, <1>6, <1>13, <2>1, WithinBound
  <1>16. SlotsBounded'
    BY <1>1, <1>15 DEF SlotsBounded, lim
  <1>17. SlotsCounted'
    <2>1. calls = 1 => Total(slots'.pos) = lim.maxElements - remaining + 0 + Unfilled(stack')
      BY <1>3, <1>4, <1>5, <1>10, <1>11, <1>13, <1>14, SMTT(30)
    <2> QED
      BY <1>1, <1>14, <2>1 DEF SlotsCounted, lim
  <1>18. LevelsOK'
    BY <1>1, <1>4, <1>10, <1>12 DEF LevelsOK, lim
  <1>19. SerTypeOK'
    <2>1. <<f>> \o stack \in Seq(Frame)
      BY <1>4, <1>9, Pushed
    <2> QED
      BY <1>1, <1>10, <2>1 DEF SerInv, SerTypeOK
  <1>20. CountOK'
    BY <1>1 DEF CountOK
  <1> QED
    BY <1>16, <1>17, <1>18, <1>19, <1>20 DEF SerInv

(* A call of serializeMore.                                                *)
LEMMA SerializeMapInv ==
  ASSUME SerInv, ArenaInv, NEW m \in Maps, NEW lim \in AllLimits, SerializeMap(m, lim)
  PROVE  SerInv'
  <1>1. /\ phase = "idle" /\ phase' = "enter" /\ stack' = stack /\ calls' = calls + 1
        /\ remaining' = lim.maxElements /\ counted' = 0
    BY DEF SerializeMap
  <1>2. PICK k \in Candidates(slots) :
          AllocatePWArgs(1, TRUE, k) /\ root' = [slot |-> <<k, Start(slots, k)>>, val |-> m, limits |-> lim]
    BY DEF SerializeMap
  <1>3. root'.limits = lim
    BY <1>2
  <1>4. call' = [slot |-> root'.slot, name |-> Absent, val |-> m, depth |-> lim.maxDepth]
    BY DEF SerializeMap
  <1>5. /\ stack = <<>> /\ calls \in Nat /\ (calls = 0 => Total(slots.pos) = 0)
    BY <1>1 DEF SerInv, SlotsCounted, SerTypeOK
  <1>6. lim.maxDepth \in Nat /\ lim.maxElements \in Nat
    BY LimitsAssumption, SizesAssumption
  <1>7. Total(slots.pos) \in Int /\ Total(slots'.pos) = Total(slots.pos) + 1
    <2>1. 1 \in Nat \ {0} /\ TRUE \in BOOLEAN
      OBVIOUS
    <2> QED
      BY <1>2, <2>1, AllocatedTotal
  <1>8. IsValue(m)
    BY ValuesAssumption
  <1>9. CallOK'
    BY <1>4, <1>6, <1>8 DEF CallOK, Names
  <1>10. SerTypeOK' /\ CountOK'
    <2>1. SerTypeOK'
      BY <1>1, <1>3, <1>5, <1>6, <1>9 DEF SerTypeOK
    <2> QED
      BY <1>1, <2>1, CountStarts
  <1>11. LevelsOK'
    BY <1>1, <1>3, <1>4, <1>5, <1>6 DEF LevelsOK, LoopsOK
  <1>12. Unfilled(<<>>) = 0
    <2>1. [j \in 1 .. Len(<<>>) |-> <<>>[j].size - <<>>[j].i] = <<>>
      OBVIOUS
    <2> QED
      BY <2>1, TotalEmpty DEF Unfilled
  <1>13. SlotsCounted'
    <2>1. calls' = 1 => Total(slots'.pos) = 1
      BY <1>1, <1>5, <1>7
    <2>2. lim.maxElements - lim.maxElements + 1 + 0 = 1
      BY <1>6
    <2> QED
      BY <1>1, <1>3, <1>5, <1>12, <2>1, <2>2 DEF SlotsCounted
  <1>14. SlotsBounded'
    <2>1. calls' = 1 => Total(slots'.pos) = 1
      BY <1>1, <1>5, <1>7
    <2> DEFINE c == Max2(0, lim.maxElements - 1)
               d == lim.maxDepth + 1
    <2>2. c \in Nat /\ d \in Nat
      BY <1>6 DEF Max2
    <2> HIDE DEF c, d
    <2>3. 1 <= 1 + c * d
      BY <2>2
    <2> QED
      BY <1>3, <2>1, <2>3 DEF SlotsBounded, c, d
  <1> QED
    BY <1>10, <1>11, <1>13, <1>14 DEF SerInv

(* A lease is closed and another one taken.                                *)
LEMMA ReleaseInv ==
  ASSUME SerInv, ArenaInv, Release
  PROVE  SerInv'
  <1>1. /\ phase = "idle" /\ phase' = "idle" /\ counted' = counted /\ stack' = stack /\ calls' = 0
        /\ slots' = Rewind(slots)
    BY DEF Release, Reset, callVars
  <1>2. stack = <<>> /\ stack \in Seq(Frame)
    BY <1>1 DEF SerInv, SlotsCounted, SerTypeOK
  <1> DEFINE P == slots'.pos
  <1>3. P \in Seq(Nat) /\ \A i \in 1 .. Len(P) : P[i] = 0
    <2>1. slots.pos \in Seq(Nat)
      BY DEF ArenaInv, ArenaTypeOK, RegionOK
    <2>2. P = [j \in DOMAIN slots.pos |-> 0]
      BY <1>1 DEF Rewind
    <2> HIDE DEF P
    <2> QED
      BY <2>1, <2>2
  <1>4. Total(slots'.pos) = 0
    BY <1>3, ZeroTotal
  <1> QED
    BY <1>1, <1>2, <1>4 DEF SerInv, SerTypeOK, CountOK, LevelsOK, SlotsCounted, SlotsBounded

(* Every step of the serializer keeps its invariant.                       *)
LEMMA SerStepInv ==
  ASSUME SerInv, ArenaInv, [SerNext]_serVars
  PROVE  SerInv'
  <1>1. CASE NameTooLarge
    BY <1>1, LeaveInv DEF NameTooLarge, Throw, arenaVars, histVars
  <1>2. CASE TextTooLarge
    BY <1>2, LeaveInv DEF TextTooLarge, Throw, arenaVars, histVars
  <1>3. CASE Modified
    BY <1>3, LeaveInv DEF Modified, Throw, arenaVars, histVars
  <1>9. CASE ApplicationThrows
    BY <1>9, LeaveInv DEF ApplicationThrows, Throw, arenaVars, histVars
  <1>4. CASE Return
    BY <1>4, LeaveInv DEF Return, arenaVars
  <1>5. CASE WriteScalar
    BY <1>5, WrittenInv DEF WriteScalar, Quiet, arenaVars, histVars
  <1>6. CASE WriteText
    BY <1>6, WrittenInv DEF WriteText, Encode, WriteString, Quiet, histVars
  <1>7. CASE WriteEmpty
    BY <1>7, WrittenInv DEF WriteEmpty, Quiet, arenaVars, histVars
  <1>8. CASE UNCHANGED serVars
    BY <1>8 DEF serVars, arenaVars, callVars, histVars, SerInv, SerTypeOK, CallOK, CountOK, Dropped,
       LevelsOK, LoopsOK, SlotsCounted, Unfilled, SlotsBounded
  <1> QED
    BY <1>1, <1>2, <1>3, <1>4, <1>5, <1>6, <1>7, <1>8, <1>9, CountElementInv, EnterInv, WriteContainerInv, NextElementInv,
       EndLoopInv, ReleaseInv, SerializeMapInv DEF SerNext, Step

(* The inductive invariant of the serializer, together with the arena's.   *)
THEOREM SerializerInvariant == SerSpec => [](SerInv /\ ArenaInv)
  <1>1. SerInit => SerInv /\ ArenaInv
    BY SerInitInv, ArenaInitInv DEF SerInit
  <1>2. SerInv /\ ArenaInv /\ [SerNext]_serVars => SerInv' /\ ArenaInv'
    BY SerStepInv, StepUsesArena, ArenaStepInv DEF SerInv
  <1> QED
    BY <1>1, <1>2, PTL DEF SerSpec

(* Whatever the values and the limits, serializeMore asks the arena only   *)
(* for what it allows: arrays that fit an int, and never more bytes than   *)
(* the room it made sure of.                                               *)
THEOREM SerializerUsesArena == SerSpec => UsesArena
  <1>1. SerInit => ArenaInit
    BY DEF SerInit
  <1>2. SerInv /\ [SerNext]_serVars => [ArenaNext]_arenaVars
    BY StepUsesArena DEF SerInv
  <1> QED
    BY <1>1, <1>2, SerializerInvariant, PTL DEF SerSpec, UsesArena, ArenaSpec

(* Nothing serialized into a lease overlaps anything else in it.           *)
THEOREM SerializedSeparate == SerSpec => []LiveSeparate
  BY SerializerUsesArena, LiveAlwaysSeparate, PTL DEF UsesArena

(* The array a loop of doSerialize writes through stays its own.           *)
THEOREM SerializedViewsStable == SerSpec => []ViewsStable
  BY SerializerUsesArena, ViewsAlwaysStable, PTL DEF UsesArena

(* The slots one call takes are bounded by its limits, whatever the value: *)
(* however wide, deep or changing it is.                                   *)
THEOREM SerializerSlotsBounded == SerSpec => []SlotsBounded
  <1>1. SerInv => SlotsBounded
    BY DEF SerInv
  <1> QED
    BY <1>1, SerializerInvariant, PTL

-----------------------------------------------------------------------------
(* The walk over a value: what is counted, element by element.             *)
LimitsOK(lim) ==
  lim.maxElements \in Nat /\ lim.maxDepth \in Nat /\ lim.maxStringSize \in Nat

LEMMA RootLimits ==
  ASSUME SerTypeOK, phase # "idle"
  PROVE  LimitsOK(root.limits)
BY LimitsType DEF LimitsOK

LEMMA LimitsAreOK == \A lim \in AllLimits : LimitsOK(lim)
BY LimitsAssumption, SizesAssumption DEF LimitsOK

LEMMA TooLongType ==
  ASSUME NEW text \in Names, NEW max \in Nat
  PROVE  TooLong(text, max) \in Nat
BY DEF TooLong

LEMMA ProgressParts ==
  ASSUME NEW at \in Progress
  PROVE  /\ at.last \in Nat /\ at.cuts.strings \in Nat /\ at.cuts.elements \in Nat
         /\ at.cuts.depth \in Nat
BY DEF Progress

LEMMA ProgressOf ==
  ASSUME NEW n \in Nat, NEW s \in Nat, NEW e \in Nat, NEW d \in Nat
  PROVE  [last |-> n, cuts |-> [strings |-> s, elements |-> e, depth |-> d]] \in Progress
BY DEF Progress

LEMMA VisitParts ==
  ASSUME NEW x \in Visits
  PROVE  /\ x.name \in Names /\ x.val \in Values /\ IsValue(x.val) /\ x.at \in Progress
         /\ x.val.kind = "string" => x.val.text \in Texts /\ x.val.text \in Names
         /\ x.val.kind \in {"list", "map"} => IsContainer(x.val)
<1>1. x.name \in Names /\ x.val \in Values /\ x.at \in Progress
  BY DEF Visits
<1>2. IsValue(x.val)
  BY <1>1, ValuesAssumption
<1> QED
  BY <1>1, <1>2 DEF IsValue, IsString, IsContainer, Names

LEMMA CountedType ==
  ASSUME NEW lim, LimitsOK(lim), NEW deep \in BOOLEAN, NEW x \in Visits
  PROVE  Counted(lim, deep, x) \in Progress
<1>1. /\ x.at.last \in Nat /\ x.at.cuts.strings \in Nat /\ x.at.cuts.elements \in Nat
      /\ x.at.cuts.depth \in Nat
  BY VisitParts, ProgressParts
<1> DEFINE a == TooLong(x.name, lim.maxStringSize)
           b == IF ~Cut(lim, deep, x) /\ x.val.kind = "string"
                  THEN TooLong(x.val.text, lim.maxStringSize) ELSE 0
           e == IF OverLimit(lim, x) THEN 1 ELSE 0
           d == IF deep /\ ~OverLimit(lim, x) THEN 1 ELSE 0
           n == x.at.last + 1
           s == x.at.cuts.strings + a + b
           el == x.at.cuts.elements + e
           de == x.at.cuts.depth + d
<1>2. a \in Nat /\ b \in Nat
  BY VisitParts, TooLongType DEF LimitsOK
<1>3. e \in Nat /\ d \in Nat
  OBVIOUS
<1> HIDE DEF a, b, e, d
<1>4. n \in Nat /\ s \in Nat /\ el \in Nat /\ de \in Nat
  BY <1>1, <1>2, <1>3
<1>5. Counted(lim, deep, x) = [last |-> n, cuts |-> [strings |-> s, elements |-> el, depth |-> de]]
  BY DEF Counted, a, b, e, d
<1> HIDE DEF n, s, el, de
<1> QED
  BY <1>4, <1>5, ProgressOf

LEMMA SizeLeftType ==
  ASSUME NEW lim, LimitsOK(lim), NEW x \in Visits
  PROVE  /\ SizeLeft(lim, x) \in Int
         /\ SizeLeft(lim, x) > 0 =>
              /\ IsContainer(x.val) /\ SizeLeft(lim, x) \in 0 .. Len(x.val.items)
<1>1. x.at.last \in Nat /\ lim.maxElements \in Nat
  BY VisitParts, ProgressParts DEF LimitsOK
<1>2. CASE x.val.kind \in {"list", "map"} /\ ~OverLimit(lim, x)
  <2>1. IsContainer(x.val)
    BY <1>2, VisitParts
  <2> DEFINE c == x.val.claimed  n == Len(x.val.items)  r == lim.maxElements - x.at.last - 1
  <2>2. c \in Nat /\ n \in Nat /\ r \in Int
    BY <1>1, <2>1 DEF IsContainer
  <2>3. SizeLeft(lim, x) = AtMost(AtMost(c, n), r)
    BY <1>2 DEF SizeLeft
  <2> HIDE DEF c, n, r
  <2>4. AtMost(AtMost(c, n), r) \in Int /\ AtMost(AtMost(c, n), r) <= n
    BY <2>2 DEF AtMost
  <2> QED
    BY <2>1, <2>2, <2>3, <2>4 DEF n
<1>3. CASE ~(x.val.kind \in {"list", "map"} /\ ~OverLimit(lim, x))
  BY <1>3 DEF SizeLeft
<1> QED
  BY <1>2, <1>3

(* The element a walk visits next.                                         *)
LEMMA VisitType ==
  ASSUME NEW item \in Element, NEW at \in Progress
  PROVE  Visit(item, at) \in Visits
BY DEF Visit, Visits, Element

LEMMA ItemType ==
  ASSUME NEW v, IsContainer(v)
  PROVE  /\ v.items \in Seq(Element) /\ Len(v.items) \in Nat
         /\ \A k \in 1 .. Len(v.items) : v.items[k] \in Element
<1>1. v.items \in Seq(Element)
  BY DEF IsContainer, Element
<1> QED
  BY <1>1

Rows == [Visits -> Progress]

(* The recursive definition of Along, element by element.                  *)
AlongOf(lim, below, x, f) ==
  f = [k \in 0 .. Len(x.val.items) |->
         IF k = 0 THEN Counted(lim, FALSE, x)
                  ELSE below[Visit(x.val.items[k], f[k - 1])]]

Walks(lim, below, x, f) ==
  /\ \A k \in 0 .. Len(x.val.items) : f[k] \in Progress
  /\ f[0] = Counted(lim, FALSE, x)
  /\ \A k \in 1 .. Len(x.val.items) : f[k] = below[Visit(x.val.items[k], f[k - 1])]

LEMMA AlongDef ==
  ASSUME NEW lim, LimitsOK(lim), NEW below \in Rows, NEW x \in Visits, IsContainer(x.val)
  PROVE  Walks(lim, below, x, Along(lim, below, x))
<1> DEFINE n == Len(x.val.items)
           a == Counted(lim, FALSE, x)
           step == [k \in 1 .. n |-> [at \in Progress |-> below[Visit(x.val.items[k], at)]]]
<1>1. n \in Nat /\ a \in Progress
  BY ItemType, CountedType
<1>2. \A k \in 1 .. n, at \in Progress : below[Visit(x.val.items[k], at)] \in Progress
  BY ItemType, VisitType DEF Rows
<1>3. /\ step \in [1 .. n -> [Progress -> Progress]]
      /\ \A k \in 1 .. n, at \in Progress : step[k][at] = below[Visit(x.val.items[k], at)]
  <2> HIDE DEF n
  <2> QED
    BY <1>2
<1> HIDE DEF step, n, a
<1>4. PICK f : Iterates(f, n, Progress, a, step)
  BY <1>1, <1>3, IteratesExist
<1>5. f \in [0 .. n -> Progress] /\ f[0] = a /\ \A k \in 1 .. n : f[k] = step[k][f[k - 1]]
  BY <1>4 DEF Iterates
<1>6. ASSUME NEW k \in 1 .. n PROVE f[k] = below[Visit(x.val.items[k], f[k - 1])]
  <2>1. k - 1 \in 0 .. n
    BY <1>1
  <2>2. f[k - 1] \in Progress
    BY <1>5, <2>1
  <2> QED
    BY <1>3, <1>5, <2>2
<1>7. AlongOf(lim, below, x, f)
  <2>1. ASSUME NEW k \in 0 .. n
        PROVE  f[k] = IF k = 0 THEN a ELSE below[Visit(x.val.items[k], f[k - 1])]
    <3>1. k = 0 \/ k \in 1 .. n
      BY <1>1
    <3> QED
      BY <1>5, <1>6, <3>1
  <2>2. f = [k \in 0 .. n |-> f[k]]
    BY <1>5
  <2>3. f = [k \in 0 .. n |-> IF k = 0 THEN a ELSE below[Visit(x.val.items[k], f[k - 1])]]
    BY <2>1, <2>2
  <2> QED
    BY <2>3 DEF AlongOf, n, a
<1>8. Along(lim, below, x) = CHOOSE h : AlongOf(lim, below, x, h)
  BY DEF Along, AlongOf
<1>9. PICK h : h = Along(lim, below, x)
  OBVIOUS
<1>10. AlongOf(lim, below, x, h)
  BY <1>7, <1>8, <1>9
<1>11. h[0] = a /\ \A k \in 1 .. n : h[k] = below[Visit(x.val.items[k], h[k - 1])]
  <2>1. h = [k \in 0 .. n |-> IF k = 0 THEN a ELSE below[Visit(x.val.items[k], h[k - 1])]]
    BY <1>10 DEF AlongOf, n, a
  <2>2. 0 \in 0 .. n /\ \A k \in 1 .. n : k \in 0 .. n /\ k # 0
    BY <1>1
  <2> QED
    BY <2>1, <2>2
<1>12. \A k \in 0 .. n : h[k] \in Progress
  <2> DEFINE T == {k \in 0 .. n : h[k] \in Progress}
  <2>1. 0 \in T
    BY <1>1, <1>11
  <2>2. ASSUME NEW k \in 0 .. n - 1, k \in T PROVE k + 1 \in T
    <3>1. k + 1 \in 1 .. n /\ k + 1 \in 0 .. n /\ (k + 1) - 1 = k
      BY <1>1
    <3>2. h[k] \in Progress
      BY <2>2
    <3>3. h[k + 1] = below[Visit(x.val.items[k + 1], h[k])]
      BY <1>11, <3>1
    <3> QED
      BY <1>2, <3>1, <3>2, <3>3
  <2> HIDE DEF T
  <2>3. 0 .. n \subseteq T
    BY <1>1, <2>1, <2>2, UpTo
  <2> QED
    BY <2>3 DEF T
<1> QED
  BY <1>9, <1>11, <1>12 DEF Walks, n, a

LEMMA AfterKeptType ==
  ASSUME NEW lim, LimitsOK(lim), NEW below \in Rows
  PROVE  AfterKept(lim, below) \in Rows /\ AfterDropped(lim) \in Rows
<1>1. ASSUME NEW x \in Visits
      PROVE  (IF SizeLeft(lim, x) > 0 THEN Along(lim, below, x)[SizeLeft(lim, x)]
                                      ELSE Counted(lim, FALSE, x)) \in Progress
  <2>1. CASE SizeLeft(lim, x) > 0
    <3>1. IsContainer(x.val) /\ SizeLeft(lim, x) \in 0 .. Len(x.val.items)
      BY <2>1, SizeLeftType
    <3>2. Walks(lim, below, x, Along(lim, below, x))
      BY <3>1, AlongDef
    <3> QED
      BY <2>1, <3>1, <3>2 DEF Walks
  <2>2. CASE ~(SizeLeft(lim, x) > 0)
    BY <2>2, CountedType
  <2> QED
    BY <2>1, <2>2
<1>2. \A x \in Visits : Counted(lim, TRUE, x) \in Progress
  BY CountedType
<1> QED
  BY <1>1, <1>2 DEF AfterKept, AfterDropped, Rows

(* The recursive definition of After, level by level.                      *)
AfterOf(lim, f) ==
  f = [m \in Nat |-> IF m = 0 THEN AfterDropped(lim) ELSE AfterKept(lim, f[m - 1])]

LEMMA AfterDef ==
  ASSUME NEW lim, LimitsOK(lim)
  PROVE  /\ \A m \in Nat : After(lim)[m] \in Rows
         /\ After(lim)[0] = AfterDropped(lim)
         /\ \A m \in Nat : After(lim)[m + 1] = AfterKept(lim, After(lim)[m])
<1> DEFINE a == AfterDropped(lim)
           step == [row \in Rows |-> AfterKept(lim, row)]
<1>1. a \in Rows
  <2>1. \A x \in Visits : Counted(lim, TRUE, x) \in Progress
    BY CountedType
  <2> QED
    BY <2>1 DEF AfterDropped, Rows
<1> HIDE DEF a
<1>2. step \in [Rows -> Rows] /\ \A row \in Rows : step[row] = AfterKept(lim, row)
  <2>1. \A row \in Rows : AfterKept(lim, row) \in Rows
    BY AfterKeptType
  <2> HIDE DEF Rows
  <2> QED
    BY <2>1
<1> HIDE DEF step
<1>3. PICK f : IteratesForever(f, Rows, a, step)
  BY <1>1, <1>2, IteratesForeverExist
<1>4. f \in [Nat -> Rows] /\ f[0] = a /\ \A m \in Nat : f[m + 1] = AfterKept(lim, f[m])
  <2>1. f \in [Nat -> Rows] /\ f[0] = a /\ \A m \in Nat : f[m + 1] = step[f[m]]
    BY <1>3 DEF IteratesForever
  <2> HIDE DEF Rows
  <2> QED
    BY <1>2, <2>1
<1>5. AfterOf(lim, f)
  <2>1. ASSUME NEW m \in Nat
        PROVE  f[m] = IF m = 0 THEN a ELSE AfterKept(lim, f[m - 1])
    <3>1. CASE m = 0
      BY <1>4, <3>1
    <3>2. CASE m # 0
      <4>1. m - 1 \in Nat /\ (m - 1) + 1 = m
        BY <3>2
      <4> QED
        BY <1>4, <3>2, <4>1
    <3> QED
      BY <3>1, <3>2
  <2>2. f = [m \in Nat |-> f[m]]
    BY <1>4
  <2>3. f = [m \in Nat |-> IF m = 0 THEN a ELSE AfterKept(lim, f[m - 1])]
    BY <2>1, <2>2
  <2> QED
    BY <2>3 DEF AfterOf, a
<1>6. After(lim) = CHOOSE h : AfterOf(lim, h)
  BY DEF After, AfterOf
<1>7. PICK h : h = After(lim)
  OBVIOUS
<1>8. AfterOf(lim, h)
  BY <1>5, <1>6, <1>7
<1>9. h[0] = a /\ \A m \in Nat : h[m + 1] = AfterKept(lim, h[m])
  <2>1. h = [m \in Nat |-> IF m = 0 THEN a ELSE AfterKept(lim, h[m - 1])]
    BY <1>8 DEF AfterOf, a
  <2>2. h[0] = a
    BY <2>1
  <2>3. ASSUME NEW m \in Nat PROVE h[m + 1] = AfterKept(lim, h[m])
    <3>1. m + 1 \in Nat /\ m + 1 # 0 /\ (m + 1) - 1 = m
      OBVIOUS
    <3> QED
      BY <2>1, <3>1
  <2> QED
    BY <2>2, <2>3
<1>10. \A m \in Nat : h[m] \in Rows
  <2> DEFINE T == {m \in Nat : h[m] \in Rows}
  <2>1. T \in SUBSET Nat /\ 0 \in T
    BY <1>1, <1>9
  <2>2. \A m \in T : m + 1 \in T
    BY <1>9, AfterKeptType
  <2> HIDE DEF T
  <2>3. T = Nat
    BY <2>1, <2>2, SetInduction
  <2> QED
    BY <2>3 DEF T
<1> QED
  BY <1>7, <1>9, <1>10 DEF a

(* The walk after an element of which nothing is left but itself, and      *)
(* after one with elements in it.                                          *)
LEMMA AfterLeaf ==
  ASSUME NEW lim, LimitsOK(lim), NEW m \in Nat, NEW x \in Visits,
         m = 0 \/ ~(SizeLeft(lim, x) > 0)
  PROVE  After(lim)[m][x] = Counted(lim, m = 0, x)
<1>1. CASE m = 0
  <2>1. After(lim)[m][x] = Counted(lim, TRUE, x)
    BY <1>1, AfterDef DEF AfterDropped
  <2>2. (m = 0) = TRUE
    BY <1>1
  <2> QED
    BY <2>1, <2>2
<1>2. CASE m # 0
  <2> DEFINE l == m - 1
  <2>1. l \in Nat /\ l + 1 = m
    BY <1>2
  <2> HIDE DEF l
  <2>2. After(lim)[m] = AfterKept(lim, After(lim)[l])
    BY <2>1, AfterDef
  <2>3. After(lim)[m][x] = Counted(lim, FALSE, x)
    BY <1>2, <2>2 DEF AfterKept
  <2> QED
    BY <1>2, <2>3
<1> QED
  BY <1>1, <1>2

LEMMA AfterContainer ==
  ASSUME NEW lim, LimitsOK(lim), NEW m \in Nat, NEW x \in Visits, SizeLeft(lim, x) > 0
  PROVE  After(lim)[m + 1][x] = Along(lim, After(lim)[m], x)[SizeLeft(lim, x)]
BY AfterDef DEF AfterKept

LEMMA AlongAfter ==
  ASSUME NEW lim, LimitsOK(lim), NEW m \in Nat, NEW x \in Visits, IsContainer(x.val)
  PROVE  Walks(lim, After(lim)[m], x, Along(lim, After(lim)[m], x))
BY AfterDef, AlongDef

-----------------------------------------------------------------------------
(* The open loops, as visits: each is over the elements of the one its     *)
(* call visited, and has handed on those up to element f.i.                *)
OpenLoop(lim, f, x) ==
  /\ x \in Visits /\ IsContainer(x.val) /\ ~OverLimit(lim, x) /\ f.depth \in Nat
  /\ f.size = AtMost(x.val.claimed, lim.maxElements - x.at.last - 1) /\ f.size > 0
  /\ f.i + Len(f.items) = Len(x.val.items)
  /\ \A k \in 1 .. Len(f.items) : f.items[k] = x.val.items[f.i + k]

(* The walk after the first k elements, and the last one handed on.        *)
Reached(lim, f, x, k) == Along(lim, After(lim)[f.depth], x)[k]
Entered(lim, f, x)    == Visit(x.val.items[f.i], Reached(lim, f, x, f.i - 1))

OpenLoops(lim, loops, X, top) ==
  /\ X \in Seq(Visits) /\ Len(X) = Len(loops)
  /\ \A j \in 1 .. Len(loops) : OpenLoop(lim, loops[j], X[j])
  /\ \A j \in 1 .. Len(loops) - 1 :
       loops[j + 1].i >= 1 /\ X[j] = Entered(lim, loops[j + 1], X[j + 1])
  /\ loops # <<>> => X[Len(loops)] = top

(* The visit of the current call of doSerialize.                           *)
Current(lim, loops, X, top) == IF loops = <<>> THEN top ELSE Entered(lim, loops[1], X[1])

Started(loops) == loops # <<>> => loops[1].i >= 1

LEMMA PushLoop ==
  ASSUME NEW lim, NEW s \in Seq(Frame), NEW X, NEW top, OpenLoops(lim, s, X, top), Started(s),
         NEW f \in Frame, NEW x \in Visits, x = Current(lim, s, X, top), OpenLoop(lim, f, x)
  PROVE  OpenLoops(lim, <<f>> \o s, <<x>> \o X, top)
<1> DEFINE t == <<f>> \o s  Y == <<x>> \o X  n == Len(s)
<1>1. /\ t \in Seq(Frame) /\ Len(t) = n + 1 /\ t[1] = f /\ \A j \in 1 .. n : t[j + 1] = s[j]
      /\ n \in Nat /\ (n = 0 <=> s = <<>>) /\ t # <<>>
  BY Pushed
<1>2. X \in Seq(Visits) /\ Len(X) = n
  BY DEF OpenLoops
<1>3. /\ Y \in Seq(Visits) /\ Len(Y) = n + 1 /\ Y[1] = x /\ \A j \in 1 .. n : Y[j + 1] = X[j]
  BY <1>2, Pushed
<1> HIDE DEF t, Y, n
<1>4. \A j \in 1 .. n : OpenLoop(lim, s[j], X[j])
  BY DEF OpenLoops, n
<1>5. ASSUME NEW j \in 1 .. n + 1 PROVE OpenLoop(lim, t[j], Y[j])
  <2>1. CASE j = 1
    BY <1>1, <1>3, <2>1
  <2>2. CASE j # 1
    <3>1. PICK l \in 1 .. n : j = l + 1
      <4>1. j - 1 \in 1 .. n /\ j = (j - 1) + 1
        BY <1>1, <2>2
      <4> QED
        BY <4>1
    <3> QED
      BY <1>1, <1>3, <1>4, <3>1
  <2> QED
    BY <2>1, <2>2
<1>6. ASSUME NEW j \in 1 .. n
      PROVE  t[j + 1].i >= 1 /\ Y[j] = Entered(lim, t[j + 1], Y[j + 1])
  <2>1. t[j + 1] = s[j] /\ Y[j + 1] = X[j]
    BY <1>1, <1>3
  <2>2. CASE j = 1
    <3>1. s # <<>>
      BY <1>1, <2>2
    <3> QED
      BY <1>3, <2>1, <2>2, <3>1 DEF Current, Started
  <2>3. CASE j # 1
    <3>1. PICK l \in 1 .. n - 1 : j = l + 1
      <4>1. j - 1 \in 1 .. n - 1 /\ j = (j - 1) + 1
        BY <1>1, <2>3
      <4> QED
        BY <4>1
    <3>2. s[l + 1].i >= 1 /\ X[l] = Entered(lim, s[l + 1], X[l + 1])
      BY DEF OpenLoops, n
    <3>3. Y[j] = X[l]
      <4>1. l \in 1 .. n
        BY <1>1
      <4> QED
        BY <1>3, <3>1, <4>1
    <3> QED
      BY <2>1, <3>1, <3>2, <3>3
  <2> QED
    BY <2>2, <2>3
<1>7. Y[n + 1] = top
  <2>1. CASE n = 0
    BY <1>1, <1>3, <2>1 DEF Current
  <2>2. CASE n # 0
    <3>1. n \in 1 .. n /\ s # <<>>
      BY <1>1, <2>2
    <3>2. X[n] = top
      BY <3>1 DEF OpenLoops, n
    <3> QED
      BY <1>3, <3>1, <3>2
  <2> QED
    BY <2>1, <2>2
<1>8. (n + 1) - 1 = n
  BY <1>1
<1> QED
  BY <1>1, <1>3, <1>5, <1>6, <1>7, <1>8 DEF OpenLoops, t, Y

LEMMA PopLoop ==
  ASSUME NEW lim, NEW s \in Seq(Frame), s # <<>>, NEW X, NEW top, OpenLoops(lim, s, X, top)
  PROVE  /\ OpenLoops(lim, Tail(s), Tail(X), top) /\ Started(Tail(s))
         /\ X = <<X[1]>> \o Tail(X) /\ X[1] = Current(lim, Tail(s), Tail(X), top)
         /\ X[1] \in Visits /\ OpenLoop(lim, s[1], X[1])
<1> DEFINE t == Tail(s)  Y == Tail(X)  n == Len(t)
<1>1. /\ t \in Seq(Frame) /\ Len(s) = n + 1 /\ \A j \in 1 .. n : t[j] = s[j + 1]
      /\ n \in Nat /\ (n = 0 <=> t = <<>>)
  <2>1. t \in Seq(Frame) /\ Len(s) = Len(t) + 1 /\ \A j \in 1 .. Len(t) : t[j] = s[j + 1]
    BY Popped
  <2> HIDE DEF t
  <2> QED
    BY <2>1
<1>2. X \in Seq(Visits) /\ Len(X) = n + 1 /\ X # <<>>
  BY <1>1 DEF OpenLoops
<1>3. /\ Y \in Seq(Visits) /\ Len(Y) = n /\ \A j \in 1 .. n : Y[j] = X[j + 1]
      /\ X = <<X[1]>> \o Y /\ X[1] \in Visits
  <2>1. /\ Head(X) \in Visits /\ Head(X) = X[1] /\ Y \in Seq(Visits) /\ Len(X) = Len(Y) + 1
        /\ X = <<Head(X)>> \o Y /\ \A j \in 1 .. Len(Y) : Y[j] = X[j + 1]
    BY <1>2, Popped
  <2>2. Len(Y) \in Nat
    BY <2>1
  <2>3. Len(Y) = n
    <3> HIDE DEF Y, n
    <3> QED
      BY <1>1, <1>2, <2>1, <2>2
  <2> QED
    BY <2>1, <2>3
<1> HIDE DEF t, Y, n
<1>4. \A j \in 1 .. n + 1 : OpenLoop(lim, s[j], X[j])
  BY <1>1 DEF OpenLoops
<1>5. \A j \in 1 .. n : OpenLoop(lim, t[j], Y[j])
  <2> SUFFICES ASSUME NEW j \in 1 .. n PROVE OpenLoop(lim, t[j], Y[j])
    OBVIOUS
  <2>1. j + 1 \in 1 .. n + 1
    BY <1>1
  <2> QED
    BY <1>1, <1>3, <1>4, <2>1
<1>6. \A j \in 1 .. n : s[j + 1].i >= 1 /\ X[j] = Entered(lim, s[j + 1], X[j + 1])
  <2>1. Len(s) - 1 = n
    BY <1>1
  <2> QED
    BY <2>1 DEF OpenLoops
<1>7. ASSUME NEW j \in 1 .. n - 1
      PROVE  t[j + 1].i >= 1 /\ Y[j] = Entered(lim, t[j + 1], Y[j + 1])
  <2>1. PICK l \in 1 .. n : l = j + 1
    <3>1. j + 1 \in 1 .. n
      BY <1>1
    <3> QED
      BY <3>1
  <2>2. j \in 1 .. n
    BY <1>1
  <2>3. t[l] = s[l + 1] /\ Y[l] = X[l + 1] /\ Y[j] = X[l]
    BY <1>1, <1>3, <2>1, <2>2
  <2> QED
    BY <1>6, <2>1, <2>3
<1>8. n # 0 => Y[n] = top
  <2> SUFFICES ASSUME n # 0 PROVE Y[n] = top
    OBVIOUS
  <2>1. n \in 1 .. n
    BY <1>1
  <2>2. X[n + 1] = top
    BY <1>1 DEF OpenLoops
  <2> QED
    BY <1>3, <2>1, <2>2
<1>9. OpenLoops(lim, t, Y, top)
  BY <1>1, <1>3, <1>5, <1>7, <1>8 DEF OpenLoops, n
<1>10. Started(t) /\ X[1] = Current(lim, t, Y, top)
  <2>1. CASE n = 0
    <3>1. X[1] = top
      BY <1>1, <2>1 DEF OpenLoops
    <3> QED
      BY <1>1, <2>1, <3>1 DEF Started, Current
  <2>2. CASE n # 0
    <3>1. 1 \in 1 .. n
      BY <1>1, <2>2
    <3>2. t[1] = s[2] /\ Y[1] = X[2] /\ s[2].i >= 1 /\ X[1] = Entered(lim, s[2], X[2])
      BY <1>1, <1>3, <1>6, <3>1
    <3> QED
      BY <1>1, <2>2, <3>2 DEF Started, Current
  <2> QED
    BY <2>1, <2>2
<1>11. OpenLoop(lim, s[1], X[1])
  <2>1. 1 \in 1 .. n + 1
    BY <1>1
  <2> QED
    BY <1>4, <2>1
<1> QED
  BY <1>3, <1>9, <1>10, <1>11 DEF t, Y

LEMMA LoopParts ==
  ASSUME NEW lim, LimitsOK(lim), NEW f \in Frame, NEW x, OpenLoop(lim, f, x)
  PROVE  /\ f.i \in 0 .. Len(x.val.items) /\ Len(x.val.items) \in Nat
         /\ \A k \in 0 .. Len(x.val.items) : Reached(lim, f, x, k) \in Progress
         /\ Reached(lim, f, x, 0) = Counted(lim, FALSE, x)
         /\ \A k \in 1 .. Len(x.val.items) :
              Reached(lim, f, x, k) =
                After(lim)[f.depth][Visit(x.val.items[k], Reached(lim, f, x, k - 1))]
         /\ f.i >= 1 => /\ Entered(lim, f, x) \in Visits
                        /\ Reached(lim, f, x, f.i) = After(lim)[f.depth][Entered(lim, f, x)]
<1>1. x \in Visits /\ IsContainer(x.val) /\ f.depth \in Nat
  BY DEF OpenLoop
<1>2. Walks(lim, After(lim)[f.depth], x, Along(lim, After(lim)[f.depth], x))
  BY <1>1, AlongAfter
<1> DEFINE n == Len(x.val.items)
<1>3. n \in Nat /\ \A k \in 1 .. n : x.val.items[k] \in Element
  BY <1>1, ItemType
<1>4. f.i \in 0 .. n
  <2>1. f.i \in Nat /\ f.items \in Seq(Element)
    BY DEF Frame
  <2>2. f.i + Len(f.items) = n
    BY DEF OpenLoop
  <2> HIDE DEF n
  <2> QED
    BY <1>3, <2>1, <2>2
<1> HIDE DEF n
<1>5. /\ \A k \in 0 .. n : Reached(lim, f, x, k) \in Progress
      /\ Reached(lim, f, x, 0) = Counted(lim, FALSE, x)
      /\ \A k \in 1 .. n : Reached(lim, f, x, k) =
           After(lim)[f.depth][Visit(x.val.items[k], Reached(lim, f, x, k - 1))]
  BY <1>2 DEF Walks, Reached, n
<1>6. ASSUME f.i >= 1
      PROVE  /\ Entered(lim, f, x) \in Visits
             /\ Reached(lim, f, x, f.i) = After(lim)[f.depth][Entered(lim, f, x)]
  <2>1. f.i \in 1 .. n /\ f.i - 1 \in 0 .. n
    BY <1>3, <1>4, <1>6
  <2>2. Reached(lim, f, x, f.i - 1) \in Progress /\ x.val.items[f.i] \in Element
    BY <1>3, <1>5, <2>1
  <2> QED
    BY <1>5, <2>1, <2>2, VisitType DEF Entered
<1> QED
  BY <1>3, <1>4, <1>5, <1>6 DEF n

LEMMA CurrentType ==
  ASSUME NEW lim, LimitsOK(lim), NEW s \in Seq(Frame), NEW X, NEW top \in Visits,
         OpenLoops(lim, s, X, top), Started(s)
  PROVE  Current(lim, s, X, top) \in Visits
<1>1. CASE s = <<>>
  BY <1>1 DEF Current
<1>2. CASE s # <<>>
  <2>1. OpenLoop(lim, s[1], X[1]) /\ s[1] \in Frame /\ s[1].i >= 1
    <3>1. s[1] \in Frame
      <4> HIDE DEF Frame
      <4> QED
        BY <1>2
    <3> QED
      BY <1>2, <3>1, PopLoop DEF Started
  <2>2. Entered(lim, s[1], X[1]) \in Visits
    BY <2>1, LoopParts
  <2> QED
    BY <1>2, <2>2 DEF Current
<1> QED
  BY <1>1, <1>2

(* An element is done: so far has the walk got.                            *)
LoopReached(lim, loops, X, top) ==
  IF loops = <<>> THEN After(lim)[lim.maxDepth + 1][top]
                  ELSE Reached(lim, loops[1], X[1], loops[1].i)

LEMMA ElementDone ==
  ASSUME NEW lim, LimitsOK(lim), NEW s \in Seq(Frame), NEW X, NEW top,
         OpenLoops(lim, s, X, top), Started(s), LoopsOK(s, lim),
         NEW d, d = lim.maxDepth - Len(s)
  PROVE  After(lim)[d + 1][Current(lim, s, X, top)] = LoopReached(lim, s, X, top)
<1>1. CASE s = <<>>
  <2>1. d = lim.maxDepth
    BY <1>1 DEF LimitsOK
  <2> QED
    BY <1>1, <2>1 DEF Current, LoopReached
<1>2. CASE s # <<>>
  <2>1. OpenLoop(lim, s[1], X[1]) /\ s[1] \in Frame /\ s[1].i >= 1
    <3>1. s[1] \in Frame
      <4> HIDE DEF Frame
      <4> QED
        BY <1>2
    <3> QED
      BY <1>2, <3>1, PopLoop DEF Started
  <2>2. Reached(lim, s[1], X[1], s[1].i) = After(lim)[s[1].depth][Entered(lim, s[1], X[1])]
    BY <2>1, LoopParts
  <2>3. s[1].depth = d + 1
    <3>1. 1 \in 1 .. Len(s) /\ Len(s) \in Nat
      BY <1>2
    <3>2. s[1].depth = lim.maxDepth - Len(s) + 1
      BY <3>1 DEF LoopsOK
    <3> QED
      BY <3>2
  <2> QED
    BY <1>2, <2>2, <2>3 DEF Current, LoopReached
<1> QED
  BY <1>1, <1>2

(* A loop after its next element was handed on.                            *)
Turned(g, f) == g = [f EXCEPT !.i = @ + 1, !.items = Tail(@)]

LEMMA TurnLoop ==
  ASSUME NEW lim, NEW f \in Frame, NEW x, OpenLoop(lim, f, x), f.items # <<>>,
         NEW g, Turned(g, f)
  PROVE  /\ g \in Frame /\ OpenLoop(lim, g, x) /\ g.i >= 1 /\ g.i = f.i + 1
         /\ Entered(lim, g, x) = Visit(Head(f.items), Reached(lim, f, x, f.i))
<1>1. /\ f.i \in Nat /\ f.size \in Nat /\ f.items \in Seq(Element) /\ f.depth \in Int
      /\ g \in Frame /\ g.i = f.i + 1 /\ g.size = f.size /\ g.depth = f.depth
  BY NextFrame DEF Turned
<1>2. g.items = Tail(f.items)
  <2>1. f = [seg |-> f.seg, view |-> f.view, i |-> f.i, size |-> f.size, items |-> f.items,
             depth |-> f.depth]
    BY DEF Frame
  <2> QED
    BY <2>1 DEF Turned
<1>3. Head(f.items) = x.val.items[f.i + 1]
  <2>1. 1 \in 1 .. Len(f.items) /\ Head(f.items) = f.items[1]
    BY <1>1
  <2> QED
    BY <2>1 DEF OpenLoop
<1>4. g.i + Len(g.items) = Len(x.val.items)
  <2>1. f.i + Len(f.items) = Len(x.val.items)
    BY DEF OpenLoop
  <2>2. Len(g.items) = Len(f.items) - 1 /\ Len(f.items) \in Nat
    BY <1>1, <1>2
  <2> QED
    BY <1>1, <2>1, <2>2
<1>5. ASSUME NEW k \in 1 .. Len(g.items)
      PROVE  g.items[k] = x.val.items[g.i + k]
  <2>1. k + 1 \in 1 .. Len(f.items) /\ g.items[k] = f.items[k + 1]
    BY <1>1, <1>2
  <2>2. f.items[k + 1] = x.val.items[f.i + (k + 1)]
    BY <2>1 DEF OpenLoop
  <2>3. f.i + (k + 1) = g.i + k
    BY <1>1
  <2> QED
    BY <2>1, <2>2, <2>3
<1>6. OpenLoop(lim, g, x)
  BY <1>1, <1>4, <1>5 DEF OpenLoop
<1>7. g.i >= 1 /\ g.i - 1 = f.i
  BY <1>1
<1> QED
  BY <1>1, <1>3, <1>6, <1>7 DEF Entered, Reached

(* A loop that has handed on as many elements as it has slots.             *)
LEMMA LoopDone ==
  ASSUME NEW lim, LimitsOK(lim), NEW f \in Frame, NEW x, OpenLoop(lim, f, x), f.i = f.size
  PROVE  SizeLeft(lim, x) = f.size /\ Reached(lim, f, x, f.i) = After(lim)[f.depth + 1][x]
<1> DEFINE c == x.val.claimed  n == Len(x.val.items)  r == lim.maxElements - x.at.last - 1
<1>1. x \in Visits /\ IsContainer(x.val) /\ ~OverLimit(lim, x) /\ f.depth \in Nat
  BY DEF OpenLoop
<1>2. n \in Nat /\ f.i \in 0 .. n
  BY LoopParts
<1>3. c \in Nat
  BY <1>1 DEF IsContainer
<1>4. r \in Int
  BY <1>1, VisitParts, ProgressParts DEF LimitsOK
<1>5. SizeLeft(lim, x) = AtMost(AtMost(c, n), r)
  BY <1>1 DEF SizeLeft, IsContainer
<1>6. f.size = AtMost(c, r) /\ f.size > 0
  BY DEF OpenLoop
<1> HIDE DEF c, n, r
<1>7. AtMost(AtMost(c, n), r) = f.size
  BY <1>2, <1>3, <1>4, <1>6 DEF AtMost
<1>8. SizeLeft(lim, x) = f.size
  BY <1>5, <1>7
<1>9. After(lim)[f.depth + 1][x] = Along(lim, After(lim)[f.depth], x)[f.size]
  BY <1>1, <1>6, <1>8, AfterContainer
<1> QED
  BY <1>8, <1>9 DEF Reached

-----------------------------------------------------------------------------
(* The walk of serializeMore: how far it has got is how far the definition *)
(* says it is at the element the current call was handed, before and after *)
(* it is counted, and between two calls.                                   *)
LeftOf(lim, deep, x) ==
  IF Cut(lim, deep, x) THEN EmptyMap
  ELSE IF x.val.kind = "string"
         THEN [x.val EXCEPT !.text = Truncated(@, lim.maxStringSize)]
         ELSE x.val

SoFar == [last |-> root.limits.maxElements - remaining, cuts |-> metrics]

Visited(X) == Current(root.limits, stack, X, RootVisit(root.val))

WalkInv(X) ==
  /\ root.val \in Values
  /\ OpenLoops(root.limits, stack, X, RootVisit(root.val))
  /\ phase \in {"enter", "value"} => Started(stack)
  /\ phase = "enter" =>
       call.name = Visited(X).name /\ call.val = Visited(X).val /\ SoFar = Visited(X).at
  /\ phase = "value" =>
       /\ call.name = Truncated(Visited(X).name, MaxString)
       /\ call.val = LeftOf(root.limits, call.depth < 0, Visited(X))
       /\ SoFar = Counted(root.limits, call.depth < 0, Visited(X))
  /\ phase = "loop" => SoFar = LoopReached(root.limits, stack, X, RootVisit(root.val))

LEMMA RootVisitType == \A v \in Values : RootVisit(v) \in Visits
<1>1. [last |-> 0, cuts |-> NoMetrics] \in Progress
  BY DEF NoMetrics, Progress
<1> QED
  BY <1>1 DEF RootVisit, Visits, Names

LEMMA NoLoops ==
  ASSUME NEW lim, NEW top
  PROVE  /\ OpenLoops(lim, <<>>, <<>>, top) /\ Current(lim, <<>>, <<>>, top) = top
         /\ Started(<<>>)
<1>1. <<>> \in Seq(Visits) /\ Len(<<>>) = 0
  OBVIOUS
<1> QED
  BY <1>1 DEF OpenLoops, Current, Started

(* Where the current call is.                                              *)
LEMMA VisitedType ==
  ASSUME SerInv, NEW X, WalkInv(X), phase \in {"enter", "value"}
  PROVE  /\ Visited(X) \in Visits /\ LimitsOK(root.limits) /\ LoopsOK(stack, root.limits)
         /\ call.depth = root.limits.maxDepth - Len(stack) /\ call.depth + 1 \in Nat
         /\ (call.depth + 1 = 0 <=> call.depth < 0) /\ call.depth \in Int
<1> DEFINE lim == root.limits
<1>1. LimitsOK(lim)
  BY RootLimits DEF SerInv
<1>2. stack \in Seq(Frame) /\ LoopsOK(stack, lim) /\ call.depth = lim.maxDepth - Len(stack)
  BY DEF SerInv, SerTypeOK, LevelsOK
<1>3. OpenLoops(lim, stack, X, RootVisit(root.val)) /\ Started(stack) /\ RootVisit(root.val) \in Visits
  BY RootVisitType DEF WalkInv
<1>4. Visited(X) \in Visits
  BY <1>1, <1>2, <1>3, CurrentType DEF Visited
<1>5. call.depth + 1 \in Nat /\ call.depth \in Int
  <2>1. CASE stack = <<>>
    BY <1>1, <1>2, <2>1 DEF LimitsOK
  <2>2. CASE stack # <<>>
    <3>1. stack[1].depth \in Nat
      BY <1>2, <1>3, <2>2, PopLoop DEF OpenLoop
    <3>2. 1 \in 1 .. Len(stack) /\ Len(stack) \in Nat
      BY <1>2, <2>2
    <3>3. stack[1].depth = lim.maxDepth - Len(stack) + 1
      BY <1>2, <3>2 DEF LoopsOK
    <3>4. lim.maxDepth \in Nat
      BY <1>1 DEF LimitsOK
    <3> QED
      BY <1>2, <3>1, <3>2, <3>3, <3>4
  <2> QED
    BY <2>1, <2>2
<1> QED
  BY <1>1, <1>2, <1>4, <1>5

(* serializeMore begins at the value it was handed.                        *)
LEMMA WalkStart ==
  ASSUME SerInv, metrics = NoMetrics, NEW m \in Maps, NEW lim \in AllLimits, SerializeMap(m, lim)
  PROVE  WalkInv(<<>>)'
<1>1. /\ phase = "idle" /\ phase' = "enter" /\ stack' = stack /\ metrics' = metrics
      /\ remaining' = lim.maxElements
  BY DEF SerializeMap
<1>2. PICK k \in Candidates(slots) :
        AllocatePWArgs(1, TRUE, k) /\ root' = [slot |-> <<k, Start(slots, k)>>, val |-> m, limits |-> lim]
  BY DEF SerializeMap
<1>3. root'.limits = lim /\ root'.val = m /\ m \in Values
  BY <1>2, ValuesAssumption
<1>4. call' = [slot |-> root'.slot, name |-> Absent, val |-> m, depth |-> lim.maxDepth]
  BY DEF SerializeMap
<1>5. stack' = <<>>
  BY <1>1 DEF SerInv, SlotsCounted
<1> DEFINE top == RootVisit(m)
<1>6. OpenLoops(lim, stack', <<>>, top) /\ Current(lim, stack', <<>>, top) = top /\ Started(stack')
  BY <1>5, NoLoops
<1>7. Visited(<<>>)' = top
  BY <1>3, <1>6 DEF Visited
<1>8. SoFar' = top.at
  <2>1. lim.maxElements - lim.maxElements = 0
    BY LimitsAreOK DEF LimitsOK
  <2> QED
    BY <1>1, <1>3, <2>1 DEF SoFar, RootVisit
<1>9. call'.name = top.name /\ call'.val = top.val
  BY <1>4 DEF RootVisit
<1> HIDE DEF top
<1> QED
  BY <1>1, <1>3, <1>6, <1>7, <1>8, <1>9 DEF WalkInv, top

(* The element is counted, under the limit that cuts it if one does.       *)
LEMMA WalkEnter ==
  ASSUME SerInv, NEW X, WalkInv(X), Enter
  PROVE  WalkInv(X)'
<1> DEFINE x == Visited(X)  lim == root.limits  deep == call.depth < 0
<1>1. /\ phase = "enter" /\ phase' = "value" /\ stack' = stack /\ root' = root
      /\ remaining' = remaining - 1 /\ metrics' = Count
      /\ call' = [call EXCEPT !.name = KeptName, !.val = Kept]
  BY DEF Enter
<1>2. /\ x \in Visits /\ LimitsOK(lim)
  BY <1>1, VisitedType
<1>3. call.name = x.name /\ call.val = x.val /\ SoFar = x.at
  BY <1>1 DEF WalkInv
<1>4. CallOK /\ remaining \in Int /\ lim.maxElements \in Nat
  BY <1>1, <1>2 DEF SerInv, SerTypeOK, LimitsOK
<1>5. call'.name = KeptName /\ call'.val = Kept /\ call'.depth = call.depth
  BY <1>1, <1>4 DEF CallOK
<1>6. x.at.last = lim.maxElements - remaining /\ x.at.cuts = metrics
  BY <1>3 DEF SoFar
<1>7. remaining - 1 < 0 <=> OverLimit(lim, x)
  BY <1>4, <1>6 DEF OverLimit
<1>8. Visited(X)' = x
  BY <1>1 DEF Visited
<1>9. Dropped <=> Cut(lim, deep, x)
  BY <1>7 DEF Dropped, Cut
<1> HIDE DEF x, lim, deep
<1>10. KeptName = Truncated(x.name, MaxString)
  BY <1>3 DEF KeptName
<1>11. Kept = LeftOf(lim, deep, x)
  BY <1>3, <1>9 DEF Kept, LeftOf, MaxString, lim
<1>12. SoFar' = Counted(lim, deep, x)
  <2>1. lim.maxElements - (remaining - 1) = x.at.last + 1
    BY <1>4, <1>6
  <2>2. (remaining - 1 >= 0 /\ deep) <=> (deep /\ ~OverLimit(lim, x))
    BY <1>4, <1>7
  <2>3. Count = Counted(lim, deep, x).cuts
    <3>1. MaxString = lim.maxStringSize
      BY DEF MaxString, lim
    <3> DEFINE t == IF ~Cut(lim, deep, x) /\ x.val.kind = "string"
                      THEN TooLong(x.val.text, lim.maxStringSize) ELSE 0
               n == TooLong(x.name, lim.maxStringSize)
               e == IF OverLimit(lim, x) THEN 1 ELSE 0
               d == IF deep /\ ~OverLimit(lim, x) THEN 1 ELSE 0
    <3>2. t = IF ~Dropped /\ call.val.kind = "string" THEN TooLong(call.val.text, MaxString) ELSE 0
      BY <1>3, <1>9, <3>1
    <3>3. n = TooLong(call.name, MaxString)
      BY <1>3, <3>1
    <3>4. e = IF remaining - 1 < 0 THEN 1 ELSE 0
      BY <1>7
    <3>5. d = IF remaining - 1 >= 0 /\ call.depth < 0 THEN 1 ELSE 0
      BY <2>2 DEF deep
    <3>6. Counted(lim, deep, x).cuts =
            [strings |-> metrics.strings + n + t, elements |-> metrics.elements + e,
             depth |-> metrics.depth + d]
      BY <1>6 DEF Counted
    <3> HIDE DEF t, n, e, d
    <3> QED
      BY <3>2, <3>3, <3>4, <3>5, <3>6 DEF Count
  <2>4. Counted(lim, deep, x) = [last |-> x.at.last + 1, cuts |-> Counted(lim, deep, x).cuts]
    BY DEF Counted
  <2> QED
    BY <1>1, <2>1, <2>3, <2>4 DEF SoFar, lim
<1>13. MaxString' = MaxString
  BY <1>1 DEF MaxString
<1>14. /\ (root.val \in Values)' /\ OpenLoops(root.limits, stack, X, RootVisit(root.val))'
       /\ Started(stack)'
  BY <1>1 DEF WalkInv
<1> QED
  BY <1>1, <1>5, <1>8, <1>10, <1>11, <1>12, <1>13, <1>14 DEF WalkInv, lim, deep

(* A value without elements is written: the walk is after it.              *)
LEMMA WalkWritten ==
  ASSUME SerInv, NEW X, WalkInv(X), phase = "value", phase' = "loop", stack' = stack,
         root' = root, remaining' = remaining, metrics' = metrics,
         call.depth < 0 \/ ~(SizeLeft(root.limits, Visited(X)) > 0)
  PROVE  WalkInv(X)'
<1> DEFINE x == Visited(X)  lim == root.limits  d == call.depth  top == RootVisit(root.val)
<1>1. /\ x \in Visits /\ LimitsOK(lim) /\ LoopsOK(stack, lim) /\ d = lim.maxDepth - Len(stack)
      /\ d + 1 \in Nat /\ (d + 1 = 0 <=> d < 0)
  BY VisitedType
<1>2. OpenLoops(lim, stack, X, top) /\ Started(stack) /\ stack \in Seq(Frame)
  BY DEF WalkInv, SerInv, SerTypeOK
<1>3. After(lim)[d + 1][Current(lim, stack, X, top)] = LoopReached(lim, stack, X, top)
  BY <1>1, <1>2, ElementDone
<1>4. x = Current(lim, stack, X, top)
  BY DEF Visited
<1>5. SoFar = Counted(lim, d < 0, x)
  BY DEF WalkInv
<1>6. d < 0 \/ ~(SizeLeft(lim, x) > 0)
  OBVIOUS
<1> HIDE DEF x, lim, d, top
<1>7. After(lim)[d + 1][x] = Counted(lim, d < 0, x)
  <2> DEFINE m == d + 1
  <2>1. m \in Nat /\ (m = 0 \/ ~(SizeLeft(lim, x) > 0)) /\ (m = 0) = (d < 0)
    BY <1>1, <1>6
  <2> HIDE DEF m
  <2>2. After(lim)[m][x] = Counted(lim, m = 0, x)
    BY <1>1, <2>1, AfterLeaf
  <2> QED
    BY <2>1, <2>2 DEF m
<1>8. SoFar = LoopReached(lim, stack, X, top)
  BY <1>3, <1>4, <1>5, <1>7
<1>9. SoFar' = LoopReached(root.limits, stack, X, RootVisit(root.val))'
  BY <1>8 DEF SoFar, lim, top
<1>10. (root.val \in Values)' /\ OpenLoops(root.limits, stack, X, RootVisit(root.val))'
  BY DEF WalkInv
<1> QED
  BY <1>9, <1>10 DEF WalkInv

(* What is written without elements has none to write.                     *)
LEMMA LeafLeft ==
  ASSUME SerInv, NEW X, WalkInv(X), phase = "value",
         call.val.kind \in {"list", "map"} => ~(SizeOf(call.val) > 0)
  PROVE  call.depth < 0 \/ ~(SizeLeft(root.limits, Visited(X)) > 0)
<1> DEFINE x == Visited(X)  lim == root.limits  deep == call.depth < 0
<1>1. x \in Visits /\ LimitsOK(lim)
  BY VisitedType
<1>2. call.val = LeftOf(lim, deep, x) /\ SoFar = Counted(lim, deep, x)
  BY DEF WalkInv
<1>3. remaining \in Int /\ remaining = lim.maxElements - x.at.last - 1
  <2>1. remaining \in Int
    BY DEF SerInv, SerTypeOK
  <2>2. lim.maxElements - remaining = x.at.last + 1
    BY <1>2 DEF SoFar, Counted
  <2>3. lim.maxElements \in Nat /\ x.at.last \in Nat
    BY <1>1, VisitParts, ProgressParts DEF LimitsOK
  <2> QED
    BY <2>1, <2>2, <2>3
<1> SUFFICES ASSUME ~deep, SizeLeft(lim, x) > 0 PROVE FALSE
  OBVIOUS
<1>4. ~OverLimit(lim, x) /\ x.val.kind \in {"list", "map"}
  BY DEF SizeLeft
<1>5. call.val = x.val
  BY <1>2, <1>4 DEF LeftOf, Cut
<1>6. ~(AtMost(x.val.claimed, remaining) > 0)
  <2>1. phase = "value" /\ call.val.kind \in {"list", "map"}
    BY <1>4, <1>5
  <2> QED
    BY <1>4, <1>5, <2>1, SizeOfType DEF SerInv
<1>7. SizeLeft(lim, x) = AtMost(AtMost(x.val.claimed, Len(x.val.items)), remaining)
  BY <1>3, <1>4 DEF SizeLeft
<1>8. x.val.claimed \in Nat /\ Len(x.val.items) \in Nat
  BY <1>1, <1>4, VisitParts DEF IsContainer
<1> DEFINE c == x.val.claimed  n == Len(x.val.items)
<1> HIDE DEF c, n, x, lim, deep
<1> QED
  BY <1>3, <1>6, <1>7, <1>8 DEF AtMost, c, n

(* A loop is opened over the elements of the value.                        *)
LEMMA WalkContainer ==
  ASSUME SerInv, ArenaInv, NEW X, WalkInv(X), NEW x, x = Visited(X), WriteContainer
  PROVE  WalkInv(<<x>> \o X)'
<1> DEFINE lim == root.limits  deep == call.depth < 0  top == RootVisit(root.val)
           num == SizeOf(call.val)
<1>1. /\ phase = "value" /\ call.val.kind \in {"list", "map"} /\ num > 0 /\ phase' = "loop"
      /\ call' = call /\ remaining' = remaining /\ root' = root /\ metrics' = metrics
  BY DEF WriteContainer
<1>2. PICK k \in Candidates(slots) :
        stack' = <<[seg |-> k, view |-> ViewIndex(k), i |-> 0, size |-> num,
                    items |-> call.val.items, depth |-> call.depth]>> \o stack
  BY DEF WriteContainer
<1>3. PICK f : f = [seg |-> k, view |-> ViewIndex(k), i |-> 0, size |-> num,
                    items |-> call.val.items, depth |-> call.depth]
  OBVIOUS
<1>4. stack' = <<f>> \o stack
  BY <1>2, <1>3
<1>5. x \in Visits /\ LimitsOK(lim) /\ call.depth + 1 \in Nat /\ call.depth \in Int
  BY <1>1, VisitedType
<1>6. call.val = LeftOf(lim, deep, x) /\ SoFar = Counted(lim, deep, x)
  BY <1>1 DEF WalkInv
<1>7. OpenLoops(lim, stack, X, top) /\ Started(stack) /\ x = Current(lim, stack, X, top)
  BY <1>1 DEF WalkInv, Visited
<1>8. IsContainer(call.val) /\ num <= call.val.claimed
  BY <1>1, SizeOfType DEF SerInv
<1>9. stack \in Seq(Frame) /\ remaining \in Int
  BY <1>1 DEF SerInv, SerTypeOK
<1>10. f \in Frame
  <2>1. SerInv'
    BY WriteContainerInv
  <2>2. stack' \in Seq(Frame) /\ stack' # <<>>
    <3>1. stack' \in Seq(Frame)
      BY <2>1 DEF SerInv, SerTypeOK
    <3>2. <<f>> \o stack # <<>>
      <4> HIDE DEF Frame
      <4> QED
        BY <1>9
    <3> QED
      BY <1>4, <3>1, <3>2
  <2>3. stack'[1] = f
    <3> HIDE DEF Frame
    <3> QED
      BY <1>4, <1>9
  <2> HIDE DEF Frame
  <2> QED
    BY <2>2, <2>3
<1> HIDE DEF lim, deep, top
<1>11. ~Cut(lim, deep, x)
  <2> SUFFICES ASSUME Cut(lim, deep, x) PROVE FALSE
    OBVIOUS
  <2>1. call.val.claimed = 0
    BY <1>6 DEF LeftOf, EmptyMap
  <2> QED
    BY <1>1, <1>8, <2>1, SizeOfType DEF SerInv
<1>12. ~OverLimit(lim, x) /\ deep = FALSE /\ call.depth \in Nat
  BY <1>5, <1>11 DEF Cut, deep
<1>13. call.val = x.val
  <2>1. CASE x.val.kind = "string"
    <3>1. x.val = [kind |-> "string", text |-> x.val.text]
      BY <1>5, <2>1, VisitParts DEF IsValue, IsString, IsContainer
    <3>2. [x.val EXCEPT !.text = Truncated(@, lim.maxStringSize)].kind = "string"
      BY <3>1
    <3> QED
      BY <1>1, <1>6, <1>11, <2>1, <3>2 DEF LeftOf
  <2>2. CASE x.val.kind # "string"
    BY <1>6, <1>11, <2>2 DEF LeftOf
  <2> QED
    BY <2>1, <2>2
<1>14. remaining = lim.maxElements - x.at.last - 1
  <2>1. lim.maxElements - remaining = x.at.last + 1
    BY <1>6 DEF SoFar, Counted, lim
  <2>2. lim.maxElements \in Nat /\ x.at.last \in Nat
    BY <1>5, VisitParts, ProgressParts DEF LimitsOK
  <2> QED
    BY <1>9, <2>1, <2>2, SMTT(30)
<1>15. f.i = 0 /\ f.size = num /\ f.items = x.val.items /\ f.depth = call.depth
  BY <1>3, <1>13
<1>16. f.size = AtMost(x.val.claimed, lim.maxElements - x.at.last - 1) /\ f.size > 0
  BY <1>1, <1>13, <1>14, <1>15, SizeOfType DEF SerInv
<1> HIDE DEF num
<1>17. OpenLoop(lim, f, x)
  <2>1. x.val.items \in Seq(Element) /\ IsContainer(x.val)
    BY <1>8, <1>13, ItemType
  <2>2. Len(f.items) \in Nat /\ f.i + Len(f.items) = Len(x.val.items)
    BY <1>15, <2>1
  <2>3. \A j \in 1 .. Len(f.items) : f.items[j] = x.val.items[f.i + j]
    BY <1>15
  <2> QED
    BY <1>5, <1>12, <1>15, <1>16, <2>1, <2>2, <2>3 DEF OpenLoop
<1>18. OpenLoops(lim, <<f>> \o stack, <<x>> \o X, top)
  BY <1>5, <1>7, <1>9, <1>10, <1>17, PushLoop
<1>19. SoFar = LoopReached(lim, <<f>> \o stack, <<x>> \o X, top)
  <2>1. /\ (<<f>> \o stack)[1] = f /\ <<f>> \o stack # <<>>
    <3> HIDE DEF Frame
    <3> QED
      BY <1>9, <1>10
  <2>2. (<<x>> \o X)[1] = x
    <3>1. X \in Seq(Visits)
      BY <1>7 DEF OpenLoops
    <3> HIDE DEF Visits
    <3> QED
      BY <1>5, <3>1
  <2>3. Reached(lim, f, x, f.i) = Counted(lim, FALSE, x)
    BY <1>5, <1>10, <1>15, <1>17, LoopParts
  <2> QED
    BY <1>6, <1>12, <2>1, <2>2, <2>3 DEF LoopReached
<1>20. root.val \in Values
  BY DEF WalkInv
<1>21. SoFar' = SoFar
  BY <1>1 DEF SoFar
<1> QED
  BY <1>1, <1>4, <1>18, <1>19, <1>20, <1>21 DEF WalkInv, lim, top

(* The next element is the one the definition visits.                      *)
LEMMA WalkNext ==
  ASSUME SerInv, NEW X, WalkInv(X), NextElement
  PROVE  WalkInv(X)'
<1> DEFINE f == Head(stack)  t == Tail(stack)  lim == root.limits  top == RootVisit(root.val)
           e == Head(f.items)
<1>1. /\ phase = "loop" /\ phase' = "enter" /\ stack # <<>> /\ stack \in Seq(Frame)
      /\ stack' = <<[f EXCEPT !.i = @ + 1, !.items = Tail(@)]>> \o t /\ f.items # <<>>
      /\ root' = root /\ remaining' = remaining /\ metrics' = metrics
  BY SMTT(30) DEF NextElement, SerInv, SerTypeOK
<1>2. PICK a : call' = [slot |-> a, name |-> e.name, val |-> e.val, depth |-> f.depth - 1]
  BY DEF NextElement
<1>3. f \in Frame /\ t \in Seq(Frame) /\ f = stack[1]
  BY <1>1, Popped
<1>4. OpenLoops(lim, stack, X, top) /\ SoFar = LoopReached(lim, stack, X, top) /\ LimitsOK(lim)
  BY <1>1, RootLimits DEF WalkInv, SerInv
<1>5. PICK x : x = X[1]
  OBVIOUS
<1>6. /\ OpenLoops(lim, t, Tail(X), top) /\ Started(t) /\ x = Current(lim, t, Tail(X), top)
      /\ X = <<x>> \o Tail(X) /\ x \in Visits /\ OpenLoop(lim, f, x)
  <2>1. /\ OpenLoops(lim, Tail(stack), Tail(X), top) /\ Started(Tail(stack))
        /\ X = <<X[1]>> \o Tail(X) /\ X[1] = Current(lim, Tail(stack), Tail(X), top)
        /\ X[1] \in Visits /\ OpenLoop(lim, stack[1], X[1])
    <3> HIDE DEF lim, top
    <3> QED
      BY <1>1, <1>4, PopLoop
  <2> QED
    BY <1>3, <1>5, <2>1
<1>a. PICK g : Turned(g, f)
  BY DEF Turned
<1>b. stack' = <<g>> \o t
  BY <1>1, <1>a DEF Turned
<1> HIDE DEF f, t, lim, top, e
<1>7. /\ g \in Frame /\ OpenLoop(lim, g, x) /\ g.i >= 1
      /\ Entered(lim, g, x) = Visit(e, Reached(lim, f, x, f.i))
  <2>1. f \in Frame /\ OpenLoop(lim, f, x) /\ f.items # <<>> /\ Turned(g, f)
    BY <1>1, <1>3, <1>6, <1>a
  <2> QED
    BY ONLY <2>1, TurnLoop, Zenon DEF e
<1>8. OpenLoops(lim, <<g>> \o t, <<x>> \o Tail(X), top)
  BY <1>3, <1>6, <1>7, PushLoop
<1>9. (<<g>> \o t)[1] = g /\ <<g>> \o t # <<>>
  <2> HIDE DEF Frame
  <2> QED
    BY <1>3, <1>7
<1>10. SoFar = Reached(lim, f, x, f.i)
  BY <1>1, <1>3, <1>4, <1>5 DEF LoopReached
<1>11. Visited(X)' = Visit(e, SoFar)
  <2>1. Visited(X)' = Current(lim, <<g>> \o t, X, top)
    BY <1>1, <1>b DEF Visited, lim, top
  <2> QED
    BY <1>5, <1>7, <1>9, <1>10, <2>1 DEF Current
<1>12. SoFar' = SoFar
  BY <1>1 DEF SoFar
<1>13. call'.name = Visited(X)'.name /\ call'.val = Visited(X)'.val /\ SoFar' = Visited(X)'.at
  BY <1>2, <1>11, <1>12 DEF Visit
<1>14. Started(stack')
  BY <1>7, <1>9, <1>b DEF Started
<1>15. OpenLoops(root.limits, stack, X, RootVisit(root.val))' /\ (root.val \in Values)'
  BY <1>1, <1>6, <1>8, <1>b DEF lim, top, WalkInv
<1> QED
  BY <1>1, <1>13, <1>14, <1>15 DEF WalkInv

(* A loop that has handed on what its size was: the walk is after the      *)
(* container.                                                              *)
LEMMA WalkEnd ==
  ASSUME SerInv, NEW X, WalkInv(X), EndLoop
  PROVE  WalkInv(Tail(X))'
<1> DEFINE f == Head(stack)  t == Tail(stack)  lim == root.limits  top == RootVisit(root.val)
<1>1. /\ phase = "loop" /\ phase' = "loop" /\ stack # <<>> /\ stack \in Seq(Frame)
      /\ stack' = t /\ f.i = f.size
      /\ root' = root /\ remaining' = remaining /\ metrics' = metrics
  BY DEF EndLoop, SerInv, SerTypeOK
<1>2. f \in Frame /\ t \in Seq(Frame) /\ f = stack[1] /\ Len(stack) = Len(t) + 1
  BY <1>1, Popped
<1>3. /\ OpenLoops(lim, stack, X, top) /\ SoFar = LoopReached(lim, stack, X, top) /\ LimitsOK(lim)
      /\ LoopsOK(stack, lim)
  BY <1>1, RootLimits DEF WalkInv, SerInv, LevelsOK
<1>4. PICK x : x = X[1]
  OBVIOUS
<1>5. /\ OpenLoops(lim, t, Tail(X), top) /\ Started(t) /\ x = Current(lim, t, Tail(X), top)
      /\ X = <<x>> \o Tail(X) /\ x \in Visits /\ OpenLoop(lim, f, x)
  <2>1. /\ OpenLoops(lim, Tail(stack), Tail(X), top) /\ Started(Tail(stack))
        /\ X = <<X[1]>> \o Tail(X) /\ X[1] = Current(lim, Tail(stack), Tail(X), top)
        /\ X[1] \in Visits /\ OpenLoop(lim, stack[1], X[1])
    <3> HIDE DEF lim, top
    <3> QED
      BY <1>1, <1>3, PopLoop
  <2> QED
    BY <1>2, <1>4, <2>1
<1>6. LoopsOK(t, lim)
  <2>1. lim.maxDepth \in Int
    BY <1>3 DEF LimitsOK
  <2> QED
    BY <1>1, <1>3, <2>1, PopLevels DEF t
<1>7. f.depth = lim.maxDepth - Len(t)
  <2>1. 1 \in 1 .. Len(stack) /\ Len(t) \in Nat
    BY <1>2
  <2>2. f.depth = lim.maxDepth - Len(stack) + 1
    BY <1>2, <1>3, <2>1 DEF LoopsOK
  <2>3. lim.maxDepth \in Nat
    BY <1>3 DEF LimitsOK
  <2> HIDE DEF t
  <2> QED
    BY <1>2, <2>1, <2>2, <2>3
<1> HIDE DEF f, t, lim, top
<1>8. SoFar = After(lim)[f.depth + 1][x]
  <2>1. Reached(lim, f, x, f.i) = After(lim)[f.depth + 1][x]
    BY <1>1, <1>2, <1>3, <1>5, LoopDone
  <2> QED
    BY <1>1, <1>2, <1>3, <1>4, <2>1 DEF LoopReached
<1>9. After(lim)[f.depth + 1][x] = LoopReached(lim, t, Tail(X), top)
  BY <1>2, <1>3, <1>5, <1>6, <1>7, ElementDone
<1>10. SoFar' = LoopReached(root.limits, stack, Tail(X), RootVisit(root.val))'
  BY <1>1, <1>8, <1>9 DEF SoFar, lim, top
<1>11. OpenLoops(root.limits, stack, Tail(X), RootVisit(root.val))' /\ (root.val \in Values)'
  BY <1>1, <1>5 DEF lim, top, WalkInv
<1> QED
  BY <1>1, <1>10, <1>11 DEF WalkInv

(* Counting starts anew with each call.                                    *)
MetricsInv ==
  /\ phase = "idle" => metrics = NoMetrics
  /\ phase # "idle" => \E X : WalkInv(X)
  /\ MetricsExact

(* The first pass over an Iterable writes nothing and counts no truncation. *)
LEMMA CountWalks ==
  ASSUME CountElement, NEW X, WalkInv(X)
  PROVE  WalkInv(X)'
<1>1. /\ phase' = phase /\ metrics' = metrics /\ root' = root /\ call' = call
      /\ stack' = stack /\ remaining' = remaining
  BY DEF CountElement
<1> QED
  BY <1>1 DEF WalkInv, Visited, SoFar, MaxString

LEMMA WalkStep ==
  ASSUME SerInv, ArenaInv, NEW X, WalkInv(X), phase # "idle", Step, phase' # "idle"
  PROVE  \E Y : WalkInv(Y)'
<1>1. CASE Enter
  BY <1>1, WalkEnter
<1>2. CASE WriteScalar
  <2>1. phase = "value" /\ ~(call.val.kind \in {"list", "map"})
    BY <1>2 DEF WriteScalar
  <2> QED
    BY <1>2, <2>1, LeafLeft, WalkWritten DEF WriteScalar
<1>3. CASE WriteText
  <2>1. phase = "value" /\ ~(call.val.kind \in {"list", "map"})
    BY <1>3 DEF WriteText
  <2> QED
    BY <1>3, <2>1, LeafLeft, WalkWritten DEF WriteText
<1>4. CASE WriteEmpty
  <2>1. phase = "value" /\ call.val.kind \in {"list", "map"} /\ SizeOf(call.val) <= 0
    BY <1>4 DEF WriteEmpty
  <2>2. ~(SizeOf(call.val) > 0)
    <3>1. SizeOf(call.val) \in Int
      BY <2>1, SizeOfType DEF SerInv
    <3> QED
      BY <2>1, <3>1
  <2> QED
    BY <1>4, <2>1, <2>2, LeafLeft, WalkWritten DEF WriteEmpty
<1>5. CASE WriteContainer
  <2>1. PICK x : x = Visited(X)
    OBVIOUS
  <2> QED
    BY <1>5, <2>1, WalkContainer
<1>6. CASE NextElement
  BY <1>6, WalkNext
<1>7. CASE EndLoop
  BY <1>7, WalkEnd
<1>8. CASE NameTooLarge \/ TextTooLarge \/ Modified \/ ApplicationThrows \/ Return
  BY <1>8 DEF NameTooLarge, TextTooLarge, Modified, ApplicationThrows, Return, Throw, Leave
<1>9. CASE CountElement
  BY <1>9, CountWalks
<1> QED
  BY <1>1, <1>2, <1>3, <1>4, <1>5, <1>6, <1>7, <1>8, <1>9 DEF Step

LEMMA RootsKept ==
  ASSUME SerInv, Step, ~Return
  PROVE  roots' = roots
BY DEF Step, CountElement, Enter, NameTooLarge, WriteScalar, WriteText, TextTooLarge, WriteEmpty,
       WriteContainer, NextElement, EndLoop, Modified, ApplicationThrows, Throw, histVars

LEMMA MetricsStepInv ==
  ASSUME SerInv, ArenaInv, MetricsInv, [SerNext]_serVars
  PROVE  MetricsInv'
<1>1. ASSUME NEW m \in Maps, NEW lim \in AllLimits, SerializeMap(m, lim)
      PROVE  MetricsInv'
  <2>1. phase = "idle" /\ phase' = "enter" /\ roots' = roots
    BY <1>1 DEF SerializeMap
  <2>2. WalkInv(<<>>)'
    BY <1>1, <2>1, WalkStart DEF MetricsInv
  <2> QED
    BY <2>1, <2>2 DEF MetricsInv, MetricsExact
<1>2. CASE Step
  <2>1. phase # "idle"
    BY <1>2 DEF Step, CountElement, Enter, NameTooLarge, WriteScalar, WriteText, TextTooLarge, WriteEmpty,
       WriteContainer, NextElement, EndLoop, Modified, ApplicationThrows, Return
  <2>2. PICK X : WalkInv(X)
    BY <2>1 DEF MetricsInv
  <2>3. phase' # "idle" => \E Y : WalkInv(Y)'
    BY <1>2, <2>1, <2>2, WalkStep
  <2>4. phase' = "idle" => metrics' = NoMetrics
    BY <1>2 DEF Step, CountElement, Enter, NameTooLarge, WriteScalar, WriteText, TextTooLarge, WriteEmpty,
       WriteContainer, NextElement, EndLoop, Modified, ApplicationThrows, Return, Throw, Leave
  <2>5. MetricsExact'
    <3>1. CASE Return
      <4>1. /\ phase = "loop" /\ stack = <<>>
            /\ roots' = roots \cup {[call |-> root, metrics |-> metrics]}
        BY <3>1 DEF Return
      <4>2. SoFar = After(root.limits)[root.limits.maxDepth + 1][RootVisit(root.val)]
        BY <2>2, <4>1 DEF WalkInv, LoopReached
      <4>3. metrics = After(root.limits)[root.limits.maxDepth + 1][RootVisit(root.val)].cuts
        BY <4>2 DEF SoFar
      <4> QED
        BY <4>1, <4>3 DEF MetricsInv, MetricsExact
    <3>2. CASE ~Return
      BY <1>2, <3>2, RootsKept DEF MetricsInv, MetricsExact
    <3> QED
      BY <3>1, <3>2
  <2> QED
    BY <2>3, <2>4, <2>5 DEF MetricsInv
<1>3. CASE Release
  <2>1. phase' = phase /\ phase = "idle" /\ metrics' = metrics /\ roots' = {}
    BY <1>3 DEF Release, callVars
  <2> QED
    BY <2>1 DEF MetricsInv, MetricsExact
<1>4. CASE UNCHANGED serVars
  <2>1. /\ phase' = phase /\ metrics' = metrics /\ roots' = roots /\ root' = root /\ call' = call
        /\ stack' = stack /\ remaining' = remaining
    BY <1>4 DEF serVars, callVars, histVars
  <2>2. \A X : WalkInv(X) => WalkInv(X)'
    BY <2>1 DEF WalkInv, Visited, SoFar, MaxString
  <2> QED
    BY <2>1, <2>2 DEF MetricsInv, MetricsExact
<1> QED
  BY <1>1, <1>2, <1>3, <1>4 DEF SerNext

LEMMA MetricsInvariant == SerSpec => []MetricsInv
<1>1. SerInit => MetricsInv
  BY DEF SerInit, MetricsInv, MetricsExact
<1>2. SerInv /\ ArenaInv /\ MetricsInv /\ [SerNext]_serVars => MetricsInv'
  BY MetricsStepInv
<1> QED
  BY <1>1, <1>2, SerializerInvariant, PTL DEF SerSpec

(* Whatever the value, however it is nested and changes while it is read,  *)
(* serializeMore reports every truncation once, under the limit that       *)
(* caused it.                                                              *)
THEOREM MetricsAlwaysExact == SerSpec => []MetricsExact
<1>1. MetricsInv => MetricsExact
  BY DEF MetricsInv
<1> QED
  BY <1>1, MetricsInvariant, PTL

-----------------------------------------------------------------------------
(* What reading back means, level by level.                                *)
Slices == [Addrs \X Visits -> BOOLEAN]

LEMMA HoldsSlices ==
  ASSUME NEW mm, NEW bb, NEW lim, NEW walk, NEW below
  PROVE  HoldsDropped(mm, bb, lim) \in Slices /\ HoldsKept(mm, bb, lim, walk, below) \in Slices
<1> DEFINE D == Addrs \X Visits
           F(p) == HoldsName(mm, bb, lim, p[1], p[2]) /\ HoldsEmptyMap(mm, p[1])
           G(p) == LET a == p[1]
                       x == p[2]
                   IN  /\ HoldsName(mm, bb, lim, a, x)
                       /\ IF OverLimit(lim, x) THEN HoldsEmptyMap(mm, a)
                                               ELSE HoldsValue(mm, bb, lim, a, x)
                       /\ \A i \in 1 .. SizeLeft(lim, x) :
                            below[<<ElementOf(mm[a], i),
                                    Visit(x.val.items[i], Along(lim, walk, x)[i - 1])>>]
<1>1. \A p \in D : F(p) \in BOOLEAN /\ G(p) \in BOOLEAN
  BY Zenon
<1>2. HoldsDropped(mm, bb, lim) = [p \in D |-> F(p)]
  BY DEF HoldsDropped
<1>3. HoldsKept(mm, bb, lim, walk, below) = [p \in D |-> G(p)]
  BY DEF HoldsKept
<1> HIDE DEF D, F, G
<1>4. [p \in D |-> F(p)] \in [D -> BOOLEAN] /\ [p \in D |-> G(p)] \in [D -> BOOLEAN]
  BY <1>1
<1> QED
  BY <1>2, <1>3, <1>4 DEF Slices, D

HoldsOf(mm, bb, lim, f) ==
  f = [m \in Nat |-> IF m = 0 THEN HoldsDropped(mm, bb, lim)
                     ELSE HoldsKept(mm, bb, lim, After(lim)[m - 1], f[m - 1])]

LEMMA HoldsDef ==
  ASSUME NEW mm, NEW bb, NEW lim
  PROVE  /\ Holds(mm, bb, lim)[0] = HoldsDropped(mm, bb, lim)
         /\ \A m \in Nat : Holds(mm, bb, lim)[m + 1] =
                             HoldsKept(mm, bb, lim, After(lim)[m], Holds(mm, bb, lim)[m])
<1> DEFINE S == Slices
           a == HoldsDropped(mm, bb, lim)
           step == [m \in Nat |-> [g \in S |-> HoldsKept(mm, bb, lim, After(lim)[m], g)]]
<1>1. a \in S /\ \A m \in Nat, g \in S : HoldsKept(mm, bb, lim, After(lim)[m], g) \in S
  BY HoldsSlices
<1> HIDE DEF S, a
<1>2. step \in [Nat -> [S -> S]]
  BY <1>1
<1>3. \A m \in Nat, g \in S : step[m][g] = HoldsKept(mm, bb, lim, After(lim)[m], g)
  OBVIOUS
<1> HIDE DEF step
<1>4. PICK f : IteratesAlong(f, S, a, step)
  BY <1>1, <1>2, IteratesAlongExist
<1>5. f \in [Nat -> S] /\ f[0] = a /\ \A m \in Nat : f[m + 1] = step[m][f[m]]
  BY <1>4 DEF IteratesAlong
<1>6. \A m \in Nat : f[m + 1] = HoldsKept(mm, bb, lim, After(lim)[m], f[m])
  <2> SUFFICES ASSUME NEW m \in Nat
               PROVE  f[m + 1] = HoldsKept(mm, bb, lim, After(lim)[m], f[m])
    OBVIOUS
  <2>1. f[m] \in S
    BY ONLY <1>5, m \in Nat
  <2> QED
    BY ONLY <1>3, <1>5, <2>1, m \in Nat
<1>7. HoldsOf(mm, bb, lim, f)
  <2>1. ASSUME NEW m \in Nat
        PROVE  f[m] = IF m = 0 THEN a ELSE HoldsKept(mm, bb, lim, After(lim)[m - 1], f[m - 1])
    <3>1. CASE m = 0
      BY <1>5, <3>1
    <3>2. CASE m # 0
      <4>1. m - 1 \in Nat /\ (m - 1) + 1 = m
        BY <3>2
      <4> QED
        BY <1>6, <3>2, <4>1
    <3> QED
      BY <3>1, <3>2
  <2>2. f = [m \in Nat |-> f[m]]
    BY <1>5
  <2>3. f = [m \in Nat |->
               IF m = 0 THEN a ELSE HoldsKept(mm, bb, lim, After(lim)[m - 1], f[m - 1])]
    BY <2>1, <2>2
  <2> QED
    BY <2>3 DEF HoldsOf, a
<1>8. Holds(mm, bb, lim) = CHOOSE h : HoldsOf(mm, bb, lim, h)
  BY DEF Holds, HoldsOf
<1>9. PICK h : h = Holds(mm, bb, lim)
  OBVIOUS
<1>10. HoldsOf(mm, bb, lim, h)
  BY <1>7, <1>8, <1>9
<1>11. h = [m \in Nat |->
              IF m = 0 THEN a ELSE HoldsKept(mm, bb, lim, After(lim)[m - 1], h[m - 1])]
  BY <1>10 DEF HoldsOf, a
<1>12. h[0] = a
  BY <1>11
<1>13. ASSUME NEW m \in Nat PROVE h[m + 1] = HoldsKept(mm, bb, lim, After(lim)[m], h[m])
  <2>1. m + 1 \in Nat /\ m + 1 # 0 /\ (m + 1) - 1 = m
    OBVIOUS
  <2> QED
    BY <1>11, <2>1
<1> QED
  BY <1>9, <1>12, <1>13 DEF a

(* What a slot holds of an element, those of its elements aside.           *)
Held(mm, bb, lim, deep, a, x) ==
  /\ HoldsName(mm, bb, lim, a, x)
  /\ IF Cut(lim, deep, x) THEN HoldsEmptyMap(mm, a) ELSE HoldsValue(mm, bb, lim, a, x)

(* The i-th element of a container, of which the limits leave m levels.    *)
KidVisit(lim, m, x, i) == Visit(x.val.items[i], Along(lim, After(lim)[m], x)[i - 1])

LEMMA HoldsLevel ==
  ASSUME NEW mm, NEW bb, NEW lim, NEW a \in Addrs, NEW x \in Visits
  PROVE  /\ Held(mm, bb, lim, TRUE, a, x) => Holds(mm, bb, lim)[0][<<a, x>>]
         /\ \A m \in Nat :
              /\ Held(mm, bb, lim, FALSE, a, x)
              /\ \A i \in 1 .. SizeLeft(lim, x) :
                   Holds(mm, bb, lim)[m][<<ElementOf(mm[a], i), KidVisit(lim, m, x, i)>>]
              => Holds(mm, bb, lim)[m + 1][<<a, x>>]
<1> DEFINE h == Holds(mm, bb, lim)  p == <<a, x>>
<1>1. p \in Addrs \X Visits /\ p[1] = a /\ p[2] = x
  <2> HIDE DEF Addrs, Visits
  <2> QED
    OBVIOUS
<1>2. h[0] = HoldsDropped(mm, bb, lim)
  BY HoldsDef
<1>3. \A m \in Nat : h[m + 1] = HoldsKept(mm, bb, lim, After(lim)[m], h[m])
  BY HoldsDef
<1> HIDE DEF h, p
<1>4. h[0][p] = (HoldsName(mm, bb, lim, a, x) /\ HoldsEmptyMap(mm, a))
  <2>1. h[0][p] = (HoldsName(mm, bb, lim, p[1], p[2]) /\ HoldsEmptyMap(mm, p[1]))
    BY <1>1, <1>2, Zenon DEF HoldsDropped
  <2> QED
    BY <1>1, <2>1, Zenon
<1>5. Held(mm, bb, lim, TRUE, a, x) => h[0][p]
  BY <1>4 DEF Held, Cut
<1>6. ASSUME NEW m \in Nat, Held(mm, bb, lim, FALSE, a, x),
             \A i \in 1 .. SizeLeft(lim, x) :
               h[m][<<ElementOf(mm[a], i), KidVisit(lim, m, x, i)>>]
      PROVE  h[m + 1][p]
  <2>1. h[m + 1][p] =
          (/\ HoldsName(mm, bb, lim, a, x)
           /\ IF OverLimit(lim, x) THEN HoldsEmptyMap(mm, a) ELSE HoldsValue(mm, bb, lim, a, x)
           /\ \A i \in 1 .. SizeLeft(lim, x) :
                h[m][<<ElementOf(mm[a], i), KidVisit(lim, m, x, i)>>])
    <3>1. h[m + 1] = HoldsKept(mm, bb, lim, After(lim)[m], h[m])
      BY <1>3
    <3>2. h[m + 1][p] =
            (/\ HoldsName(mm, bb, lim, p[1], p[2])
             /\ IF OverLimit(lim, p[2]) THEN HoldsEmptyMap(mm, p[1])
                                        ELSE HoldsValue(mm, bb, lim, p[1], p[2])
             /\ \A i \in 1 .. SizeLeft(lim, p[2]) :
                  h[m][<<ElementOf(mm[p[1]], i),
                         Visit(p[2].val.items[i], Along(lim, After(lim)[m], p[2])[i - 1])>>])
      BY <1>1, <3>1, Zenon DEF HoldsKept
    <3> QED
      BY ONLY <1>1, <3>2 DEF KidVisit
  <2> QED
    BY <1>6, <2>1 DEF Held, Cut
<1> QED
  BY <1>5, <1>6 DEF h, p

-----------------------------------------------------------------------------
(* A claim says that a slot can be read back as an element of which the    *)
(* limits leave so many levels.  A set of claims in which each is true of  *)
(* its own slot, and has one for every element that is left, is true.      *)
Claims == [limits : AllLimits, level : Nat, slot : Addrs, visit : Visits]

Claim(lim, m, a, x) == [limits |-> lim, level |-> m, slot |-> a, visit |-> x]

Kid(mm, c, i) ==
  Claim(c.limits, c.level - 1, ElementOf(mm[c.slot], i), KidVisit(c.limits, c.level - 1, c.visit, i))

ClaimHeld(mm, bb, C, c) ==
  /\ Held(mm, bb, c.limits, c.level = 0, c.slot, c.visit)
  /\ c.level # 0 => \A i \in 1 .. SizeLeft(c.limits, c.visit) : Kid(mm, c, i) \in C

LEMMA ClaimsHold ==
  ASSUME NEW mm, NEW bb, NEW C \in SUBSET Claims, \A c \in C : ClaimHeld(mm, bb, C, c)
  PROVE  \A c \in C : Holds(mm, bb, c.limits)[c.level][<<c.slot, c.visit>>]
<1> DEFINE R(m) == \A c \in C : c.level = m =>
                     Holds(mm, bb, c.limits)[m][<<c.slot, c.visit>>]
           T == {m \in Nat : R(m)}
<1>1. \A c \in C : c.level \in Nat /\ c.slot \in Addrs /\ c.visit \in Visits
  BY DEF Claims
<1>2. R(0)
  <2> SUFFICES ASSUME NEW c \in C, c.level = 0
               PROVE  Holds(mm, bb, c.limits)[0][<<c.slot, c.visit>>]
    OBVIOUS
  <2>1. (c.level = 0) = TRUE
    OBVIOUS
  <2>2. Held(mm, bb, c.limits, TRUE, c.slot, c.visit)
    BY <2>1 DEF ClaimHeld
  <2> QED
    BY <1>1, <2>2, HoldsLevel
<1>3. ASSUME NEW m \in Nat, R(m) PROVE R(m + 1)
  <2> SUFFICES ASSUME NEW c \in C, c.level = m + 1
               PROVE  Holds(mm, bb, c.limits)[m + 1][<<c.slot, c.visit>>]
    OBVIOUS
  <2>1. (c.level = 0) = FALSE /\ c.level # 0 /\ c.level - 1 = m
    OBVIOUS
  <2>2. Held(mm, bb, c.limits, FALSE, c.slot, c.visit)
    BY <2>1 DEF ClaimHeld
  <2>3. ASSUME NEW i \in 1 .. SizeLeft(c.limits, c.visit)
        PROVE  Holds(mm, bb, c.limits)[m][<<ElementOf(mm[c.slot], i),
                                            KidVisit(c.limits, m, c.visit, i)>>]
    <3>1. PICK k : k = Kid(mm, c, i)
      OBVIOUS
    <3>2. k \in C
      BY <2>1, <3>1 DEF ClaimHeld
    <3>3. /\ k.limits = c.limits /\ k.level = m /\ k.slot = ElementOf(mm[c.slot], i)
          /\ k.visit = KidVisit(c.limits, m, c.visit, i)
      BY <2>1, <3>1 DEF Kid, Claim
    <3>4. Holds(mm, bb, k.limits)[m][<<k.slot, k.visit>>]
      BY <1>3, <3>2, <3>3
    <3> QED
      BY ONLY <3>3, <3>4
  <2> QED
    BY <1>1, <2>2, <2>3, HoldsLevel
<1>4. T = Nat
  <2>1. T \in SUBSET Nat /\ 0 \in T /\ \A m \in T : m + 1 \in T
    BY <1>2, <1>3
  <2> HIDE DEF T
  <2> QED
    BY <2>1, SetInduction
<1>5. \A m \in Nat : R(m)
  BY <1>4
<1> QED
  BY <1>1, <1>5

-----------------------------------------------------------------------------
(* What writing leaves alone: slots and bytes before the positions of      *)
(* their segments.                                                         *)
Memory ==
  [mem |-> mem, bytes |-> bytes, slots |-> slots, strings |-> strings, blocks |-> blocks]

Placed(w, a) ==
  a \in Addrs /\ a[1] \in 1 .. Len(w.slots.cap) /\ a[2] < w.slots.pos[a[1]]

Encoded(w, ref) ==
  ref # Absent =>
    /\ ref.seg \in 1 .. Len(w.strings.cap) /\ ref.start \in Nat /\ ref.len \in Nat
    /\ ref.start + ref.len < w.strings.pos[ref.seg]

(* The slot at a, and the texts it refers to, are handed out.              *)
Stays(w, a) ==
  /\ a \in DOMAIN w.mem /\ Placed(w, a)
  /\ Encoded(w, w.mem[a].name)
  /\ w.mem[a].type = "string" => Encoded(w, w.mem[a].ptr)

SameText(w, v, ref) ==
  ref # Absent =>
    \A i \in 0 .. ref.len :
      LET b == <<ref.seg, ref.start + i>>
      IN  b \in DOMAIN w.bytes => b \in DOMAIN v.bytes /\ v.bytes[b] = w.bytes[b]

SlotsGrow(w, v) == \A a : Placed(w, a) => Placed(v, a)
TextsGrow(w, v) == \A ref : Encoded(w, ref) => Encoded(v, ref) /\ SameText(w, v, ref)

(* After a step that writes no slot but c.                                 *)
Wrote(w, v, c) ==
  /\ \A a \in DOMAIN w.mem : a # c => a \in DOMAIN v.mem /\ v.mem[a] = w.mem[a]
  /\ SlotsGrow(w, v) /\ TextsGrow(w, v) /\ w.blocks \subseteq v.blocks

LEMMA TextStays ==
  ASSUME NEW w, NEW v, TextsGrow(w, v), NEW ref, Encoded(w, ref), NEW text,
         HoldsText(w.bytes, ref, text)
  PROVE  HoldsText(v.bytes, ref, text)
<1>1. CASE text = Absent
  BY <1>1 DEF HoldsText
<1>2. CASE text # Absent
  <2>1. /\ ref # Absent /\ ref.len = Utf8Len(text)
        /\ \A i \in 0 .. ref.len :
             /\ <<ref.seg, ref.start + i>> \in DOMAIN w.bytes
             /\ w.bytes[<<ref.seg, ref.start + i>>] = [text |-> text, off |-> i]
    BY <1>2 DEF HoldsText
  <2>2. SameText(w, v, ref)
    BY DEF TextsGrow
  <2>3. ASSUME NEW i \in 0 .. ref.len, NEW b, b = <<ref.seg, ref.start + i>>
        PROVE  b \in DOMAIN v.bytes /\ v.bytes[b] = [text |-> text, off |-> i]
    <3>1. b \in DOMAIN w.bytes /\ w.bytes[b] = [text |-> text, off |-> i]
      BY <2>1, <2>3
    <3>2. v.bytes[b] = w.bytes[b] /\ b \in DOMAIN v.bytes
      BY <2>1, <2>2, <2>3, <3>1 DEF SameText
    <3> QED
      BY ONLY <3>1, <3>2
  <2> QED
    BY <1>2, <2>1, <2>3 DEF HoldsText
<1> QED
  BY <1>1, <1>2

LEMMA SlotStays ==
  ASSUME NEW w, NEW v, NEW c, Wrote(w, v, c), NEW a, a # c, Stays(w, a)
  PROVE  /\ Stays(v, a) /\ v.mem[a] = w.mem[a]
         /\ \A lim, x : HoldsName(w.mem, w.bytes, lim, a, x) => HoldsName(v.mem, v.bytes, lim, a, x)
         /\ \A lim, x, deep : Held(w.mem, w.bytes, lim, deep, a, x)
                                => Held(v.mem, v.bytes, lim, deep, a, x)
<1>1. a \in DOMAIN v.mem /\ v.mem[a] = w.mem[a] /\ Placed(v, a) /\ TextsGrow(w, v)
  BY DEF Wrote, SlotsGrow, Stays
<1>2. Stays(v, a)
  BY <1>1 DEF Stays, TextsGrow
<1>3. ASSUME NEW lim, NEW x, HoldsName(w.mem, w.bytes, lim, a, x)
      PROVE  HoldsName(v.mem, v.bytes, lim, a, x)
  <2>1. Encoded(w, w.mem[a].name)
    BY DEF Stays
  <2>2. PICK t : t = Truncated(x.name, lim.maxStringSize)
    OBVIOUS
  <2>3. HoldsText(w.bytes, w.mem[a].name, t)
    BY <1>3, <2>2 DEF HoldsName
  <2>4. HoldsText(v.bytes, w.mem[a].name, t)
    BY <1>1, <2>1, <2>3, TextStays
  <2> QED
    BY <1>1, <2>2, <2>4 DEF HoldsName
<1>4. ASSUME NEW lim, NEW x, HoldsValue(w.mem, w.bytes, lim, a, x)
      PROVE  HoldsValue(v.mem, v.bytes, lim, a, x)
  <2>1. CASE w.mem[a].type = "string"
    <3>1. Encoded(w, w.mem[a].ptr)
      BY <2>1 DEF Stays
    <3>2. PICK t : t = Truncated(x.val.text, lim.maxStringSize)
      OBVIOUS
    <3>3. HoldsText(w.bytes, w.mem[a].ptr, t)
      BY <1>4, <2>1, <3>2 DEF HoldsValue
    <3>4. HoldsText(v.bytes, w.mem[a].ptr, t)
      BY <1>1, <3>1, <3>3, TextStays
    <3> QED
      BY <1>1, <1>4, <2>1, <3>2, <3>4 DEF HoldsValue
  <2>2. CASE w.mem[a].type # "string"
    BY <1>1, <1>4, <2>2 DEF HoldsValue
  <2> QED
    BY <2>1, <2>2
<1>5. ASSUME NEW lim, NEW x, NEW deep, Held(w.mem, w.bytes, lim, deep, a, x)
      PROVE  Held(v.mem, v.bytes, lim, deep, a, x)
  BY <1>1, <1>3, <1>4, <1>5 DEF Held, HoldsEmptyMap
<1> QED
  BY <1>1, <1>2, <1>3, <1>5

-----------------------------------------------------------------------------
(* The claims that hold in a memory, for slots that stay.                  *)
ClaimsOK(w, C) ==
  /\ C \in SUBSET Claims
  /\ \A c \in C : ClaimHeld(w.mem, w.bytes, C, c) /\ Stays(w, c.slot)

Taken(C) == {c.slot : c \in C}

LEMMA ClaimsStay ==
  ASSUME NEW w, NEW v, NEW a, Wrote(w, v, a), NEW C, ClaimsOK(w, C), a \notin Taken(C)
  PROVE  ClaimsOK(v, C)
<1>1. ASSUME NEW c \in C
      PROVE  ClaimHeld(v.mem, v.bytes, C, c) /\ Stays(v, c.slot)
  <2>1. c.slot # a /\ Stays(w, c.slot) /\ ClaimHeld(w.mem, w.bytes, C, c)
    BY DEF Taken, ClaimsOK
  <2>2. v.mem[c.slot] = w.mem[c.slot] /\ Stays(v, c.slot)
    BY <2>1, SlotStays
  <2>3. PICK deep : deep = (c.level = 0)
    OBVIOUS
  <2>4. Held(w.mem, w.bytes, c.limits, deep, c.slot, c.visit)
    BY <2>1, <2>3 DEF ClaimHeld
  <2>5. Held(v.mem, v.bytes, c.limits, deep, c.slot, c.visit)
    BY <2>1, <2>4, SlotStays
  <2>6. \A i : Kid(v.mem, c, i) = Kid(w.mem, c, i)
    BY <2>2 DEF Kid
  <2> QED
    BY <2>1, <2>2, <2>3, <2>5, <2>6 DEF ClaimHeld
<1> QED
  BY <1>1 DEF ClaimsOK

LEMMA ClaimAdded ==
  ASSUME NEW w, NEW C, ClaimsOK(w, C), NEW k \in Claims,
         ClaimHeld(w.mem, w.bytes, C, k), Stays(w, k.slot)
  PROVE  ClaimsOK(w, C \cup {k}) /\ Taken(C \cup {k}) = Taken(C) \cup {k.slot}
<1>1. \A c : ClaimHeld(w.mem, w.bytes, C, c) => ClaimHeld(w.mem, w.bytes, C \cup {k}, c)
  BY DEF ClaimHeld
<1>2. ClaimsOK(w, C \cup {k})
  BY <1>1 DEF ClaimsOK
<1> QED
  BY <1>2 DEF Taken

-----------------------------------------------------------------------------
(* What the writers of doSerialize do to the memory.                       *)
SlotShape(e) == e = [name |-> e.name, type |-> e.type, ptr |-> e.ptr, n |-> e.n]

Shaped == \A a \in DOMAIN mem : SlotShape(mem[a])

(* One cell is written.                                                    *)
LEMMA PutOne ==
  ASSUME NEW m, NEW a, NEW e, NEW cells, cells = [b \in {a} |-> e],
         NEW m2, m2 = Overwritten(m, cells)
  PROVE  /\ a \in DOMAIN m2 /\ m2[a] = e
         /\ \A b \in DOMAIN m : b # a => b \in DOMAIN m2 /\ m2[b] = m[b]
         /\ \A b \in DOMAIN m2 : b # a => b \in DOMAIN m /\ m2[b] = m[b]
BY DEF Overwritten

LEMMA SlotType ==
  ASSUME Shaped, NEW a
  PROVE  SlotShape(Slot(a))
BY DEF Shaped, SlotShape, Slot, Blank

(* putParameterName.                                                       *)
LEMMA NameWritten ==
  ASSUME Shaped, NEW ref, PutName(ref)
  PROVE  /\ call.slot \in DOMAIN mem' /\ mem'[call.slot].name = ref /\ Shaped'
         /\ \A b \in DOMAIN mem : b # call.slot => b \in DOMAIN mem' /\ mem'[b] = mem[b]
<1> DEFINE a == call.slot  e == [Slot(a) EXCEPT !.name = ref]
<1>1. mem' = Overwritten(mem, [b \in {a} |-> [Slot(b) EXCEPT !.name = ref]])
  BY DEF PutName
<1>2. PICK cells : cells = [b \in {a} |-> [Slot(b) EXCEPT !.name = ref]]
                   /\ cells = [b \in {a} |-> e]
  OBVIOUS
<1>3. SlotShape(Slot(a))
  BY SlotType
<1>4. SlotShape(e) /\ e.name = ref
  BY <1>3 DEF SlotShape
<1> HIDE DEF a, e
<1>a. mem' = Overwritten(mem, cells) /\ cells = [b \in {a} |-> e]
  BY <1>1, <1>2
<1>5. /\ a \in DOMAIN mem' /\ mem'[a] = e
      /\ \A b \in DOMAIN mem : b # a => b \in DOMAIN mem' /\ mem'[b] = mem[b]
      /\ \A b \in DOMAIN mem' : b # a => b \in DOMAIN mem /\ mem'[b] = mem[b]
  BY ONLY <1>a, PutOne
<1> QED
  BY <1>4, <1>5 DEF Shaped, a

(* writeNull and the others.                                               *)
LEMMA ValueWritten ==
  ASSUME Shaped, NEW type, NEW ptr, NEW n, PutValue(type, ptr, n)
  PROVE  /\ call.slot \in DOMAIN mem' /\ mem'[call.slot].name = Slot(call.slot).name
         /\ mem'[call.slot].type = type /\ mem'[call.slot].ptr = ptr /\ mem'[call.slot].n = n
         /\ Shaped'
         /\ \A b \in DOMAIN mem : b # call.slot => b \in DOMAIN mem' /\ mem'[b] = mem[b]
<1> DEFINE a == call.slot  e == [Slot(a) EXCEPT !.type = type, !.ptr = ptr, !.n = n]
<1>1. mem' = Overwritten(mem, [b \in {a} |->
               [Slot(b) EXCEPT !.type = type, !.ptr = ptr, !.n = n]])
  BY DEF PutValue
<1>2. PICK cells : cells = [b \in {a} |-> [Slot(b) EXCEPT !.type = type, !.ptr = ptr, !.n = n]]
                   /\ cells = [b \in {a} |-> e]
  OBVIOUS
<1>3. SlotShape(Slot(a))
  BY SlotType
<1>4. SlotShape(e) /\ e.name = Slot(a).name /\ e.type = type /\ e.ptr = ptr /\ e.n = n
  <2>1. PICK s : s = Slot(a)
    OBVIOUS
  <2>2. s = [name |-> s.name, type |-> s.type, ptr |-> s.ptr, n |-> s.n]
    BY <1>3, <2>1 DEF SlotShape
  <2>3. [s EXCEPT !.type = type, !.ptr = ptr, !.n = n]
          = [name |-> s.name, type |-> type, ptr |-> ptr, n |-> n]
    <3>1. PICK t : t = [s EXCEPT !.type = type]
      OBVIOUS
    <3>2. t = [name |-> s.name, type |-> type, ptr |-> s.ptr, n |-> s.n]
      BY ONLY <2>2, <3>1
    <3>3. PICK u : u = [t EXCEPT !.ptr = ptr]
      OBVIOUS
    <3>4. u = [name |-> s.name, type |-> type, ptr |-> ptr, n |-> s.n]
      BY ONLY <3>2, <3>3
    <3>5. [u EXCEPT !.n = n] = [name |-> s.name, type |-> type, ptr |-> ptr, n |-> n]
      BY ONLY <3>4
    <3> QED
      BY ONLY <3>1, <3>3, <3>5
  <2>4. e = [name |-> s.name, type |-> type, ptr |-> ptr, n |-> n]
    BY <2>1, <2>3
  <2> HIDE DEF e
  <2> QED
    BY ONLY <2>1, <2>4 DEF SlotShape
<1> HIDE DEF a, e
<1>5. /\ a \in DOMAIN mem' /\ mem'[a] = e
      /\ \A b \in DOMAIN mem : b # a => b \in DOMAIN mem' /\ mem'[b] = mem[b]
      /\ \A b \in DOMAIN mem' : b # a => b \in DOMAIN mem /\ mem'[b] = mem[b]
  BY <1>1, <1>2, PutOne
<1> QED
  BY <1>4, <1>5 DEF Shaped, a

LEMMA RegionLength ==
  ASSUME NEW r, RegionOK(r)
  PROVE  Len(r.cap) \in Nat
BY DEF RegionOK

LEMMA SlotsAdvance ==
  ASSUME NEW w, NEW v, NEW k, NEW m, Advanced(w.slots, v.slots, k, m), RegionOK(w.slots)
  PROVE  SlotsGrow(w, v)
<1> SUFFICES ASSUME NEW a, Placed(w, a) PROVE Placed(v, a)
  BY DEF SlotsGrow
<1>1. a \in Addrs /\ a[1] \in 1 .. Len(w.slots.cap) /\ a[2] < w.slots.pos[a[1]]
  BY DEF Placed
<1>2. PICK j : j = a[1]
  OBVIOUS
<1>3. j \in 1 .. Len(w.slots.cap) /\ w.slots.pos[j] <= v.slots.pos[j] /\ RegionOK(v.slots)
  BY <1>1, <1>2 DEF Advanced
<1>4. Len(w.slots.cap) \in Nat /\ Len(v.slots.cap) \in Nat
  BY <1>3, RegionLength
<1>5. j \in 1 .. Len(v.slots.cap)
  BY <1>3, <1>4 DEF Advanced
<1>6. w.slots.pos[j] \in Nat /\ v.slots.pos[j] \in Nat
  BY <1>3, <1>5, SegmentValues
<1>7. a[2] \in Int
  BY <1>1 DEF Addrs
<1>8. a[2] < v.slots.pos[j]
  BY <1>1, <1>2, <1>3, <1>6, <1>7
<1> QED
  BY <1>1, <1>2, <1>5, <1>8 DEF Placed

(* Bytes are written from the position of a segment on.                    *)
BytesFrom(w, v, k, start) ==
  \A s, o : (<<s, o>> \in DOMAIN w.bytes /\ ~(s = k /\ o >= start)) =>
              <<s, o>> \in DOMAIN v.bytes /\ v.bytes[<<s, o>>] = w.bytes[<<s, o>>]

LEMMA TextsAdvance ==
  ASSUME NEW w, NEW v, NEW k, NEW m, Advanced(w.strings, v.strings, k, m), RegionOK(w.strings),
         BytesFrom(w, v, k, Start(w.strings, k))
  PROVE  TextsGrow(w, v)
<1> SUFFICES ASSUME NEW ref, Encoded(w, ref) PROVE Encoded(v, ref) /\ SameText(w, v, ref)
  BY DEF TextsGrow
<1>1. CASE ref = Absent
  BY <1>1 DEF Encoded, SameText
<1>2. CASE ref # Absent
  <2> DEFINE j == ref.seg  p == ref.start  n == ref.len
  <2>1. /\ j \in 1 .. Len(w.strings.cap) /\ p \in Nat /\ n \in Nat
        /\ p + n < w.strings.pos[j]
    BY <1>2 DEF Encoded
  <2>2. w.strings.pos[j] <= v.strings.pos[j] /\ RegionOK(v.strings)
    BY <2>1 DEF Advanced
  <2>3. Len(w.strings.cap) \in Nat /\ Len(v.strings.cap) \in Nat
    BY <2>2, RegionLength
  <2>4. j \in 1 .. Len(v.strings.cap)
    BY <2>1, <2>3 DEF Advanced
  <2>5. w.strings.pos[j] \in Nat /\ v.strings.pos[j] \in Nat
    BY <2>1, <2>2, <2>4, SegmentValues
  <2>6. p + n < v.strings.pos[j]
    BY <2>1, <2>2, <2>5
  <2>7. ASSUME NEW i \in 0 .. n, <<j, p + i>> \in DOMAIN w.bytes
        PROVE  <<j, p + i>> \in DOMAIN v.bytes /\ v.bytes[<<j, p + i>>] = w.bytes[<<j, p + i>>]
    <3>1. j = k => Start(w.strings, k) = w.strings.pos[j]
      BY <2>1 DEF Start
    <3>2. PICK o : o = p + i
      OBVIOUS
    <3>3. ~(j = k /\ o >= Start(w.strings, k))
      BY <2>1, <2>5, <3>1, <3>2
    <3> QED
      BY <2>7, <3>2, <3>3 DEF BytesFrom
  <2> QED
    BY <1>2, <2>1, <2>4, <2>6, <2>7 DEF Encoded, SameText
<1> QED
  BY <1>1, <1>2

LEMMA TextsSame ==
  ASSUME NEW w, NEW v, v.strings = w.strings, v.bytes = w.bytes
  PROVE  TextsGrow(w, v)
BY DEF TextsGrow, Encoded, SameText

LEMMA SlotsSame ==
  ASSUME NEW w, NEW v, v.slots = w.slots
  PROVE  SlotsGrow(w, v)
BY DEF SlotsGrow, Placed

LEMMA MemoryParts ==
  ASSUME NEW w, w = Memory, NEW v, v = Memory'
  PROVE  /\ w.mem = mem /\ w.bytes = bytes /\ w.slots = slots /\ w.strings = strings
         /\ w.blocks = blocks
         /\ v.mem = mem' /\ v.bytes = bytes' /\ v.slots = slots' /\ v.strings = strings'
         /\ v.blocks = blocks'
BY DEF Memory

LEMMA EncodeAdvances ==
  ASSUME ArenaInv, NEW text \in Texts, NEW k, Encode(text, k)
  PROVE  /\ Advanced(strings, strings', k, Utf8Len(text) + 1)
         /\ slots' = slots /\ blocks' = blocks /\ Utf8Len(text) \in Nat
<1> DEFINE n == MaxBytes(Len(text))
           m == Utf8Len(text) + 1
           cap == Max2(MinBytes, n)
<1>1. Utf8Len(text) \in 0 .. Len(text) * BytesPerChar /\ Len(text) * BytesPerChar \in Nat
  <2>1. Len(text) \in Nat
    BY DEF Texts
  <2> QED
    BY <2>1, Utf8LenBound, SizesAssumption
<1>2. n \in Nat /\ m \in 1 .. n /\ Utf8Len(text) \in Nat
  BY <1>1 DEF MaxBytes
<1>3. cap \in Nat /\ n <= cap
  BY <1>2, SizesAssumption DEF Max2
<1>4. /\ Takes(strings, n, k) /\ strings' = Advance(WithSegment(strings, k, cap), k, m)
      /\ slots' = slots /\ blocks' = blocks
  BY DEF Encode, WriteString
<1>5. RegionOK(strings) /\ WithinCapacity(strings)
  BY DEF ArenaInv, ArenaTypeOK
<1> HIDE DEF n, m, cap
<1>6. m \in 0 .. n
  BY <1>2
<1>7. Advanced(strings, strings', k, m)
  BY <1>2, <1>3, <1>4, <1>5, <1>6, RegionAdvance
<1> QED
  BY <1>2, <1>4, <1>7 DEF m

(* A text is encoded: the reference to it holds, and those before do still. *)
LEMMA TextEncoded ==
  ASSUME ArenaInv, NEW text \in Texts, NEW k, Encode(text, k),
         NEW w, w = Memory, NEW v, v = Memory', NEW ref, ref = TextRef(text, k)
  PROVE  /\ TextsGrow(w, v) /\ SlotsGrow(w, v) /\ w.blocks \subseteq v.blocks
         /\ Encoded(v, ref) /\ HoldsText(v.bytes, ref, text)
<1> DEFINE at == Start(strings, k)  n == Utf8Len(text)
           D == {<<k, at + i>> : i \in 0 .. n}
           cells == [a \in D |-> [text |-> text, off |-> a[2] - at]]
<1>1. /\ Advanced(strings, strings', k, n + 1) /\ slots' = slots /\ blocks' = blocks
      /\ n \in Nat
  BY EncodeAdvances
<1>2. /\ at \in Nat /\ k \in 1 .. Len(strings'.cap) /\ strings'.pos[k] = at + (n + 1)
  BY <1>1 DEF Advanced
<1>3. bytes' = Overwritten(bytes, cells)
  BY DEF Encode
<1>4. ref.seg = k /\ ref.start = at /\ ref.len = n
  BY DEF TextRef
<1>5. ref # Absent /\ text # Absent
  <2>1. k \in Nat
    BY <1>1 DEF Advanced
  <2>2. ref \in [seg : Nat, start : Nat, len : Nat]
    BY <1>1, <1>2, <2>1 DEF TextRef
  <2> QED
    BY <2>2, AbsentAssumption
<1>6. /\ DOMAIN cells = D
      /\ \A i \in 0 .. n : <<k, at + i>> \in D /\ cells[<<k, at + i>>] = [text |-> text, off |-> i]
  <2>1. ASSUME NEW i \in 0 .. n
        PROVE  <<k, at + i>> \in D /\ cells[<<k, at + i>>] = [text |-> text, off |-> i]
    <3>1. PICK a : a = <<k, at + i>>
      OBVIOUS
    <3>2. a \in D /\ a[2] = at + i
      BY <3>1
    <3>3. a[2] - at = i
      BY <1>1, <1>2, <3>2
    <3>4. cells[a] = [text |-> text, off |-> a[2] - at]
      BY <3>2
    <3> QED
      BY <3>1, <3>2, <3>3, <3>4
  <2> QED
    BY <2>1
<1>7. \A s, o : <<s, o>> \in D => s = k /\ o >= at
  BY <1>1, <1>2
<1> HIDE DEF D, cells, at, n
<1>8. /\ \A i \in 0 .. n : /\ <<k, at + i>> \in DOMAIN bytes'
                           /\ bytes'[<<k, at + i>>] = [text |-> text, off |-> i]
      /\ \A b \in DOMAIN bytes : b \notin D => b \in DOMAIN bytes' /\ bytes'[b] = bytes[b]
  BY <1>3, <1>6 DEF Overwritten
<1>9. HoldsText(v.bytes, ref, text)
  BY <1>4, <1>5, <1>8, MemoryParts DEF HoldsText, n
<1>10. Encoded(v, ref)
  <2>1. at + n < at + (n + 1)
    BY <1>1, <1>2
  <2> QED
    BY <1>1, <1>2, <1>4, <2>1, MemoryParts DEF Encoded
<1>11. TextsGrow(w, v)
  <2>1. BytesFrom(w, v, k, at)
    BY <1>7, <1>8, MemoryParts DEF BytesFrom
  <2>2. RegionOK(w.strings) /\ Advanced(w.strings, v.strings, k, n + 1) /\ at = Start(w.strings, k)
    BY <1>1, MemoryParts DEF ArenaInv, ArenaTypeOK, at
  <2> QED
    BY <2>1, <2>2, TextsAdvance
<1> QED
  BY <1>1, <1>9, <1>10, <1>11, SlotsSame, MemoryParts

-----------------------------------------------------------------------------
(* The slots of an array.                                                  *)
Place(b, i) == <<b.seg, b.start + i - 1>>

(* An array is handed out: its slots were not before.                      *)
LEMMA ArrayAllocated ==
  ASSUME ArenaInv, NEW num \in Nat \ {0}, NEW compat \in BOOLEAN, NEW k,
         AllocatePWArgs(num, compat, k), NEW w, w = Memory, NEW v, v = Memory'
  PROVE  /\ SlotsGrow(w, v) /\ w.blocks \subseteq v.blocks /\ strings' = strings
         /\ \E b \in v.blocks :
              /\ b \notin w.blocks /\ b.seg = k /\ b.start = Start(slots, k) /\ b.num = num
              /\ k \in Nat /\ b.start \in Nat
              /\ b.view = IF compat THEN 0 ELSE ViewIndex(k)
              /\ \A i \in 1 .. num : /\ Place(b, i) \in Addrs /\ ~Placed(w, Place(b, i))
                                     /\ Placed(v, Place(b, i))
<1> DEFINE cap == Max2(MinSlots, num)
           nv == IF k <= Len(nextView) THEN nextView ELSE Append(nextView, 0)
           at == Start(slots, k)
           b == [seg |-> k, start |-> at, num |-> num,
                 view |-> IF compat THEN 0 ELSE nv[k] + 1]
<1>1. /\ Takes(slots, num, k) /\ slots' = Advance(WithSegment(slots, k, cap), k, num)
      /\ blocks' = blocks \cup {b} /\ strings' = strings
  BY DEF AllocatePWArgs
<1>2. cap \in Nat /\ num <= cap /\ num \in 0 .. num /\ num \in Nat
  BY SizesAssumption DEF Max2
<1>3. RegionOK(slots) /\ WithinCapacity(slots) /\ Below(blocks, slots)
  BY DEF ArenaInv, ArenaTypeOK
<1>4. /\ b.seg = k /\ b.start = at /\ b.num = num
      /\ b.view = IF compat THEN 0 ELSE nv[k] + 1
  OBVIOUS
<1> HIDE DEF b
<1>5. Advanced(slots, slots', k, num)
  <2> HIDE DEF cap
  <2> QED
    BY <1>1, <1>2, <1>3, RegionAdvance
<1>6. /\ at \in Nat /\ k \in 1 .. Len(slots'.cap) /\ slots'.pos[k] = at + num
      /\ k <= Len(slots.cap) => at = slots.pos[k]
      /\ k \in 1 .. Len(slots.cap) + 1 /\ Len(slots.cap) \in Nat
  <2>1. Len(slots.cap) \in Nat /\ Len(slots'.cap) \in Nat
    BY <1>3, <1>5, RegionLength DEF Advanced
  <2> QED
    BY <1>5, <2>1 DEF Advanced, Start
<1> HIDE DEF at, cap
<1>7. b.view = IF compat THEN 0 ELSE ViewIndex(k)
  <2>1. nextView \in Seq(Nat) /\ Len(nextView) = Len(slots.cap)
    BY DEF ArenaInv, ArenaTypeOK
  <2>2. nv[k] + 1 = ViewIndex(k)
    <3>1. CASE k <= Len(nextView)
      BY <3>1 DEF ViewIndex
    <3>2. CASE ~(k <= Len(nextView))
      <4>1. k = Len(nextView) + 1
        BY <1>6, <2>1, <3>2
      <4>2. nv[k] = 0
        <5>1. nv = Append(nextView, 0)
          BY <3>2
        <5>2. PICK s : s = nextView
          OBVIOUS
        <5>3. PICK q : q = nv
          OBVIOUS
        <5>4. s \in Seq(Nat) /\ q = Append(s, 0) /\ k = Len(s) + 1
          BY <2>1, <4>1, <5>1, <5>2, <5>3
        <5>5. q[k] = 0
          BY ONLY <5>4
        <5> QED
          BY <5>3, <5>5
      <4>3. ViewIndex(k) = 1
        BY <3>2 DEF ViewIndex
      <4> HIDE DEF nv
      <4>4. nv[k] + 1 = 1
        BY <4>2
      <4> QED
        BY <4>3, <4>4
    <3> QED
      BY <3>1, <3>2
  <2> QED
    BY <1>4, <2>2
<1>8. b \notin blocks
  <2> SUFFICES ASSUME b \in blocks PROVE FALSE
    OBVIOUS
  <2>1. k \in 1 .. Len(slots.cap) /\ at + num <= slots.pos[k]
    BY <1>3, <1>4 DEF Below
  <2>2. at = slots.pos[k]
    BY <1>6, <2>1
  <2> QED
    BY <1>2, <1>6, <2>1, <2>2
<1>9. ASSUME NEW i \in 1 .. num
      PROVE  Place(b, i) \in Addrs /\ ~Placed(w, Place(b, i)) /\ Placed(v, Place(b, i))
  <2>1. PICK o : o = at + i - 1
    OBVIOUS
  <2>2. o \in Int /\ o >= at /\ o < at + num /\ k \in Int
    BY <1>2, <1>6, <2>1
  <2>3. PICK a : a = <<k, o>>
    OBVIOUS
  <2>4. a = Place(b, i)
    BY <1>4, <2>1, <2>3 DEF Place
  <2>5. a \in Addrs /\ a[1] = k /\ a[2] = o
    BY <2>2, <2>3 DEF Addrs
  <2>6. Placed(v, a)
    BY <1>6, <2>2, <2>5, MemoryParts DEF Placed
  <2>7. ~Placed(w, a)
    <3> SUFFICES ASSUME Placed(w, a) PROVE FALSE
      OBVIOUS
    <3>1. k \in 1 .. Len(slots.cap) /\ o < slots.pos[k]
      BY <2>5, MemoryParts DEF Placed
    <3>2. at = slots.pos[k]
      BY <1>6, <3>1
    <3> QED
      BY <1>6, <2>2, <3>1, <3>2
  <2> QED
    BY <2>4, <2>5, <2>6, <2>7
<1>10. SlotsGrow(w, v)
  <2>1. Advanced(w.slots, v.slots, k, num) /\ RegionOK(w.slots)
    BY <1>3, <1>5, MemoryParts
  <2> QED
    BY <2>1, SlotsAdvance
<1>11. b \in v.blocks /\ b \notin w.blocks /\ w.blocks \subseteq v.blocks
  BY <1>1, <1>8, MemoryParts
<1> HIDE DEF nv
<1>12. k \in Nat
  BY <1>6
<1> QED
  BY <1>1, <1>4, <1>6, <1>7, <1>9, <1>10, <1>11, <1>12 DEF at

-----------------------------------------------------------------------------
(* An open loop holds what the slot of its container says already: an      *)
(* array of its size, whose first slots, those of the elements that are    *)
(* done, have a claim each.  No loop writes to the slots of another.       *)
Opens == [frame : Frame, visit : Visits, slot : Addrs, start : Nat]

At(z, k) == <<z.frame.seg, z.start + k - 1>>

ItemClaim(lim, z, k) ==
  Claim(lim, z.frame.depth, At(z, k), KidVisit(lim, z.frame.depth, z.visit, k))

LoopSlots(O) == {z.slot : z \in O}

FreeFrom(O, U) ==
  \A z \in O : \A k \in 1 .. z.frame.size : k > z.frame.i => At(z, k) \notin U

Apart(O) ==
  \A y, z \in O : y.frame.depth # z.frame.depth =>
    \A i \in 1 .. y.frame.size, k \in 1 .. z.frame.size : At(y, i) # At(z, k)

InBlock(w, z) ==
  \E b \in w.blocks : /\ b.seg = z.frame.seg /\ b.start = z.start /\ b.num = z.frame.size
                      /\ b.view = z.frame.view /\ b.view # 0

LoopHeld(w, lim, z) ==
  /\ Stays(w, z.slot) /\ HoldsName(w.mem, w.bytes, lim, z.slot, z.visit)
  /\ w.mem[z.slot].type = z.visit.val.kind /\ w.mem[z.slot].ptr = <<z.frame.seg, z.start>>
  /\ w.mem[z.slot].n = z.frame.size
  /\ InBlock(w, z)
  /\ \A k \in 1 .. z.frame.size : Placed(w, At(z, k))

Filled(lim, C, z) == \A k \in 1 .. z.frame.size : k < z.frame.i => ItemClaim(lim, z, k) \in C

TreeOK(w, lim, C, O) ==
  /\ ClaimsOK(w, C)
  /\ \A z \in O : LoopHeld(w, lim, z) /\ Filled(lim, C, z)
  /\ Apart(O)
  /\ FreeFrom(O, Taken(C) \cup LoopSlots(O))

(* Writing elsewhere.                                                      *)
LEMMA TreeWritten ==
  ASSUME NEW w, NEW v, NEW c, Wrote(w, v, c), NEW lim, NEW C, NEW O, TreeOK(w, lim, C, O),
         c \notin Taken(C) \cup LoopSlots(O)
  PROVE  TreeOK(v, lim, C, O)
<1>1. ClaimsOK(v, C)
  BY ClaimsStay DEF TreeOK
<1>2. ASSUME NEW z \in O PROVE LoopHeld(v, lim, z)
  <2>1. LoopHeld(w, lim, z) /\ z.slot # c
    BY DEF TreeOK, LoopSlots
  <2>2. Stays(w, z.slot) /\ HoldsName(w.mem, w.bytes, lim, z.slot, z.visit)
    BY <2>1 DEF LoopHeld
  <2>3. /\ Stays(v, z.slot) /\ v.mem[z.slot] = w.mem[z.slot]
        /\ HoldsName(v.mem, v.bytes, lim, z.slot, z.visit)
    BY <2>1, <2>2, SlotStays
  <2>4. InBlock(v, z) /\ \A a : Placed(w, a) => Placed(v, a)
    BY <2>1 DEF LoopHeld, InBlock, Wrote, SlotsGrow
  <2> QED
    BY <2>1, <2>3, <2>4 DEF LoopHeld
<1> QED
  BY <1>1, <1>2 DEF TreeOK

(* A claim is added.                                                       *)
LEMMA TreeClaim ==
  ASSUME NEW w, NEW lim, NEW C, NEW O, TreeOK(w, lim, C, O), NEW c \in Claims,
         ClaimHeld(w.mem, w.bytes, C, c), Stays(w, c.slot), FreeFrom(O, {c.slot})
  PROVE  TreeOK(w, lim, C \cup {c}, O)
<1>1. ClaimsOK(w, C \cup {c}) /\ Taken(C \cup {c}) = Taken(C) \cup {c.slot}
  BY ClaimAdded DEF TreeOK
<1>2. FreeFrom(O, Taken(C \cup {c}) \cup LoopSlots(O))
  BY <1>1 DEF FreeFrom, TreeOK
<1> QED
  BY <1>1, <1>2 DEF TreeOK, Filled

(* A loop is opened, over slots that nothing else has.                     *)
LEMMA TreeOpened ==
  ASSUME NEW w, NEW lim, NEW C, NEW O, TreeOK(w, lim, C, O), NEW z, LoopHeld(w, lim, z),
         z.frame.i = 0, FreeFrom(O, {z.slot}),
         \A k \in 1 .. z.frame.size : At(z, k) \notin Taken(C) \cup LoopSlots(O) \cup {z.slot},
         \A y \in O : \A k \in 1 .. z.frame.size, i \in 1 .. y.frame.size : At(z, k) # At(y, i)
  PROVE  TreeOK(w, lim, C, O \cup {z})
<1>1. LoopSlots(O \cup {z}) = LoopSlots(O) \cup {z.slot}
  BY DEF LoopSlots
<1>2. Filled(lim, C, z)
  BY DEF Filled
<1>3. Apart(O \cup {z})
  BY DEF Apart, TreeOK
<1>4. FreeFrom(O \cup {z}, Taken(C) \cup LoopSlots(O) \cup {z.slot})
  BY DEF FreeFrom, TreeOK
<1> QED
  BY <1>1, <1>2, <1>3, <1>4 DEF TreeOK

(* A loop goes on to its next element, its last one being claimed.         *)
LEMMA TreeTurned ==
  ASSUME NEW w, NEW lim, NEW C, NEW O, NEW z, z.frame.i \in Nat, z.frame.size \in Nat,
         TreeOK(w, lim, C, O \cup {z}),
         z.frame.i >= 1 => ItemClaim(lim, z, z.frame.i) \in C,
         NEW y, y.visit = z.visit, y.slot = z.slot, y.start = z.start,
         y.frame.seg = z.frame.seg, y.frame.view = z.frame.view, y.frame.size = z.frame.size,
         y.frame.depth = z.frame.depth, y.frame.i = z.frame.i + 1
  PROVE  TreeOK(w, lim, C, O \cup {y})
<1>1. \A k : At(y, k) = At(z, k) /\ ItemClaim(lim, y, k) = ItemClaim(lim, z, k)
  BY DEF At, ItemClaim
<1>2. LoopSlots(O \cup {y}) = LoopSlots(O \cup {z})
  BY DEF LoopSlots
<1>3. LoopHeld(w, lim, y)
  <2>1. LoopHeld(w, lim, z)
    BY DEF TreeOK
  <2>2. InBlock(w, y)
    BY <2>1 DEF LoopHeld, InBlock
  <2> QED
    BY <1>1, <2>1, <2>2 DEF LoopHeld
<1>4. Filled(lim, C, y)
  <2>1. Filled(lim, C, z)
    BY DEF TreeOK
  <2> SUFFICES ASSUME NEW k \in 1 .. z.frame.size, k < z.frame.i + 1
               PROVE  ItemClaim(lim, z, k) \in C
    BY <1>1 DEF Filled
  <2>2. k < z.frame.i \/ (k = z.frame.i /\ z.frame.i >= 1)
    OBVIOUS
  <2> QED
    BY <2>1, <2>2 DEF Filled
<1>5. Apart(O \cup {y})
  BY <1>1 DEF Apart, TreeOK
<1>6. FreeFrom(O \cup {y}, Taken(C) \cup LoopSlots(O \cup {z}))
  <2>1. FreeFrom(O \cup {z}, Taken(C) \cup LoopSlots(O \cup {z}))
    BY DEF TreeOK
  <2>2. \A k \in 1 .. z.frame.size : k > z.frame.i + 1 => k > z.frame.i
    OBVIOUS
  <2> QED
    BY <1>1, <2>1, <2>2 DEF FreeFrom
<1> QED
  BY <1>2, <1>3, <1>4, <1>5, <1>6 DEF TreeOK

LEMMA TreePart ==
  ASSUME NEW w, NEW lim, NEW C, NEW O, NEW P, P \subseteq O, TreeOK(w, lim, C, O)
  PROVE  TreeOK(w, lim, C, P)
<1>1. LoopSlots(P) \subseteq LoopSlots(O)
  BY DEF LoopSlots
<1>2. FreeFrom(P, Taken(C) \cup LoopSlots(P))
  BY <1>1 DEF TreeOK, FreeFrom
<1>3. Apart(P)
  BY DEF TreeOK, Apart
<1> QED
  BY <1>2, <1>3 DEF TreeOK

(* A loop is left: its container can be read back.                         *)
LEMMA TreeClosed ==
  ASSUME NEW w, NEW lim \in AllLimits, NEW C, NEW O, NEW z \in Opens,
         TreeOK(w, lim, C, O \cup {z}), OpenLoop(lim, z.frame, z.visit),
         z.frame.i = z.frame.size, SizeLeft(lim, z.visit) = z.frame.size,
         z.frame.i >= 1 => ItemClaim(lim, z, z.frame.i) \in C,
         NEW c, c = Claim(lim, z.frame.depth + 1, z.slot, z.visit)
  PROVE  TreeOK(w, lim, C \cup {c}, O)
<1> DEFINE x == z.visit  n == z.frame.size  d == z.frame.depth  e == w.mem[z.slot]
<1>1. /\ x \in Visits /\ z.slot \in Addrs /\ z.start \in Nat /\ z.frame \in Frame
      /\ z.frame.seg \in Int /\ n \in Nat
  BY DEF Opens, Frame
<1>2. d \in Nat /\ ~OverLimit(lim, x) /\ IsContainer(x.val)
  BY DEF OpenLoop
<1>3. c \in Claims /\ c.limits = lim /\ c.level = d + 1 /\ c.slot = z.slot /\ c.visit = x
  BY <1>1, <1>2 DEF Claim, Claims
<1>4. /\ Stays(w, z.slot) /\ HoldsName(w.mem, w.bytes, lim, z.slot, x)
      /\ e.type = x.val.kind /\ e.ptr = <<z.frame.seg, z.start>> /\ e.n = n
  BY DEF TreeOK, LoopHeld
<1>5. \A k \in 1 .. n : ItemClaim(lim, z, k) \in C
  <2> SUFFICES ASSUME NEW k \in 1 .. n PROVE ItemClaim(lim, z, k) \in C
    OBVIOUS
  <2>1. Filled(lim, C, z)
    BY DEF TreeOK
  <2>2. k < z.frame.i \/ (k = z.frame.i /\ z.frame.i >= 1)
    BY <1>1
  <2> QED
    BY <2>1, <2>2 DEF Filled
<1>6. HoldsValue(w.mem, w.bytes, lim, z.slot, x)
  <2>1. x.val.kind \in {"list", "map"}
    BY <1>2 DEF IsContainer
  <2> QED
    BY <1>4, <2>1 DEF HoldsValue
<1>7. Held(w.mem, w.bytes, lim, FALSE, z.slot, x)
  BY <1>2, <1>4, <1>6 DEF Held, Cut
<1>8. \A k \in 1 .. n : Kid(w.mem, c, k) = ItemClaim(lim, z, k)
  <2> SUFFICES ASSUME NEW k \in 1 .. n PROVE Kid(w.mem, c, k) = ItemClaim(lim, z, k)
    OBVIOUS
  <2>1. c.level - 1 = d
    BY <1>2, <1>3
  <2>2. ElementOf(e, k) = At(z, k)
    BY <1>4 DEF ElementOf, At
  <2> QED
    BY <1>3, <2>1, <2>2 DEF Kid, ItemClaim
<1>9. ClaimHeld(w.mem, w.bytes, C, c)
  <2>1. c.level # 0 /\ (c.level = 0) = FALSE
    BY <1>2, <1>3
  <2>2. Held(w.mem, w.bytes, c.limits, c.level = 0, c.slot, c.visit)
    BY <1>3, <1>7, <2>1
  <2>3. \A k \in 1 .. SizeLeft(c.limits, c.visit) : Kid(w.mem, c, k) \in C
    BY <1>3, <1>5, <1>8
  <2> QED
    BY <2>1, <2>2, <2>3 DEF ClaimHeld
<1>10. TreeOK(w, lim, C, O) /\ FreeFrom(O, {c.slot})
  <2>1. TreeOK(w, lim, C, O)
    BY TreePart
  <2>2. z.slot \in LoopSlots(O \cup {z})
    BY DEF LoopSlots
  <2> QED
    BY <1>3, <2>1, <2>2 DEF TreeOK, FreeFrom
<1> QED
  BY <1>3, <1>4, <1>9, <1>10, TreeClaim

(* The slot of the current element is not one of those yet to be filled.   *)
LEMMA CurrentFree ==
  ASSUME NEW O, NEW z \in Opens, Apart(O \cup {z}), O \subseteq Opens,
         \A y \in O : y.frame.depth # z.frame.depth,
         z.frame.i \in 1 .. z.frame.size
  PROVE  FreeFrom(O \cup {z}, {At(z, z.frame.i)})
<1>1. ASSUME NEW y \in O, NEW k \in 1 .. y.frame.size
      PROVE  At(y, k) # At(z, z.frame.i)
  BY DEF Apart
<1>2. ASSUME NEW k \in 1 .. z.frame.size, k > z.frame.i
      PROVE  At(z, k) # At(z, z.frame.i)
  <2>1. z.start \in Nat /\ z.frame.size \in Nat
    BY DEF Opens, Frame
  <2>2. z.start + k - 1 # z.start + z.frame.i - 1
    BY <1>2, <2>1
  <2> QED
    BY <2>2 DEF At
<1> QED
  BY <1>1, <1>2 DEF FreeFrom

(* The open loops of the serializer, innermost first.  Each is over the    *)
(* elements of the one its container is.                                   *)
Elems(Z) == {Z[j] : j \in 1 .. Len(Z)}

CurSlot(Z, rs) == IF Z = <<>> THEN rs ELSE At(Z[1], Z[1].frame.i)

Nest(Z, s, X, rs) ==
  /\ Z \in Seq(Opens) /\ Len(Z) = Len(s) /\ X \in Seq(Visits) /\ Len(X) = Len(s)
  /\ \A j \in 1 .. Len(s) : Z[j].frame = s[j] /\ Z[j].visit = X[j]
  /\ \A j \in 1 .. Len(s) - 1 : Z[j].slot = At(Z[j + 1], Z[j + 1].frame.i)
  /\ s # <<>> => Z[Len(s)].slot = rs

LEMMA NoLength ==
  ASSUME NEW S, NEW s \in Seq(S)
  PROVE  Len(s) \in Nat /\ (Len(s) = 0 <=> s = <<>>)
OBVIOUS

LEMMA NestEmpty ==
  ASSUME NEW rs
  PROVE  Nest(<<>>, <<>>, <<>>, rs) /\ Elems(<<>>) = {} /\ CurSlot(<<>>, rs) = rs
<1>1. <<>> \in Seq(Opens) /\ <<>> \in Seq(Visits) /\ Len(<<>>) = 0
  OBVIOUS
<1> QED
  BY <1>1 DEF Nest, Elems, CurSlot

OnTop(Z, rs, z, Y, t, V) ==
  /\ Nest(Y, t, V, rs) /\ Elems(Y) = Elems(Z) \cup {z}
  /\ CurSlot(Y, rs) = At(z, z.frame.i)

LEMMA NestPush ==
  ASSUME NEW Z, NEW s \in Seq(Frame), NEW X, NEW rs, Nest(Z, s, X, rs), NEW z \in Opens,
         z.slot = CurSlot(Z, rs), z.frame \in Frame, z.visit \in Visits,
         NEW Y, Y = <<z>> \o Z, NEW t, t = <<z.frame>> \o s, NEW V, V = <<z.visit>> \o X
  PROVE  OnTop(Z, rs, z, Y, t, V)
<1> DEFINE n == Len(s)
<1>1. /\ Z \in Seq(Opens) /\ X \in Seq(Visits) /\ Len(Z) = n /\ Len(X) = n
      /\ \A j \in 1 .. n : Z[j].frame = s[j] /\ Z[j].visit = X[j]
      /\ \A j \in 1 .. n - 1 : Z[j].slot = At(Z[j + 1], Z[j + 1].frame.i)
      /\ s # <<>> => Z[n].slot = rs
  BY DEF Nest
<1>2. /\ Y \in Seq(Opens) /\ Len(Y) = n + 1 /\ Y[1] = z /\ \A j \in 1 .. n : Y[j + 1] = Z[j]
  BY <1>1, Pushed
<1>3. /\ t \in Seq(Frame) /\ Len(t) = n + 1 /\ t[1] = z.frame /\ \A j \in 1 .. n : t[j + 1] = s[j]
  BY Pushed
<1>4. /\ V \in Seq(Visits) /\ Len(V) = n + 1 /\ V[1] = z.visit /\ \A j \in 1 .. n : V[j + 1] = X[j]
  BY <1>1, Pushed
<1>5. n \in Nat /\ (n = 0 <=> Z = <<>>) /\ (n = 0 <=> s = <<>>) /\ Y # <<>> /\ t # <<>>
  <2>1. n \in Nat /\ (n = 0 <=> Z = <<>>) /\ (n = 0 <=> s = <<>>)
    BY <1>1, NoLength
  <2>2. /\ Len(Y) = 0 <=> Y = <<>>
        /\ Len(t) = 0 <=> t = <<>>
    BY <1>2, <1>3, NoLength
  <2> HIDE DEF n
  <2> QED
    BY <1>2, <1>3, <2>1, <2>2
<1> HIDE DEF n
<1>6. \A j \in 1 .. n + 1 : j = 1 \/ \E i \in 1 .. n : j = i + 1
  <2> SUFFICES ASSUME NEW j \in 1 .. n + 1, j # 1 PROVE j - 1 \in 1 .. n /\ j = (j - 1) + 1
    OBVIOUS
  <2> QED
    BY <1>5
<1>7. \A j \in 1 .. n + 1 : Y[j].frame = t[j] /\ Y[j].visit = V[j]
  BY <1>1, <1>2, <1>3, <1>4, <1>6
<1>8. ASSUME NEW j \in 1 .. n
      PROVE  Y[j].slot = At(Y[j + 1], Y[j + 1].frame.i)
  <2>1. CASE j = 1
    BY <1>2, <1>5, <2>1 DEF CurSlot
  <2>2. CASE j # 1
    <3>1. PICK i : i = j - 1
      OBVIOUS
    <3>2. i \in 1 .. n /\ i \in 1 .. n - 1 /\ j = i + 1 /\ i + 1 \in 1 .. n
      BY <1>5, <2>2, <3>1
    <3>3. Y[j] = Z[i] /\ Y[j + 1] = Z[i + 1]
      BY <1>2, <3>2
    <3> QED
      BY <1>1, <3>2, <3>3
  <2> QED
    BY <2>1, <2>2
<1>9. Y[n + 1].slot = rs
  <2>1. CASE n = 0
    BY <1>2, <1>5, <2>1 DEF CurSlot
  <2>2. CASE n # 0
    <3>1. n \in 1 .. n
      BY <1>5, <2>2
    <3> QED
      BY <1>1, <1>2, <1>5, <2>2, <3>1
  <2> QED
    BY <2>1, <2>2
<1>10. Elems(Y) = Elems(Z) \cup {z}
  <2>1. 1 \in 1 .. n + 1 /\ \A j \in 1 .. n : j + 1 \in 1 .. n + 1
    BY <1>5
  <2>2. Elems(Y) = {Y[j] : j \in 1 .. n + 1} /\ Elems(Z) = {Z[j] : j \in 1 .. n}
    BY <1>1, <1>2 DEF Elems, n
  <2> QED
    BY ONLY <1>2, <1>6, <2>1, <2>2
<1>11. (n + 1) - 1 = n
  BY <1>5
<1>12. Nest(Y, t, V, rs)
  BY <1>2, <1>3, <1>4, <1>7, <1>8, <1>9, <1>11 DEF Nest
<1> QED
  BY <1>2, <1>5, <1>10, <1>12 DEF CurSlot, OnTop

Innermost(Z, s, X, rs, z, Y, t, V) ==
  /\ z \in Opens /\ z.frame = s[1] /\ z.visit = X[1] /\ z.slot = CurSlot(Y, rs)
  /\ Nest(Y, t, V, rs) /\ Elems(Z) = Elems(Y) \cup {z} /\ Z = <<z>> \o Y
  /\ Elems(Y) \subseteq Opens /\ CurSlot(Z, rs) = At(z, z.frame.i)
  /\ \A y \in Elems(Y) : \E j \in 1 .. Len(s) : j # 1 /\ y.frame = s[j]

LEMMA NestPop ==
  ASSUME NEW Z, NEW s \in Seq(Frame), s # <<>>, NEW X, NEW rs, Nest(Z, s, X, rs),
         NEW z, z = Z[1], NEW Y, Y = Tail(Z), NEW t, t = Tail(s), NEW V, V = Tail(X)
  PROVE  Innermost(Z, s, X, rs, z, Y, t, V)
<1> DEFINE n == Len(t)
<1>1. /\ Z \in Seq(Opens) /\ X \in Seq(Visits) /\ Len(Z) = Len(s) /\ Len(X) = Len(s)
      /\ \A j \in 1 .. Len(s) : Z[j].frame = s[j] /\ Z[j].visit = X[j]
      /\ \A j \in 1 .. Len(s) - 1 : Z[j].slot = At(Z[j + 1], Z[j + 1].frame.i)
      /\ Z[Len(s)].slot = rs
  BY DEF Nest
<1>2. Len(s) \in Nat /\ Len(s) # 0 /\ Z # <<>> /\ X # <<>>
  BY <1>1, NoLength
<1>3. /\ t \in Seq(Frame) /\ Len(s) = n + 1 /\ \A j \in 1 .. n : t[j] = s[j + 1]
  BY Popped
<1>4. /\ z \in Opens /\ Y \in Seq(Opens) /\ Len(Z) = Len(Y) + 1 /\ Z = <<z>> \o Y
      /\ \A j \in 1 .. Len(Y) : Y[j] = Z[j + 1]
  BY <1>1, <1>2, Popped
<1>5. /\ V \in Seq(Visits) /\ Len(X) = Len(V) + 1
      /\ \A j \in 1 .. Len(V) : V[j] = X[j + 1]
  BY <1>1, <1>2, Popped
<1>6. n \in Nat /\ Len(Y) = n /\ Len(V) = n
  <2>1. Len(t) \in Nat /\ Len(Y) \in Nat /\ Len(V) \in Nat
    BY <1>3, <1>4, <1>5, NoLength
  <2> QED
    BY <1>1, <1>3, <1>4, <1>5, <2>1
<1>7. (n = 0 <=> Y = <<>>) /\ (n = 0 <=> t = <<>>)
  BY <1>3, <1>4, <1>6, NoLength
<1> HIDE DEF n
<1>8. 1 \in 1 .. n + 1 /\ \A j \in 1 .. n : j + 1 \in 1 .. n + 1
  BY <1>6
<1>9. \A j \in 1 .. n : Y[j].frame = t[j] /\ Y[j].visit = V[j]
  BY <1>1, <1>3, <1>4, <1>5, <1>6, <1>8
<1>10. ASSUME NEW j \in 1 .. n - 1
       PROVE  Y[j].slot = At(Y[j + 1], Y[j + 1].frame.i)
  <2>1. j \in 1 .. n /\ j + 1 \in 1 .. n /\ j + 1 \in 1 .. Len(s) - 1
    BY <1>3, <1>6
  <2>2. PICK i : i = j + 1
    OBVIOUS
  <2>3. Y[j] = Z[i] /\ Y[i] = Z[i + 1] /\ i \in 1 .. Len(s) - 1
    BY <1>4, <1>6, <2>1, <2>2
  <2> QED
    BY <1>1, <2>2, <2>3
<1>11. n # 0 => Y[n].slot = rs
  <2> SUFFICES ASSUME n # 0 PROVE Y[n].slot = rs
    OBVIOUS
  <2>1. n \in 1 .. n
    BY <1>6
  <2> QED
    BY <1>1, <1>3, <1>4, <1>6, <2>1
<1>12. Nest(Y, t, V, rs)
  BY <1>4, <1>5, <1>6, <1>7, <1>9, <1>10, <1>11 DEF Nest, n
<1>13. z.slot = CurSlot(Y, rs)
  <2>1. CASE n = 0
    <3>1. Len(s) = 1
      BY <1>3, <2>1
    <3>2. z.slot = rs
      BY <1>1, <3>1
    <3> QED
      BY <1>7, <2>1, <3>2 DEF CurSlot
  <2>2. CASE n # 0
    <3>1. 1 \in 1 .. n /\ 1 \in 1 .. Len(s) - 1
      BY <1>3, <1>6, <2>2
    <3>a. Z[1].slot = At(Z[1 + 1], Z[1 + 1].frame.i)
      BY <1>1, <3>1
    <3>b. Y[1] = Z[1 + 1]
      BY <1>4, <1>6, <3>1
    <3>2. z.slot = At(Y[1], Y[1].frame.i)
      BY <3>a, <3>b
    <3> QED
      BY <1>7, <2>2, <3>2 DEF CurSlot
  <2> QED
    BY <2>1, <2>2
<1>14. \A j \in 1 .. n + 1 : j = 1 \/ \E i \in 1 .. n : j = i + 1
  <2> SUFFICES ASSUME NEW j \in 1 .. n + 1, j # 1 PROVE j - 1 \in 1 .. n /\ j = (j - 1) + 1
    OBVIOUS
  <2> QED
    BY <1>6
<1>15. Elems(Z) = {Z[j] : j \in 1 .. n + 1} /\ Elems(Y) = {Y[j] : j \in 1 .. n}
  BY <1>1, <1>3, <1>6 DEF Elems
<1>16. \A j \in 1 .. n : Y[j] = Z[j + 1]
  BY <1>4, <1>6
<1>17. Elems(Z) = Elems(Y) \cup {z}
  BY ONLY <1>8, <1>14, <1>15, <1>16, z = Z[1]
<1>18. Elems(Y) \subseteq Opens
  <2> SUFFICES ASSUME NEW j \in 1 .. n PROVE Y[j] \in Opens
    BY <1>15
  <2>1. j \in 1 .. Len(Y)
    BY <1>6
  <2> HIDE DEF Opens
  <2> QED
    BY <1>4, <2>1
<1>19. ASSUME NEW j \in 1 .. n
       PROVE  j + 1 \in 1 .. Len(s) /\ j + 1 # 1 /\ Y[j].frame = s[j + 1]
  BY <1>3, <1>6, <1>9
<1>20. z.frame = s[1] /\ z.visit = X[1]
  BY <1>1, <1>3, <1>8
<1> QED
  BY <1>2, <1>4, <1>12, <1>13, <1>15, <1>17, <1>18, <1>19, <1>20 DEF CurSlot, Innermost

(* Loops differ in their depths.                                           *)
LEMMA NestDepths ==
  ASSUME NEW lim, LimitsOK(lim), NEW s \in Seq(Frame), s # <<>>, LoopsOK(s, lim)
  PROVE  /\ s[1].depth = lim.maxDepth - Len(s) + 1
         /\ \A j \in 1 .. Len(s) : j # 1 => s[j].depth # s[1].depth
<1>1. Len(s) \in Nat /\ Len(s) # 0 /\ lim.maxDepth \in Nat
  BY NoLength DEF LimitsOK
<1>2. \A j \in 1 .. Len(s) : s[j].depth = lim.maxDepth - Len(s) + j
  BY DEF LoopsOK
<1>3. 1 \in 1 .. Len(s)
  BY <1>1
<1>4. \A j \in 1 .. Len(s) :
        j # 1 => lim.maxDepth - Len(s) + j # lim.maxDepth - Len(s) + 1
  BY <1>1
<1> QED
  BY <1>2, <1>3, <1>4

-----------------------------------------------------------------------------
(* The serializer between what it has claimed and what it is at.           *)
RootClaim(r) == Claim(r.limits, r.limits.maxDepth + 1, r.slot, RootVisit(r.val))

(* The claim of the current element, when it is done.                      *)
CurClaim(lim, Z, rs, top) ==
  IF Z = <<>> THEN Claim(lim, lim.maxDepth + 1, rs, top) ELSE ItemClaim(lim, Z[1], Z[1].frame.i)

NameHeld(w, lim, a, x) ==
  a \in DOMAIN w.mem /\ Encoded(w, w.mem[a].name) /\ HoldsName(w.mem, w.bytes, lim, a, x)

TreeInv(X, Z, C) ==
  /\ Nest(Z, stack, X, root.slot)
  /\ TreeOK(Memory, root.limits, C, Elems(Z))
  /\ phase \in {"enter", "value"} =>
       /\ call.slot = CurSlot(Z, root.slot) /\ Placed(Memory, call.slot)
       /\ call.slot \notin Taken(C) \cup LoopSlots(Elems(Z))
  /\ phase = "value" => NameHeld(Memory, root.limits, call.slot, Visited(X))
  /\ phase = "loop" /\ Started(stack) =>
       CurClaim(root.limits, Z, root.slot, RootVisit(root.val)) \in C

LEMMA CurClaimIs ==
  ASSUME NEW lim, LimitsOK(lim), NEW s \in Seq(Frame), LoopsOK(s, lim), NEW X, NEW Z, NEW rs,
         Nest(Z, s, X, rs), NEW d, d = lim.maxDepth - Len(s), NEW top
  PROVE  CurClaim(lim, Z, rs, top) = Claim(lim, d + 1, CurSlot(Z, rs), Current(lim, s, X, top))
<1>1. CASE s = <<>>
  <2>1. Len(s) = 0 /\ lim.maxDepth \in Nat
    BY <1>1 DEF LimitsOK
  <2>2. Z = <<>>
    <3>1. Len(Z) = 0 /\ Z \in Seq(Opens)
      BY <2>1 DEF Nest
    <3> QED
      BY <3>1, NoLength
  <2>3. d = lim.maxDepth
    BY <2>1
  <2> QED
    BY <1>1, <2>2, <2>3 DEF CurClaim, CurSlot, Current
<1>2. CASE s # <<>>
  <2>1. PICK z, Y, t, V : z = Z[1] /\ Y = Tail(Z) /\ t = Tail(s) /\ V = Tail(X)
    OBVIOUS
  <2>2. /\ z.frame = s[1] /\ z.visit = X[1] /\ CurSlot(Z, rs) = At(z, z.frame.i)
    <3>1. Innermost(Z, s, X, rs, z, Y, t, V)
      BY <1>2, <2>1, NestPop
    <3> QED
      BY <3>1 DEF Innermost
  <2>3. Z # <<>>
    <3>1. Len(Z) = Len(s) /\ Z \in Seq(Opens)
      BY DEF Nest
    <3> QED
      BY <1>2, <3>1, NoLength
  <2>4. s[1].depth = d + 1
    BY <1>2, NestDepths
  <2>5. Current(lim, s, X, top) = KidVisit(lim, d + 1, z.visit, z.frame.i)
    BY <1>2, <2>2, <2>4 DEF Current, Entered, Reached, KidVisit
  <2>6. CurClaim(lim, Z, rs, top) = ItemClaim(lim, z, z.frame.i)
    BY <2>1, <2>3 DEF CurClaim
  <2>7. z.frame.depth = d + 1
    BY <2>2, <2>4
  <2> QED
    BY <2>2, <2>5, <2>6, <2>7 DEF ItemClaim
<1> QED
  BY <1>1, <1>2

LEMMA CurrentFrees ==
  ASSUME NEW lim, LimitsOK(lim), NEW s \in Seq(Frame), LoopsOK(s, lim), NEW X, NEW Z, NEW rs,
         Nest(Z, s, X, rs), NEW w, NEW C, TreeOK(w, lim, C, Elems(Z)), Started(s)
  PROVE  FreeFrom(Elems(Z), {CurSlot(Z, rs)})
<1>1. CASE s = <<>>
  <2>1. Z = <<>>
    <3>1. Len(Z) = 0 /\ Z \in Seq(Opens)
      BY <1>1 DEF Nest
    <3> QED
      BY <3>1, NoLength
  <2> QED
    BY <2>1, NestEmpty DEF FreeFrom
<1>2. CASE s # <<>>
  <2>1. PICK z, Y, t, V : z = Z[1] /\ Y = Tail(Z) /\ t = Tail(s) /\ V = Tail(X)
    OBVIOUS
  <2>2. /\ z \in Opens /\ z.frame = s[1] /\ CurSlot(Z, rs) = At(z, z.frame.i)
        /\ Elems(Z) = Elems(Y) \cup {z} /\ Elems(Y) \subseteq Opens
        /\ \A y \in Elems(Y) : \E j \in 1 .. Len(s) : j # 1 /\ y.frame = s[j]
    <3>1. Innermost(Z, s, X, rs, z, Y, t, V)
      BY <1>2, <2>1, NestPop
    <3> QED
      BY <3>1 DEF Innermost
  <2>3. \A y \in Elems(Y) : y.frame.depth # z.frame.depth
    BY <1>2, <2>2, NestDepths
  <2>4. z.frame.i \in 1 .. z.frame.size
    <3>1. 1 \in 1 .. Len(s)
      BY <1>2, NoLength
    <3>2. z.frame.i <= z.frame.size /\ z.frame.i >= 1
      BY <1>2, <2>2, <3>1 DEF LoopsOK, Started
    <3>3. z.frame.i \in Nat /\ z.frame.size \in Nat
      BY <2>2 DEF Opens, Frame
    <3> QED
      BY <3>2, <3>3
  <2>5. Apart(Elems(Y) \cup {z})
    BY <2>2 DEF TreeOK
  <2> QED
    BY <2>2, <2>3, <2>4, <2>5, CurrentFree
<1> QED
  BY <1>1, <1>2

LEMMA TreeEmpty ==
  ASSUME NEW w, NEW lim, NEW C, ClaimsOK(w, C)
  PROVE  TreeOK(w, lim, C, {})
BY DEF TreeOK, Apart, FreeFrom

(* A slot is taken for a value handed to serializeMore.                    *)
LEMMA TreeStart ==
  ASSUME SerInv, ArenaInv, NEW C, ClaimsOK(Memory, C), NEW m \in Maps, NEW lim \in AllLimits,
         SerializeMap(m, lim)
  PROVE  TreeInv(<<>>, <<>>, C)' /\ ClaimsOK(Memory, C)'
<1>1. /\ phase = "idle" /\ phase' = "enter" /\ stack' = stack /\ mem' = mem /\ bytes' = bytes
      /\ call' = [slot |-> root'.slot, name |-> Absent, val |-> m, depth |-> lim.maxDepth]
  BY DEF SerializeMap, dataVars
<1>2. stack' = <<>>
  BY <1>1 DEF SerInv, SlotsCounted
<1>3. PICK k : /\ AllocatePWArgs(1, TRUE, k)
               /\ root' = [slot |-> <<k, Start(slots, k)>>, val |-> m, limits |-> lim]
  BY DEF SerializeMap
<1>4. PICK w, v : w = Memory /\ v = Memory'
  OBVIOUS
<1>5. PICK b : /\ b.seg = k /\ b.start = Start(slots, k) /\ b.start \in Nat
               /\ Place(b, 1) \in Addrs /\ ~Placed(w, Place(b, 1)) /\ Placed(v, Place(b, 1))
  <2>1. PICK num, compat : num = 1 /\ compat = TRUE
    OBVIOUS
  <2>a. AllocatePWArgs(num, compat, k)
    BY <1>3, <2>1, Zenon
  <2>b. num \in Nat \ {0}
    BY ONLY <2>1
  <2>c. compat \in BOOLEAN
    BY ONLY <2>1, Zenon
  <2>3. PICK b \in v.blocks :
          /\ b.seg = k /\ b.start = Start(slots, k) /\ b.start \in Nat
          /\ \A i \in 1 .. num : /\ Place(b, i) \in Addrs /\ ~Placed(w, Place(b, i))
                                 /\ Placed(v, Place(b, i))
    BY <1>4, <2>a, <2>b, <2>c, ArrayAllocated
  <2>4. 1 \in 1 .. num
    BY <2>1
  <2> QED
    BY <2>3, <2>4
<1>6. SlotsGrow(w, v) /\ w.blocks \subseteq v.blocks /\ strings' = strings
  <2>1. PICK num, compat : num = 1 /\ compat = TRUE
    OBVIOUS
  <2>a. AllocatePWArgs(num, compat, k)
    BY <1>3, <2>1, Zenon
  <2>b. num \in Nat \ {0}
    BY ONLY <2>1
  <2>c. compat \in BOOLEAN
    BY ONLY <2>1, Zenon
  <2> QED
    BY <1>4, <2>a, <2>b, <2>c, ArrayAllocated
<1>7. PICK a : a = root'.slot
  OBVIOUS
<1>8. a = Place(b, 1)
  <2>1. b.start + 1 - 1 = b.start
    BY <1>5
  <2> QED
    BY <1>3, <1>5, <1>7, <2>1 DEF Place
<1>9. Wrote(w, v, a)
  <2>1. v.mem = w.mem /\ v.strings = w.strings /\ v.bytes = w.bytes
    BY <1>1, <1>4, <1>6, MemoryParts
  <2> QED
    BY <1>6, <2>1, TextsSame DEF Wrote
<1>10. a \notin Taken(C) /\ ClaimsOK(w, C)
  <2>1. \A c \in C : Placed(w, c.slot)
    BY <1>4 DEF ClaimsOK, Stays
  <2> QED
    BY <1>4, <1>5, <1>8, <2>1 DEF Taken
<1>11. ClaimsOK(v, C)
  BY <1>9, <1>10, ClaimsStay
<1>12. TreeOK(v, lim, C, Elems(<<>>))
  BY <1>11, NestEmpty, TreeEmpty
<1>13. root'.limits = lim /\ call'.slot = a
  BY <1>1, <1>3, <1>7
<1>14. Nest(<<>>, <<>>, <<>>, a) /\ CurSlot(<<>>, a) = a /\ LoopSlots(Elems(<<>>)) = {}
  BY NestEmpty DEF LoopSlots
<1>15. Nest(<<>>, stack, <<>>, root.slot)'
  BY <1>2, <1>7, <1>14
<1>16. TreeOK(Memory, root.limits, C, Elems(<<>>))'
  BY <1>4, <1>12, <1>13
<1>17. /\ call'.slot = CurSlot(<<>>, root'.slot) /\ Placed(Memory', call'.slot)
       /\ call'.slot \notin Taken(C) \cup LoopSlots(Elems(<<>>))
  BY <1>4, <1>5, <1>7, <1>8, <1>10, <1>13, <1>14
<1> QED
  BY <1>1, <1>4, <1>11, <1>15, <1>16, <1>17 DEF TreeInv

(* putParameterName: the name of the current element is in its slot.       *)
LEMMA TreeEnter ==
  ASSUME SerInv, ArenaInv, Shaped, NEW X, WalkInv(X), NEW Z, NEW C, TreeInv(X, Z, C), Enter
  PROVE  TreeInv(X, Z, C)' /\ Shaped'
<1>1. /\ phase = "enter" /\ phase' = "value" /\ stack' = stack /\ root' = root
      /\ call' = [call EXCEPT !.name = KeptName, !.val = Kept]
  BY DEF Enter
<1>2. CallOK
  BY <1>1 DEF SerInv, SerTypeOK
<1>3. call'.slot = call.slot
  BY <1>1, <1>2 DEF CallOK
<1>4. PICK w, v : w = Memory /\ v = Memory'
  OBVIOUS
<1>5. PICK text : text = KeptName
  OBVIOUS
<1>6. \E ref : /\ PutName(ref) /\ TextsGrow(w, v) /\ SlotsGrow(w, v) /\ w.blocks \subseteq v.blocks
               /\ Encoded(v, ref) /\ HoldsText(v.bytes, ref, text)
  <2>1. CASE text = Absent
    <3>1. PutName(Absent) /\ arenaVars' = arenaVars /\ bytes' = bytes
      BY <1>5, <2>1 DEF Enter
    <3>2. v.slots = w.slots /\ v.strings = w.strings /\ v.bytes = w.bytes /\ v.blocks = w.blocks
      BY <1>4, <3>1, MemoryParts DEF arenaVars
    <3>3. TextsGrow(w, v) /\ SlotsGrow(w, v)
      BY <3>2, TextsSame, SlotsSame
    <3>4. Encoded(v, Absent) /\ HoldsText(v.bytes, Absent, text)
      BY <2>1 DEF Encoded, HoldsText
    <3> QED
      BY <3>1, <3>2, <3>3, <3>4
  <2>2. CASE text # Absent
    <3>1. PICK k : Encode(text, k) /\ PutName(TextRef(text, k))
      BY <1>5, <2>2 DEF Enter
    <3>2. PICK ref : ref = TextRef(text, k)
      OBVIOUS
    <3>3. text \in Texts
      <4>1. call.name \in Names /\ MaxString \in Nat
        BY <1>1, <1>2, LimitsType DEF CallOK, SerInv, MaxString
      <4> QED
        BY <1>5, <2>2, <4>1, TruncatedType DEF KeptName
    <3>4. /\ TextsGrow(w, v) /\ SlotsGrow(w, v) /\ w.blocks \subseteq v.blocks
          /\ Encoded(v, ref) /\ HoldsText(v.bytes, ref, text)
      BY <1>4, <3>1, <3>2, <3>3, TextEncoded
    <3> QED
      BY <3>1, <3>2, <3>4
  <2> QED
    BY <2>1, <2>2
<1>7. PICK ref : /\ PutName(ref) /\ TextsGrow(w, v) /\ SlotsGrow(w, v) /\ w.blocks \subseteq v.blocks
                 /\ Encoded(v, ref) /\ HoldsText(v.bytes, ref, text)
  BY <1>6
<1> DEFINE a == call.slot
<1>8. /\ a \in DOMAIN mem' /\ mem'[a].name = ref /\ Shaped'
      /\ \A b \in DOMAIN mem : b # a => b \in DOMAIN mem' /\ mem'[b] = mem[b]
  BY <1>7, NameWritten
<1>9. Wrote(w, v, a)
  BY <1>4, <1>7, <1>8, MemoryParts DEF Wrote
<1>10. /\ Nest(Z, stack, X, root.slot) /\ TreeOK(w, root.limits, C, Elems(Z))
       /\ a = CurSlot(Z, root.slot) /\ Placed(w, a)
       /\ a \notin Taken(C) \cup LoopSlots(Elems(Z))
  BY <1>1, <1>4 DEF TreeInv
<1>11. TreeOK(v, root.limits, C, Elems(Z)) /\ Placed(v, a)
  <2>1. Placed(v, a)
    BY <1>7, <1>10 DEF SlotsGrow
  <2> HIDE DEF a
  <2> QED
    BY <1>9, <1>10, <2>1, TreeWritten
<1>12. text = Truncated(Visited(X).name, root.limits.maxStringSize)
  BY <1>1, <1>5 DEF WalkInv, KeptName, MaxString
<1>13. NameHeld(v, root.limits, a, Visited(X))
  <2>1. a \in DOMAIN v.mem /\ v.mem[a].name = ref
    BY <1>4, <1>8, MemoryParts
  <2> QED
    BY <1>7, <1>12, <2>1 DEF NameHeld, HoldsName
<1>14. Visited(X)' = Visited(X)
  BY <1>1 DEF Visited
<1>15. TreeInv(X, Z, C)'
  BY <1>1, <1>3, <1>4, <1>10, <1>11, <1>13, <1>14 DEF TreeInv
<1> QED
  BY <1>8, <1>15

(* A value without elements is in its slot: it can be read back.           *)
LeafValue(w, lim, x, type, ptr, n) ==
  /\ type = x.val.kind
  /\ type = "scalar" => ptr = x.val.val
  /\ type = "string" => HoldsText(w.bytes, ptr, Truncated(x.val.text, lim.maxStringSize))
  /\ type \in {"list", "map"} => n = SizeLeft(lim, x)

LeafWritten(w, v, lim, deep, x, type, ptr, n) ==
  /\ TextsGrow(w, v) /\ SlotsGrow(w, v) /\ w.blocks \subseteq v.blocks
  /\ type = "string" => Encoded(v, ptr)
  /\ IF Cut(lim, deep, x) THEN type = "map" /\ n = 0 ELSE LeafValue(v, lim, x, type, ptr, n)

LEMMA TreeLeaf ==
  ASSUME SerInv, Shaped, NEW X, WalkInv(X), NEW Z, NEW C, TreeInv(X, Z, C),
         NEW x, x = Visited(X), phase = "value", phase' = "loop", stack' = stack, root' = root,
         NEW type, NEW ptr, NEW n, PutValue(type, ptr, n),
         NEW w, w = Memory, NEW v, v = Memory',
         LeafWritten(w, v, root.limits, call.depth < 0, x, type, ptr, n),
         call.depth < 0 \/ ~(SizeLeft(root.limits, x) > 0)
  PROVE  Shaped' /\ \E D : TreeInv(X, Z, D)' /\ C \subseteq D
<1> DEFINE lim == root.limits  a == call.slot  d == call.depth  top == RootVisit(root.val)
           U == Taken(C) \cup LoopSlots(Elems(Z))
<1>1. /\ a \in DOMAIN mem' /\ mem'[a].name = Slot(a).name
      /\ mem'[a].type = type /\ mem'[a].ptr = ptr /\ mem'[a].n = n /\ Shaped'
      /\ \A b \in DOMAIN mem : b # a => b \in DOMAIN mem' /\ mem'[b] = mem[b]
  BY ValueWritten
<1>2. /\ Nest(Z, stack, X, root.slot) /\ TreeOK(w, lim, C, Elems(Z))
      /\ a = CurSlot(Z, root.slot) /\ Placed(w, a) /\ a \notin U /\ NameHeld(w, lim, a, x)
  BY DEF TreeInv
<1>3. /\ x \in Visits /\ LimitsOK(lim) /\ LoopsOK(stack, lim) /\ d = lim.maxDepth - Len(stack)
      /\ d + 1 \in Nat /\ (d + 1 = 0 <=> d < 0) /\ d \in Int /\ lim \in AllLimits
  BY VisitedType DEF SerInv, SerTypeOK
<1>4. stack \in Seq(Frame) /\ Started(stack) /\ x = Current(lim, stack, X, top)
  BY DEF SerInv, SerTypeOK, WalkInv, Visited
<1>5. /\ TextsGrow(w, v) /\ SlotsGrow(w, v) /\ w.blocks \subseteq v.blocks
      /\ type = "string" => Encoded(v, ptr)
      /\ Cut(lim, d < 0, x) => type = "map" /\ n = 0
      /\ ~Cut(lim, d < 0, x) => LeafValue(v, lim, x, type, ptr, n)
  BY DEF LeafWritten
<1>6. a \in DOMAIN w.mem /\ Encoded(w, w.mem[a].name) /\ HoldsName(w.mem, w.bytes, lim, a, x)
  BY <1>2 DEF NameHeld
<1>7. /\ a \in DOMAIN v.mem /\ v.mem[a].name = w.mem[a].name
      /\ v.mem[a].type = type /\ v.mem[a].ptr = ptr /\ v.mem[a].n = n
      /\ \A b \in DOMAIN w.mem : b # a => b \in DOMAIN v.mem /\ v.mem[b] = w.mem[b]
  <2>1. Slot(a) = mem[a]
    BY <1>6, MemoryParts DEF Slot
  <2> QED
    BY <1>1, <2>1, MemoryParts
<1>a. FreeFrom(Elems(Z), {a})
  BY <1>2, <1>3, <1>4, CurrentFrees
<1>b. CurClaim(lim, Z, root.slot, top) = Claim(lim, d + 1, a, x)
  BY <1>2, <1>3, <1>4, CurClaimIs
<1>c. d < 0 \/ ~(SizeLeft(lim, x) > 0)
  OBVIOUS
<1>d. PICK c : c = Claim(lim, d + 1, a, x)
  OBVIOUS
<1> HIDE DEF lim, a, d, top, U
<1>8. Wrote(w, v, a)
  BY <1>5, <1>7 DEF Wrote
<1>9. Placed(v, a) /\ TreeOK(v, lim, C, Elems(Z))
  BY <1>2, <1>5, <1>8, TreeWritten DEF SlotsGrow, U
<1>10. Stays(v, a)
  <2>1. Encoded(v, v.mem[a].name)
    BY <1>5, <1>6, <1>7 DEF TextsGrow
  <2> QED
    BY <1>5, <1>7, <1>9, <2>1 DEF Stays
<1>11. HoldsName(v.mem, v.bytes, lim, a, x)
  <2>1. PICK t : t = Truncated(x.name, lim.maxStringSize)
    OBVIOUS
  <2>2. HoldsText(w.bytes, w.mem[a].name, t)
    BY <1>6, <2>1 DEF HoldsName
  <2>3. HoldsText(v.bytes, w.mem[a].name, t)
    BY <1>5, <1>6, <2>2, TextStays
  <2> QED
    BY <1>7, <2>1, <2>3 DEF HoldsName
<1>12. Held(v.mem, v.bytes, lim, d < 0, a, x)
  <2>1. CASE Cut(lim, d < 0, x)
    <3>1. HoldsEmptyMap(v.mem, a)
      BY <1>5, <1>7, <2>1 DEF HoldsEmptyMap
    <3> QED
      BY <1>11, <2>1, <3>1 DEF Held
  <2>2. CASE ~Cut(lim, d < 0, x)
    <3>1. HoldsValue(v.mem, v.bytes, lim, a, x)
      BY <1>5, <1>7, <2>2 DEF HoldsValue, LeafValue
    <3> QED
      BY <1>11, <2>2, <3>1 DEF Held
  <2> QED
    BY <2>1, <2>2
<1>13. c \in Claims /\ c.limits = lim /\ c.level = d + 1 /\ c.slot = a /\ c.visit = x
  <2>1. a \in Addrs
    BY <1>9 DEF Placed
  <2> QED
    BY <1>3, <1>d, <2>1 DEF Claim, Claims
<1>14. ClaimHeld(v.mem, v.bytes, C, c)
  <2>1. (c.level = 0) = (d < 0)
    BY <1>3, <1>13
  <2>2. Held(v.mem, v.bytes, c.limits, c.level = 0, c.slot, c.visit)
    BY <1>12, <1>13, <2>1
  <2>3. c.level # 0 => \A i \in 1 .. SizeLeft(c.limits, c.visit) : Kid(v.mem, c, i) \in C
    <3> SUFFICES ASSUME c.level # 0, NEW i \in 1 .. SizeLeft(lim, x) PROVE FALSE
      BY <1>13
    <3>1. ~(SizeLeft(lim, x) > 0)
      BY <1>3, <1>c, <1>13
    <3>2. SizeLeft(lim, x) \in Nat
      BY <1>3, SizeLeftType
    <3> QED
      BY <3>1, <3>2
  <2> QED
    BY <2>2, <2>3 DEF ClaimHeld
<1>15. TreeOK(v, lim, C \cup {c}, Elems(Z))
  BY <1>9, <1>10, <1>13, <1>14, <1>a, TreeClaim
<1>16. TreeInv(X, Z, C \cup {c})'
  <2>1. CurClaim(lim, Z, root.slot, top) \in C \cup {c}
    BY <1>b, <1>d
  <2> QED
    BY <1>2, <1>15, <2>1 DEF TreeInv, lim, top
<1> QED
  BY <1>1, <1>16

LEMMA SizeLeftNat ==
  ASSUME NEW lim, LimitsOK(lim), NEW x \in Visits
  PROVE  SizeLeft(lim, x) \in Nat
<1>1. x.at.last \in Nat /\ lim.maxElements \in Nat
  BY VisitParts, ProgressParts DEF LimitsOK
<1>2. CASE x.val.kind \in {"list", "map"} /\ ~OverLimit(lim, x)
  <2> DEFINE c == x.val.claimed  n == Len(x.val.items)  r == lim.maxElements - x.at.last - 1
  <2>1. c \in Nat /\ n \in Nat
    BY <1>2, VisitParts DEF IsContainer
  <2>2. r \in Nat
    BY <1>1, <1>2 DEF OverLimit
  <2>3. SizeLeft(lim, x) = AtMost(AtMost(c, n), r)
    BY <1>2 DEF SizeLeft
  <2> HIDE DEF c, n, r
  <2> QED
    BY <2>1, <2>2, <2>3 DEF AtMost
<1>3. CASE ~(x.val.kind \in {"list", "map"} /\ ~OverLimit(lim, x))
  <2>1. SizeLeft(lim, x) = 0
    BY <1>3 DEF SizeLeft
  <2> QED
    BY <2>1
<1> QED
  BY <1>2, <1>3

(* What the limits leave of a value.                                       *)
LEMMA LeftParts ==
  ASSUME NEW lim, NEW deep, NEW x \in Visits, NEW val, val = LeftOf(lim, deep, x)
  PROVE  /\ Cut(lim, deep, x) => val.kind = "map"
         /\ ~Cut(lim, deep, x) =>
              /\ val.kind = x.val.kind
              /\ val.kind # "string" => val = x.val
              /\ val.kind = "string" => val.text = Truncated(x.val.text, lim.maxStringSize)
<1>1. CASE Cut(lim, deep, x)
  BY <1>1 DEF LeftOf, EmptyMap
<1>2. CASE ~Cut(lim, deep, x) /\ x.val.kind # "string"
  BY <1>2 DEF LeftOf
<1>3. CASE ~Cut(lim, deep, x) /\ x.val.kind = "string"
  <2>1. PICK t : t = Truncated(x.val.text, lim.maxStringSize)
    OBVIOUS
  <2>2. PICK y : y = x.val
    OBVIOUS
  <2>3. y = [kind |-> "string", text |-> y.text]
    <3>1. IsString(y)
      BY <1>3, <2>2, VisitParts DEF IsValue, IsContainer
    <3> QED
      BY <3>1 DEF IsString
  <2>4. val = [y EXCEPT !.text = t]
    BY <1>3, <2>1, <2>2 DEF LeftOf
  <2>5. val.kind = "string" /\ val.text = t
    BY ONLY <2>3, <2>4
  <2> QED
    BY <1>3, <2>1, <2>5
<1> QED
  BY <1>1, <1>2, <1>3

(* writeNull and the like, and containers without elements.                *)
LEMMA TreeWrite ==
  ASSUME SerInv, ArenaInv, Shaped, NEW X, WalkInv(X), NEW Z, NEW C, TreeInv(X, Z, C),
         WriteScalar \/ WriteText \/ WriteEmpty
  PROVE  Shaped' /\ \E D : TreeInv(X, Z, D)' /\ C \subseteq D
<1>1. PICK x, w, v, deep, val :
        x = Visited(X) /\ w = Memory /\ v = Memory' /\ deep = (call.depth < 0) /\ val = call.val
  OBVIOUS
<1>2. /\ phase = "value" /\ phase' = "loop" /\ stack' = stack /\ root' = root
  BY DEF WriteScalar, WriteText, WriteEmpty
<1>3. x \in Visits /\ LimitsOK(root.limits)
  BY <1>1, <1>2, VisitedType
<1>4. val = LeftOf(root.limits, deep, x)
  BY <1>1, <1>2 DEF WalkInv
<1>5. /\ Cut(root.limits, deep, x) => val.kind = "map"
      /\ ~Cut(root.limits, deep, x) =>
           /\ val.kind = x.val.kind
           /\ val.kind # "string" => val = x.val
           /\ val.kind = "string" => val.text = Truncated(x.val.text, root.limits.maxStringSize)
  BY <1>3, <1>4, LeftParts
<1>6. call.depth < 0 \/ ~(SizeLeft(root.limits, x) > 0)
  <2>1. call.val.kind \in {"list", "map"} => ~(SizeOf(call.val) > 0)
    <3>1. CASE WriteEmpty
      <4>1. SizeOf(call.val) \in Int /\ SizeOf(call.val) <= 0
        BY <1>2, <3>1, SizeOfType DEF SerInv, WriteEmpty
      <4> QED
        BY <4>1
    <3>2. CASE ~WriteEmpty
      BY <3>2 DEF WriteScalar, WriteText
    <3> QED
      BY <3>1, <3>2
  <2> QED
    BY <1>1, <1>2, <2>1, LeafLeft
<1>7. \E type, ptr, n :
        PutValue(type, ptr, n) /\ LeafWritten(w, v, root.limits, deep, x, type, ptr, n)
  <2>1. ASSUME arenaVars' = arenaVars, bytes' = bytes
        PROVE  TextsGrow(w, v) /\ SlotsGrow(w, v) /\ w.blocks \subseteq v.blocks
    <3>1. v.slots = w.slots /\ v.strings = w.strings /\ v.bytes = w.bytes /\ v.blocks = w.blocks
      BY <1>1, <2>1, MemoryParts DEF arenaVars
    <3> QED
      BY <3>1, TextsSame, SlotsSame
  <2>2. CASE WriteScalar
    <3>1. /\ val.kind = "scalar" /\ PutValue("scalar", val.val, 0)
          /\ arenaVars' = arenaVars /\ bytes' = bytes
      BY <1>1, <2>2 DEF WriteScalar
    <3>2. ~Cut(root.limits, deep, x) /\ val = x.val
      BY <1>5, <3>1
    <3>3. LeafWritten(w, v, root.limits, deep, x, "scalar", val.val, 0)
      BY <2>1, <3>1, <3>2 DEF LeafWritten, LeafValue
    <3> QED
      BY <3>1, <3>3
  <2>3. CASE WriteText
    <3>1. PICK k : /\ val.kind = "string" /\ Encode(val.text, k)
                   /\ PutValue("string", TextRef(val.text, k), 0)
      BY <1>1, <2>3 DEF WriteText
    <3>2. PICK text, ref : text = val.text /\ ref = TextRef(text, k)
      OBVIOUS
    <3>3. text \in Texts
      <4>1. IsValue(val)
        BY <1>1, <1>2 DEF SerInv, SerTypeOK, CallOK
      <4> QED
        BY <3>1, <3>2, <4>1 DEF IsValue, IsContainer, IsString
    <3>4. /\ TextsGrow(w, v) /\ SlotsGrow(w, v) /\ w.blocks \subseteq v.blocks
          /\ Encoded(v, ref) /\ HoldsText(v.bytes, ref, text)
      BY <1>1, <3>1, <3>2, <3>3, TextEncoded
    <3>5. /\ ~Cut(root.limits, deep, x) /\ x.val.kind = "string"
          /\ text = Truncated(x.val.text, root.limits.maxStringSize)
      BY <1>5, <3>1, <3>2
    <3>6. LeafWritten(w, v, root.limits, deep, x, "string", ref, 0)
      BY <3>4, <3>5 DEF LeafWritten, LeafValue
    <3> QED
      BY <3>1, <3>2, <3>6
  <2>4. CASE WriteEmpty
    <3>1. /\ val.kind \in {"list", "map"} /\ PutValue(val.kind, Absent, 0)
          /\ arenaVars' = arenaVars /\ bytes' = bytes
      BY <1>1, <2>4 DEF WriteEmpty
    <3>2. ~Cut(root.limits, deep, x) => SizeLeft(root.limits, x) = 0
      <4> SUFFICES ASSUME ~Cut(root.limits, deep, x) PROVE SizeLeft(root.limits, x) = 0
        OBVIOUS
      <4>1. ~(SizeLeft(root.limits, x) > 0)
        BY <1>1, <1>6 DEF Cut
      <4>2. SizeLeft(root.limits, x) \in Nat
        BY <1>3, SizeLeftNat
      <4> QED
        BY <4>1, <4>2
    <3>3. LeafWritten(w, v, root.limits, deep, x, val.kind, Absent, 0)
      BY <1>5, <2>1, <3>1, <3>2 DEF LeafWritten, LeafValue
    <3> QED
      BY <3>1, <3>3
  <2> QED
    BY <2>2, <2>3, <2>4
<1>8. PICK type, ptr, n :
        PutValue(type, ptr, n) /\ LeafWritten(w, v, root.limits, deep, x, type, ptr, n)
  BY <1>7
<1> QED
  BY <1>1, <1>2, <1>6, <1>8, TreeLeaf

(* writeArray and writeMap: the slot has its array, and a loop is open.    *)
LEMMA TreeContainer ==
  ASSUME SerInv, ArenaInv, Shaped, NEW X, WalkInv(X), NEW Z, NEW C, TreeInv(X, Z, C),
         NEW x, x = Visited(X), NEW V, V = <<x>> \o X, WriteContainer
  PROVE  Shaped' /\ \E Y : TreeInv(V, Y, C)'
<1>1. PICK w, v, a, num, deep, lim, rs, type :
        /\ w = Memory /\ v = Memory' /\ a = call.slot /\ num = SizeOf(call.val)
        /\ deep = (call.depth < 0) /\ lim = root.limits /\ rs = root.slot /\ type = call.val.kind
  OBVIOUS
<1>2. /\ phase = "value" /\ type \in {"list", "map"} /\ num > 0 /\ phase' = "loop"
      /\ call' = call /\ root' = root /\ bytes' = bytes
  BY <1>1 DEF WriteContainer
<1>3. PICK k, f :
        /\ AllocatePWArgs(num, FALSE, k)
        /\ PutValue(type, <<k, Start(slots, k)>>, num)
        /\ f = [seg |-> k, view |-> ViewIndex(k), i |-> 0, size |-> num,
                items |-> call.val.items, depth |-> call.depth]
        /\ stack' = <<f>> \o stack
  BY <1>1 DEF WriteContainer
<1>4. /\ x \in Visits /\ LimitsOK(lim) /\ LoopsOK(stack, lim) /\ stack \in Seq(Frame)
      /\ Started(stack)
  BY <1>1, <1>2, VisitedType DEF SerInv, SerTypeOK, WalkInv
<1>5. num \in Nat \ {0}
  BY <1>1, <1>2, SizeOfType DEF SerInv
<1>6. /\ Nest(Z, stack, X, rs) /\ TreeOK(w, lim, C, Elems(Z))
      /\ a = CurSlot(Z, rs) /\ Placed(w, a) /\ a \notin Taken(C) \cup LoopSlots(Elems(Z))
      /\ NameHeld(w, lim, a, x)
  BY <1>1, <1>2 DEF TreeInv
<1>7. f \in Frame /\ OpenLoop(lim, f, x)
  <2>1. SerInv' /\ WalkInv(V)'
    BY WalkContainer, WriteContainerInv
  <2>2. stack' \in Seq(Frame) /\ OpenLoops(lim, stack', V, RootVisit(root.val))
    BY <1>1, <1>2, <2>1 DEF SerInv, SerTypeOK, WalkInv
  <2>3. stack' # <<>> /\ stack'[1] = f
    <3>1. f = (<<f>> \o stack)[1] /\ <<f>> \o stack # <<>>
      <4> HIDE DEF Frame
      <4> QED
        BY <1>4
    <3> QED
      BY <1>3, <3>1
  <2>4. PICK s : s = stack'
    OBVIOUS
  <2>5. OpenLoop(lim, s[1], V[1]) /\ s[1] \in Frame
    <3>1. s \in Seq(Frame) /\ s # <<>> /\ OpenLoops(lim, s, V, RootVisit(root.val))
      BY <2>2, <2>3, <2>4
    <3>2. s[1] \in Frame
      BY <3>1, Popped
    <3> QED
      BY <3>1, <3>2, PopLoop
  <2>6. V[1] = x
    <3>1. X \in Seq(Visits)
      BY <1>6 DEF Nest
    <3> QED
      BY <1>4, <3>1, Pushed
  <2> QED
    BY <2>3, <2>4, <2>5, <2>6
<1>8. /\ f.seg = k /\ f.view = ViewIndex(k) /\ f.i = 0 /\ f.size = num /\ f.depth = call.depth
  BY <1>3
<1>9. type = x.val.kind /\ type # "string"
  <2>1. ~Cut(lim, deep, x)
    <3>1. call.depth \in Nat /\ ~OverLimit(lim, x)
      BY <1>7, <1>8 DEF OpenLoop
    <3>2. ~(call.depth < 0)
      BY <3>1
    <3>3. ~deep
      BY <1>1, <3>2
    <3> QED
      BY ONLY <3>1, <3>3, Zenon DEF Cut
  <2>2. call.val = LeftOf(lim, deep, x)
    BY <1>1, <1>2 DEF WalkInv
  <2> QED
    BY <1>1, <1>2, <1>4, <2>1, <2>2, LeftParts
<1>10. /\ SlotsGrow(w, v) /\ w.blocks \subseteq v.blocks /\ strings' = strings
       /\ \E b \in v.blocks :
            /\ b.seg = k /\ b.start = Start(slots, k) /\ b.num = num
            /\ k \in Nat /\ b.start \in Nat /\ b.view = ViewIndex(k)
            /\ \A i \in 1 .. num : /\ Place(b, i) \in Addrs /\ ~Placed(w, Place(b, i))
                                   /\ Placed(v, Place(b, i))
  <2>1. PICK compat : compat = FALSE
    OBVIOUS
  <2>2. AllocatePWArgs(num, compat, k)
    BY <1>3, <2>1, Zenon
  <2>3. compat \in BOOLEAN
    BY ONLY <2>1, Zenon
  <2>4. /\ SlotsGrow(w, v) /\ w.blocks \subseteq v.blocks /\ strings' = strings
        /\ \E b \in v.blocks :
             /\ b \notin w.blocks /\ b.seg = k /\ b.start = Start(slots, k) /\ b.num = num
             /\ k \in Nat /\ b.start \in Nat
             /\ b.view = IF compat THEN 0 ELSE ViewIndex(k)
             /\ \A i \in 1 .. num : /\ Place(b, i) \in Addrs /\ ~Placed(w, Place(b, i))
                                    /\ Placed(v, Place(b, i))
    BY <1>1, <1>5, <2>2, <2>3, ArrayAllocated
  <2>5. ~compat
    BY ONLY <2>1, Zenon
  <2> QED
    BY <2>4, <2>5
<1>11. PICK b \in v.blocks :
            /\ b.seg = k /\ b.start = Start(slots, k) /\ b.num = num
            /\ k \in Nat /\ b.start \in Nat /\ b.view = ViewIndex(k)
            /\ \A i \in 1 .. num : /\ Place(b, i) \in Addrs /\ ~Placed(w, Place(b, i))
                                   /\ Placed(v, Place(b, i))
  BY <1>10
<1>12. PICK z : z = [frame |-> f, visit |-> x, slot |-> a, start |-> b.start]
  OBVIOUS
<1>13. z \in Opens /\ z.frame = f /\ z.visit = x /\ z.slot = a /\ z.start = b.start
  <2>1. a \in Addrs
    BY <1>6 DEF Placed
  <2> HIDE DEF Frame, Visits, Addrs
  <2> QED
    BY <1>4, <1>7, <1>11, <1>12, <2>1 DEF Opens
<1>14. \A i : At(z, i) = Place(b, i)
  BY <1>8, <1>11, <1>13 DEF At, Place
<1>15. /\ a \in DOMAIN v.mem /\ v.mem[a].name = w.mem[a].name
       /\ v.mem[a].type = type /\ v.mem[a].ptr = <<k, b.start>> /\ v.mem[a].n = num
       /\ \A c \in DOMAIN w.mem : c # a => c \in DOMAIN v.mem /\ v.mem[c] = w.mem[c]
       /\ Shaped'
  <2>1. /\ a \in DOMAIN mem' /\ mem'[a].name = Slot(a).name
        /\ mem'[a].type = type /\ mem'[a].ptr = <<k, Start(slots, k)>> /\ mem'[a].n = num
        /\ \A c \in DOMAIN mem : c # a => c \in DOMAIN mem' /\ mem'[c] = mem[c]
        /\ Shaped'
    <3>1. PICK ptr : ptr = <<k, Start(slots, k)>>
      OBVIOUS
    <3>2. PutValue(type, ptr, num)
      BY <1>3, <3>1
    <3> QED
      BY <1>1, <3>1, <3>2, ValueWritten
  <2>2. a \in DOMAIN w.mem
    BY <1>6 DEF NameHeld
  <2>3. Slot(a) = mem[a]
    BY <1>1, <2>2, MemoryParts DEF Slot
  <2> QED
    BY <1>1, <1>11, <2>1, <2>3, MemoryParts
<1>16. TextsGrow(w, v)
  BY <1>1, <1>2, <1>10, MemoryParts, TextsSame
<1>17. Wrote(w, v, a)
  BY <1>10, <1>15, <1>16 DEF Wrote
<1>18. TreeOK(v, lim, C, Elems(Z))
  BY <1>6, <1>17, TreeWritten
<1>19. FreeFrom(Elems(Z), {a})
  BY <1>4, <1>6, CurrentFrees
<1>20. LoopHeld(v, lim, z)
  <2>1. Placed(v, a)
    BY <1>6, <1>10 DEF SlotsGrow
  <2>2. Encoded(w, w.mem[a].name) /\ HoldsName(w.mem, w.bytes, lim, a, x)
    BY <1>6 DEF NameHeld
  <2>3. Encoded(v, v.mem[a].name)
    BY <1>15, <1>16, <2>2 DEF TextsGrow
  <2>4. Stays(v, a)
    BY <1>9, <1>15, <2>1, <2>3 DEF Stays
  <2>5. HoldsName(v.mem, v.bytes, lim, a, x)
    <3>1. PICK t : t = Truncated(x.name, lim.maxStringSize)
      OBVIOUS
    <3>2. HoldsText(w.bytes, w.mem[a].name, t)
      BY <2>2, <3>1 DEF HoldsName
    <3>3. HoldsText(v.bytes, w.mem[a].name, t)
      BY <1>16, <2>2, <3>2, TextStays
    <3> QED
      BY <1>15, <3>1, <3>3 DEF HoldsName
  <2>6. ViewIndex(k) # 0
    <3>1. nextView \in Seq(Nat)
      BY DEF ArenaInv, ArenaTypeOK
    <3>2. k <= Len(nextView) => nextView[k] \in Nat
      <4>1. k \in 1 .. Len(slots'.cap)
        <5>1. 1 \in 1 .. num
          BY <1>5
        <5>2. Placed(v, Place(b, 1)) /\ Place(b, 1)[1] = k
          BY <1>11, <5>1 DEF Place
        <5> QED
          BY <1>1, <5>2, MemoryParts DEF Placed
      <4> QED
        BY <1>11, <3>1, <4>1
    <3> QED
      BY <3>2 DEF ViewIndex
  <2>7. InBlock(v, z)
    BY <1>8, <1>11, <1>13, <2>6 DEF InBlock
  <2> QED
    BY <1>8, <1>9, <1>11, <1>13, <1>14, <1>15, <2>4, <2>5, <2>7 DEF LoopHeld
<1>21. \A i \in 1 .. num : At(z, i) \notin Taken(C) \cup LoopSlots(Elems(Z)) \cup {a}
  <2>1. \A c \in C : Placed(w, c.slot)
    BY <1>6 DEF TreeOK, ClaimsOK, Stays
  <2>2. \A y \in Elems(Z) : Placed(w, y.slot)
    BY <1>6 DEF TreeOK, LoopHeld, Stays
  <2> QED
    BY <1>6, <1>11, <1>14, <2>1, <2>2 DEF Taken, LoopSlots
<1>22. ASSUME NEW y \in Elems(Z)
       PROVE  \A i \in 1 .. num, j \in 1 .. y.frame.size : At(z, i) # At(y, j)
  <2>1. \A j \in 1 .. y.frame.size : Placed(w, At(y, j))
    BY <1>6 DEF TreeOK, LoopHeld
  <2> QED
    BY <1>11, <1>14, <2>1
<1>23. TreeOK(v, lim, C, Elems(Z) \cup {z})
  BY <1>8, <1>13, <1>18, <1>19, <1>20, <1>21, <1>22, TreeOpened
<1>24. PICK Y : Y = <<z>> \o Z
  OBVIOUS
<1>25. Nest(Y, stack', V, rs) /\ Elems(Y) = Elems(Z) \cup {z}
  <2>1. PICK t : t = stack'
    OBVIOUS
  <2>2. t = <<z.frame>> \o stack /\ V = <<z.visit>> \o X
    BY <1>3, <1>13, <2>1
  <2>3. /\ z.slot = CurSlot(Z, rs) /\ z.frame \in Frame /\ z.visit \in Visits /\ z \in Opens
        /\ stack \in Seq(Frame) /\ Nest(Z, stack, X, rs)
    BY <1>4, <1>6, <1>7, <1>13
  <2>4. Nest(Y, t, V, rs) /\ Elems(Y) = Elems(Z) \cup {z}
    <3>1. OnTop(Z, rs, z, Y, t, V)
      BY ONLY <1>24, <2>2, <2>3, NestPush
    <3> QED
      BY ONLY <3>1 DEF OnTop
  <2> QED
    BY <2>1, <2>4
<1>26. ~Started(stack')
  <2>1. (<<f>> \o stack)[1] = f /\ <<f>> \o stack # <<>>
    <3> HIDE DEF Frame
    <3> QED
      BY <1>4, <1>7
  <2> QED
    BY <1>3, <1>8, <2>1 DEF Started
<1>27. TreeInv(V, Y, C)'
  BY <1>1, <1>2, <1>23, <1>25, <1>26 DEF TreeInv
<1> QED
  BY <1>15, <1>27

(* The view of the loop still names its array, so the next element goes    *)
(* where no claim is.                                                      *)
LEMMA TreeNext ==
  ASSUME SerInv, ArenaInv, Shaped, NEW X, WalkInv(X), NEW Z, NEW C, TreeInv(X, Z, C), NextElement
  PROVE  Shaped' /\ \E Y : TreeInv(X, Y, C)'
<1>1. PICK w, f, lim, rs, top, t, z, R, V :
        /\ w = Memory /\ f = Head(stack) /\ lim = root.limits /\ rs = root.slot
        /\ top = RootVisit(root.val) /\ t = Tail(stack) /\ z = Z[1] /\ R = Tail(Z) /\ V = Tail(X)
  OBVIOUS
<1>2. PICK g : Turned(g, f)
  BY DEF Turned
<1>3. /\ phase = "loop" /\ phase' = "enter" /\ stack # <<>> /\ stack \in Seq(Frame)
      /\ stack' = <<g>> \o t /\ f.items # <<>> /\ f.i < f.size
      /\ root' = root /\ mem' = mem /\ bytes' = bytes /\ arenaVars' = arenaVars
      /\ call'.slot = <<f.seg, views[f.seg][f.view].start + f.i>>
  BY <1>1, <1>2, SMTT(30) DEF NextElement, SerInv, SerTypeOK, Turned, dataVars
<1>4. f \in Frame /\ t \in Seq(Frame) /\ f = stack[1]
  BY <1>1, <1>3, Popped, SMTT(30)
<1>5. /\ f.i \in Nat /\ f.size \in Nat /\ f.depth \in Int /\ g \in Frame /\ g.i = f.i + 1
      /\ g.size = f.size /\ g.depth = f.depth /\ g.seg = f.seg /\ g.view = f.view
  <2>1. /\ f.i \in Nat /\ f.size \in Nat /\ f.depth \in Int /\ g \in Frame /\ g.i = f.i + 1
        /\ g.size = f.size /\ g.depth = f.depth
    BY <1>2, <1>3, <1>4, NextFrame, ZenonT(30) DEF Turned
  <2>2. g.seg = f.seg /\ g.view = f.view
    <3>1. f = [seg |-> f.seg, view |-> f.view, i |-> f.i, size |-> f.size, items |-> f.items,
               depth |-> f.depth]
      BY <1>4 DEF Frame
    <3> QED
      BY <1>2, <3>1 DEF Turned
  <2> QED
    BY <2>1, <2>2, SMTT(30)
<1>6. /\ Nest(Z, stack, X, rs) /\ TreeOK(w, lim, C, Elems(Z))
      /\ Started(stack) => CurClaim(lim, Z, rs, top) \in C
  BY <1>1, <1>3 DEF TreeInv
<1>7. /\ z \in Opens /\ z.frame = f /\ z.visit = X[1] /\ z.slot = CurSlot(R, rs)
      /\ Nest(R, t, V, rs) /\ Elems(Z) = Elems(R) \cup {z} /\ Z = <<z>> \o R
  <2>1. Innermost(Z, stack, X, rs, z, R, t, V)
    BY <1>1, <1>3, <1>6, NestPop
  <2> QED
    BY <1>4, <2>1 DEF Innermost
<1>8. X = <<z.visit>> \o V /\ z.visit \in Visits
  <2>1. OpenLoops(lim, stack, X, top)
    BY <1>1 DEF WalkInv
  <2> QED
    BY <1>1, <1>3, <1>7, <2>1, PopLoop
<1>9. PICK y : y = [frame |-> g, visit |-> z.visit, slot |-> z.slot, start |-> z.start]
  OBVIOUS
<1>10. /\ y \in Opens /\ y.frame = g /\ y.visit = z.visit /\ y.slot = z.slot /\ y.start = z.start
       /\ z.start \in Nat
  <2> HIDE DEF Frame, Visits, Addrs
  <2> QED
    BY <1>5, <1>7, <1>9 DEF Opens
<1>11. f.i >= 1 => ItemClaim(lim, z, f.i) \in C
  <2> SUFFICES ASSUME f.i >= 1 PROVE ItemClaim(lim, z, f.i) \in C
    OBVIOUS
  <2>1. Started(stack)
    BY <1>4 DEF Started
  <2>2. Z # <<>>
    <3>1. Len(Z) = Len(stack) /\ Z \in Seq(Opens)
      BY <1>6 DEF Nest
    <3> QED
      BY <1>3, <3>1, NoLength
  <2> QED
    BY <1>1, <1>6, <1>7, <2>1, <2>2 DEF CurClaim
<1>12. TreeOK(w, lim, C, Elems(R) \cup {y})
  BY <1>5, <1>6, <1>7, <1>10, <1>11, TreeTurned
<1>13. PICK Y : Y = <<y>> \o R
  OBVIOUS
<1>14. Nest(Y, stack', X, rs) /\ Elems(Y) = Elems(R) \cup {y} /\ CurSlot(Y, rs) = At(y, g.i)
  <2>1. PICK s : s = stack'
    OBVIOUS
  <2>2. s = <<y.frame>> \o t /\ X = <<y.visit>> \o V
    BY <1>3, <1>8, <1>10, <2>1
  <2>3. /\ y.slot = CurSlot(R, rs) /\ y.frame \in Frame /\ y.visit \in Visits /\ y \in Opens
        /\ t \in Seq(Frame) /\ Nest(R, t, V, rs)
    BY <1>4, <1>5, <1>7, <1>8, <1>10
  <2>4. OnTop(R, rs, y, Y, s, X)
    BY ONLY <1>13, <2>2, <2>3, NestPush
  <2> QED
    BY <1>10, <2>1, <2>4 DEF OnTop
<1>15. LoopHeld(w, lim, z) /\ FreeFrom(Elems(Z), Taken(C) \cup LoopSlots(Elems(Z)))
  BY <1>6, <1>7 DEF TreeOK
<1>16. call'.slot = At(y, g.i) /\ call'.slot = At(z, f.i + 1)
  <2>1. PICK b \in blocks : /\ b.seg = f.seg /\ b.start = z.start /\ b.num = f.size
                            /\ b.view = f.view /\ b.view # 0
    <3>1. w.blocks = blocks
      BY <1>1 DEF Memory
    <3> QED
      BY <1>7, <1>15, <3>1 DEF LoopHeld, InBlock
  <2>2. views[b.seg][b.view] = [start |-> b.start, num |-> b.num]
    BY <2>1 DEF ArenaInv, ViewsStable
  <2>3. views[f.seg][f.view].start = z.start
    BY <2>1, <2>2
  <2>4. z.start + f.i = z.start + (f.i + 1) - 1
    BY <1>5, <1>10
  <2> QED
    BY <1>3, <1>5, <1>7, <1>10, <2>3, <2>4 DEF At
<1>17. f.i + 1 \in 1 .. f.size /\ f.i + 1 > f.i
  BY <1>3, <1>5
<1>18. Placed(w, call'.slot)
  BY <1>7, <1>15, <1>16, <1>17 DEF LoopHeld
<1>19. call'.slot \notin Taken(C) \cup LoopSlots(Elems(Z))
  BY <1>7, <1>15, <1>16, <1>17, ZenonT(30) DEF FreeFrom
<1>20. LoopSlots(Elems(Y)) = LoopSlots(Elems(Z))
  BY <1>7, <1>10, <1>14 DEF LoopSlots
<1>21. Memory' = Memory /\ Shaped'
  BY <1>3 DEF Memory, Shaped, arenaVars
<1>22. TreeInv(X, Y, C)'
  BY <1>1, <1>3, <1>12, <1>14, <1>16, <1>18, <1>19, <1>20, <1>21 DEF TreeInv
<1> QED
  BY <1>21, <1>22

(* The container of a loop that is left can be read back.                  *)
LEMMA TreeEnd ==
  ASSUME SerInv, ArenaInv, Shaped, NEW X, WalkInv(X), NEW Z, NEW C, TreeInv(X, Z, C), EndLoop
  PROVE  Shaped' /\ \E Y, D : TreeInv(Tail(X), Y, D)' /\ C \subseteq D
<1>1. PICK w, f, lim, rs, top, t, z, R, V :
        /\ w = Memory /\ f = Head(stack) /\ lim = root.limits /\ rs = root.slot
        /\ top = RootVisit(root.val) /\ t = Tail(stack) /\ z = Z[1] /\ R = Tail(Z) /\ V = Tail(X)
  OBVIOUS
<1>2. /\ phase = "loop" /\ phase' = "loop" /\ stack # <<>> /\ stack \in Seq(Frame)
      /\ stack' = t /\ f.i = f.size
      /\ root' = root /\ mem' = mem /\ bytes' = bytes /\ arenaVars' = arenaVars
  BY <1>1 DEF EndLoop, SerInv, SerTypeOK, dataVars
<1>3. f \in Frame /\ t \in Seq(Frame) /\ f = stack[1] /\ Len(stack) = Len(t) + 1
  BY <1>1, <1>2, Popped
<1>4. LimitsOK(lim) /\ LoopsOK(stack, lim) /\ lim \in AllLimits
  BY <1>1, <1>2, RootLimits DEF SerInv, SerTypeOK, LevelsOK
<1>5. /\ Nest(Z, stack, X, rs) /\ TreeOK(w, lim, C, Elems(Z))
      /\ Started(stack) => CurClaim(lim, Z, rs, top) \in C
  BY <1>1, <1>2 DEF TreeInv
<1>6. /\ z \in Opens /\ z.frame = f /\ z.visit = X[1] /\ z.slot = CurSlot(R, rs)
      /\ Nest(R, t, V, rs) /\ Elems(Z) = Elems(R) \cup {z}
  <2>1. Innermost(Z, stack, X, rs, z, R, t, V)
    BY <1>1, <1>2, <1>5, NestPop
  <2> QED
    BY <1>3, <2>1 DEF Innermost
<1>7. OpenLoop(lim, f, z.visit) /\ z.visit = Current(lim, t, V, top)
  <2>1. OpenLoops(lim, stack, X, top)
    BY <1>1 DEF WalkInv
  <2>2. OpenLoop(lim, stack[1], X[1]) /\ X[1] = Current(lim, Tail(stack), Tail(X), top)
    <3>1. stack \in Seq(Frame) /\ stack # <<>>
      BY <1>2
    <3>2. /\ OpenLoops(lim, Tail(stack), Tail(X), top) /\ Started(Tail(stack))
          /\ X = <<X[1]>> \o Tail(X) /\ X[1] = Current(lim, Tail(stack), Tail(X), top)
          /\ X[1] \in Visits /\ OpenLoop(lim, stack[1], X[1])
      BY ONLY <2>1, <3>1, PopLoop
    <3> QED
      BY ONLY <3>2
  <2> QED
    BY <1>1, <1>3, <1>6, <2>2
<1>8. f.i >= 1 => ItemClaim(lim, z, f.i) \in C
  <2> SUFFICES ASSUME f.i >= 1 PROVE ItemClaim(lim, z, f.i) \in C
    OBVIOUS
  <2>1. Started(stack)
    BY <1>3 DEF Started
  <2>2. Z # <<>>
    <3>1. Len(Z) = Len(stack) /\ Z \in Seq(Opens)
      BY <1>5 DEF Nest
    <3> QED
      BY <1>2, <3>1, NoLength
  <2> QED
    BY <1>1, <1>5, <1>6, <2>1, <2>2 DEF CurClaim
<1>9. SizeLeft(lim, z.visit) = f.size
  BY <1>2, <1>3, <1>4, <1>7, LoopDone
<1>10. PICK c : c = Claim(lim, f.depth + 1, z.slot, z.visit)
  OBVIOUS
<1>11. TreeOK(w, lim, C \cup {c}, Elems(R))
  BY <1>2, <1>4, <1>5, <1>6, <1>7, <1>8, <1>9, <1>10, TreeClosed
<1>12. LoopsOK(t, lim)
  <2>1. lim.maxDepth \in Int
    BY <1>4 DEF LimitsOK
  <2> QED
    BY <1>1, <1>2, <1>4, <2>1, PopLevels
<1>13. f.depth = lim.maxDepth - Len(t)
  <2>1. f.depth = lim.maxDepth - Len(stack) + 1
    <3>1. stack[1].depth = lim.maxDepth - Len(stack) + 1
      BY <1>2, <1>4, NestDepths
    <3> QED
      BY ONLY <1>3, <3>1
  <2>2. lim.maxDepth \in Nat /\ Len(t) \in Nat
    BY <1>3, <1>4, NoLength DEF LimitsOK
  <2>3. PICK m, n : m = lim.maxDepth /\ n = Len(t)
    OBVIOUS
  <2>4. m \in Nat /\ n \in Nat /\ f.depth = m - (n + 1) + 1
    BY <1>3, <2>1, <2>2, <2>3
  <2>5. f.depth = m - n
    BY ONLY <2>4
  <2> QED
    BY ONLY <2>3, <2>5
<1>14. CurClaim(lim, R, rs, top) = c
  BY <1>3, <1>4, <1>6, <1>7, <1>10, <1>12, <1>13, CurClaimIs
<1>15. Memory' = Memory /\ Shaped'
  BY <1>2 DEF Memory, Shaped, arenaVars
<1>16. TreeInv(V, R, C \cup {c})'
  BY <1>1, <1>2, <1>6, <1>11, <1>14, <1>15 DEF TreeInv
<1> QED
  BY <1>1, <1>15, <1>16

-----------------------------------------------------------------------------
(* What the roots that were returned need is claimed, and the serializer   *)
(* is building the tree of the next.                                       *)
Building(C) == \E X, Z : WalkInv(X) /\ TreeInv(X, Z, C)

HeldInv ==
  /\ Shaped
  /\ \E C : /\ ClaimsOK(Memory, C)
            /\ \A r \in roots : RootClaim(r.call) \in C
            /\ phase # "idle" => Building(C)

LEMMA HeldRun ==
  ASSUME SerInv, ArenaInv, Shaped, NEW X, WalkInv(X), NEW Z, NEW C, TreeInv(X, Z, C),
         phase # "idle", Step, phase' # "idle"
  PROVE  Shaped' /\ \E D : Building(D)' /\ C \subseteq D
<1>1. CASE Enter
  BY <1>1, WalkEnter, TreeEnter DEF Building
<1>2. CASE WriteScalar \/ WriteText \/ WriteEmpty
  <2>1. WalkInv(X)'
    <3>1. /\ phase = "value" /\ phase' = "loop" /\ stack' = stack /\ root' = root
          /\ remaining' = remaining /\ metrics' = metrics
      BY <1>2 DEF WriteScalar, WriteText, WriteEmpty
    <3>2. call.val.kind \in {"list", "map"} => ~(SizeOf(call.val) > 0)
      <4>1. CASE WriteEmpty
        <5>1. SizeOf(call.val) \in Int /\ SizeOf(call.val) <= 0
          BY <3>1, <4>1, SizeOfType DEF SerInv, WriteEmpty
        <5> QED
          BY <5>1
      <4>2. CASE ~WriteEmpty
        BY <1>2, <4>2 DEF WriteScalar, WriteText
      <4> QED
        BY <4>1, <4>2
    <3> QED
      BY <3>1, <3>2, LeafLeft, WalkWritten
  <2>2. PICK D : TreeInv(X, Z, D)' /\ C \subseteq D /\ Shaped'
    BY <1>2, TreeWrite
  <2> QED
    BY <2>1, <2>2 DEF Building
<1>3. CASE WriteContainer
  <2>1. PICK x, V : x = Visited(X) /\ V = <<x>> \o X
    OBVIOUS
  <2>2. WalkInv(V)'
    BY <1>3, <2>1, WalkContainer
  <2>3. PICK Y : TreeInv(V, Y, C)' /\ Shaped'
    BY <1>3, <2>1, TreeContainer
  <2> QED
    BY <2>2, <2>3 DEF Building
<1>4. CASE NextElement
  <2>1. WalkInv(X)'
    BY <1>4, WalkNext
  <2>2. PICK Y : TreeInv(X, Y, C)' /\ Shaped'
    BY <1>4, TreeNext
  <2> QED
    BY <2>1, <2>2 DEF Building
<1>5. CASE EndLoop
  <2>1. WalkInv(Tail(X))'
    BY <1>5, WalkEnd
  <2>2. PICK Y, D : TreeInv(Tail(X), Y, D)' /\ C \subseteq D /\ Shaped'
    BY <1>5, TreeEnd
  <2> QED
    BY <2>1, <2>2 DEF Building
<1>6. CASE NameTooLarge \/ TextTooLarge \/ Modified \/ ApplicationThrows \/ Return
  BY <1>6 DEF NameTooLarge, TextTooLarge, Modified, ApplicationThrows, Return, Throw, Leave
<1>7. CASE CountElement
  <2>1. WalkInv(X)'
    BY <1>7, CountWalks
  <2>2. /\ phase' = phase /\ call' = call /\ stack' = stack /\ root' = root /\ mem' = mem
        /\ bytes' = bytes /\ arenaVars' = arenaVars
    BY <1>7 DEF CountElement, dataVars
  <2>3. Memory' = Memory /\ Shaped'
    BY <2>2 DEF Memory, Shaped, arenaVars
  <2>4. TreeInv(X, Z, C)'
    BY <2>2, <2>3 DEF TreeInv, Visited
  <2> QED
    BY <2>1, <2>3, <2>4 DEF Building
<1> QED
  BY <1>1, <1>2, <1>3, <1>4, <1>5, <1>6, <1>7 DEF Step

(* What was returned is what was claimed for the root.                     *)
LEMMA RootClaimed ==
  ASSUME NEW X, NEW Z, NEW C, TreeInv(X, Z, C), Return
  PROVE  RootClaim(root) \in C
<1>1. phase = "loop" /\ stack = <<>>
  BY DEF Return
<1>2. Started(stack)
  BY <1>1 DEF Started
<1>3. Z = <<>>
  <2>1. Z \in Seq(Opens) /\ Len(Z) = 0
    BY <1>1 DEF TreeInv, Nest
  <2> QED
    BY <2>1, NoLength
<1> QED
  BY <1>1, <1>2, <1>3 DEF TreeInv, CurClaim, RootClaim

LEMMA HeldStepInv ==
  ASSUME SerInv, ArenaInv, MetricsInv, HeldInv, [SerNext]_serVars
  PROVE  HeldInv'
<1>1. PICK C : /\ ClaimsOK(Memory, C) /\ \A r \in roots : RootClaim(r.call) \in C
               /\ phase # "idle" => Building(C)
  BY DEF HeldInv
<1>2. Shaped
  BY DEF HeldInv
<1>3. ASSUME NEW m \in Maps, NEW lim \in AllLimits, SerializeMap(m, lim)
      PROVE  HeldInv'
  <2>1. phase = "idle" /\ roots' = roots /\ mem' = mem
    BY <1>3 DEF SerializeMap, dataVars
  <2>2. WalkInv(<<>>)'
    BY <1>3, <2>1, WalkStart DEF MetricsInv
  <2>3. TreeInv(<<>>, <<>>, C)' /\ ClaimsOK(Memory, C)'
    BY <1>1, <1>3, TreeStart
  <2> QED
    BY <1>1, <1>2, <2>1, <2>2, <2>3 DEF HeldInv, Building, Shaped
<1>4. CASE Step
  <2>1. phase # "idle"
    BY <1>4 DEF Step, CountElement, Enter, NameTooLarge, WriteScalar, WriteText, TextTooLarge, WriteEmpty,
       WriteContainer, NextElement, EndLoop, Modified, ApplicationThrows, Return
  <2>2. PICK X, Z : WalkInv(X) /\ TreeInv(X, Z, C)
    BY <1>1, <2>1 DEF Building
  <2>3. CASE phase' # "idle"
    <3>1. PICK D : Building(D)' /\ C \subseteq D /\ Shaped'
      BY <1>2, <1>4, <2>1, <2>2, <2>3, HeldRun
    <3>2. ClaimsOK(Memory, D)'
      BY <3>1 DEF Building, TreeInv, TreeOK
    <3>3. roots' = roots
      <4>1. ~Return
        BY <2>3 DEF Return, Leave
      <4> QED
        BY <1>4, <4>1, RootsKept
    <3> QED
      BY <1>1, <3>1, <3>2, <3>3 DEF HeldInv
  <2>4. CASE phase' = "idle"
    <3>1. Memory' = Memory /\ Shaped'
      <4>1. mem' = mem /\ bytes' = bytes /\ arenaVars' = arenaVars
        BY <1>4, <2>4 DEF Step, CountElement, Enter, NameTooLarge, WriteScalar, WriteText, TextTooLarge,
           WriteEmpty, WriteContainer, NextElement, EndLoop, Modified, ApplicationThrows, Return,
           dataVars
      <4> QED
        BY <1>2, <4>1 DEF Memory, Shaped, arenaVars
    <3>2. \A r \in roots' : RootClaim(r.call) \in C
      <4>1. CASE Return
        <5>1. roots' = roots \cup {[call |-> root, metrics |-> metrics]}
          BY <4>1 DEF Return
        <5>2. RootClaim(root) \in C
          BY <2>2, <4>1, RootClaimed
        <5> QED
          BY <1>1, <5>1, <5>2
      <4>2. CASE ~Return
        BY <1>1, <1>4, <4>2, RootsKept
      <4> QED
        BY <4>1, <4>2
    <3> QED
      BY <1>1, <2>4, <3>1, <3>2 DEF HeldInv
  <2> QED
    BY <2>3, <2>4
<1>5. CASE Release
  <2>1. phase = "idle" /\ phase' = phase /\ roots' = {} /\ mem' = mem
    BY <1>5 DEF Release, callVars, dataVars
  <2>2. ClaimsOK(Memory, {})'
    BY DEF ClaimsOK
  <2> QED
    BY <1>2, <2>1, <2>2 DEF HeldInv, Shaped
<1>6. CASE UNCHANGED serVars
  <2>1. /\ phase' = phase /\ metrics' = metrics /\ roots' = roots /\ root' = root /\ call' = call
        /\ stack' = stack /\ remaining' = remaining /\ mem' = mem /\ bytes' = bytes
        /\ arenaVars' = arenaVars
    BY <1>6 DEF serVars, callVars, histVars, dataVars
  <2>2. Memory' = Memory /\ Shaped'
    BY <1>2, <2>1 DEF Memory, Shaped, arenaVars
  <2>3. \A X : WalkInv(X) => WalkInv(X)'
    BY <2>1 DEF WalkInv, Visited, SoFar, MaxString
  <2>4. \A X, Z : TreeInv(X, Z, C) => TreeInv(X, Z, C)'
    BY <2>1, <2>2 DEF TreeInv, Visited
  <2>5. Building(C) => Building(C)'
    BY <2>3, <2>4 DEF Building
  <2> QED
    BY <1>1, <2>1, <2>2, <2>5 DEF HeldInv
<1> QED
  BY <1>3, <1>4, <1>5, <1>6 DEF SerNext

LEMMA HeldIntact ==
  ASSUME HeldInv
  PROVE  RootsIntact
<1>1. PICK C : ClaimsOK(Memory, C) /\ \A r \in roots : RootClaim(r.call) \in C
  BY DEF HeldInv
<1>2. C \in SUBSET Claims /\ \A c \in C : ClaimHeld(mem, bytes, C, c)
  BY <1>1 DEF ClaimsOK, Memory
<1>3. \A c \in C : Holds(mem, bytes, c.limits)[c.level][<<c.slot, c.visit>>]
  BY <1>2, ClaimsHold
<1>4. ASSUME NEW r \in roots
      PROVE  Holds(mem, bytes, r.call.limits)[r.call.limits.maxDepth + 1]
               [<<r.call.slot, RootVisit(r.call.val)>>]
  <2>1. PICK c \in C : c = RootClaim(r.call)
    BY <1>1
  <2>2. /\ c.limits = r.call.limits /\ c.level = r.call.limits.maxDepth + 1
        /\ c.slot = r.call.slot /\ c.visit = RootVisit(r.call.val)
    BY <2>1 DEF RootClaim, Claim
  <2>3. Holds(mem, bytes, c.limits)[c.level][<<c.slot, c.visit>>]
    BY <1>3
  <2> QED
    BY ONLY <2>2, <2>3
<1> QED
  BY <1>4 DEF RootsIntact

(* Whatever is serialized into a lease, in whatever order and however it   *)
(* ends, everything serializeMore has returned can be read back as the     *)
(* value it stands for, cut to its limits and to nothing less.             *)
THEOREM RootsAlwaysIntact == SerSpec => []RootsIntact
<1>1. SerInit => HeldInv
  <2> SUFFICES ASSUME SerInit PROVE HeldInv
    OBVIOUS
  <2>1. phase = "idle" /\ roots = {} /\ mem = <<>>
    BY DEF SerInit
  <2>2. Shaped
    BY <2>1 DEF Shaped
  <2>3. ClaimsOK(Memory, {})
    BY DEF ClaimsOK
  <2> QED
    BY <2>1, <2>2, <2>3 DEF HeldInv
<1>2. SerInv /\ ArenaInv /\ MetricsInv /\ HeldInv /\ [SerNext]_serVars => HeldInv'
  BY HeldStepInv
<1>3. SerSpec => []HeldInv
  BY <1>1, <1>2, SerializerInvariant, MetricsInvariant, PTL DEF SerSpec
<1>4. HeldInv => RootsIntact
  BY HeldIntact
<1> QED
  BY <1>3, <1>4, PTL

=============================================================================
