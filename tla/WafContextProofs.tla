--------------------------- MODULE WafContextProofs ---------------------------
(***************************************************************************)
(* Proofs about ArenaPool and WafContext, for any number of threads,       *)
(* contexts and arenas: the pool hands an arena to one holder at a time,   *)
(* as ExclusivePool asks; the library keeps the contract of the pool; and  *)
(* what libddwaf points to stays where it is.                              *)
(***************************************************************************)
EXTENDS WafContext, TLAPS

(* Taking the first arena off a pool without duplicates removes it.        *)
LEMMA TailOfPool ==
  ASSUME NEW S, NEW q \in Seq(S), q # <<>>, IsInjective(q)
  PROVE  /\ Head(q) \in S
         /\ Tail(q) \in Seq(S)
         /\ IsInjective(Tail(q))
         /\ Range(Tail(q)) = Range(q) \ {Head(q)}
  <1> DEFINE r == Tail(q)
  <1>1. /\ r \in Seq(S)
        /\ Head(q) \in S
        /\ Head(q) = q[1]
        /\ DOMAIN q = 1..Len(q)
        /\ DOMAIN r = 1..(Len(q) - 1)
        /\ Len(q) \in Nat \ {0}
        /\ \A i \in 1..(Len(q) - 1) : r[i] = q[i + 1]
    OBVIOUS
  <1> HIDE DEF r
  <1>2. IsInjective(r)
    <2> SUFFICES ASSUME NEW i \in DOMAIN r, NEW j \in DOMAIN r, r[i] = r[j]
                 PROVE  i = j
      BY DEF IsInjective
    <2>1. i + 1 \in DOMAIN q /\ j + 1 \in DOMAIN q /\ q[i + 1] = q[j + 1]
      BY <1>1
    <2>2. QED
      BY <1>1, <2>1 DEF IsInjective
  <1>3. Range(r) \subseteq Range(q) \ {Head(q)}
    BY <1>1 DEF IsInjective, Range
  <1>4. ASSUME NEW x \in Range(q), x # Head(q)
        PROVE  x \in Range(r)
    <2>1. PICK i \in 1..Len(q) : x = q[i]
      BY <1>1, <1>4 DEF Range
    <2>2. i # 1 /\ i - 1 \in 1..(Len(q) - 1)
      BY <1>1, <1>4, <2>1
    <2>3. r[i - 1] = x
      BY <1>1, <2>1, <2>2
    <2>4. QED
      BY <1>1, <2>2, <2>3 DEF Range
  <1>5. QED
    BY <1>1, <1>2, <1>3, <1>4 DEF r

(* Putting an arena in front of a pool that does not contain it adds it.   *)
LEMMA ConsToPool ==
  ASSUME NEW S, NEW q \in Seq(S), IsInjective(q), NEW a \in S, a \notin Range(q)
  PROVE  /\ <<a>> \o q \in Seq(S)
         /\ IsInjective(<<a>> \o q)
         /\ Range(<<a>> \o q) = Range(q) \cup {a}
  <1> DEFINE r == <<a>> \o q
  <1>1. /\ r \in Seq(S)
        /\ DOMAIN q = 1..Len(q)
        /\ DOMAIN r = 1..(Len(q) + 1)
        /\ Len(q) \in Nat
        /\ r[1] = a
        /\ \A i \in 2..(Len(q) + 1) : r[i] = q[i - 1]
    OBVIOUS
  <1> HIDE DEF r
  <1>2. \A i \in 1..Len(q) : q[i] # a
    BY <1>1 DEF Range
  <1>3. IsInjective(r)
    <2> SUFFICES ASSUME NEW i \in DOMAIN r, NEW j \in DOMAIN r, r[i] = r[j]
                 PROVE  i = j
      BY DEF IsInjective
    <2>1. CASE i = 1 \/ j = 1
      BY <1>1, <1>2, <2>1
    <2>2. CASE i # 1 /\ j # 1
      <3>1. i - 1 \in DOMAIN q /\ j - 1 \in DOMAIN q /\ q[i - 1] = q[j - 1]
        BY <1>1, <2>2
      <3>2. QED
        BY <1>1, <3>1 DEF IsInjective
    <2>3. QED
      BY <2>1, <2>2
  <1>4. Range(r) \subseteq Range(q) \cup {a}
    <2> SUFFICES ASSUME NEW i \in 1..(Len(q) + 1)
                 PROVE  r[i] \in Range(q) \cup {a}
      BY <1>1 DEF Range
    <2>1. CASE i = 1
      BY <2>1, <1>1
    <2>2. CASE i # 1
      <3>1. i - 1 \in DOMAIN q /\ r[i] = q[i - 1]
        BY <2>2, <1>1
      <3>2. QED
        BY <3>1 DEF Range
    <2>3. QED
      BY <2>1, <2>2
  <1>5. Range(q) \cup {a} \subseteq Range(r)
    <2>1. a \in Range(r)
      BY <1>1 DEF Range
    <2>2. ASSUME NEW i \in 1..Len(q)
          PROVE  q[i] \in Range(r)
      <3>1. i + 1 \in DOMAIN r /\ r[i + 1] = q[i]
        BY <1>1
      <3>2. QED
        BY <3>1 DEF Range
    <2>3. QED
      BY <1>1, <2>1, <2>2 DEF Range
  <1>6. QED
    BY <1>1, <1>3, <1>4, <1>5 DEF r

(* A lease handed to h, taken from the pool or new, is h's alone.          *)
LEMMA GetLeaseKeepsPoolInv ==
  ASSUME PoolInv, NEW h \in Holders, lease[h] = Nil, GetLease(h)
  PROVE  PoolInv'
  <1> USE NilAssumption DEF PoolInv, PoolTypeOK, ExclusiveArena, PooledBlank, Pooled, Owns, NewLease
  <1>1. h \notin closing
    OBVIOUS
  <1>2. CASE LeasePooled(h)
    <2> DEFINE a == Head(pool)
    <2>1. /\ a \in Arenas /\ pool' \in Seq(Arenas) /\ IsInjective(pool')
          /\ Range(pool') = Range(pool) \ {a}
      BY <1>2, TailOfPool DEF LeasePooled
    <2>2. a \in Range(pool)
      BY <1>2 DEF LeasePooled, Range
    <2> HIDE DEF a
    <2>3. /\ lease' = [lease EXCEPT ![h] = a]
          /\ closeCalled' = [closeCalled EXCEPT ![h] = FALSE]
          /\ UNCHANGED <<alloc, used, closing>>
      BY <1>2 DEF LeasePooled, a
    <2>4. PoolTypeOK'
      BY <2>1, <2>3
    <2>5. ExclusiveArena'
      BY <1>1, <2>1, <2>2, <2>3
    <2>6. QED
      BY <1>1, <2>1, <2>2, <2>3, <2>4, <2>5
  <1>3. CASE LeaseNew(h)
    <2>1. PICK a \in Arenas \ alloc :
            /\ alloc' = alloc \cup {a}
            /\ lease' = [lease EXCEPT ![h] = a]
            /\ closeCalled' = [closeCalled EXCEPT ![h] = FALSE]
      BY <1>3 DEF LeaseNew
    <2>2. UNCHANGED <<pool, used, closing>>
      BY <1>3 DEF LeaseNew
    <2>3. PoolTypeOK'
      BY <2>1, <2>2
    <2>4. ExclusiveArena'
      BY <1>1, <2>1, <2>2
    <2>5. QED
      BY <1>1, <2>1, <2>2, <2>3, <2>4
  <1>4. QED
    BY <1>2, <1>3 DEF GetLease

(* close() returns an arena that is in nobody else's hands, after reset(). *)
LEMMA EndCloseKeepsPoolInv ==
  ASSUME PoolInv, NEW h \in Holders, EndClose(h)
  PROVE  PoolInv'
  <1> USE NilAssumption DEF PoolInv, PoolTypeOK, ExclusiveArena, PooledBlank, Pooled, Owns
  <1> DEFINE a == lease[h]
  <1>1. a \in Arenas /\ a \notin Range(pool) /\ a \notin used /\ a \in alloc /\ closeCalled[h]
    BY DEF EndClose
  <1>2. /\ pool' \in Seq(Arenas) /\ IsInjective(pool')
        /\ Range(pool') = Range(pool) \cup {a}
    BY <1>1, ConsToPool DEF EndClose
  <1>3. closing' = closing \ {h} /\ UNCHANGED <<alloc, used, lease, closeCalled>>
    BY DEF EndClose
  <1>4. PoolTypeOK'
    BY <1>2, <1>3
  <1>5. \A g \in Holders : Owns(g)' => Owns(g) /\ lease'[g] = lease[g] /\ lease[g] # a
    <2>1. h \in closing /\ Owns(h)
      BY DEF EndClose
    <2>2. ~Owns(h)'
      BY <1>1, <1>3
    <2>3. QED
      BY <1>3, <2>1, <2>2
  <1>6. ExclusiveArena'
    BY <1>2, <1>5
  <1>7. QED
    BY <1>1, <1>2, <1>3, <1>4, <1>6

(* Every step that keeps the callers' contract preserves PoolInv.          *)
LEMMA PoolInvInductive ==
  ASSUME PoolInv, [PoolNext]_poolVars
  PROVE  PoolInv'
  <1> USE NilAssumption DEF PoolInv, PoolTypeOK, ExclusiveArena, PooledBlank, Pooled, Owns
  <1>1. CASE UNCHANGED poolVars
    BY <1>1 DEF poolVars, IsInjective, Range
  <1>2. ASSUME NEW h \in Holders, lease[h] = Nil /\ GetLease(h)
        PROVE  PoolInv'
    BY <1>2, GetLeaseKeepsPoolInv
  <1>3. ASSUME NEW h \in Holders, Owns(h) /\ h \notin closing /\ SerializeMore(h)
        PROVE  PoolInv'
    BY <1>3 DEF SerializeMore
  <1>4. ASSUME NEW h \in Holders, BeginClose(h)
        PROVE  PoolInv'
    BY <1>4 DEF BeginClose, MarkClosed
  <1>5. ASSUME NEW h \in Holders, EndClose(h)
        PROVE  PoolInv'
    BY <1>5, EndCloseKeepsPoolInv
  <1>6. ASSUME NEW h \in Holders, h \notin closing /\ Forget(h)
        PROVE  PoolInv'
    BY <1>6 DEF Forget
  <1>7. ASSUME NEW a \in Arenas, CollectArena(a)
        PROVE  PoolInv'
    BY <1>7 DEF CollectArena
  <1>8. QED
    BY <1>1, <1>2, <1>3, <1>4, <1>5, <1>6, <1>7 DEF PoolNext, HolderStep

(* The pool starts in the invariant.                                       *)
LEMMA PoolInvInit ==
  ASSUME PoolInit
  PROVE  PoolInv
  BY DEF PoolInit, PoolInv, PoolTypeOK, ExclusiveArena, PooledBlank, Pooled, Owns,
         IsInjective, Range

(* The inductive invariant holds of every use of the pool that keeps the   *)
(* contract.                                                               *)
THEOREM PoolInvariant == PoolSafeSpec => []PoolInv
  <1>1. PoolInit => PoolInv
    BY PoolInvInit
  <1>2. PoolInv /\ [PoolNext]_poolVars => PoolInv'
    BY PoolInvInductive
  <1>3. QED
    BY <1>1, <1>2, PTL DEF PoolSafeSpec

(* ArenaLease and ArenaPool never give one arena to two leases: the        *)
(* property ExclusiveArena for every number of arenas and leases.          *)
THEOREM ArenasExclusive == PoolSafeSpec => []ExclusiveArena
  <1>1. PoolInv => ExclusiveArena
    BY DEF PoolInv
  <1>2. QED
    BY <1>1, PoolInvariant, PTL

(* pollFirst() only ever yields an arena that is empty.                    *)
THEOREM PooledArenasBlank == PoolSafeSpec => []PooledBlank
  <1>1. PoolInv => PooledBlank
    BY DEF PoolInv
  <1>2. QED
    BY <1>1, PoolInvariant, PTL

-----------------------------------------------------------------------------
(* The pool refines ExclusivePool.  An arena with an open lease belongs to *)
(* the holder of that lease and to no other.                               *)
LEMMA OneOwner ==
  ASSUME PoolInv, NEW h \in Holders, Owns(h)
  PROVE  OwnersOf(lease[h]) = {h} /\ lease[h] \in Arenas /\ lease[h] \notin Pooled
  BY NilAssumption DEF PoolInv, PoolTypeOK, ExclusiveArena, OwnersOf, Owns

(* The arena of an open lease is owned by its holder.                      *)
LEMMA OwnerOfLease ==
  ASSUME PoolInv, NEW h \in Holders, Owns(h)
  PROVE  OwnerOf(lease[h]) = h
  <1>1. OwnersOf(lease[h]) = {h} /\ lease[h] \notin Pooled
    BY OneOwner
  <1>2. OwnersOf(lease[h]) # {} /\ (CHOOSE g \in {h} : TRUE) = h
    BY <1>1
  <1> QED
    BY <1>1, <1>2 DEF OwnerOf

(* A step that changes the state of arena a alone is a move of a.          *)
LEMMA OneMoves ==
  ASSUME NEW a \in Arenas, NEW from, NEW to,
         OwnerOf(a) \in from, OwnerOf(a)' = to,
         \A b \in Arenas : b # a => OwnerOf(b)' = OwnerOf(b)
  PROVE  Exclusive!Move(a, from, to)
  <1>1. Ownership' = [Ownership EXCEPT ![a] = to] /\ Ownership[a] = OwnerOf(a)
    BY DEF Ownership
  <1> QED
    BY <1>1 DEF Exclusive!Move

(* What decides the state of an arena.                                     *)
LEMMA SameOwner ==
  ASSUME NEW b, (b \in Pooled)' <=> b \in Pooled, OwnersOf(b)' = OwnersOf(b),
         b \in alloc' <=> b \in alloc
  PROVE  OwnerOf(b)' = OwnerOf(b)
  BY DEF OwnerOf

(* A lease from the pool: the arena was free.                              *)
LEMMA LeasePooledTakes ==
  ASSUME PoolInv, PoolInv', NEW h \in Holders, lease[h] = Nil, LeasePooled(h)
  PROVE  Exclusive!ExclusiveNext
  <1>0. PICK a : a = Head(pool)
    OBVIOUS
  <1>1. pool \in Seq(Arenas) /\ pool # <<>> /\ IsInjective(pool) /\ lease \in [Holders -> Arenas \cup {Nil}]
        /\ closeCalled \in [Holders -> BOOLEAN] /\ \A g \in closing : lease[g] # Nil
    BY DEF PoolInv, PoolTypeOK, ExclusiveArena, LeasePooled
  <1>2. a \in Arenas /\ Pooled' = Pooled \ {a} /\ a \in Pooled
    <2>1. a \in Arenas /\ Range(Tail(pool)) = Range(pool) \ {a}
      BY <1>0, <1>1, TailOfPool
    <2>2. a \in Range(pool)
      BY <1>0, <1>1 DEF Range
    <2> QED
      BY <2>1, <2>2 DEF Pooled, LeasePooled
  <1>3. /\ lease' = [lease EXCEPT ![h] = a] /\ closeCalled' = [closeCalled EXCEPT ![h] = FALSE]
        /\ alloc' = alloc /\ closing' = closing
    BY <1>0 DEF LeasePooled, NewLease
  <1>4. Owns(h)' /\ lease'[h] = a
    BY <1>1, <1>2, <1>3, NilAssumption DEF Owns
  <1>5. OwnerOf(a) = "free"
    BY <1>2 DEF OwnerOf
  <1>6. OwnerOf(a)' = h
    <2>1. OwnersOf(a)' = {h}
      BY <1>2, <1>4 DEF PoolInv, ExclusiveArena, OwnersOf
    <2>2. a \notin Pooled'
      BY <1>2
    <2>3. (CHOOSE g \in {h} : TRUE) = h
      OBVIOUS
    <2> QED
      BY <2>1, <2>2, <2>3 DEF OwnerOf
  <1>7. ASSUME NEW b \in Arenas, b # a
        PROVE  OwnerOf(b)' = OwnerOf(b)
    <2>1. OwnersOf(b)' = OwnersOf(b)
      <3>1. \A g \in Holders : g # h => (Owns(g)' <=> Owns(g)) /\ lease'[g] = lease[g]
        BY <1>1, <1>3 DEF Owns
      <3>2. ~Owns(h)
        BY DEF Owns
      <3> QED
        BY <1>4, <1>7, <3>1, <3>2 DEF OwnersOf
    <2>2. (b \in Pooled)' <=> b \in Pooled
      BY <1>2, <1>7
    <2> QED
      BY <1>3, <2>1, <2>2, SameOwner
  <1>8. Exclusive!Move(a, {"free", "absent"}, h)
    BY <1>2, <1>5, <1>6, <1>7, OneMoves
  <1> QED
    BY <1>2, <1>8 DEF Exclusive!ExclusiveNext, Exclusive!Take

(* A lease of a new arena: it did not exist.                               *)
LEMMA LeaseNewTakes ==
  ASSUME PoolInv, PoolInv', NEW h \in Holders, lease[h] = Nil, LeaseNew(h)
  PROVE  Exclusive!ExclusiveNext
  <1>1. PICK a \in Arenas \ alloc : alloc' = alloc \cup {a} /\ NewLease(h, a)
    BY DEF LeaseNew
  <1>2. /\ lease' = [lease EXCEPT ![h] = a] /\ closeCalled' = [closeCalled EXCEPT ![h] = FALSE]
        /\ pool' = pool /\ closing' = closing /\ Pooled' = Pooled
    BY <1>1 DEF LeaseNew, NewLease, Pooled
  <1>3. /\ lease \in [Holders -> Arenas \cup {Nil}] /\ closeCalled \in [Holders -> BOOLEAN]
        /\ \A g \in closing : lease[g] # Nil
        /\ a \notin Pooled /\ \A g \in Holders : lease[g] # a
    BY <1>1, NilAssumption DEF PoolInv, PoolTypeOK
  <1>4. Owns(h)' /\ lease'[h] = a
    BY <1>1, <1>2, <1>3, NilAssumption DEF Owns
  <1>5. OwnerOf(a) = "absent"
    <2>1. OwnersOf(a) = {}
      BY <1>3 DEF OwnersOf
    <2> QED
      BY <1>1, <1>3, <2>1 DEF OwnerOf
  <1>6. OwnerOf(a)' = h
    <2>1. OwnersOf(a)' = {h}
      BY <1>2, <1>3, <1>4 DEF OwnersOf
    <2>2. a \notin Pooled'
      BY <1>2, <1>3
    <2>3. (CHOOSE g \in {h} : TRUE) = h
      OBVIOUS
    <2> QED
      BY <2>1, <2>2, <2>3 DEF OwnerOf
  <1>7. ASSUME NEW b \in Arenas, b # a
        PROVE  OwnerOf(b)' = OwnerOf(b)
    <2>1. OwnersOf(b)' = OwnersOf(b)
      <3>1. \A g \in Holders : g # h => (Owns(g)' <=> Owns(g)) /\ lease'[g] = lease[g]
        BY <1>2, <1>3 DEF Owns
      <3>2. ~Owns(h)
        BY DEF Owns
      <3> QED
        BY <1>4, <1>7, <3>1, <3>2 DEF OwnersOf
    <2>2. (b \in Pooled)' <=> b \in Pooled
      BY <1>2
    <2>3. b \in alloc' <=> b \in alloc
      BY <1>1, <1>7
    <2> QED
      BY <2>1, <2>2, <2>3, SameOwner
  <1>8. Exclusive!Move(a, {"free", "absent"}, h)
    BY <1>5, <1>6, <1>7, OneMoves
  <1> QED
    BY <1>8 DEF Exclusive!ExclusiveNext, Exclusive!Take

(* The end of close(): the holder gives its arena back.                    *)
LEMMA EndCloseGivesBack ==
  ASSUME PoolInv, PoolInv', NEW h \in Holders, EndClose(h)
  PROVE  Exclusive!ExclusiveNext
  <1>0. PICK a : a = lease[h]
    OBVIOUS
  <1>1. Owns(h) /\ closeCalled[h]
    BY DEF EndClose, PoolInv, Owns
  <1>2. a \in Arenas /\ OwnerOf(a) = h /\ OwnersOf(a) = {h}
    BY <1>0, <1>1, OneOwner, OwnerOfLease
  <1>3. Pooled' = Pooled \cup {a}
    <2>1. pool \in Seq(Arenas) /\ pool' = <<a>> \o pool /\ a \notin Pooled /\ IsInjective(pool)
      BY <1>0, <1>1, OneOwner DEF EndClose, PoolInv, PoolTypeOK, ExclusiveArena
    <2>2. Range(<<a>> \o pool) = Range(pool) \cup {a}
      BY <1>2, <2>1, ConsToPool DEF Pooled
    <2> QED
      BY <2>1, <2>2 DEF Pooled
  <1>4. OwnerOf(a)' = "free"
    BY <1>3 DEF OwnerOf
  <1>5. ASSUME NEW b \in Arenas, b # a
        PROVE  OwnerOf(b)' = OwnerOf(b)
    <2>1. lease' = lease /\ alloc' = alloc /\ closeCalled' = closeCalled /\ closing' = closing \ {h}
      BY DEF EndClose
    <2>2. OwnersOf(b)' = OwnersOf(b)
      BY <1>0, <1>5, <2>1 DEF OwnersOf, Owns
    <2>3. (b \in Pooled)' <=> b \in Pooled
      BY <1>3, <1>5
    <2> QED
      BY <2>1, <2>2, <2>3, SameOwner
  <1>6. Exclusive!Move(a, {h}, "free")
    BY <1>2, <1>4, <1>5, OneMoves
  <1> QED
    BY <1>2, <1>6 DEF Exclusive!ExclusiveNext, Exclusive!GiveBack

(* A lease is forgotten: if it was open, its arena is dropped.             *)
LEMMA ForgetDrops ==
  ASSUME PoolInv, PoolInv', NEW h \in Holders, h \notin closing, Forget(h)
  PROVE  [Exclusive!ExclusiveNext]_Ownership
  <1>0. PICK a : a = lease[h]
    OBVIOUS
  <1>1. /\ lease' = [lease EXCEPT ![h] = Nil] /\ alloc' = alloc /\ Pooled' = Pooled
        /\ closeCalled' = closeCalled /\ closing' = closing
        /\ lease \in [Holders -> Arenas \cup {Nil}]
    BY DEF Forget, PoolInv, PoolTypeOK, Pooled
  <1>2. ~Owns(h)' /\ \A g \in Holders : g # h => (Owns(g)' <=> Owns(g)) /\ lease'[g] = lease[g]
    BY <1>1 DEF Owns
  <1>3. CASE closeCalled[h]
    <2>1. ~Owns(h)
      BY <1>3 DEF Owns
    <2>2. ASSUME NEW b \in Arenas
          PROVE  OwnerOf(b)' = OwnerOf(b)
      <3>1. OwnersOf(b)' = OwnersOf(b)
        BY <1>2, <2>1 DEF OwnersOf
      <3> QED
        BY <1>1, <3>1, SameOwner
    <2>3. Ownership' = Ownership
      BY <2>2 DEF Ownership
    <2> QED
      BY <2>3
  <1>4. CASE ~closeCalled[h]
    <2>1. Owns(h)
      BY <1>4 DEF Owns, Forget
    <2>2. a \in Arenas /\ OwnerOf(a) = h /\ OwnersOf(a) = {h} /\ a \notin Pooled /\ a \in alloc
      BY <1>0, <2>1, OneOwner, OwnerOfLease DEF PoolInv, Forget
    <2>3. OwnerOf(a)' = "dropped"
      <3>1. OwnersOf(a)' = {}
        BY <1>2, <2>2 DEF OwnersOf
      <3> QED
        BY <1>1, <2>2, <3>1 DEF OwnerOf
    <2>4. ASSUME NEW b \in Arenas, b # a
          PROVE  OwnerOf(b)' = OwnerOf(b)
      <3>1. OwnersOf(b)' = OwnersOf(b)
        BY <1>0, <1>2, <2>4 DEF OwnersOf
      <3> QED
        BY <1>1, <3>1, SameOwner
    <2>5. Exclusive!Move(a, {h}, "dropped")
      BY <2>2, <2>3, <2>4, OneMoves
    <2> QED
      BY <2>2, <2>5 DEF Exclusive!ExclusiveNext, Exclusive!Drop
  <1> QED
    BY <1>1, <1>3, <1>4

(* Only what was dropped is collected.                                     *)
LEMMA CollectDestroys ==
  ASSUME PoolInv, NEW a \in Arenas, CollectArena(a)
  PROVE  Exclusive!ExclusiveNext
  <1>1. OwnersOf(a) = {} /\ OwnersOf(a)' = {} /\ alloc' = alloc \ {a} /\ Pooled' = Pooled
    BY DEF CollectArena, OwnersOf, Pooled
  <1>2. OwnerOf(a) = "dropped" /\ OwnerOf(a)' = "absent"
    BY <1>1 DEF CollectArena, OwnerOf
  <1>3. ASSUME NEW b \in Arenas, b # a
        PROVE  OwnerOf(b)' = OwnerOf(b)
    <2>1. OwnersOf(b)' = OwnersOf(b)
      BY DEF CollectArena, OwnersOf, Owns
    <2> QED
      BY <1>1, <1>3, <2>1, SameOwner
  <1>4. Exclusive!Move(a, {"dropped"}, "absent")
    BY <1>2, <1>3, OneMoves
  <1> QED
    BY <1>4 DEF Exclusive!ExclusiveNext, Exclusive!Destroy

(* The steps that leave every arena to its owner.                          *)
LEMMA OwnersKept ==
  ASSUME PoolInv, NEW h \in Holders,
         UNCHANGED poolVars \/ SerializeMore(h) \/ BeginClose(h)
  PROVE  Ownership' = Ownership
  <1>1. /\ pool' = pool /\ alloc' = alloc /\ lease' = lease
        /\ \A g \in Holders : Owns(g)' <=> Owns(g)
    BY DEF poolVars, SerializeMore, BeginClose, MarkClosed, Owns, PoolInv, PoolTypeOK
  <1>2. ASSUME NEW b \in Arenas
        PROVE  OwnerOf(b)' = OwnerOf(b)
    <2>1. OwnersOf(b)' = OwnersOf(b) /\ Pooled' = Pooled
      BY <1>1 DEF OwnersOf, Pooled
    <2> QED
      BY <1>1, <2>1, SameOwner
  <1> QED
    BY <1>2 DEF Ownership

(* Every step of the pool is a step of ExclusivePool, or changes no owner. *)
LEMMA PoolStepRefines ==
  ASSUME PoolInv, PoolInv', [PoolNext]_poolVars
  PROVE  [Exclusive!ExclusiveNext]_Ownership
  <1>1. CASE UNCHANGED poolVars
    <2>1. Ownership' = Ownership
      BY <1>1 DEF poolVars, Ownership, OwnerOf, OwnersOf, Owns, Pooled
    <2> QED
      BY <2>1
  <1>2. ASSUME NEW h \in Holders, HolderStep(h)
        PROVE  [Exclusive!ExclusiveNext]_Ownership
    <2>1. CASE lease[h] = Nil /\ GetLease(h)
      BY <2>1, LeasePooledTakes, LeaseNewTakes DEF GetLease
    <2>2. CASE SerializeMore(h) \/ BeginClose(h)
      BY <2>2, OwnersKept
    <2>3. CASE EndClose(h)
      BY <2>3, EndCloseGivesBack
    <2>4. CASE h \notin closing /\ Forget(h)
      BY <2>4, ForgetDrops
    <2> QED
      BY <1>2, <2>1, <2>2, <2>3, <2>4 DEF HolderStep
  <1>3. ASSUME NEW a \in Arenas, CollectArena(a)
        PROVE  [Exclusive!ExclusiveNext]_Ownership
    BY <1>3, CollectDestroys
  <1> QED
    BY <1>1, <1>2, <1>3 DEF PoolNext

(* The pool implements ExclusivePool, for any number of arenas and leases: *)
(* every step of getLease(), close() and the garbage collector is a step   *)
(* of one arena between one owner, the pool, and being dropped.            *)
THEOREM PoolRefinesExclusive == PoolSafeSpec => PoolIsExclusive
  <1>1. PoolInit => Exclusive!ExclusiveInit
    <2> SUFFICES ASSUME PoolInit
                 PROVE  Ownership = [a \in Arenas |-> "absent"]
      BY DEF Exclusive!ExclusiveInit
    <2>1. \A a \in Arenas : OwnersOf(a) = {} /\ a \notin Pooled /\ a \notin alloc
      BY DEF PoolInit, OwnersOf, Owns, Pooled, Range
    <2> QED
      BY <2>1 DEF Ownership, OwnerOf
  <1>2. PoolInv /\ PoolInv' /\ [PoolNext]_poolVars => [Exclusive!ExclusiveNext]_Ownership
    BY PoolStepRefines
  <1> QED
    BY <1>1, <1>2, PoolInvariant, PTL DEF PoolSafeSpec, PoolIsExclusive, Exclusive!ExclusiveSpec

-----------------------------------------------------------------------------
(* A step of one holder of a lease leaves the leases of the others alone,  *)
(* and what was serialized through them.                                   *)
LEMMA OthersUntouched ==
  ASSUME PoolInv, NEW h \in Holders, HolderStep(h), NEW g \in Holders, g # h
  PROVE  /\ lease'[g] = lease[g]
         /\ closeCalled'[g] = closeCalled[g]
         /\ g \in closing' <=> g \in closing
         /\ Kept(g) => Kept(g)'
  <1> USE NilAssumption DEF PoolInv, PoolTypeOK, ExclusiveArena, Owns, Open, Kept
  <1>1. CASE GetLease(h)
    BY <1>1 DEF GetLease, LeasePooled, LeaseNew, NewLease
  <1>2. CASE SerializeMore(h)
    BY <1>2 DEF SerializeMore
  <1>3. CASE BeginClose(h)
    BY <1>3 DEF BeginClose, MarkClosed
  <1>4. CASE EndClose(h)
    BY <1>4 DEF EndClose
  <1>5. CASE Forget(h)
    BY <1>5 DEF Forget
  <1>6. QED
    BY <1>1, <1>2, <1>3, <1>4, <1>5 DEF HolderStep

(* The collector of arenas touches no lease.                               *)
LEMMA LeasesUntouched ==
  ASSUME PoolInv, NEW a \in Arenas, CollectArena(a), NEW g \in Holders
  PROVE  /\ lease'[g] = lease[g]
         /\ closeCalled'[g] = closeCalled[g]
         /\ g \in closing' <=> g \in closing
         /\ Kept(g) => Kept(g)'
  BY DEF CollectArena, Open, Kept

(* A lease is open when it is handed out.                                  *)
LEMMA GetLeaseOpens ==
  ASSUME PoolInv, NEW h \in Holders, GetLease(h)
  PROVE  Open(h)'
  <1> USE NilAssumption DEF PoolInv, PoolTypeOK, ExclusiveArena, Open, NewLease
  <1>1. CASE LeasePooled(h)
    BY <1>1, TailOfPool DEF LeasePooled
  <1>2. CASE LeaseNew(h)
    BY <1>2 DEF LeaseNew
  <1>3. QED
    BY <1>1, <1>2 DEF GetLease

(* Steps that only move a thread on, or touch what the pool does not know. *)
LEMMA QuietStep ==
  ASSUME UNCHANGED poolVars
  PROVE  /\ [PoolNext]_poolVars
         /\ \A h : Open(h)' = Open(h) /\ Kept(h)' = Kept(h)
         /\ PoolTypeOK' = PoolTypeOK
  BY DEF poolVars, Open, Kept, PoolTypeOK

(* The constructor creates the native context of an unused object.         *)
LEMMA NewInductive ==
  ASSUME CtxInv, PoolInv, NEW t \in Threads, NEW c \in Contexts, New(t, c)
  PROVE  CtxInv' /\ [PoolNext]_poolVars
  <1> USE NilAssumption, HoldersAssumption DEF CtxInv, New, Goto
  <1>1. UNCHANGED poolVars
    BY DEF ctxVars, callVars
  <1>2. TypeOK'
    BY <1>1, QuietStep DEF TypeOK, PCs, ctxVars, callVars, Inputs
  <1>3. ASSUME NEW s \in Threads PROVE ThreadInv(s)'
    BY <1>1, QuietStep
       DEF ThreadInv, ContextInv, TypeOK, Running, ctxVars, callVars, poolVars
  <1>4. ASSUME NEW d \in Contexts PROVE ContextInv(d)'
    BY <1>1, QuietStep
       DEF ThreadInv, ContextInv, TypeOK, Running, ctxVars, callVars, poolVars, Kept
  <1>5. OneConstructor'
    BY DEF OneConstructor, ThreadInv, TypeOK, ctxVars, callVars
  <1>6. QED
    BY <1>1, <1>2, <1>3, <1>4, <1>5, QuietStep

(* A constructor that throws leaves no object behind.                      *)
LEMMA NewGetLeaseFailsInductive ==
  ASSUME CtxInv, PoolInv, NEW t \in Threads, NewGetLeaseFails(t)
  PROVE  CtxInv' /\ [PoolNext]_poolVars
  <1> USE NilAssumption, HoldersAssumption DEF CtxInv, NewGetLeaseFails, Goto
  <1>1. UNCHANGED poolVars
    BY DEF ctxVars, callVars
  <1>2. TypeOK'
    BY <1>1, QuietStep DEF TypeOK, PCs, ctxVars, callVars, Inputs
  <1>3. ASSUME NEW s \in Threads PROVE ThreadInv(s)'
    BY <1>1, QuietStep
       DEF ThreadInv, ContextInv, OneConstructor, TypeOK, Running, ctxVars, callVars,
           poolVars
  <1>4. ASSUME NEW d \in Contexts PROVE ContextInv(d)'
    BY <1>1, QuietStep
       DEF ThreadInv, ContextInv, TypeOK, Running, ctxVars, callVars, poolVars, Kept
  <1>5. OneConstructor'
    BY DEF OneConstructor, ThreadInv, TypeOK, ctxVars, callVars
  <1>6. QED
    BY <1>1, <1>2, <1>3, <1>4, <1>5, QuietStep

(* run() starts on an online, unlocked context without a local lease.      *)
LEMMA RunEnterInductive ==
  ASSUME CtxInv, PoolInv, NEW t \in Threads, NEW c \in Contexts, RunEnter(t, c)
  PROVE  CtxInv' /\ [PoolNext]_poolVars
  <1> USE NilAssumption, HoldersAssumption DEF CtxInv, RunEnter, Goto
  <1>1. UNCHANGED poolVars
    BY DEF ctxVars, callVars
  <1>2. TypeOK'
    BY <1>1, QuietStep DEF TypeOK, PCs, ctxVars, callVars, Inputs
  <1>3. ASSUME NEW s \in Threads PROVE ThreadInv(s)'
    BY <1>1, QuietStep
       DEF ThreadInv, ContextInv, TypeOK, Running, ctxVars, callVars, poolVars
  <1>4. ASSUME NEW d \in Contexts PROVE ContextInv(d)'
    BY <1>1, QuietStep
       DEF ThreadInv, ContextInv, TypeOK, Running, ctxVars, callVars, poolVars, Kept
  <1>5. OneConstructor'
    BY DEF OneConstructor, ThreadInv, TypeOK, ctxVars, callVars
  <1>6. QED
    BY <1>1, <1>2, <1>3, <1>4, <1>5, QuietStep

(* The budget check of run() changes nothing else.                         *)
LEMMA CheckBudgetInductive ==
  ASSUME CtxInv, PoolInv, NEW t \in Threads, CheckBudget(t)
  PROVE  CtxInv' /\ [PoolNext]_poolVars
  <1> USE NilAssumption, HoldersAssumption DEF CtxInv, CheckBudget, Goto
  <1>1. UNCHANGED poolVars
    BY DEF ctxVars, callVars
  <1>2. TypeOK'
    BY <1>1, QuietStep DEF TypeOK, PCs, ctxVars, callVars, Inputs
  <1>3. ASSUME NEW s \in Threads PROVE ThreadInv(s)'
    BY <1>1, QuietStep
       DEF ThreadInv, ContextInv, TypeOK, Running, ctxVars, callVars, poolVars
  <1>4. ASSUME NEW d \in Contexts PROVE ContextInv(d)'
    BY <1>1, QuietStep
       DEF ThreadInv, ContextInv, TypeOK, Running, ctxVars, callVars, poolVars, Kept
  <1>5. OneConstructor'
    BY DEF OneConstructor, ThreadInv, TypeOK, ctxVars, callVars
  <1>6. QED
    BY <1>1, <1>2, <1>3, <1>4, <1>5, QuietStep

(* A native call that throws early changes nothing else.                   *)
LEMMA NativeRejectsInductive ==
  ASSUME CtxInv, PoolInv, NEW t \in Threads, NativeRejects(t)
  PROVE  CtxInv' /\ [PoolNext]_poolVars
  <1> USE NilAssumption, HoldersAssumption DEF CtxInv, NativeRejects, Goto
  <1>1. UNCHANGED poolVars
    BY DEF ctxVars, callVars
  <1>2. TypeOK'
    BY <1>1, QuietStep DEF TypeOK, PCs, ctxVars, callVars, Inputs
  <1>3. ASSUME NEW s \in Threads PROVE ThreadInv(s)'
    BY <1>1, QuietStep
       DEF ThreadInv, ContextInv, TypeOK, Running, ctxVars, callVars, poolVars
  <1>4. ASSUME NEW d \in Contexts PROVE ContextInv(d)'
    BY <1>1, QuietStep
       DEF ThreadInv, ContextInv, TypeOK, Running, ctxVars, callVars, poolVars, Kept
  <1>5. OneConstructor'
    BY DEF OneConstructor, ThreadInv, TypeOK, ctxVars, callVars
  <1>6. QED
    BY <1>1, <1>2, <1>3, <1>4, <1>5, QuietStep

(* ddwaf_run stores pointers into the arena of an open lease only.         *)
LEMMA DdwafRunInductive ==
  ASSUME CtxInv, PoolInv, NEW t \in Threads, DdwafRun(t)
  PROVE  CtxInv' /\ [PoolNext]_poolVars
  <1> USE NilAssumption, HoldersAssumption DEF CtxInv, DdwafRun, Goto
  <1>1. UNCHANGED poolVars
    BY DEF ctxVars, callVars
  <1>2. TypeOK'
    BY <1>1, QuietStep DEF TypeOK, PoolTypeOK, PCs, ThreadInv, Kept, Open
  <1>3. ASSUME NEW s \in Threads PROVE ThreadInv(s)'
    BY <1>1, QuietStep
       DEF ThreadInv, ContextInv, TypeOK, Running, ctxVars, callVars, poolVars
  <1>4. ASSUME NEW d \in Contexts PROVE ContextInv(d)'
    BY <1>1, QuietStep DEF ThreadInv, ContextInv, TypeOK, Running, poolVars, Kept, Open
  <1>5. OneConstructor'
    BY DEF OneConstructor, ThreadInv, TypeOK, ctxVars, callVars
  <1>6. QED
    BY <1>1, <1>2, <1>3, <1>4, <1>5, QuietStep

(* The return of ddwaf_run changes nothing else.                           *)
LEMMA DdwafReturnInductive ==
  ASSUME CtxInv, PoolInv, NEW t \in Threads, DdwafReturn(t)
  PROVE  CtxInv' /\ [PoolNext]_poolVars
  <1> USE NilAssumption, HoldersAssumption DEF CtxInv, DdwafReturn, Goto
  <1>1. UNCHANGED poolVars
    BY DEF ctxVars, callVars
  <1>2. TypeOK'
    BY <1>1, QuietStep DEF TypeOK, PCs, ctxVars, callVars, Inputs
  <1>3. ASSUME NEW s \in Threads PROVE ThreadInv(s)'
    BY <1>1, QuietStep
       DEF ThreadInv, ContextInv, TypeOK, Running, ctxVars, callVars, poolVars
  <1>4. ASSUME NEW d \in Contexts PROVE ContextInv(d)'
    BY <1>1, QuietStep
       DEF ThreadInv, ContextInv, TypeOK, Running, ctxVars, callVars, poolVars, Kept
  <1>5. OneConstructor'
    BY DEF OneConstructor, ThreadInv, TypeOK, ctxVars, callVars
  <1>6. QED
    BY <1>1, <1>2, <1>3, <1>4, <1>5, QuietStep

(* Leaving the monitor.                                                    *)
LEMMA ExitInductive ==
  ASSUME CtxInv, PoolInv, NEW t \in Threads, Exit(t)
  PROVE  CtxInv' /\ [PoolNext]_poolVars
  <1> USE NilAssumption, HoldersAssumption DEF CtxInv, Exit, Goto
  <1>1. UNCHANGED poolVars
    BY DEF ctxVars, callVars
  <1>2. TypeOK'
    BY <1>1, QuietStep DEF TypeOK, PCs, ctxVars, callVars, Inputs
  <1>3. ASSUME NEW s \in Threads PROVE ThreadInv(s)'
    BY <1>1, QuietStep
       DEF ThreadInv, ContextInv, TypeOK, Running, ctxVars, callVars, poolVars
  <1>4. ASSUME NEW d \in Contexts PROVE ContextInv(d)'
    BY <1>1, QuietStep
       DEF ThreadInv, ContextInv, TypeOK, Running, ctxVars, callVars, poolVars, Kept
  <1>5. OneConstructor'
    BY DEF OneConstructor, ThreadInv, TypeOK, ctxVars, callVars
  <1>6. QED
    BY <1>1, <1>2, <1>3, <1>4, <1>5, QuietStep

(* close() starts on an online, unlocked context.                          *)
LEMMA CloseEnterInductive ==
  ASSUME CtxInv, PoolInv, NEW t \in Threads, NEW c \in Contexts, CloseEnter(t, c)
  PROVE  CtxInv' /\ [PoolNext]_poolVars
  <1> USE NilAssumption, HoldersAssumption DEF CtxInv, CloseEnter, Goto
  <1>1. UNCHANGED poolVars
    BY DEF ctxVars, callVars
  <1>2. TypeOK'
    BY <1>1, QuietStep DEF TypeOK, PCs, ctxVars, callVars, Inputs
  <1>3. ASSUME NEW s \in Threads PROVE ThreadInv(s)'
    BY <1>1, QuietStep
       DEF ThreadInv, ContextInv, TypeOK, Running, ctxVars, callVars, poolVars
  <1>4. ASSUME NEW d \in Contexts PROVE ContextInv(d)'
    BY <1>1, QuietStep
       DEF ThreadInv, ContextInv, TypeOK, Running, ctxVars, callVars, poolVars, Kept
  <1>5. OneConstructor'
    BY DEF OneConstructor, ThreadInv, TypeOK, ctxVars, callVars
  <1>6. QED
    BY <1>1, <1>2, <1>3, <1>4, <1>5, QuietStep

(* clearWafContext drops the pointers with the native context, whether it  *)
(* returns or throws.                                                      *)
LEMMA ClearInductive ==
  ASSUME CtxInv, PoolInv, NEW t \in Threads, Clear(t) \/ ClearThrows(t)
  PROVE  CtxInv' /\ [PoolNext]_poolVars
  <1> USE NilAssumption, HoldersAssumption DEF CtxInv, Clear, ClearThrows, Destroy, Goto
  <1>1. UNCHANGED poolVars
    BY DEF ctxVars, callVars
  <1>2. TypeOK'
    BY <1>1, QuietStep DEF TypeOK, PCs, ctxVars, callVars, Inputs
  <1>3. ASSUME NEW s \in Threads PROVE ThreadInv(s)'
    BY <1>1, QuietStep
       DEF ThreadInv, ContextInv, TypeOK, Running, ctxVars, callVars, poolVars
  <1>4. ASSUME NEW d \in Contexts PROVE ContextInv(d)'
    BY <1>1, QuietStep
       DEF ThreadInv, ContextInv, TypeOK, Running, ctxVars, callVars, poolVars, Kept
  <1>5. OneConstructor'
    BY DEF OneConstructor, ThreadInv, TypeOK, ctxVars, callVars
  <1>6. QED
    BY <1>1, <1>2, <1>3, <1>4, <1>5, QuietStep

(* The lease that close() finds is open: the test lets it through.         *)
LEMMA CloseTestInductive ==
  ASSUME CtxInv, PoolInv, NEW t \in Threads, CloseTest(t)
  PROVE  CtxInv' /\ [PoolNext]_poolVars
  <1> USE NilAssumption, HoldersAssumption DEF CtxInv, CloseTest, Goto
  <1>1. UNCHANGED poolVars
    BY DEF ctxVars, callVars
  <1>2. TypeOK'
    BY <1>1, QuietStep DEF TypeOK, PCs, ctxVars, callVars, Inputs
  <1>3. ASSUME NEW s \in Threads PROVE ThreadInv(s)'
    BY <1>1, QuietStep
       DEF ThreadInv, ContextInv, TypeOK, Running, ctxVars, callVars, poolVars
  <1>4. ASSUME NEW d \in Contexts PROVE ContextInv(d)'
    BY <1>1, QuietStep
       DEF ThreadInv, ContextInv, TypeOK, Running, ctxVars, callVars, poolVars, Kept
  <1>5. OneConstructor'
    BY DEF OneConstructor, ThreadInv, TypeOK, ctxVars, callVars
  <1>6. QED
    BY <1>1, <1>2, <1>3, <1>4, <1>5, QuietStep

(* The application may drop its reference at any time.                     *)
LEMMA DropContextInductive ==
  ASSUME CtxInv, PoolInv, NEW c \in Contexts, DropContext(c)
  PROVE  CtxInv' /\ [PoolNext]_poolVars
  <1> USE NilAssumption, HoldersAssumption DEF CtxInv, DropContext, Goto
  <1>1. UNCHANGED poolVars
    BY DEF ctxVars, callVars
  <1>2. TypeOK'
    BY <1>1, QuietStep DEF TypeOK, PCs, ctxVars, callVars, Inputs
  <1>3. ASSUME NEW s \in Threads PROVE ThreadInv(s)'
    BY <1>1, QuietStep
       DEF ThreadInv, ContextInv, TypeOK, Running, ctxVars, callVars, poolVars
  <1>4. ASSUME NEW d \in Contexts PROVE ContextInv(d)'
    BY <1>1, QuietStep
       DEF ThreadInv, ContextInv, TypeOK, Running, ctxVars, callVars, poolVars, Kept
  <1>5. OneConstructor'
    BY DEF OneConstructor, ThreadInv, TypeOK, ctxVars, callVars
  <1>6. QED
    BY <1>1, <1>2, <1>3, <1>4, <1>5, QuietStep

(* The constructor gets a lease for an object that has none.               *)
LEMMA NewGetLeaseInductive ==
  ASSUME CtxInv, PoolInv, NEW t \in Threads, NewGetLease(t)
  PROVE  CtxInv' /\ [PoolNext]_poolVars
  <1> USE NilAssumption, HoldersAssumption DEF CtxInv, NewGetLease, Goto
  <1> DEFINE h == ctx[t]
  <1>1. h \in Holders /\ HolderStep(h)
    BY
       DEF HolderStep, TypeOK, ThreadInv, ContextInv, GetLease, LeasePooled,
           LeaseNew, NewLease
  <1>2. PoolNext /\ PoolTypeOK'
    BY <1>1, PoolInvInductive DEF PoolNext, PoolInv
  <1>3. TypeOK'
    BY <1>2 DEF TypeOK, PCs, ThreadInv, ctxVars, callVars
  <1>4. \A g \in Holders \ {h} :
          /\ lease'[g] = lease[g]
          /\ closeCalled'[g] = closeCalled[g]
          /\ g \in closing' <=> g \in closing
          /\ Kept(g) => Kept(g)'
    BY <1>1, OthersUntouched
  <1>5. ASSUME NEW s \in Threads PROVE ThreadInv(s)'
    BY <1>1, <1>4
       DEF ThreadInv, ContextInv, OneConstructor, TypeOK, PoolTypeOK, Running,
           ctxVars, callVars, Kept, Open, GetLease, LeasePooled, LeaseNew, NewLease
  <1>6. ASSUME NEW d \in Contexts PROVE ContextInv(d)'
    <2>1. CASE d = h
      BY <1>1, <2>1, GetLeaseOpens
         DEF ThreadInv, ContextInv, TypeOK, GetLease, LeasePooled, LeaseNew
    <2>2. CASE d # h
      BY <1>4, <2>2 DEF ThreadInv, ContextInv, TypeOK, Kept, Open
    <2>3. QED
      BY <2>1, <2>2
  <1>7. OneConstructor'
    BY DEF OneConstructor, ThreadInv, TypeOK, ctxVars, callVars
  <1>8. QED
    BY <1>2, <1>3, <1>5, <1>6, <1>7

(* The ephemeral input goes to the open lease of the thread.               *)
LEMMA SerializeEphemeralInductive ==
  ASSUME CtxInv, PoolInv, NEW t \in Threads, SerializeEphemeral(t)
  PROVE  CtxInv' /\ [PoolNext]_poolVars
  <1> USE NilAssumption, HoldersAssumption DEF CtxInv, SerializeEphemeral, Goto
  <1> DEFINE h == t
  <1>1. h \in Holders /\ HolderStep(h)
    BY DEF HolderStep, TypeOK, ThreadInv, SerializeMore, Owns, Open
  <1>2. PoolNext /\ PoolTypeOK'
    BY <1>1, PoolInvInductive DEF PoolNext, PoolInv
  <1>3. TypeOK'
    BY <1>2 DEF TypeOK, PCs, ThreadInv, ctxVars, callVars
  <1>4. \A g \in Holders \ {h} :
          /\ lease'[g] = lease[g]
          /\ closeCalled'[g] = closeCalled[g]
          /\ g \in closing' <=> g \in closing
          /\ Kept(g) => Kept(g)'
    BY <1>1, OthersUntouched
  <1>5. ASSUME NEW s \in Threads PROVE ThreadInv(s)'
    BY <1>1, <1>4
       DEF ThreadInv, ContextInv, OneConstructor, TypeOK, PoolTypeOK, Running,
           ctxVars, callVars, Kept, Open, SerializeMore, Owns
  <1>6. ASSUME NEW d \in Contexts PROVE ContextInv(d)'
    BY <1>1, <1>4
       DEF ThreadInv, ContextInv, TypeOK, PoolTypeOK, Running, ctxVars, callVars,
           Kept, Open, SerializeMore, Owns
  <1>7. OneConstructor'
    BY DEF OneConstructor, ThreadInv, TypeOK, ctxVars, callVars
  <1>8. QED
    BY <1>2, <1>3, <1>5, <1>6, <1>7

(* The ephemeral arena returns to the pool.                                *)
LEMMA AddFirstInductive ==
  ASSUME CtxInv, PoolInv, NEW t \in Threads, AddFirst(t)
  PROVE  CtxInv' /\ [PoolNext]_poolVars
  <1> USE NilAssumption, HoldersAssumption DEF CtxInv, AddFirst, Goto
  <1> DEFINE h == t
  <1>1. h \in Holders /\ HolderStep(h)
    BY DEF HolderStep, TypeOK, ThreadInv, ContextInv, EndClose
  <1>2. PoolNext /\ PoolTypeOK'
    BY <1>1, PoolInvInductive DEF PoolNext, PoolInv
  <1>3. TypeOK'
    BY <1>2 DEF TypeOK, PCs, ThreadInv, ctxVars, callVars
  <1>4. \A g \in Holders \ {h} :
          /\ lease'[g] = lease[g]
          /\ closeCalled'[g] = closeCalled[g]
          /\ g \in closing' <=> g \in closing
          /\ Kept(g) => Kept(g)'
    BY <1>1, OthersUntouched
  <1>5. ASSUME NEW s \in Threads PROVE ThreadInv(s)'
    BY <1>1, <1>4
       DEF ThreadInv, ContextInv, OneConstructor, TypeOK, PoolTypeOK, Running,
           ctxVars, callVars, Kept, Open, EndClose
  <1>6. ASSUME NEW d \in Contexts PROVE ContextInv(d)'
    BY <1>1, <1>4
       DEF ThreadInv, ContextInv, TypeOK, PoolTypeOK, Running, ctxVars, callVars,
           Kept, Open, EndClose
  <1>7. OneConstructor'
    BY DEF OneConstructor, ThreadInv, TypeOK, ctxVars, callVars
  <1>8. QED
    BY <1>2, <1>3, <1>5, <1>6, <1>7

(* close() gives the lease back when no native context uses it.            *)
LEMMA CloseLeaseInductive ==
  ASSUME CtxInv, PoolInv, NEW t \in Threads, CloseLease(t)
  PROVE  CtxInv' /\ [PoolNext]_poolVars
  <1> USE NilAssumption, HoldersAssumption DEF CtxInv, CloseLease, Goto
  <1> DEFINE h == ctx[t]
  <1>1. h \in Holders /\ HolderStep(h)
    BY DEF HolderStep, TypeOK, ThreadInv, ContextInv, Open, BeginClose, MarkClosed
  <1>2. PoolNext /\ PoolTypeOK'
    BY <1>1, PoolInvInductive DEF PoolNext, PoolInv
  <1>3. TypeOK'
    BY <1>2 DEF TypeOK, PCs, ThreadInv, ctxVars, callVars
  <1>4. \A g \in Holders \ {h} :
          /\ lease'[g] = lease[g]
          /\ closeCalled'[g] = closeCalled[g]
          /\ g \in closing' <=> g \in closing
          /\ Kept(g) => Kept(g)'
    BY <1>1, OthersUntouched
  <1>5. ASSUME NEW s \in Threads PROVE ThreadInv(s)'
    BY <1>1, <1>4
       DEF ThreadInv, ContextInv, OneConstructor, TypeOK, PoolTypeOK, Running,
           ctxVars, callVars, Kept, Open, BeginClose, MarkClosed
  <1>6. ASSUME NEW d \in Contexts PROVE ContextInv(d)'
    BY <1>1, <1>4
       DEF ThreadInv, ContextInv, TypeOK, PoolTypeOK, Running, ctxVars, callVars,
           Kept, Open, BeginClose, MarkClosed
  <1>7. OneConstructor'
    BY DEF OneConstructor, ThreadInv, TypeOK, ctxVars, callVars
  <1>8. QED
    BY <1>2, <1>3, <1>5, <1>6, <1>7

(* The arena of a closed context returns to the pool.                      *)
LEMMA CloseAddFirstInductive ==
  ASSUME CtxInv, PoolInv, NEW t \in Threads, CloseAddFirst(t)
  PROVE  CtxInv' /\ [PoolNext]_poolVars
  <1> USE NilAssumption, HoldersAssumption DEF CtxInv, CloseAddFirst, Goto
  <1> DEFINE h == ctx[t]
  <1>1. h \in Holders /\ HolderStep(h)
    BY DEF HolderStep, TypeOK, ThreadInv, ContextInv, EndClose
  <1>2. PoolNext /\ PoolTypeOK'
    BY <1>1, PoolInvInductive DEF PoolNext, PoolInv
  <1>3. TypeOK'
    BY <1>2 DEF TypeOK, PCs, ThreadInv, ctxVars, callVars
  <1>4. \A g \in Holders \ {h} :
          /\ lease'[g] = lease[g]
          /\ closeCalled'[g] = closeCalled[g]
          /\ g \in closing' <=> g \in closing
          /\ Kept(g) => Kept(g)'
    BY <1>1, OthersUntouched
  <1>5. ASSUME NEW s \in Threads PROVE ThreadInv(s)'
    BY <1>1, <1>4
       DEF ThreadInv, ContextInv, OneConstructor, TypeOK, PoolTypeOK, Running,
           ctxVars, callVars, Kept, Open, EndClose
  <1>6. ASSUME NEW d \in Contexts PROVE ContextInv(d)'
    BY <1>1, <1>4
       DEF ThreadInv, ContextInv, TypeOK, PoolTypeOK, Running, ctxVars, callVars,
           Kept, Open, EndClose
  <1>7. OneConstructor'
    BY DEF OneConstructor, ThreadInv, TypeOK, ctxVars, callVars
  <1>8. QED
    BY <1>2, <1>3, <1>5, <1>6, <1>7

(* A context the collector takes is in nobody's call, nor in close().      *)
LEMMA CollectContextInductive ==
  ASSUME CtxInv, PoolInv, NEW c \in Contexts, CollectContext(c)
  PROVE  CtxInv' /\ [PoolNext]_poolVars
  <1> USE NilAssumption, HoldersAssumption DEF CtxInv, CollectContext, Goto
  <1> DEFINE h == c
  <1>1. h \in Holders /\ HolderStep(h)
    BY DEF HolderStep, TypeOK, ThreadInv, ContextInv, Forget, KeepsAlive
  <1>2. PoolNext /\ PoolTypeOK'
    BY <1>1, PoolInvInductive DEF PoolNext, PoolInv
  <1>3. TypeOK'
    BY <1>2 DEF TypeOK, PCs, ThreadInv, ctxVars, callVars
  <1>4. \A g \in Holders \ {h} :
          /\ lease'[g] = lease[g]
          /\ closeCalled'[g] = closeCalled[g]
          /\ g \in closing' <=> g \in closing
          /\ Kept(g) => Kept(g)'
    BY <1>1, OthersUntouched
  <1>5. ASSUME NEW s \in Threads PROVE ThreadInv(s)'
    BY <1>1, <1>4
       DEF ThreadInv, ContextInv, OneConstructor, TypeOK, PoolTypeOK, Running,
           ctxVars, callVars, Kept, Open, Forget, KeepsAlive
  <1>6. ASSUME NEW d \in Contexts PROVE ContextInv(d)'
    BY <1>1, <1>4
       DEF ThreadInv, ContextInv, TypeOK, PoolTypeOK, Running, ctxVars, callVars,
           Kept, Open, Forget, KeepsAlive
  <1>7. OneConstructor'
    BY DEF OneConstructor, ThreadInv, TypeOK, ctxVars, callVars
  <1>8. QED
    BY <1>2, <1>3, <1>5, <1>6, <1>7

(* A local lease the collector takes is in nobody's call.                  *)
LEMMA CollectLocalInductive ==
  ASSUME CtxInv, PoolInv, NEW t \in Threads, CollectLocal(t)
  PROVE  CtxInv' /\ [PoolNext]_poolVars
  <1> USE NilAssumption, HoldersAssumption DEF CtxInv, CollectLocal, Goto
  <1> DEFINE h == t
  <1>1. h \in Holders /\ HolderStep(h)
    BY DEF HolderStep, TypeOK, ThreadInv, ContextInv, Forget, KeepsAlive
  <1>2. PoolNext /\ PoolTypeOK'
    BY <1>1, PoolInvInductive DEF PoolNext, PoolInv
  <1>3. TypeOK'
    BY <1>2 DEF TypeOK, PCs, ThreadInv, ctxVars, callVars
  <1>4. \A g \in Holders \ {h} :
          /\ lease'[g] = lease[g]
          /\ closeCalled'[g] = closeCalled[g]
          /\ g \in closing' <=> g \in closing
          /\ Kept(g) => Kept(g)'
    BY <1>1, OthersUntouched
  <1>5. ASSUME NEW s \in Threads PROVE ThreadInv(s)'
    BY <1>1, <1>4
       DEF ThreadInv, ContextInv, OneConstructor, TypeOK, PoolTypeOK, Running,
           ctxVars, callVars, Kept, Open, Forget, KeepsAlive
  <1>6. ASSUME NEW d \in Contexts PROVE ContextInv(d)'
    BY <1>1, <1>4
       DEF ThreadInv, ContextInv, TypeOK, PoolTypeOK, Running, ctxVars, callVars,
           Kept, Open, Forget, KeepsAlive
  <1>7. OneConstructor'
    BY DEF OneConstructor, ThreadInv, TypeOK, ctxVars, callVars
  <1>8. QED
    BY <1>2, <1>3, <1>5, <1>6, <1>7

(* The persistent input goes to the open lease of the locked context.      *)
LEMMA SerializePersistentInductive ==
  ASSUME CtxInv, PoolInv, NEW t \in Threads, SerializePersistent(t)
  PROVE  CtxInv' /\ [PoolNext]_poolVars
  <1> USE NilAssumption, HoldersAssumption DEF CtxInv, SerializePersistent, Goto
  <1> DEFINE h == ctx[t]
  <1>1. h \in Holders /\ (HolderStep(h) \/ UNCHANGED poolVars)
    BY DEF HolderStep, TypeOK, ThreadInv, ContextInv, Open, Owns, Running
  <1>2. [PoolNext]_poolVars /\ PoolTypeOK'
    BY <1>1, PoolInvInductive DEF PoolNext, PoolInv
  <1>3. TypeOK'
    BY <1>2 DEF TypeOK, PCs, ThreadInv, ctxVars, callVars
  <1>4. \A g \in Holders \ {h} :
          /\ lease'[g] = lease[g]
          /\ closeCalled'[g] = closeCalled[g]
          /\ g \in closing' <=> g \in closing
          /\ Kept(g) => Kept(g)'
    BY <1>1, OthersUntouched, QuietStep DEF poolVars
  <1>5. ASSUME NEW s \in Threads PROVE ThreadInv(s)'
    BY <1>1, <1>4
       DEF ThreadInv, ContextInv, TypeOK, PoolTypeOK, Running, ctxVars, poolVars,
           Kept, Open, SerializeMore
  <1>6. ASSUME NEW d \in Contexts PROVE ContextInv(d)'
    BY <1>1, <1>4
       DEF ThreadInv, ContextInv, TypeOK, PoolTypeOK, Running, ctxVars, poolVars,
           Kept, Open, SerializeMore
  <1>7. OneConstructor'
    BY DEF OneConstructor, ThreadInv, TypeOK, ctxVars
  <1>8. QED
    BY <1>2, <1>3, <1>5, <1>6, <1>7

(* The local lease of run() is obtained once.                              *)
LEMMA GetEphemeralLeaseInductive ==
  ASSUME CtxInv, PoolInv, NEW t \in Threads, GetEphemeralLease(t)
  PROVE  CtxInv' /\ [PoolNext]_poolVars
  <1> USE NilAssumption, HoldersAssumption DEF CtxInv, GetEphemeralLease, Goto
  <1> DEFINE h == t
  <1>1. h \in Holders /\ (HolderStep(h) \/ UNCHANGED poolVars)
    BY DEF HolderStep, TypeOK, ThreadInv, ContextInv, Open, Owns, Running
  <1>2. [PoolNext]_poolVars /\ PoolTypeOK'
    BY <1>1, PoolInvInductive DEF PoolNext, PoolInv
  <1>3. TypeOK'
    BY <1>2 DEF TypeOK, PCs, ThreadInv, ctxVars, callVars
  <1>4. \A g \in Holders \ {h} :
          /\ lease'[g] = lease[g]
          /\ closeCalled'[g] = closeCalled[g]
          /\ g \in closing' <=> g \in closing
          /\ Kept(g) => Kept(g)'
    BY <1>1, OthersUntouched, QuietStep DEF poolVars
  <1>5. ASSUME NEW s \in Threads PROVE ThreadInv(s)'
    BY <1>1, <1>4, GetLeaseOpens
       DEF ThreadInv, ContextInv, TypeOK, PoolTypeOK, Running, ctxVars, poolVars,
           Kept, Open, GetLease, LeasePooled, LeaseNew, NewLease
  <1>6. ASSUME NEW d \in Contexts PROVE ContextInv(d)'
    BY <1>1, <1>4
       DEF ThreadInv, ContextInv, TypeOK, PoolTypeOK, Running, ctxVars, poolVars,
           Kept, Open, GetLease, LeasePooled, LeaseNew, NewLease
  <1>7. OneConstructor'
    BY DEF OneConstructor, ThreadInv, TypeOK, ctxVars
  <1>8. QED
    BY <1>2, <1>3, <1>5, <1>6, <1>7

(* The finally block closes the local lease, if there is one.              *)
LEMMA FinallyInductive ==
  ASSUME CtxInv, PoolInv, NEW t \in Threads, Finally(t)
  PROVE  CtxInv' /\ [PoolNext]_poolVars
  <1> USE NilAssumption, HoldersAssumption DEF CtxInv, Finally, Goto
  <1> DEFINE h == t
  <1>1. h \in Holders /\ (HolderStep(h) \/ UNCHANGED poolVars)
    BY DEF HolderStep, TypeOK, ThreadInv, ContextInv, Open, Owns, Running
  <1>2. [PoolNext]_poolVars /\ PoolTypeOK'
    BY <1>1, PoolInvInductive DEF PoolNext, PoolInv
  <1>3. TypeOK'
    BY <1>2 DEF TypeOK, PCs, ThreadInv, ctxVars, callVars
  <1>4. \A g \in Holders \ {h} :
          /\ lease'[g] = lease[g]
          /\ closeCalled'[g] = closeCalled[g]
          /\ g \in closing' <=> g \in closing
          /\ Kept(g) => Kept(g)'
    BY <1>1, OthersUntouched, QuietStep DEF poolVars
  <1>5. ASSUME NEW s \in Threads PROVE ThreadInv(s)'
    BY <1>1, <1>4
       DEF ThreadInv, ContextInv, TypeOK, PoolTypeOK, Running, ctxVars, poolVars,
           Kept, Open, BeginClose, MarkClosed
  <1>6. ASSUME NEW d \in Contexts PROVE ContextInv(d)'
    BY <1>1, <1>4
       DEF ThreadInv, ContextInv, TypeOK, PoolTypeOK, Running, ctxVars, poolVars,
           Kept, Open, BeginClose, MarkClosed
  <1>7. OneConstructor'
    BY DEF OneConstructor, ThreadInv, TypeOK, ctxVars
  <1>8. QED
    BY <1>2, <1>3, <1>5, <1>6, <1>7

(* The collector frees arenas under no lease only.                         *)
LEMMA CollectBuffersInductive ==
  ASSUME CtxInv, PoolInv, NEW a \in Arenas, CollectBuffers(a)
  PROVE  CtxInv' /\ [PoolNext]_poolVars
  <1> USE NilAssumption, HoldersAssumption DEF CtxInv, CollectBuffers
  <1>1. PoolNext /\ PoolTypeOK'
    BY PoolInvInductive DEF PoolNext, PoolInv
  <1>2. \A g \in Holders :
          /\ lease'[g] = lease[g]
          /\ closeCalled'[g] = closeCalled[g]
          /\ g \in closing' <=> g \in closing
          /\ Kept(g) => Kept(g)'
    BY LeasesUntouched
  <1>3. TypeOK'
    BY <1>1 DEF TypeOK, ctxVars, callVars
  <1>4. ASSUME NEW s \in Threads PROVE ThreadInv(s)'
    BY <1>2 DEF ThreadInv, TypeOK, ctxVars, callVars, Kept, Open
  <1>5. ASSUME NEW d \in Contexts PROVE ContextInv(d)'
    BY <1>2 DEF ContextInv, TypeOK, ctxVars, callVars, Kept, Open
  <1>6. OneConstructor'
    BY DEF OneConstructor, ctxVars, callVars
  <1>7. QED
    BY <1>1, <1>3, <1>4, <1>5, <1>6

(* Every step of the library preserves both invariants, because every step *)
(* keeps the contract of the pool.                                         *)
LEMMA CtxInvInductive ==
  ASSUME CtxInv, PoolInv, [Next]_vars
  PROVE  CtxInv' /\ PoolInv' /\ [PoolNext]_poolVars
  <1>1. CASE UNCHANGED vars
    BY <1>1
       DEF vars, callVars, ctxVars, poolVars, CtxInv, TypeOK, PoolTypeOK, ThreadInv,
         ContextInv, OneConstructor, Open, Kept, PoolInv, ExclusiveArena, PooledBlank,
         Pooled, Owns, IsInjective, Range
  <1>2. ASSUME NEW t \in Threads, CallStep(t)
        PROVE  CtxInv' /\ [PoolNext]_poolVars
    BY <1>2, NewGetLeaseInductive, NewGetLeaseFailsInductive, SerializePersistentInductive,
       GetEphemeralLeaseInductive, SerializeEphemeralInductive, CheckBudgetInductive,
       NativeRejectsInductive, DdwafRunInductive, DdwafReturnInductive, FinallyInductive,
       AddFirstInductive, ExitInductive, ClearInductive, CloseTestInductive, CloseLeaseInductive,
       CloseAddFirstInductive DEF CallStep
  <1>3. ASSUME NEW t \in Threads, NEW c \in Contexts,
               New(t, c) \/ RunEnter(t, c) \/ CloseEnter(t, c)
        PROVE  CtxInv' /\ [PoolNext]_poolVars
    BY <1>3, NewInductive, RunEnterInductive, CloseEnterInductive
  <1>4. ASSUME NEW t \in Threads, CollectLocal(t)
        PROVE  CtxInv' /\ [PoolNext]_poolVars
    BY <1>4, CollectLocalInductive
  <1>5. ASSUME NEW c \in Contexts, DropContext(c) \/ CollectContext(c)
        PROVE  CtxInv' /\ [PoolNext]_poolVars
    BY <1>5, DropContextInductive, CollectContextInductive
  <1>6. ASSUME NEW a \in Arenas, CollectBuffers(a)
        PROVE  CtxInv' /\ [PoolNext]_poolVars
    BY <1>6, CollectBuffersInductive
  <1>7. CASE Next
    BY <1>2, <1>3, <1>4, <1>5, <1>6, <1>7, PoolInvInductive DEF Next
  <1>8. QED
    BY <1>1, <1>7

(* The invariants hold of the library, for any number of threads, contexts *)
(* and arenas.                                                             *)
THEOREM CtxInvariant == SafeSpec => [](CtxInv /\ PoolInv)
  <1>1. Init => CtxInv /\ PoolInv
    <2>1. ASSUME Init PROVE PoolInv
      BY <2>1, PoolInvInit DEF Init
    <2>2. ASSUME Init PROVE CtxInv
      BY <2>2, <2>1, NilAssumption, HoldersAssumption
         DEF Init, PoolInit, CtxInv, TypeOK, PoolInv,
         PCs, Inputs, ThreadInv, ContextInv, OneConstructor, Running, Open, Kept
    <2>3. QED
      BY <2>1, <2>2
  <1>2. CtxInv /\ PoolInv /\ [Next]_vars => (CtxInv /\ PoolInv)'
    BY CtxInvInductive
  <1>3. QED
    BY <1>1, <1>2, PTL DEF SafeSpec

(* Every variable keeps its type; in particular the lease a call works on  *)
(* is never missing when it is serialized into or closed.                  *)
THEOREM TypeCorrect == SafeSpec => []TypeOK
  <1>1. CtxInv => TypeOK
    BY DEF CtxInv
  <1>2. QED
    BY <1>1, CtxInvariant, PTL

(* WafContext uses ArenaPool and ArenaLease as they must be used: nothing  *)
(* is serialized through a closed lease, and no lease is closed by two     *)
(* threads at once or replaced while open.                                 *)
THEOREM ContractKept == SafeSpec => KeepsPoolContract
  <1>1. Init => PoolInit
    BY DEF Init
  <1>2. CtxInv /\ PoolInv /\ [Next]_vars => [PoolNext]_poolVars
    BY CtxInvInductive
  <1>3. QED
    BY <1>1, <1>2, CtxInvariant, PTL DEF SafeSpec, KeepsPoolContract, PoolSafeSpec

(* The library keeps the contract of the pool, and so, whatever its        *)
(* threads and the collector do, an arena has one owner at a time.         *)
THEOREM ContextPoolExclusive == SafeSpec => PoolIsExclusive
  BY ContractKept, PoolRefinesExclusive, PTL DEF KeepsPoolContract

(* What was encoded for a run is in place until ddwaf_run returns.         *)
THEOREM RunInputStays == SafeSpec => []RunInputIntact
  <1>1. CtxInv /\ PoolInv => RunInputIntact
    BY HoldersAssumption
       DEF CtxInv, ThreadInv, Kept, Open, PoolInv, RunInputIntact, Intact
  <1>2. QED
    BY <1>1, CtxInvariant, PTL

(* What a live native context points to is in place until it is destroyed. *)
THEOREM StoredInputStays == SafeSpec => []StoredInputIntact
  <1>1. ASSUME CtxInv, PoolInv, NEW c \in native PROVE refs[c] \subseteq Intact(c)
    <2>1. c \in Contexts /\ ContextInv(c)
      BY <1>1 DEF CtxInv, TypeOK
    <2>2. CASE obj[c] \in {"online", "offline"}
      BY <1>1, <2>1, <2>2, HoldersAssumption DEF ContextInv, Open, PoolInv, Intact
    <2>3. CASE obj[c] \in {"none", "constructing"}
      BY <2>1, <2>3 DEF ContextInv
    <2>4. QED
      BY <1>1, <2>1, <2>2, <2>3 DEF CtxInv, TypeOK
  <1>2. CtxInv /\ PoolInv => StoredInputIntact
    BY <1>1 DEF StoredInputIntact
  <1>3. QED
    BY <1>2, CtxInvariant, PTL

(* ddwaf_run has a live context to itself.                                 *)
THEOREM RunsOnLiveContext == SafeSpec => []RunOnLiveContext
  <1>1. CtxInv => RunOnLiveContext
    BY NilAssumption, HoldersAssumption
       DEF CtxInv, TypeOK, ThreadInv, ContextInv, Running, RunOnLiveContext
  <1>2. QED
    BY <1>1, CtxInvariant, PTL

(* A thread works only on arenas whose lease is its own: the ephemeral one *)
(* in its local variable, or the one of the context it has locked.         *)
LEMMA TouchesOwnArenas ==
  ASSUME CtxInv, PoolInv, NEW t \in Threads, NEW a \in Touches(t)
  PROVE  \E h \in Holders :
           /\ Owns(h) /\ lease[h] = a
           /\ h = t \/ (h \in Contexts /\ monitor[h] = t)
  <1> USE NilAssumption, HoldersAssumption
  <1>1. ThreadInv(t) /\ TypeOK
    BY DEF CtxInv
  <1>2. CASE /\ pc[t] \in {"serializeEph", "budget", "jni", "ddwaf", "finally", "addFirst"}
             /\ a = lease[t] /\ a # Nil
    <2>1. Owns(t)
      BY <1>1, <1>2 DEF ThreadInv, Open, Owns
    <2>2. QED
      BY <1>2, <2>1
  <1>3. CASE /\ pc[t] \in {"persistent", "jni", "ddwaf", "closeMark", "closeAddFirst"}
             /\ a \in {lease[ctx[t]]} \cup refs[ctx[t]]
    <2> DEFINE c == ctx[t]
    <2>1. c \in Contexts /\ monitor[c] = t /\ ContextInv(c)
      BY <1>1, <1>3 DEF CtxInv, ThreadInv
    <2>2. Owns(c) /\ a = lease[c]
      BY <1>1, <1>3, <2>1 DEF ThreadInv, ContextInv, Running, Open, Owns, PoolInv
    <2>3. QED
      BY <2>1, <2>2
  <1>4. QED
    BY <1>2, <1>3 DEF Touches

(* No two threads ever work on the same arena.                             *)
THEOREM ArenasNotShared == SafeSpec => []NoSharedArena
  <1>1. ASSUME CtxInv, PoolInv PROVE NoSharedArena
    <2> SUFFICES ASSUME NEW s \in Threads, NEW t \in Threads, s # t,
                        NEW a \in Touches(s), a \in Touches(t)
                 PROVE  FALSE
      BY DEF NoSharedArena
    <2>1. PICK g \in Holders : /\ Owns(g) /\ lease[g] = a
                               /\ g = s \/ (g \in Contexts /\ monitor[g] = s)
      BY <1>1, TouchesOwnArenas
    <2>2. PICK h \in Holders : /\ Owns(h) /\ lease[h] = a
                               /\ h = t \/ (h \in Contexts /\ monitor[h] = t)
      BY <1>1, TouchesOwnArenas
    <2>3. g = h
      BY <1>1, <2>1, <2>2 DEF PoolInv, ExclusiveArena
    <2>4. QED
      BY <2>1, <2>2, <2>3, HoldersAssumption
  <1>2. QED
    BY <1>1, CtxInvariant, PTL

(* No way out of run() keeps the ephemeral arena.                          *)
THEOREM EphemeralAlwaysReturned == SafeSpec => []EphemeralReturned
  <1>1. CtxInv => EphemeralReturned
    BY DEF CtxInv, ThreadInv, EphemeralReturned, Owns, Open
  <1>2. QED
    BY <1>1, CtxInvariant, PTL

=============================================================================
