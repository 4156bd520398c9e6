------------------------------ MODULE ArenaPool ------------------------------
(***************************************************************************)
(* The pool of serialization arenas of ByteBufferSerializer.java           *)
(* (ArenaPool, ArenaLease and the parts of Arena they use).                *)
(*                                                                         *)
(* An arena owns the off-heap buffers in which Java values are laid out    *)
(* for libddwaf.  Arenas are expensive, so they are pooled: a lease takes  *)
(* one (the most recently returned one, or a new one), is serialized into, *)
(* and gives it back when it is closed.  A lease object lives in a field   *)
(* of a WafContext or in a local variable; `Holders' is the set of those   *)
(* places, and lease[h] is the arena of the lease object that place h      *)
(* refers to (the final field ArenaLease.arena, kept after close()).       *)
(*                                                                         *)
(* ArenaLease is not synchronized.  The module's own specification lets    *)
(* every holder call it under the contract its callers must keep: no       *)
(* serialization after close(), and no two calls on one lease at once; a   *)
(* place is given a new lease only when it has let go of the last one.     *)
(* Module WafContext shows that the library's own callers keep it.         *)
(***************************************************************************)
EXTENDS Integers, Sequences, Functions

CONSTANTS
  Arenas,   (* identities of arenas (of their off-heap memory)             *)
  Holders,  (* fields and variables that can refer to an ArenaLease        *)
  Nil       (* Java's null                                                 *)

ASSUME NilAssumption == Nil \notin Arenas /\ Nil \notin Holders

VARIABLES
  pool,        (* ArenaPool.arenas, first element first                    *)
  alloc,       (* arenas whose buffers are allocated                       *)
  used,        (* arenas with something allocated in them since reset()    *)
  lease,       (* lease[h].arena, Nil when h refers to no lease            *)
  closeCalled, (* the closeCalled flag of h's lease                        *)
  closing      (* holders in close(), between reset() and addFirst()       *)

poolVars == <<pool, alloc, used, lease, closeCalled, closing>>

Pooled == Range(pool)

(* The lease of h still has its arena to itself.                           *)
Owns(h) == lease[h] # Nil /\ (~closeCalled[h] \/ h \in closing)

PoolInit ==
  /\ pool = <<>>
  /\ alloc = {}
  /\ used = {}
  /\ lease = [h \in Holders |-> Nil]
  /\ closeCalled = [h \in Holders |-> FALSE]
  /\ closing = {}

-----------------------------------------------------------------------------
(* new ArenaLease(arena), stored in h.                                     *)
NewLease(h, a) ==
  /\ lease' = [lease EXCEPT ![h] = a]
  /\ closeCalled' = [closeCalled EXCEPT ![h] = FALSE]

(* arenas.pollFirst() found an arena.                                      *)
LeasePooled(h) ==
  /\ pool # <<>>
  /\ pool' = Tail(pool)
  /\ NewLease(h, Head(pool))
  /\ UNCHANGED <<alloc, used, closing>>

(* Mutant: a lease without a pooled arena gets one that may be in use.     *)
LeaseNewShared(h) ==
  /\ pool = <<>>
  /\ \E a \in Arenas :
       /\ alloc' = alloc \cup {a}
       /\ NewLease(h, a)
  /\ UNCHANGED <<pool, used, closing>>

(* The pool was empty: new Arena() allocates fresh buffers.                *)
LeaseNew(h) ==
  /\ pool = <<>>
  /\ \E a \in Arenas \ alloc :
       /\ alloc' = alloc \cup {a}
       /\ NewLease(h, a)
  /\ UNCHANGED <<pool, used, closing>>

GetLease(h) == LeasePooled(h) \/ LeaseNew(h)

(* serializeMore: allocate in the arena, whether or not it then throws.    *)
(* What is laid out inside an arena is the business of module Arena.       *)
SerializeMore(h) ==
  /\ lease[h] # Nil
  /\ used' = used \cup {lease[h]}
  /\ UNCHANGED <<pool, alloc, lease, closeCalled, closing>>

(* Mutant: close() without arena.reset().                                  *)
MarkClosedDirty(h) ==
  /\ lease[h] # Nil
  /\ closeCalled' = [closeCalled EXCEPT ![h] = TRUE]
  /\ closing' = closing \cup {h}
  /\ UNCHANGED <<pool, alloc, used, lease>>

(* close(), past its test of closeCalled: it sets closeCalled and resets   *)
(* the arena, in this order and without a lock.                            *)
MarkClosed(h) ==
  /\ lease[h] # Nil
  /\ closeCalled' = [closeCalled EXCEPT ![h] = TRUE]
  /\ used' = used \ {lease[h]}
  /\ closing' = closing \cup {h}
  /\ UNCHANGED <<pool, alloc, lease>>

(* The test together with what follows it, for a holder who is alone with  *)
(* its lease; a second call returns at once and is a stuttering step.      *)
(* Somebody whose lease others can reach takes two steps: MarkClosed comes *)
(* later than the test, and nothing here stops two of them in between.     *)
BeginClose(h) == ~closeCalled[h] /\ MarkClosed(h)

(* Mutant: close() that does not return the arena.                         *)
EndCloseLost(h) ==
  /\ h \in closing
  /\ closing' = closing \ {h}
  /\ UNCHANGED <<pool, alloc, used, lease, closeCalled>>

(* The last line of close() puts the arena at the front of the pool.       *)
EndClose(h) ==
  /\ h \in closing
  /\ pool' = <<lease[h]>> \o pool
  /\ closing' = closing \ {h}
  /\ UNCHANGED <<alloc, used, lease, closeCalled>>

(* The lease object of h becomes unreachable (h itself died, or was        *)
(* overwritten), closed or not.                                            *)
Forget(h) ==
  /\ lease[h] # Nil
  /\ lease' = [lease EXCEPT ![h] = Nil]
  /\ UNCHANGED <<pool, alloc, used, closeCalled, closing>>

(* The garbage collector frees the buffers of an unreachable arena.        *)
CollectArena(a) ==
  /\ a \in alloc
  /\ a \notin Pooled
  /\ \A h \in Holders : lease[h] # a
  /\ alloc' = alloc \ {a}
  /\ used' = used \ {a}
  /\ UNCHANGED <<pool, lease, closeCalled, closing>>

(* What holder h may do under the contract.                                *)
HolderStep(h) ==
  \/ lease[h] = Nil /\ GetLease(h)
  \/ Owns(h) /\ h \notin closing /\ SerializeMore(h)
  \/ BeginClose(h)
  \/ EndClose(h)
  \/ h \notin closing /\ Forget(h)

PoolNext ==
  \/ \E h \in Holders : HolderStep(h)
  \/ \E a \in Arenas : CollectArena(a)

(* A thread inside close() is not suspended for ever.                      *)
PoolFairness == \A h \in Holders : WF_poolVars(EndClose(h))

PoolSafeSpec == PoolInit /\ [][PoolNext]_poolVars

PoolSpec == PoolSafeSpec /\ PoolFairness

-----------------------------------------------------------------------------
PoolTypeOK ==
  /\ pool \in Seq(Arenas)
  /\ alloc \in SUBSET Arenas
  /\ used \in SUBSET Arenas
  /\ lease \in [Holders -> Arenas \cup {Nil}]
  /\ closeCalled \in [Holders -> BOOLEAN]
  /\ closing \in SUBSET Holders

(* An arena sits in the pool at most once, is not under an open lease      *)
(* while it is pooled, and is never under two open leases: pollFirst()     *)
(* removes what it returns and the closeCalled guard of close() keeps a    *)
(* repeated close from returning an arena somebody else has by then.       *)
ExclusiveArena ==
  /\ IsInjective(pool)
  /\ \A h \in Holders : Owns(h) => lease[h] \notin Pooled
  /\ \A g, h \in Holders : Owns(g) /\ Owns(h) /\ lease[g] = lease[h] => g = h

(* Whoever is handed an arena from the pool starts from an empty one: it   *)
(* was reset before addFirst() made it visible and nobody has written to   *)
(* it since.                                                               *)
PooledBlank == Pooled \cap used = {}

(* An arena whose lease is in close() does reach the pool.                 *)
ClosedArenaReturns ==
  \A h \in Holders, a \in Arenas : (h \in closing /\ lease[h] = a) ~> a \in Pooled

(* The inductive invariant behind these: the pool and the reachable leases *)
(* only name allocated arenas, and a lease in close() has reset its arena. *)
PoolInv ==
  /\ PoolTypeOK
  /\ ExclusiveArena
  /\ PooledBlank
  /\ Pooled \subseteq alloc
  /\ \A h \in Holders : lease[h] # Nil => lease[h] \in alloc
  /\ \A h \in closing : lease[h] # Nil /\ closeCalled[h] /\ lease[h] \notin used

(* The holders whose lease has arena a: at most one, by ExclusiveArena.    *)
OwnersOf(a) == {h \in Holders : Owns(h) /\ lease[h] = a}

(* The state of each arena in the terms of ExclusivePool.                  *)
OwnerOf(a) ==
  IF a \in Pooled THEN "free"
  ELSE IF OwnersOf(a) # {} THEN CHOOSE h \in OwnersOf(a) : TRUE
  ELSE IF a \in alloc THEN "dropped" ELSE "absent"

Ownership == [a \in Arenas |-> OwnerOf(a)]

Exclusive == INSTANCE ExclusivePool WITH
  Resources <- Arenas, Owners <- Holders,
  Free <- "free", Dropped <- "dropped", Absent <- "absent",
  owner <- Ownership

(* The pool implements ExclusivePool: an arena goes from one lease to the  *)
(* next only through the pool, and only an arena whose lease was dropped   *)
(* unclosed is ever freed.                                                 *)
PoolIsExclusive == Exclusive!ExclusiveSpec

=============================================================================
