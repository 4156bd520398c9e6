--------------------------- MODULE WafHandleProofs ---------------------------
(***************************************************************************)
(* Proofs about WafHandle, for any number of threads and handles.  Every   *)
(* action is shown to preserve the type, the state of the lock and the     *)
(* life of the handles in turn.                                            *)
(***************************************************************************)
EXTENDS WafHandle, TLAPS

(* The empty program state satisfies the invariant.                        *)
LEMMA InitHandleInv == Init => HandleInv
BY NilThread DEF Init, HandleInv, TypeOK, LockInv, LifeInv, PCs

(* Constructing a WafHandle around a new ddwaf_handle.                     *)
LEMMA ConstructInv ==
  ASSUME HandleInv, NEW h \in Handles, Construct(h)
  PROVE  HandleInv'
<1>1. TypeOK'
  BY DEF HandleInv, TypeOK, Construct
<1>2. LockInv'
  BY DEF HandleInv, LockInv, Construct
<1>3. LifeInv'
  BY DEF HandleInv, TypeOK, LifeInv, Construct
<1> QED
  BY <1>1, <1>2, <1>3 DEF HandleInv

(* getKnownAddresses and getKnownActions entering the read lock.           *)
LEMMA KnownInv ==
  ASSUME HandleInv, NEW t \in Threads, NEW h \in Handles, Known(t, h)
  PROVE  HandleInv'
<1>1. TypeOK'
  BY DEF HandleInv, TypeOK, Known, Call, PCs
<1>2. LockInv'
  BY NilThread DEF HandleInv, TypeOK, LockInv, Known, Call
<1>3. LifeInv'
  BY DEF HandleInv, TypeOK, LifeInv, Known, Call
<1> QED
  BY <1>1, <1>2, <1>3 DEF HandleInv

(* The native half of the two methods returning.                           *)
LEMMA KnownReturnInv ==
  ASSUME HandleInv, NEW t \in Threads, KnownReturn(t)
  PROVE  HandleInv'
<1>1. TypeOK'
  BY DEF HandleInv, TypeOK, KnownReturn, PCs
<1>2. LockInv'
  BY DEF HandleInv, TypeOK, LockInv, KnownReturn
<1>3. LifeInv'
  BY DEF HandleInv, TypeOK, LifeInv, KnownReturn
<1> QED
  BY <1>1, <1>2, <1>3 DEF HandleInv

(* Releasing the read lock.                                                *)
LEMMA ReadUnlockInv ==
  ASSUME HandleInv, NEW t \in Threads, ReadUnlock(t)
  PROVE  HandleInv'
<1>1. this[t] \in Handles
  BY DEF HandleInv, TypeOK, LifeInv, ReadUnlock
<1>2. TypeOK'
  BY <1>1 DEF HandleInv, TypeOK, ReadUnlock, Return, PCs
<1>3. LockInv'
  BY <1>1, NilThread DEF HandleInv, TypeOK, LockInv, ReadUnlock, Return
<1>4. LifeInv'
  BY DEF HandleInv, TypeOK, LifeInv, ReadUnlock, Return
<1> QED
  BY <1>2, <1>3, <1>4 DEF HandleInv

(* close() entering the write lock.                                        *)
LEMMA CloseInv ==
  ASSUME HandleInv, NEW t \in Threads, NEW h \in Handles, Close(t, h)
  PROVE  HandleInv'
<1>1. TypeOK'
  BY DEF HandleInv, TypeOK, Close, Call, PCs
<1>2. LockInv'
  BY NilThread DEF HandleInv, TypeOK, LockInv, Close, Call
<1>3. LifeInv'
  BY NilThread DEF HandleInv, TypeOK, LifeInv, Close, Call
<1> QED
  BY <1>1, <1>2, <1>3 DEF HandleInv

(* close() destroying the ddwaf_handle: it is alone with it.               *)
LEMMA DestroyInv ==
  ASSUME HandleInv, NEW t \in Threads, Destroy(t)
  PROVE  HandleInv'
<1>1. this[t] \in Handles /\ writer[this[t]] = t
  BY DEF HandleInv, TypeOK, LockInv, LifeInv, Destroy
<1>2. TypeOK'
  BY DEF HandleInv, TypeOK, Destroy, PCs
<1>3. LockInv'
  BY DEF HandleInv, TypeOK, LockInv, Destroy
<1>4. LifeInv'
  <2>1. \A s \in Threads \ {t} : pc[s] = "destroy" => this[s] # this[t]
    BY <1>1 DEF HandleInv, TypeOK, LockInv, LifeInv
  <2> QED
    BY <1>1, <2>1, NilThread DEF HandleInv, TypeOK, LifeInv, Destroy
<1> QED
  BY <1>2, <1>3, <1>4 DEF HandleInv

(* close() going offline and releasing the write lock: by then the         *)
(* ddwaf_handle is gone, and no reader was let in.                         *)
LEMMA WriteUnlockInv ==
  ASSUME HandleInv, NEW t \in Threads, WriteUnlock(t)
  PROVE  HandleInv'
<1>1. this[t] \in Handles /\ writer[this[t]] = t /\ readers[this[t]] = {}
  BY NilThread DEF HandleInv, TypeOK, LockInv, LifeInv, WriteUnlock
<1>2. TypeOK'
  BY <1>1 DEF HandleInv, TypeOK, WriteUnlock, Return, PCs
<1>3. LockInv'
  BY <1>1, NilThread DEF HandleInv, TypeOK, LockInv, WriteUnlock, Return
<1>4. LifeInv'
  <2>1. \A s \in Threads : pc[s] = "known" => this[s] # this[t]
    BY <1>1 DEF HandleInv, TypeOK, LockInv
  <2> QED
    BY <1>1, <2>1 DEF HandleInv, TypeOK, LifeInv, WriteUnlock, Return
<1> QED
  BY <1>2, <1>3, <1>4 DEF HandleInv

(* initWafContext starting: nothing changes but the place of its thread.   *)
LEMMA InitWafContextInv ==
  ASSUME HandleInv, NEW t \in Threads, NEW h \in Handles, InitWafContext(t, h)
  PROVE  HandleInv'
<1>1. TypeOK'
  BY DEF HandleInv, TypeOK, InitWafContext, Call, PCs
<1>2. LockInv'
  BY DEF HandleInv, TypeOK, LockInv, InitWafContext, Call
<1>3. LifeInv'
  BY DEF HandleInv, TypeOK, LifeInv, InitWafContext, Call
<1> QED
  BY <1>1, <1>2, <1>3 DEF HandleInv

(* ddwaf_context_init returning.                                           *)
LEMMA InitReturnInv ==
  ASSUME HandleInv, NEW t \in Threads, InitReturn(t)
  PROVE  HandleInv'
<1>1. TypeOK'
  BY DEF HandleInv, TypeOK, InitReturn, Return, PCs
<1>2. LockInv'
  BY DEF HandleInv, TypeOK, LockInv, InitReturn, Return
<1>3. LifeInv'
  BY DEF HandleInv, TypeOK, LifeInv, InitReturn, Return
<1> QED
  BY <1>1, <1>2, <1>3 DEF HandleInv

(* The lock and the life of the handles are as HandleInv says in every     *)
(* reachable state.                                                        *)
THEOREM HandleInvariant == Spec => []HandleInv
<1>1. HandleInv /\ [Next]_vars => HandleInv'
  <2> SUFFICES ASSUME HandleInv, [Next]_vars PROVE HandleInv'
    OBVIOUS
  <2>1. CASE UNCHANGED vars
    BY <2>1 DEF vars, HandleInv, TypeOK, LockInv, LifeInv
  <2>2. CASE Next
    BY <2>2, ConstructInv, KnownInv, KnownReturnInv, ReadUnlockInv, CloseInv, DestroyInv,
       WriteUnlockInv, InitWafContextInv, InitReturnInv DEF Next
  <2> QED
    BY <2>1, <2>2
<1> QED
  BY InitHandleInv, <1>1, PTL DEF Spec

(* getKnownAddresses and getKnownActions never read a destroyed handle,    *)
(* however many threads read and close.                                    *)
THEOREM KnownAlwaysLive == Spec => []KnownOnLiveHandle
<1>1. HandleInv => KnownOnLiveHandle
  BY NilThread DEF HandleInv, TypeOK, LockInv, LifeInv, KnownOnLiveHandle
<1> QED
  BY HandleInvariant, <1>1, PTL

(* Concurrent and repeated close()s destroy the ddwaf_handle once.         *)
THEOREM AlwaysDestroyedOnce == Spec => []DestroyedOnce
<1>1. HandleInv => DestroyedOnce
  BY DEF HandleInv, TypeOK, LockInv, LifeInv, DestroyedOnce
<1> QED
  BY HandleInvariant, <1>1, PTL

=============================================================================
