------------------------------ MODULE WafHandle ------------------------------
(***************************************************************************)
(* WafHandle.java: the Java owner of a ddwaf_handle, used by many threads. *)
(*                                                                         *)
(* getKnownAddresses and getKnownActions call libddwaf under the read half *)
(* of a ReentrantReadWriteLock, close() destroys the ddwaf_handle under    *)
(* the write half.  The third user of the pointer is initWafContext, on    *)
(* behalf of the constructor of WafContext: it reads the final field       *)
(* nativeHandle and takes no lock.                                         *)
(*                                                                         *)
(* `online' is only tested with the lock held, so taking the lock and      *)
(* testing it are one step.  The lock itself is external: acquiring is     *)
(* modelled by what it excludes, not by how waiting threads are queued.    *)
(***************************************************************************)
EXTENDS Integers

CONSTANTS
  Threads,  (* threads of the application                                  *)
  Handles,  (* identities of WafHandle objects                             *)
  Nil

ASSUME NilThread == Nil \notin Threads /\ Nil \notin Handles

VARIABLES
  pc,       (* control state of each thread                                *)
  this,     (* the handle its call is on                                   *)
  online,   (* handles that exist and are online                           *)
  exists,   (* handles that were constructed                               *)
  native,   (* handles whose ddwaf_handle is allocated                     *)
  readers,  (* threads that hold the read lock                             *)
  writer    (* the thread that holds the write lock                        *)

vars == <<pc, this, online, exists, native, readers, writer>>

PCs == {"idle", "known", "readUnlock", "destroy", "writeUnlock", "initContext"}

Init ==
  /\ pc = [t \in Threads |-> "idle"]
  /\ this = [t \in Threads |-> Nil]
  /\ online = {} /\ exists = {} /\ native = {}
  /\ readers = [h \in Handles |-> {}]
  /\ writer = [h \in Handles |-> Nil]

Call(t, h, to) ==
  /\ pc[t] = "idle"
  /\ h \in exists
  /\ pc' = [pc EXCEPT ![t] = to]
  /\ this' = [this EXCEPT ![t] = h]

Return(t) ==
  /\ pc' = [pc EXCEPT ![t] = "idle"]
  /\ this' = [this EXCEPT ![t] = Nil]

-----------------------------------------------------------------------------
(* buildInstance has made a ddwaf_handle and calls the constructor.        *)
Construct(h) ==
  /\ h \notin exists
  /\ exists' = exists \cup {h}
  /\ online' = online \cup {h}
  /\ native' = native \cup {h}
  /\ UNCHANGED <<pc, this, readers, writer>>

(* Mutant: the readers do not wait for close().                            *)
KnownUnlocked(t, h) ==
  /\ readers' = [readers EXCEPT ![h] = @ \cup {t}]
  /\ \/ h \in online /\ Call(t, h, "known")
     \/ h \notin online /\ Call(t, h, "readUnlock")
  /\ UNCHANGED <<online, exists, native, writer>>

(* getKnownAddresses and getKnownActions: readLock.lock(), checkIfOnline(). *)
Known(t, h) ==
  /\ writer[h] = Nil
  /\ readers' = [readers EXCEPT ![h] = @ \cup {t}]
  /\ \/ h \in online /\ Call(t, h, "known")
     \/ h \notin online /\ Call(t, h, "readUnlock")     \* checkIfOnline() throws
  /\ UNCHANGED <<online, exists, native, writer>>

(* The native method copies what libddwaf points it to, or throws.         *)
KnownReturn(t) ==
  /\ pc[t] = "known"
  /\ pc' = [pc EXCEPT ![t] = "readUnlock"]
  /\ UNCHANGED <<this, online, exists, native, readers, writer>>

ReadUnlock(t) ==
  /\ pc[t] = "readUnlock"
  /\ readers' = [readers EXCEPT ![this[t]] = @ \ {t}]
  /\ Return(t)
  /\ UNCHANGED <<online, exists, native, writer>>

-----------------------------------------------------------------------------
(* close(): writeLock.lock(), and return at once on an offline handle.     *)
Close(t, h) ==
  /\ writer[h] = Nil /\ readers[h] = {}
  /\ writer' = [writer EXCEPT ![h] = t]
  /\ \/ h \in online /\ Call(t, h, "destroy")
     \/ h \notin online /\ Call(t, h, "writeUnlock")
  /\ UNCHANGED <<online, exists, native, readers>>

(* destroyWafHandle.                                                       *)
Destroy(t) ==
  /\ pc[t] = "destroy"
  /\ native' = native \ {this[t]}
  /\ pc' = [pc EXCEPT ![t] = "writeUnlock"]
  /\ UNCHANGED <<this, online, exists, readers, writer>>

(* Mutant: online is left alone.                                           *)
WriteUnlockOnline(t) ==
  /\ pc[t] = "writeUnlock"
  /\ writer' = [writer EXCEPT ![this[t]] = Nil]
  /\ Return(t)
  /\ UNCHANGED <<online, exists, native, readers>>

(* The finally block: online = false, writeLock.unlock().                  *)
WriteUnlock(t) ==
  /\ pc[t] = "writeUnlock"
  /\ online' = online \ {this[t]}
  /\ writer' = [writer EXCEPT ![this[t]] = Nil]
  /\ Return(t)
  /\ UNCHANGED <<exists, native, readers>>

-----------------------------------------------------------------------------
(* initWafContext passes nativeHandle to ddwaf_context_init ...            *)
InitWafContext(t, h) ==
  /\ Call(t, h, "initContext")
  /\ UNCHANGED <<online, exists, native, readers, writer>>

(* ... which returns a context that needs the ddwaf_handle no longer.      *)
InitReturn(t) ==
  /\ pc[t] = "initContext"
  /\ Return(t)
  /\ UNCHANGED <<online, exists, native, readers, writer>>

Next ==
  \/ \E h \in Handles : Construct(h)
  \/ \E t \in Threads :
       \/ KnownReturn(t) \/ ReadUnlock(t) \/ Destroy(t) \/ WriteUnlock(t) \/ InitReturn(t)
       \/ \E h \in Handles : Known(t, h) \/ Close(t, h) \/ InitWafContext(t, h)

Spec == Init /\ [][Next]_vars

-----------------------------------------------------------------------------
TypeOK ==
  /\ pc \in [Threads -> PCs]
  /\ this \in [Threads -> Handles \cup {Nil}]
  /\ exists \in SUBSET Handles
  /\ online \in SUBSET exists
  /\ native \in SUBSET exists
  /\ readers \in [Handles -> SUBSET Threads]
  /\ writer \in [Handles -> Threads \cup {Nil}]

(* libddwaf reads the addresses and actions of a ddwaf_handle that is      *)
(* there: close() waits for the readers, and nobody reads after it.        *)
KnownOnLiveHandle == \A t \in Threads : pc[t] = "known" => this[t] \in native

(* However many threads call close(), ddwaf_destroy is called once.        *)
DestroyedOnce ==
  \A t \in Threads : pc[t] = "destroy" =>
    /\ this[t] \in native
    /\ \A s \in Threads \ {t} : pc[s] = "destroy" => this[s] # this[t]

(* The same for the third use of the pointer, which does not hold: the     *)
(* constructor of WafContext neither locks the handle nor checks online.   *)
ContextOnLiveHandle == \A t \in Threads : pc[t] = "initContext" => this[t] \in native

-----------------------------------------------------------------------------
(* The inductive invariant: who is where holds which half of the lock, the *)
(* halves exclude each other, and outside of close() a handle is online    *)
(* exactly as long as its ddwaf_handle is there.                           *)
LockInv ==
  /\ \A t \in Threads, h \in Handles :
       t \in readers[h] <=> pc[t] \in {"known", "readUnlock"} /\ this[t] = h
  /\ \A t \in Threads, h \in Handles :
       writer[h] = t <=> pc[t] \in {"destroy", "writeUnlock"} /\ this[t] = h
  /\ \A h \in Handles : writer[h] # Nil => readers[h] = {}

LifeInv ==
  /\ \A t \in Threads : pc[t] # "idle" => this[t] \in exists
  /\ \A h \in exists : writer[h] = Nil => (h \in online <=> h \in native)
  /\ \A t \in Threads : pc[t] = "known" => this[t] \in online
  /\ \A t \in Threads : pc[t] = "destroy" => this[t] \in native
  /\ \A t \in Threads : pc[t] = "writeUnlock" => this[t] \notin native

HandleInv == TypeOK /\ LockInv /\ LifeInv

=============================================================================
