------------------------------ MODULE WafContext ------------------------------
(***************************************************************************)
(* WafContext.java with the native half of its methods (waf_jni.c): the    *)
(* life of WAF contexts, the runs on them by concurrent threads, and the   *)
(* off-heap memory those runs share with libddwaf.                         *)
(*                                                                         *)
(* libddwaf copies nothing.  The persistent input of every ddwaf_run stays *)
(* referenced by the native context until it is destroyed; the ephemeral   *)
(* input is read until ddwaf_run returns.  So the arena behind a context's *)
(* lease must survive, untouched by anybody else, as long as the native    *)
(* context does, and the arena of an ephemeral lease as long as the run,   *)
(* although arenas are recycled through a pool and freed by a concurrent   *)
(* garbage collector.                                                      *)
(*                                                                         *)
(* A thread makes one call at a time; pc[t] is where it is in it.  The     *)
(* monitor of a context is held from the entry of run() and close() to     *)
(* their exit.  Calls that change nothing (run() or close() on an offline  *)
(* context, which throw from checkOnline()) are stuttering steps.          *)
(***************************************************************************)
EXTENDS ArenaPool

CONSTANTS
  Threads,   (* threads of the application                                 *)
  Contexts   (* identities of WafContext objects                           *)

ASSUME HoldersAssumption ==
  /\ Holders = Threads \cup Contexts
  /\ Threads \cap Contexts = {}

VARIABLES
  pc,       (* control state of each thread                                *)
  ctx,      (* the WafContext its call is on (the `this' of its frame)     *)
  input,    (* which arguments of run() are not null                       *)
  monitor,  (* owner of the monitor of each context                        *)
  obj,      (* the WafContext object: none, constructing, online, offline  *)
  held,     (* contexts the application still has a reference to           *)
  native,   (* contexts whose ptr names a live ddwaf_context               *)
  refs      (* arenas the ddwaf_context keeps pointers into                *)

callVars == <<pc, ctx, input>>
ctxVars  == <<monitor, obj, held, native, refs>>
vars     == <<callVars, ctxVars, poolVars>>

(* run() passes persistent data only and runEphemeral() ephemeral data     *)
(* only, and either may pass null.                                         *)
Inputs == {{}, {"persistent"}, {"ephemeral"}}

PCs == {"idle",
        "newLease",                                        \* constructor
        "persistent", "ephemeral", "serializeEph",         \* run(): encoding,
        "budget", "jni", "ddwaf", "finally", "addFirst",   \* native call, cleanup
        "clear", "closeLease",                             \* close(), and its
        "closeMark", "closeAddFirst",                      \* lease.close()
        "exit"}                                            \* leaving the monitor

Init ==
  /\ PoolInit
  /\ pc = [t \in Threads |-> "idle"]
  /\ ctx = [t \in Threads |-> Nil]
  /\ input = [t \in Threads |-> {}]
  /\ monitor = [c \in Contexts |-> Nil]
  /\ obj = [c \in Contexts |-> "none"]
  /\ held = {}
  /\ native = {}
  /\ refs = [c \in Contexts |-> {}]

Goto(t, from, to) ==
  /\ pc[t] = from
  /\ \E next \in to : pc' = [pc EXCEPT ![t] = next]

-----------------------------------------------------------------------------
(* The constructor.  initWafContext creates the native context first ...   *)
New(t, c) ==
  /\ Goto(t, "idle", {"newLease"})
  /\ obj[c] = "none"
  /\ ctx' = [ctx EXCEPT ![t] = c]
  /\ obj' = [obj EXCEPT ![c] = "constructing"]
  /\ native' = native \cup {c}
  /\ UNCHANGED <<input, monitor, held, refs, poolVars>>

(* ... then the context gets its lease and is handed to the application.   *)
NewGetLease(t) ==
  /\ Goto(t, "newLease", {"idle"})
  /\ GetLease(ctx[t])
  /\ obj' = [obj EXCEPT ![ctx[t]] = "online"]
  /\ held' = held \cup {ctx[t]}
  /\ ctx' = [ctx EXCEPT ![t] = Nil]
  /\ UNCHANGED <<input, monitor, native, refs>>

(* new Arena() throws OutOfMemoryError out of the constructor: there is no *)
(* object, and the native context leaks: it stays allocated, but nothing   *)
(* names it any more.                                                      *)
NewGetLeaseFails(t) ==
  /\ Goto(t, "newLease", {"idle"})
  /\ pool = <<>>
  /\ obj' = [obj EXCEPT ![ctx[t]] = "none"]
  /\ native' = native \ {ctx[t]}
  /\ ctx' = [ctx EXCEPT ![t] = Nil]
  /\ UNCHANGED <<input, monitor, held, refs, poolVars>>

-----------------------------------------------------------------------------
(* Mutant: run() does not synchronize on the context.                      *)
RunEnterUnlocked(t, c) ==
  /\ Goto(t, "idle", {"persistent"})
  /\ c \in held
  /\ obj[c] = "online"
  /\ lease[t] = Nil
  /\ monitor' = [monitor EXCEPT ![c] = t]
  /\ ctx' = [ctx EXCEPT ![t] = c]
  /\ \E in \in Inputs : input' = [input EXCEPT ![t] = in]
  /\ UNCHANGED <<obj, held, native, refs, poolVars>>

(* Mutant: run() without checkOnline().                                    *)
RunEnterOffline(t, c) ==
  /\ Goto(t, "idle", {"persistent"})
  /\ c \in held
  /\ monitor[c] = Nil
  /\ lease[t] = Nil
  /\ monitor' = [monitor EXCEPT ![c] = t]
  /\ ctx' = [ctx EXCEPT ![t] = c]
  /\ \E in \in Inputs : input' = [input EXCEPT ![t] = in]
  /\ UNCHANGED <<obj, held, native, refs, poolVars>>

(* run() and runEphemeral(): enter the monitor and pass checkOnline().     *)
(* lease[t] is the local variable ephemeralLease, null on entry.           *)
RunEnter(t, c) ==
  /\ Goto(t, "idle", {"persistent"})
  /\ c \in held
  /\ monitor[c] = Nil
  /\ obj[c] = "online"
  /\ lease[t] = Nil
  /\ monitor' = [monitor EXCEPT ![c] = t]
  /\ ctx' = [ctx EXCEPT ![t] = c]
  /\ \E in \in Inputs : input' = [input EXCEPT ![t] = in]
  /\ UNCHANGED <<obj, held, native, refs, poolVars>>

(* Encoding may throw half way, leaving unused elements in the arena.      *)
SerializePersistent(t) ==
  /\ \/ /\ "persistent" \in input[t]
        /\ Goto(t, "persistent", {"ephemeral", "finally"})
        /\ SerializeMore(ctx[t])
     \/ /\ "persistent" \notin input[t]
        /\ Goto(t, "persistent", {"ephemeral"})
        /\ UNCHANGED poolVars
  /\ UNCHANGED <<ctx, input, ctxVars>>

GetEphemeralLease(t) ==
  /\ \/ /\ "ephemeral" \in input[t]
        /\ Goto(t, "ephemeral", {"serializeEph"})
        /\ GetLease(t)
     \/ /\ "ephemeral" \in input[t]
        /\ Goto(t, "ephemeral", {"finally"})     \* OutOfMemoryError
        /\ pool = <<>>
        /\ UNCHANGED poolVars
     \/ /\ "ephemeral" \notin input[t]
        /\ Goto(t, "ephemeral", {"budget"})
        /\ UNCHANGED poolVars
  /\ UNCHANGED <<ctx, input, ctxVars>>

(* Mutant: an encoding failure bypasses the finally block.                 *)
SerializeEphemeralThrows(t) ==
  /\ Goto(t, "serializeEph", {"budget", "exit"})
  /\ SerializeMore(t)
  /\ UNCHANGED <<ctx, input, ctxVars>>

SerializeEphemeral(t) ==
  /\ Goto(t, "serializeEph", {"budget", "finally"})
  /\ SerializeMore(t)
  /\ UNCHANGED <<ctx, input, ctxVars>>

(* TimeoutWafException when encoding used up the budget.                   *)
CheckBudget(t) ==
  /\ Goto(t, "budget", {"jni", "finally"})
  /\ UNCHANGED <<ctx, input, ctxVars, poolVars>>

(* The native prologue throws (library not initialized, both buffers null, *)
(* budget exhausted) before libddwaf has seen the input ...                *)
NativeRejects(t) ==
  /\ Goto(t, "jni", {"finally"})
  /\ UNCHANGED <<ctx, input, ctxVars, poolVars>>

(* ... or calls ddwaf_run, which stores the persistent input in the        *)
(* context and reads both.                                                 *)
DdwafRun(t) ==
  /\ Goto(t, "jni", {"ddwaf"})
  /\ input[t] # {}
  /\ refs' = [refs EXCEPT ![ctx[t]] =
                @ \cup (IF "persistent" \in input[t] THEN {lease[ctx[t]]} ELSE {})]
  /\ UNCHANGED <<ctx, input, monitor, obj, held, native, poolVars>>

(* Whatever ddwaf_run returned becomes a result or an exception.           *)
DdwafReturn(t) ==
  /\ Goto(t, "ddwaf", {"finally"})
  /\ UNCHANGED <<ctx, input, ctxVars, poolVars>>

(* The finally block closes the ephemeral lease if there is one.  Only     *)
(* this frame refers to it, so its test of closeCalled is not raced.       *)
Finally(t) ==
  /\ \/ /\ lease[t] # Nil
        /\ Goto(t, "finally", {"addFirst"})
        /\ BeginClose(t)
     \/ /\ lease[t] = Nil
        /\ Goto(t, "finally", {"exit"})
        /\ UNCHANGED poolVars
  /\ UNCHANGED <<ctx, input, ctxVars>>

AddFirst(t) ==
  /\ Goto(t, "addFirst", {"exit"})
  /\ EndClose(t)
  /\ UNCHANGED <<ctx, input, ctxVars>>

(* run() and close() leave the monitor and return or throw.                *)
Exit(t) ==
  /\ Goto(t, "exit", {"idle"})
  /\ monitor' = [monitor EXCEPT ![ctx[t]] = Nil]
  /\ ctx' = [ctx EXCEPT ![t] = Nil]
  /\ input' = [input EXCEPT ![t] = {}]
  /\ UNCHANGED <<obj, held, native, refs, poolVars>>

-----------------------------------------------------------------------------
(* Mutant: close() gives the lease back before clearing the context.       *)
CloseEnterLeaseFirst(t, c) ==
  /\ Goto(t, "idle", {"closeLease"})
  /\ c \in held
  /\ monitor[c] = Nil
  /\ obj[c] = "online"
  /\ monitor' = [monitor EXCEPT ![c] = t]
  /\ obj' = [obj EXCEPT ![c] = "offline"]
  /\ ctx' = [ctx EXCEPT ![t] = c]
  /\ UNCHANGED <<input, held, native, refs, poolVars>>

(* Mutant: close() does not synchronize on the context.                    *)
CloseEnterUnlocked(t, c) ==
  /\ Goto(t, "idle", {"clear"})
  /\ c \in held
  /\ obj[c] = "online"
  /\ monitor' = [monitor EXCEPT ![c] = t]
  /\ obj' = [obj EXCEPT ![c] = "offline"]
  /\ ctx' = [ctx EXCEPT ![t] = c]
  /\ UNCHANGED <<input, held, native, refs, poolVars>>

(* Mutant: neither synchronized nor atomic: another close() passes         *)
(* checkOnline() before the first has written online.                      *)
CloseEnterRacy(t, c) ==
  /\ Goto(t, "idle", {"clear"})
  /\ c \in held
  /\ obj[c] = "online" \/ \E s \in Threads : pc[s] = "clear" /\ ctx[s] = c
  /\ monitor' = [monitor EXCEPT ![c] = t]
  /\ obj' = [obj EXCEPT ![c] = "offline"]
  /\ ctx' = [ctx EXCEPT ![t] = c]
  /\ UNCHANGED <<input, held, native, refs, poolVars>>

(* close(): at most one caller passes checkOnline().                       *)
CloseEnter(t, c) ==
  /\ Goto(t, "idle", {"clear"})
  /\ c \in held
  /\ monitor[c] = Nil
  /\ obj[c] = "online"
  /\ monitor' = [monitor EXCEPT ![c] = t]
  /\ obj' = [obj EXCEPT ![c] = "offline"]
  /\ ctx' = [ctx EXCEPT ![t] = c]
  /\ UNCHANGED <<input, held, native, refs, poolVars>>

(* ddwaf_context_destroy.                                                  *)
Destroy(c) ==
  /\ native' = native \ {c}
  /\ refs' = [refs EXCEPT ![c] = {}]

(* clearWafContext: ddwaf_context_destroy, then ptr = 0.                   *)
Clear(t) ==
  /\ Goto(t, "clear", {"closeLease"})
  /\ Destroy(ctx[t])
  /\ UNCHANGED <<ctx, input, monitor, obj, held, poolVars>>

(* Mutant: the failure of clearWafContext leaves close() at once.          *)
ClearThrowsOut(t) ==
  /\ Goto(t, "clear", {"exit"})
  /\ Destroy(ctx[t])
  /\ UNCHANGED <<ctx, input, monitor, obj, held, poolVars>>

(* clearWafContext throws from setting ptr, or the line that logs its      *)
(* success does: the context is destroyed by then, the exception is kept   *)
(* for the end of close(), and the lease is closed all the same.           *)
ClearThrows(t) ==
  /\ Goto(t, "clear", {"closeLease"})
  /\ Destroy(ctx[t])
  /\ UNCHANGED <<ctx, input, monitor, obj, held, poolVars>>

(* lease.close() reads closeCalled ...                                     *)
CloseTest(t) ==
  /\ Goto(t, "closeLease", {IF closeCalled[ctx[t]] THEN "exit" ELSE "closeMark"})
  /\ UNCHANGED <<ctx, input, ctxVars, poolVars>>

(* ... and acts on what it read.                                           *)
CloseLease(t) ==
  /\ Goto(t, "closeMark", {"closeAddFirst"})
  /\ MarkClosed(ctx[t])
  /\ UNCHANGED <<ctx, input, ctxVars>>

CloseAddFirst(t) ==
  /\ Goto(t, "closeAddFirst", {"exit"})
  /\ EndClose(ctx[t])
  /\ UNCHANGED <<ctx, input, ctxVars>>

-----------------------------------------------------------------------------
(* Mutant: no fence; the compiled frame lets go of the context and the     *)
(* leases at their last use, before the native call.                       *)
KeepsAliveUnfenced(t) == pc[t] \notin {"idle", "jni", "ddwaf"}

(* The objects the frame of t keeps reachable: the context and the leases  *)
(* of its call, up to the volatile writes to leaseFenceSink in the finally *)
(* block, that is past the native call.                                    *)
KeepsAlive(t) == pc[t] # "idle"

(* The application drops its last reference to c, closed or not.           *)
DropContext(c) ==
  /\ c \in held
  /\ held' = held \ {c}
  /\ UNCHANGED <<callVars, monitor, obj, native, refs, poolVars>>

(* The collector finds c unreachable: its lease goes with it.  The native  *)
(* context of one that was never closed leaks.                             *)
CollectContext(c) ==
  /\ obj[c] \in {"online", "offline"}
  /\ c \notin held
  /\ \A t \in Threads : KeepsAlive(t) => ctx[t] # c
  /\ obj' = [obj EXCEPT ![c] = "none"]
  /\ native' = native \ {c}
  /\ refs' = [refs EXCEPT ![c] = {}]
  /\ Forget(c)
  /\ UNCHANGED <<callVars, monitor, held>>

(* The collector finds the lease in a local variable of t unreachable.     *)
CollectLocal(t) ==
  /\ ~KeepsAlive(t)
  /\ Forget(t)
  /\ UNCHANGED <<callVars, ctxVars>>

CollectBuffers(a) ==
  /\ CollectArena(a)
  /\ UNCHANGED <<callVars, ctxVars>>

-----------------------------------------------------------------------------
(* The steps of a call that t has started.                                 *)
CallStep(t) ==
  \/ NewGetLease(t) \/ NewGetLeaseFails(t)
  \/ SerializePersistent(t) \/ GetEphemeralLease(t) \/ SerializeEphemeral(t)
  \/ CheckBudget(t) \/ NativeRejects(t) \/ DdwafRun(t) \/ DdwafReturn(t)
  \/ Finally(t) \/ AddFirst(t) \/ Exit(t)
  \/ Clear(t) \/ ClearThrows(t)
  \/ CloseTest(t) \/ CloseLease(t) \/ CloseAddFirst(t)

Next ==
  \/ \E t \in Threads :
       \/ CallStep(t)
       \/ CollectLocal(t)
       \/ \E c \in Contexts : New(t, c) \/ RunEnter(t, c) \/ CloseEnter(t, c)
  \/ \E c \in Contexts : DropContext(c) \/ CollectContext(c)
  \/ \E a \in Arenas : CollectBuffers(a)

SafeSpec == Init /\ [][Next]_vars

(* Threads keep running and ddwaf_run returns: it is given a time budget.  *)
(* Nothing is assumed of the application or the collector.                 *)
Spec == SafeSpec /\ \A t \in Threads : WF_vars(CallStep(t))

-----------------------------------------------------------------------------
TypeOK ==
  /\ PoolTypeOK
  /\ pc \in [Threads -> PCs]
  /\ ctx \in [Threads -> Contexts \cup {Nil}]
  /\ input \in [Threads -> Inputs]
  /\ monitor \in [Contexts -> Threads \cup {Nil}]
  /\ obj \in [Contexts -> {"none", "constructing", "online", "offline"}]
  /\ held \in SUBSET Contexts
  /\ native \in SUBSET Contexts
  /\ refs \in [Contexts -> SUBSET Arenas]

(* The arena of h's lease, as long as what was serialized into it is still *)
(* there: neither given back and reset nor freed.                          *)
Intact(h) ==
  IF lease[h] # Nil /\ ~closeCalled[h] THEN {lease[h]} \cap used \cap alloc ELSE {}

(* From encoding to the return of ddwaf_run the input of a run stays where *)
(* it was encoded: its lease is open and reachable, whatever the           *)
(* application and the collector do meanwhile.                             *)
RunInputIntact ==
  \A t \in Threads : pc[t] \in {"budget", "jni", "ddwaf"} =>
    /\ "persistent" \in input[t] => Intact(ctx[t]) # {}
    /\ "ephemeral" \in input[t] => Intact(t) # {}

(* The persistent inputs of earlier runs stay in place for as long as the  *)
(* native context that points to them can be run or destroyed: close()     *)
(* destroys it before it gives the arena back.                             *)
StoredInputIntact ==
  \A c \in native : refs[c] \subseteq Intact(c)

(* The arenas a call of t may be reading or writing.                       *)
Touches(t) ==
  (IF pc[t] \in {"serializeEph", "budget", "jni", "ddwaf", "finally", "addFirst"}
     THEN {lease[t]} \ {Nil} ELSE {})
  \cup
  (IF pc[t] \in {"persistent", "jni", "ddwaf", "closeMark", "closeAddFirst"}
     THEN {lease[ctx[t]]} \cup refs[ctx[t]] ELSE {})

(* Arenas are not thread-safe; no two threads ever work on the same one.   *)
NoSharedArena ==
  \A s, t \in Threads : s # t => Touches(s) \cap Touches(t) = {}

(* A ddwaf_context is neither destroyed nor abandoned under a ddwaf_run,   *)
(* and the thread that runs it is alone in the context's methods.          *)
RunOnLiveContext ==
  \A t \in Threads : pc[t] = "ddwaf" =>
    /\ ctx[t] \in native
    /\ \A s \in Threads \ {t} : ctx[s] # ctx[t]

(* Every way out of run(), thrown exceptions included, gives the ephemeral *)
(* arena back: an idle thread never owns one.                              *)
EphemeralReturned == \A t \in Threads : pc[t] \in {"idle", "exit"} => ~Owns(t)

(* The library's calls keep the contract of ArenaPool.                     *)
KeepsPoolContract == PoolSafeSpec

(* Whatever happens while close() destroys the native context, the arena   *)
(* of the context reaches the pool: a failure there is kept until the      *)
(* lease has been closed.                                                  *)
CloseReturnsArena ==
  \A t \in Threads, a \in Arenas :
    pc[t] = "clear" /\ lease[ctx[t]] = a ~> a \in Pooled

-----------------------------------------------------------------------------
(* What the proofs about this module rest on.  A lease is open when it is  *)
(* there and not closed; it is kept when its arena still holds what was    *)
(* serialized through it.                                                  *)
Open(h) == lease[h] # Nil /\ ~closeCalled[h]
Kept(h) == Open(h) /\ lease[h] \in used

Running == {"persistent", "ephemeral", "serializeEph", "budget", "jni", "ddwaf",
            "finally", "addFirst"}

(* Where a thread is in its call determines what it holds: the monitor,    *)
(* the state of its context, and the state of its two leases.              *)
ThreadInv(t) ==
  /\ pc[t] = "idle" => ctx[t] = Nil
  /\ pc[t] # "idle" => ctx[t] \in Contexts
  /\ pc[t] \notin {"idle", "newLease"} => monitor[ctx[t]] = t
  /\ pc[t] = "newLease" => obj[ctx[t]] = "constructing"
  /\ pc[t] \in Running => obj[ctx[t]] = "online"
  /\ pc[t] = "clear" => obj[ctx[t]] = "offline" /\ ctx[t] \in native
  /\ pc[t] \in {"closeLease", "closeMark", "closeAddFirst"} =>
       obj[ctx[t]] = "offline" /\ ctx[t] \notin native
  /\ pc[t] \in {"closeLease", "closeMark"} => Open(ctx[t])
  /\ pc[t] = "exit" => obj[ctx[t]] \in {"online", "offline"}
  /\ pc[t] = "closeAddFirst" => ctx[t] \in closing
  /\ t \in closing <=> pc[t] = "addFirst"
  /\ Open(t) => pc[t] \in {"serializeEph", "budget", "jni", "ddwaf", "finally"}
  /\ pc[t] \in {"persistent", "ephemeral"} => lease[t] = Nil
  /\ pc[t] = "serializeEph" => Open(t)
  /\ pc[t] \in {"budget", "jni", "ddwaf", "finally"} => lease[t] = Nil \/ Open(t)
  /\ pc[t] \in {"ephemeral", "serializeEph", "budget", "jni", "ddwaf"} =>
       ("persistent" \in input[t] => Kept(ctx[t]))
  /\ pc[t] \in {"budget", "jni", "ddwaf"} => ("ephemeral" \in input[t] => Kept(t))

(* What the life of a context says of its lease and its native half.       *)
ContextInv(c) ==
  /\ obj[c] = "none" => c \notin native
  /\ obj[c] \in {"none", "constructing"} => lease[c] = Nil /\ refs[c] = {}
  /\ obj[c] \in {"constructing", "online"} => c \in native
  /\ obj[c] \in {"online", "offline"} /\ c \in native =>
       Open(c) /\ refs[c] \subseteq {lease[c]} \cap used
  /\ c \notin native => refs[c] = {}
  /\ c \in closing => \E t \in Threads : pc[t] = "closeAddFirst" /\ ctx[t] = c

(* An object under construction is known to its constructor only.          *)
OneConstructor ==
  \A s, t \in Threads : pc[s] = "newLease" /\ pc[t] = "newLease" /\ ctx[s] = ctx[t] => s = t

CtxInv ==
  /\ TypeOK
  /\ \A t \in Threads : ThreadInv(t)
  /\ \A c \in Contexts : ContextInv(c)
  /\ OneConstructor

=============================================================================
