------------------------------ MODULE NativeInit ------------------------------
(***************************************************************************)
(* Loading the native library (Waf.initialize, JNI_OnLoad), releasing its  *)
(* references (Waf.deinitialize, JNI_OnUnload) and the calls in between.   *)
(*                                                                         *)
(* JNI_OnLoad is a list of steps, each of which may fail.  A step caches   *)
(* at most one global reference, in a variable that is "null", "live" or   *)
(* "stale": deleted, but not set to NULL.  jcls_rte is the first of them.  *)
(* Waf.initialize tries once.  If JNI_OnLoad throws, the JVM unloads the   *)
(* library at once, without JNI_OnUnload (external).                       *)
(***************************************************************************)
EXTENDS Integers, Sequences, FiniteSets

CONSTANTS
  Threads,   (* Java threads                                               *)
  VM,        (* the thread of the JVM that calls JNI_OnUnload              *)
  Steps      (* the steps of JNI_OnLoad                                    *)

CacheGroups == {"enums", "results", "classes", "fields", "order", "methods"}
Groups == CacheGroups \cup {"log", "output", "none"}

(* "ref": a class or object found and made global; "unchecked": the same,  *)
(* where a NULL reference is not noticed; "method": a j_method that keeps  *)
(* its class; "temp": one that is dropped again; "id": no reference;       *)
(* "callback": ddwaf_set_log_cb; "optional": failure is not passed on.     *)
Kinds == {"ref", "unchecked", "method", "temp", "id", "callback", "optional"}

Keeps == {"ref", "unchecked", "method"}

ASSUME InitAssumption ==
  /\ VM \notin Threads
  /\ Steps \in Seq([group : Groups, kind : Kinds])
  /\ Len(Steps) >= 1 /\ Steps[1].group = "classes" /\ Steps[1].kind = "ref"
  /\ \A i \in 1 .. Len(Steps) :
       /\ Steps[i].group \in {"none", "fields"} => Steps[i].kind \notin Keeps
       /\ Steps[i].kind = "callback" => Steps[i].group = "log"
       \* the callback is the last step of the log ...
       /\ \A j \in 1 .. Len(Steps) :
            Steps[i].kind = "callback" /\ Steps[j].group = "log" => j <= i
       \* ... and comes before any step after the log's
       /\ \A j \in i .. Len(Steps) :
            Steps[i].group = "log" /\ Steps[j].group # "log"
              => \E k \in i .. j : Steps[k].kind = "callback"

All  == Threads \cup {VM}
Refs == 1 .. Len(Steps)
Rte  == 1

-----------------------------------------------------------------------------
Step(g, k)  == [group |-> g, kind |-> k]
Times(n, s) == [i \in 1 .. n |-> s]

Method(g)          == Step(g, "method")              \* java_meth_init_checked
VirtualMethod(g)   == Step(g, "id")                  \* the same, JMETHOD_VIRTUAL
StaticField(g)     == Step(g, "ref")                 \* java_static_field_checked
SingleClassWeak(g) == Step(g, "ref")                 \* _cache_single_class_weak
SingleClassStrong  == <<Step("output", "id"), Step("output", "unchecked")>>

CacheClasses == Times(9, SingleClassWeak("classes"))
FetchEnums   == Times(2, StaticField("enums")) \o Times(2, StaticField("results"))
FetchFields  == Times(5, Step("fields", "id"))
FetchNativeOrder == <<Step("order", "temp"), Step("order", "unchecked")>>

CacheMethods ==
  LET m(n) == Times(n, Method("methods"))
      v(n) == Times(n, VirtualMethod("methods"))
  IN  m(2) \o v(3) \o m(4) \o v(1) \o m(1) \o v(1) \o m(4) \o v(3) \o m(1) \o v(2) \o m(2)

(* The second part is rte_constr_cause.                                    *)
CacheReferences ==
  CacheClasses \o <<Step("classes", "id")>> \o FetchEnums \o FetchFields \o FetchNativeOrder
  \o CacheMethods

(* The levels, then the logger, which pins the class loader.               *)
JavaLogInit ==
  <<Step("log", "id"), Step("log", "ref")>> \o Times(5, StaticField("log"))
  \o Times(2, Step("log", "temp")) \o <<Step("log", "id")>> \o Times(2, Step("log", "ref"))
  \o Times(2, Method("log")) \o <<Step("log", "id"), Step("log", "callback")>>

MetricsInit == <<Step("none", "id")>>

OutputInit ==
  Times(6, Method("output")) \o <<VirtualMethod("output")>>
  \o SingleClassStrong \o SingleClassStrong \o SingleClassStrong
  \o Times(3, Method("output"))

CsWrapperInit == <<Step("none", "optional")>>
RunTimeout    == <<Step("none", "temp")>>            \* _get_pw_run_timeout_checked

(* JNI_OnLoad; the step after CacheReferences looks for glibc.             *)
CodeSteps ==
  CacheReferences \o <<Step("none", "id")>> \o JavaLogInit \o MetricsInit \o OutputInit
  \o CsWrapperInit \o RunTimeout

-----------------------------------------------------------------------------
VARIABLES
  tried,       (* Waf.triedInitializing                                    *)
  load,        (* "no", "loading", "failed", "ok", "unloading", "unloaded" *)
  at,          (* the step of JNI_OnLoad                                   *)
  init_ok,     (* _init_ok                                                 *)
  logcb,       (* libddwaf calls _waf_logging_c                            *)
  ptr,         (* the cached references                                    *)
  leaked,      (* a class reference that no variable holds any more        *)
  exc,         (* what JNI_OnLoad throws: "none", "java", "rte", or        *)
               (* "undefined", from ThrowNew without a class               *)
  freed,       (* how often each reference was deleted                     *)
  pc,          (* threads: "java", "load", "call" or "deinit"              *)
  dstep,       (* where a thread in _deinitialize is                       *)
  overlapped   (* calls that _deinitialize overlapped or preceded          *)

initVars == <<tried, load, at, init_ok, logcb, ptr, leaked, exc, freed, pc, dstep, overlapped>>

NativeInitial ==
  /\ tried = FALSE /\ load = "no" /\ at = 1 /\ init_ok = FALSE /\ logcb = FALSE
  /\ ptr = [r \in Refs |-> "null"] /\ leaked = 0 /\ exc = "none"
  /\ freed = [r \in Refs |-> 0]
  /\ pc = [t \in All |-> "java"] /\ dstep = [t \in All |-> 1]
  /\ overlapped = [t \in All |-> FALSE]

(* Waf.initialize, under the lock of the class.                            *)
Initialize(t) ==
  /\ pc[t] = "java" /\ load = "no" /\ ~tried
  /\ tried' = TRUE /\ load' = "loading" /\ pc' = [pc EXCEPT ![t] = "load"]
  /\ UNCHANGED <<at, init_ok, logcb, ptr, leaked, exc, freed, dstep, overlapped>>

LoadStep ==
  /\ load = "loading" /\ at <= Len(Steps)
  /\ \E p \in {"null", "live"} :
       /\ Steps[at].kind \in {"ref", "method"} => p = "live"
       /\ Steps[at].kind \notin Keeps => p = "null"
       /\ ptr' = [ptr EXCEPT ![at] = p]
  /\ at' = at + 1
  /\ logcb' = (logcb \/ Steps[at].kind = "callback")
  /\ UNCHANGED <<tried, load, init_ok, leaked, exc, freed, pc, dstep, overlapped>>

(* Mutant: jcls_rte is not kept.                                           *)
InGroupsAll(r, gs) == Steps[r].group \in gs

(* The references the disposal of groups deletes: never jcls_rte.          *)
InGroups(r, gs) == Steps[r].group \in gs /\ r # Rte

(* java_log_shutdown leaves the pointers as they are; java_meth_destroy    *)
(* sets the class of a method to NULL.                                     *)
AfterDelete(r) ==
  IF Steps[r].group = "log" /\ Steps[r].kind # "method" THEN "stale" ELSE "null"

Disposed(gs) ==
  [r \in Refs |-> IF InGroups(r, gs) /\ ptr[r] # "null" THEN AfterDelete(r) ELSE ptr[r]]

FreedBy(gs) ==
  [r \in Refs |-> IF InGroups(r, gs) /\ ptr[r] # "null" THEN freed[r] + 1 ELSE freed[r]]

(* What is released when a step fails: the references cached so far by the *)
(* same sub-initialization, nothing of those before it.                    *)
ReleasedOnFailure ==
  LET g == Steps[at].group
  IN  IF g \in CacheGroups THEN CacheGroups ELSE IF g = "none" THEN {} ELSE {g}

(* A step fails; the class of a method that is not found is forgotten.     *)
(* Without an exception of Java's (a global reference cannot be made) one  *)
(* is made from jcls_rte, after the disposal.                              *)
LoadFails ==
  /\ load = "loading" /\ at <= Len(Steps)
  /\ Steps[at].kind \in {"ref", "method", "temp", "id"}
  /\ ptr' = Disposed(ReleasedOnFailure) /\ freed' = FreedBy(ReleasedOnFailure)
  /\ leaked' \in IF Steps[at].kind \in {"method", "temp"} THEN {0, 1} ELSE {0}
  /\ exc' \in {"java", IF ptr'[Rte] = "live" THEN "rte" ELSE "undefined"}
  /\ load' = "failed"
  /\ pc' = [t \in All |-> IF pc[t] = "load" THEN "java" ELSE pc[t]]
  /\ UNCHANGED <<tried, at, init_ok, logcb, dstep, overlapped>>

LoadEnds ==
  /\ load = "loading" /\ at > Len(Steps)
  /\ init_ok' = TRUE /\ load' = "ok"
  /\ pc' = [t \in All |-> IF pc[t] = "load" THEN "java" ELSE pc[t]]
  /\ UNCHANGED <<tried, at, logcb, ptr, leaked, exc, freed, dstep, overlapped>>

-----------------------------------------------------------------------------
Enter(t) ==
  /\ t \in Threads /\ load = "ok" /\ pc[t] = "java"
  /\ pc' = [pc EXCEPT ![t] = "call"]
  /\ overlapped' = [overlapped EXCEPT ![t] = ~init_ok]
  /\ UNCHANGED <<tried, load, at, init_ok, logcb, ptr, leaked, exc, freed, dstep>>

(* A native method that asks _check_init, and one that does not.           *)
CheckedCall(t)   == init_ok /\ Enter(t)
UncheckedCall(t) == Enter(t)

Leave(t) ==
  /\ pc[t] = "call"
  /\ pc' = [pc EXCEPT ![t] = "java"]
  /\ UNCHANGED <<tried, load, at, init_ok, logcb, ptr, leaked, exc, freed, dstep, overlapped>>

(* Mutant: _init_ok is read but not cleared by the same instruction.       *)
BeginDeinitializeRacy(t) ==
  /\ init_ok
  /\ UNCHANGED init_ok
  /\ pc' = [pc EXCEPT ![t] = "deinit"] /\ dstep' = [dstep EXCEPT ![t] = 1]
  /\ overlapped' = [u \in All |-> overlapped[u] \/ pc[u] = "call"]

(* Mutant: _init_ok is cleared, whatever it was.                           *)
BeginDeinitializeAgain(t) ==
  /\ init_ok' = FALSE
  /\ pc' = [pc EXCEPT ![t] = "deinit"] /\ dstep' = [dstep EXCEPT ![t] = 1]
  /\ overlapped' = [u \in All |-> overlapped[u] \/ pc[u] = "call"]

(* The compare-and-swap of _deinitialize.                                  *)
BeginDeinitialize(t) ==
  /\ init_ok
  /\ init_ok' = FALSE
  /\ pc' = [pc EXCEPT ![t] = "deinit"] /\ dstep' = [dstep EXCEPT ![t] = 1]
  /\ overlapped' = [u \in All |-> overlapped[u] \/ pc[u] = "call"]

(* Waf.deinitialize; without _init_ok it returns at once.                  *)
Deinitialize(t) ==
  /\ t \in Threads /\ load = "ok" /\ pc[t] = "java"
  /\ BeginDeinitialize(t)
  /\ UNCHANGED <<tried, load, at, logcb, ptr, leaked, exc, freed>>

(* JNI_OnUnload: no thread can be in a class of the loader any more.       *)
OnUnload ==
  /\ load = "ok" /\ \A t \in All : pc[t] = "java"
  /\ \/ BeginDeinitialize(VM) /\ load' = "unloading"
     \/ ~init_ok /\ load' = "unloaded" /\ UNCHANGED <<init_ok, pc, dstep, overlapped>>
  /\ UNCHANGED <<tried, at, logcb, ptr, leaked, exc, freed>>

(* Mutant: the callback is removed after the references it uses.           *)
DisposalLogFirst ==
  <<{"enums"}, {"results"}, {"classes"}, {"order"}, {"methods"}, {"output"}, {"log"}, {}>>

(* Mutant: output_shutdown is forgotten.                                   *)
DisposalNoOutput == <<{"enums"}, {"results"}, {"classes"}, {"order"}, {"methods"}, {}, {"log"}>>

(* The rest of _deinitialize, group after group; {} is where               *)
(* ddwaf_set_log_cb(NULL) is called.                                       *)
Disposal ==
  <<{"enums"}, {"results"}, {"classes"}, {"order"}, {"methods"}, {"output"}, {}, {"log"}>>

Dispose(t) ==
  /\ pc[t] = "deinit" /\ dstep[t] <= Len(Disposal)
  /\ LET gs == Disposal[dstep[t]]
     IN  /\ ptr' = Disposed(gs) /\ freed' = FreedBy(gs)
         /\ logcb' = (logcb /\ gs # {})
  /\ dstep' = [dstep EXCEPT ![t] = @ + 1]
  /\ UNCHANGED <<tried, load, at, init_ok, leaked, exc, pc, overlapped>>

EndDeinitialize(t) ==
  /\ pc[t] = "deinit" /\ dstep[t] > Len(Disposal)
  /\ pc' = [pc EXCEPT ![t] = "java"]
  /\ load' = IF t = VM THEN "unloaded" ELSE load
  /\ UNCHANGED <<tried, at, init_ok, logcb, ptr, leaked, exc, freed, dstep, overlapped>>

Running(t) == Dispose(t) \/ EndDeinitialize(t)

NativeNext ==
  \/ LoadStep \/ LoadFails \/ LoadEnds \/ OnUnload
  \/ \E t \in Threads : \/ Initialize(t) \/ CheckedCall(t) \/ UncheckedCall(t) \/ Leave(t)
                        \/ Deinitialize(t)
  \/ \E t \in All : Running(t)

(* A thread that has begun to release the references goes on.              *)
NativeSpec ==
  /\ NativeInitial /\ [][NativeNext]_initVars
  /\ \A t \in All : WF_initVars(Running(t))

-----------------------------------------------------------------------------
InitTypeOK ==
  /\ tried \in BOOLEAN /\ init_ok \in BOOLEAN /\ logcb \in BOOLEAN
  /\ load \in {"no", "loading", "failed", "ok", "unloading", "unloaded"}
  /\ at \in 1 .. Len(Steps) + 1 /\ leaked \in {0, 1}
  /\ ptr \in [Refs -> {"null", "live", "stale"}]
  /\ exc \in {"none", "java", "rte", "undefined"}
  /\ freed \in [Refs -> Nat]
  /\ pc \in [All -> {"java", "load", "call", "deinit"}] /\ dstep \in [All -> Nat \ {0}]
  /\ overlapped \in [All -> BOOLEAN]

(* Deinitializing threads, or one and JNI_OnUnload, never delete a         *)
(* reference twice, though java_log_shutdown leaves its pointers behind.   *)
ReleasedOnce == \A r \in Refs : freed[r] <= 1

Needed(r) == Steps[r].kind \in {"ref", "method"}

(* A call that began while the library was initialized finds every cached  *)
(* reference, as long as deinitialize() does not overlap it; also while    *)
(* other calls begin and end.                                              *)
CallsSafe ==
  \A t \in Threads : pc[t] = "call" /\ ~overlapped[t] => \A r \in Refs : Needed(r) => ptr[r] = "live"

(* libddwaf never logs through references that were released, whether      *)
(* loading failed, the library was deinitialized, or both never happened.  *)
CallbackLive ==
  logcb => \A r \in Refs : Steps[r].group = "log" /\ Needed(r) => ptr[r] = "live"

(* jcls_rte outlives deinitialize(), for _check_init; and only if it is    *)
(* the reference that cannot be made does JNI_OnLoad throw without it.     *)
RteUsable ==
  /\ load = "ok" => ptr[Rte] = "live"
  /\ exc = "undefined" => at = Rte

(* Once deinitialize() or JNI_OnUnload is over, no reference but jcls_rte  *)
(* is left; nor are the logger's, which keep the class loader alive, when  *)
(* JNI_OnLoad fails before it has installed the callback.                  *)
NothingLeft ==
  /\ load = "unloaded" \/ (load = "ok" /\ ~init_ok /\ \A t \in All : pc[t] # "deinit")
       => \A r \in Refs \ {Rte} : ptr[r] # "live"
  /\ load = "failed" /\ ~logcb => \A r \in Refs : Steps[r].group = "log" => ptr[r] # "live"

(* deinitialize() "releases all JNI references": it gets there, whatever   *)
(* the other threads do.                                                   *)
DeinitReleases ==
  load = "ok" /\ ~init_ok ~> \A r \in Refs \ {Rte} : ptr[r] # "live"

=============================================================================
