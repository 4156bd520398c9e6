----------------------------- MODULE NativeCalls -----------------------------
(***************************************************************************)
(* The native methods of WafBuilder and WafContext (waf_jni.c), each as    *)
(* one step, with any of the calls they make into the JVM failing.         *)
(*                                                                         *)
(* outcome is what a call leaves behind: its environment, what it returns, *)
(* and what it was given.  libddwaf is external: what it answers is part   *)
(* of the input.  Get<Type>Field of JNI does not throw.                    *)
(***************************************************************************)
EXTENDS ConvertConfig, Output

CONSTANTS
  Updates,       (* calls of addOrUpdateConfig: the configuration (value)  *)
                 (* and the diagnostics of libddwaf (report)               *)
  ConfigLimits,  (* their limits: depth, elements, text                    *)
  Runs,          (* calls of run: buffers (persistent, ephemeral), budgets *)
                 (* (general, run), the system property that is the        *)
                 (* default of the latter (text, number), the time taken   *)
                 (* in Java and then in C (serialize, convert), what       *)
                 (* ddwaf_run returns (code, res), and metrics             *)
  FaultSets,     (* which calls fail                                       *)
  NsPerUs,       (* nanoseconds in a microsecond                           *)
  WordSize,      (* values of a size_t                                     *)
  DefaultTimeout (* DDWAF_RUN_TIMEOUT                                      *)

ASSUME CallsAssumption ==
  /\ NsPerUs \in Nat \ {0} /\ WordSize \in Nat \ {0} /\ DefaultTimeout \in 1 .. WordSize - 1
  /\ ConfigLimits \in [depth : Nat, elements : Nat, text : Nat]

VARIABLE outcome

Returned == [call |-> "none"]

-----------------------------------------------------------------------------
(* _convert_ddwaf_config_checked, ddwaf_builder_init and the disposal of   *)
(* the configuration: two regular expressions, each of which may be null.  *)
Regex(e, text) ==
  IF text = "null" THEN e ELSE Then(Call(e), Alloc)

Regexes(texts) == Len(SelectSeq(texts, LAMBDA t : t = "text"))

InitBuilder(texts, e) ==
  LET Dropped(c, t) == IF c.exc = 0 /\ t = "empty" THEN [c EXCEPT !.live = @ - 1] ELSE c
      k == Dropped(Regex(e, texts[1]), texts[1])
      v == IF k.exc # 0 THEN k ELSE Dropped(Regex(k, texts[2]), texts[2])
  IN  IF k.exc # 0 THEN Ret(Log(k), Null)
      ELSE IF v.exc # 0
           THEN Ret(Log([v EXCEPT !.live = @ - Regexes(<<texts[1]>>)]), Null)
      ELSE Ret([v EXCEPT !.live = @ - Regexes(texts)], Empty("builder"))

(* buildInstance, with the builder behind the Java object: a handle that   *)
(* no Java object got is destroyed.                                        *)
BuildInstance(built, e) ==
  LET b == Call(e)
      c == New(Log(Alloc(b)))
  IN  IF b.exc # 0 THEN Ret(b, Null)
      ELSE IF ~built THEN Ret(Log(b), Null)
      ELSE IF c.exc # 0 THEN Ret([Log(c) EXCEPT !.live = @ - 1], Null)
      ELSE Ret([c EXCEPT !.live = @ - 1], Empty("handle"))      \* Java owns it

(* removeConfigNative: the builder, the characters of the path, libddwaf;  *)
(* the characters are released if there are any.                           *)
RemoveConfig(e) ==
  LET Removed(p) == IF p.exc # 0 THEN Ret(p, Null)
                    ELSE Ret([Alloc(p) EXCEPT !.live = @ - 1], Empty("answer"))
  IN  Removed(Then(Call(e), Call))

(* The end of addOrUpdateConfigNative, whatever happened before.           *)
Cleanup(e, path, config, report, d) ==
  LET c == [Free(Free(e, config), report) EXCEPT !.live = @ - path]
  IN  Ret(Local(c, IF d = Null THEN 0 ELSE -1),
          IF e.exc # 0 THEN Null ELSE Object("update", 0, <<config, d>>))

(* addOrUpdateConfigNative: the configuration, the characters of the path, *)
(* the builder behind the Java object, libddwaf, the diagnostics and the   *)
(* array that returns them.  The null checks before it never fire: Java    *)
(* passes its own builder and a path it has checked.                       *)
AddOrUpdateConfig(v, report, e) ==
  LET Diagnosed(config, d) ==
        Cleanup(Wrap(IF report = Invalid THEN d.e ELSE Then(d.e, Call)), 1, config, report, d.o)
      Added(a) == IF report = Invalid THEN Ret(a, Null) ELSE Diagnostics(a, report)
      Builder(config, b) ==
        IF b.exc # 0 THEN Cleanup(b, 1, config, Invalid, Null)
        ELSE Diagnosed(config, Added([b EXCEPT !.live = @ + Size(report)]))
      Path(config, p) ==
        IF p.exc # 0 THEN Cleanup(p, 0, config, Invalid, Null)
        ELSE Builder(config, Call(Alloc(p)))
      Converted(r) ==
        IF r.e.exc # 0 THEN Cleanup(r.e, 0, r.o, Invalid, Null) ELSE Path(r.o, Call(r.e))
  IN  Converted(Convert(v, ConfigLimits, 0, e))

-----------------------------------------------------------------------------
(* Waf.Limits.reduceBudget, with the time spent serializing.               *)
ReduceBudget(c) ==
  LET left == c.general - c.serialize \div NsPerUs IN IF left < 0 THEN 0 ELSE left

(* Mutant: a budget that is used up is not noticed.                        *)
RemainingNegative(c) == ReduceBudget(c) - c.convert \div NsPerUs

(* get_remaining_budget.                                                   *)
Remaining(c) ==
  LET left == ReduceBudget(c) - c.convert \div NsPerUs IN IF left < 0 THEN 0 ELSE left

(* _get_pw_run_timeout_checked: strtoll of the system property.  The value *)
(* is kept although a warning calls it invalid if something follows it.    *)
PwRunTimeout(property) == IF property.text = "absent" THEN DefaultTimeout ELSE property.number

(* _fetch_limits_checked.                                                  *)
RunLimit(c)  == IF c.run > 0 THEN c.run ELSE PwRunTimeout(c.property)

(* get_run_budget: a size_t.                                               *)
RunBudget(c) ==
  (IF Remaining(c) > RunLimit(c) THEN RunLimit(c) ELSE Remaining(c)) % WordSize

(* _convert_buffer_checked for one buffer and what follows if it throws.   *)
Buffer(buffer, e) ==
  IF buffer \in {"none", "ok"} THEN e ELSE Wrap(Log(ThrowNew(e)))

(* A part of the result of ddwaf_run, if it is there, has the type and is  *)
(* not empty.                                                              *)
PartOf(res, name, type) ==
  LET g == MapGetObject(Env({}, FALSE, 0), res, name).o
  IN  IF g.type = type /\ g.items # <<>> THEN g ELSE Null

(* _create_result_checked: the actions, the events as JSON and then as a   *)
(* string, the attributes; then the result.  The JSON segments are freed.  *)
CreateResult(res, e) ==
  LET acts == PartOf(res, "actions", "map")
      evts == PartOf(res, "events", "array")
      attr == PartOf(res, "attributes", "map")
      events == IF evts = Null THEN 0 ELSE 1
      refs   == events + (IF acts = Null THEN 0 ELSE 1)
      Result(a, t) ==
        IF t.e.exc # 0 THEN Ret(Wrap(t.e), Null)
        ELSE Answered(Local(New(t.e), - refs),
                  Object("result", events, <<Named("actions", a), Named("attributes", t.o)>>))
      Events(a, d) ==
        IF d.exc # 0 THEN Ret(d, Null)
        ELSE Result(a, IF attr = Null THEN Ret(d, Null) ELSE Attributes(d, attr))
      Text(j) == Wrap(New(j))
      Actions(a) ==
        IF a.e.exc # 0 THEN Ret(Wrap(a.e), Null)
        ELSE Events(a.o, IF evts = Null THEN a.e ELSE Then(Call(a.e), Text))   \* Call: output_convert_json
  IN  Actions(IF acts = Null THEN Ret(e, Null) ELSE ToJava(e, acts))

(* metrics_update_checked: the monitor and addAndGet().                    *)
MetricsUpdate(e) == Calls(e, 2)

(* _update_metrics: what the update throws is logged and dropped if the    *)
(* run has thrown already.                                                 *)
UpdateMetrics(metrics, e) ==
  LET Updated(q) ==
        IF e.exc = 0 THEN q ELSE [(IF q.exc # 0 THEN Log(q) ELSE q) EXCEPT !.exc = e.exc]
      Update == MetricsUpdate([e EXCEPT !.exc = 0, !.aside = TRUE])
  IN  IF metrics THEN Updated([Update EXCEPT !.aside = e.aside]) ELSE e

(* ddwaf_run and what follows, down to freeRet.                            *)
Run(c, e) ==
  LET timeout == MapGetObject(Env({}, FALSE, 0), c.res, "timeout").o.type = "true"
      Result(f) ==
        IF timeout THEN Ret(ThrowMade(f), Null)
        ELSE IF c.code \in {"ok", "match"} THEN CreateResult(c.res, f)
        ELSE Ret(ThrowMade(IF c.code = "internal" THEN Log(f) ELSE f), Null)
      FreeRet(r) == Ret(Free(UpdateMetrics(c.metrics, r.e), c.res), r.o)
  IN  FreeRet(Result([e EXCEPT !.live = @ + Size(c.res), !.ran = RunBudget(c)]))

(* WafContext.run from the measurement of the time on, and                 *)
(* _run_waf_context_common: clock, buffers, clock, budget, run.            *)
RunWafContext(c, e) ==
  LET Persistent(s) == Buffer(c.persistent, s)
      Ephemeral(s)  == Buffer(c.ephemeral, s)
      NotBoth(s) == IF {c.persistent, c.ephemeral} = {"none"} THEN ThrowMade(Log(s)) ELSE s
      Measured(t) ==
        IF t.exc # 0 THEN Ret(t, Null)
        ELSE IF Remaining(c) = 0 THEN Ret(ThrowMade(Log(t)), Null)
        ELSE Run(c, Log(Log(t)))
  IN  IF ReduceBudget(c) = 0 THEN Ret(ThrowNew(e), Null)
      ELSE Measured(Then(Then(Then(Then(Call(e), Persistent), Ephemeral), NotBoth), Call))

-----------------------------------------------------------------------------
CallsInit == outcome = Returned

(* The faults that no call met are forgotten.                              *)
Done(call, given, r) ==
  outcome' = [call |-> call, given |-> given, result |-> r.o,
              e |-> [r.e EXCEPT !.faults = @ \cap (1 .. r.e.n)]]

DoInitBuilder ==
  /\ outcome = Returned
  /\ \E texts \in [1 .. 2 -> {"null", "empty", "text"}], f \in FaultSets, logs \in BOOLEAN :
       Done("init", texts, InitBuilder(texts, Env(f, logs, 0)))

DoBuildInstance ==
  /\ outcome = Returned
  /\ \E built \in BOOLEAN, f \in FaultSets, logs \in BOOLEAN :
       Done("build", built, BuildInstance(built, Env(f, logs, 0)))

DoAddOrUpdateConfig ==
  /\ outcome = Returned
  /\ \E u \in Updates, f \in FaultSets, logs, answer \in BOOLEAN :
       LET e == [Env(f, logs, ConfigLimits.elements) EXCEPT !.answer = answer]
       IN  Done("add", u, AddOrUpdateConfig(u.value, u.report, e))

DoRemoveConfig ==
  /\ outcome = Returned
  /\ \E f \in FaultSets : Done("remove", Empty("path"), RemoveConfig(Env(f, FALSE, 0)))

DoRun ==
  /\ outcome = Returned
  /\ \E c \in Runs, f \in FaultSets, logs \in BOOLEAN :
       Done("run", c, RunWafContext(c, Env(f, logs, 0)))

BackInJava ==
  /\ outcome # Returned
  /\ outcome' = Returned

CallsNext ==
  \/ DoInitBuilder \/ DoBuildInstance \/ DoAddOrUpdateConfig \/ DoRemoveConfig \/ DoRun
  \/ BackInJava

CallsSpec == CallsInit /\ [][CallsNext]_outcome

=============================================================================
