------------------------------ MODULE WafBuilder ------------------------------
(***************************************************************************)
(* WafBuilder.java with the native half of its methods (waf_jni.c): the    *)
(* set of configurations a WafHandle is built from.                        *)
(*                                                                         *)
(* All methods are synchronized, so each is one step.  libddwaf keeps the  *)
(* configurations, by path; what the caller of the Java methods may rely   *)
(* on is kept beside it, in `expected'.                                    *)
(*                                                                         *)
(* A path is a sequence of UTF-16 units, and a unit the sequence of its    *)
(* bytes in the JVM's modified UTF-8.                                      *)
(***************************************************************************)
EXTENDS Integers, Sequences, FiniteSets, Functions, SequencesExt

CONSTANTS
  Paths,      (* the paths configurations are added under                  *)
  WithRules,  (* configurations with at least one valid rule               *)
  Others,     (* valid configurations that only hold data or exclusions    *)
  Invalid,    (* configurations libddwaf rejects                           *)
  Nothing     (* no configuration                                          *)

ASSUME NothingAssumption == Nothing \notin WithRules \cup Others

(* Modified UTF-8: one byte for an ASCII character, two or three for any   *)
(* other unit, none of which looks like an ASCII character.                *)
IsUnit(u) ==
  \/ u \in Seq(1 .. 127) /\ Len(u) = 1
  \/ u \in Seq(128 .. 255) /\ Len(u) \in {2, 3}

ASSUME PathsAssumption ==
  \A p \in Paths : p \in Seq(Seq(1 .. 255)) /\ p # <<>> /\ \A i \in DOMAIN p : IsUnit(p[i])

VARIABLES
  state,     (* the Java object: none, online or offline                   *)
  ptr,       (* its ptr: null, live, or freed                              *)
  configs,   (* libddwaf's configurations, by the bytes of their paths     *)
  expected,  (* history: what the caller may expect to be in force at each *)
             (* path, from what the calls on that path returned or threw   *)
  last       (* history: the last call and what it threw                   *)

vars == <<state, ptr, configs, expected, last>>

None == <<>>

Init ==
  /\ state = "none" /\ ptr = "null"
  /\ configs = None
  /\ expected = [p \in Paths |-> {Nothing}]
  /\ last = [op |-> "none", threw |-> "nothing"]

-----------------------------------------------------------------------------
(* Mutant: one byte too few.                                               *)
KeyShort(path) == SubSeq(FlattenSeq(path), 1, Len(path) - 1)

(* GetStringLength counts UTF-16 units, GetStringUTFChars yields bytes, and *)
(* libddwaf is given the bytes with the count for their length.            *)
Key(path) == SubSeq(FlattenSeq(path), 1, Len(path))

Set(f, x, y) == [z \in DOMAIN f \cup {x} |-> IF z = x THEN y ELSE f[z]]

Unset(f, x) == Restrict(f, DOMAIN f \ {x})

Expect(path, values) == expected' = [expected EXCEPT ![path] = values]

Report(op, threw) == last' = [op |-> op, threw |-> threw]

-----------------------------------------------------------------------------
(* The constructor.  ddwaf_builder_init may return NULL, unnoticed.        *)
NewBuilder ==
  /\ state = "none"
  /\ state' = "online"
  /\ ptr' \in {"live", "null"}
  /\ UNCHANGED <<configs, expected, last>>

(* A call on a closed builder.                                             *)
CallOffline(op) ==
  /\ state = "offline"
  /\ Report(op, "UnclassifiedWafException")
  /\ UNCHANGED <<state, ptr, configs, expected>>

(* _get_builder_checked, _convert_checked or the JVM throws before libddwaf *)
(* sees the call.                                                          *)
CallFails(op) ==
  /\ state = "online"
  /\ Report(op, "RuntimeException")
  /\ UNCHANGED <<state, ptr, configs, expected>>

AddOrUpdateConfig(path, config) ==
  /\ state = "online" /\ ptr = "live"
  /\ config \in WithRules \cup Others
  /\ configs' = Set(configs, Key(path), config)
  /\ Expect(path, {config})
  /\ Report("add", "nothing")
  /\ UNCHANGED <<state, ptr>>

(* The update is in force, but converting its diagnostics throws: the      *)
(* caller cannot tell whether it was made.                                 *)
AddDiagnosticsFail(path, config) ==
  /\ state = "online" /\ ptr = "live"
  /\ config \in WithRules \cup Others
  /\ configs' = Set(configs, Key(path), config)
  /\ Expect(path, expected[path] \cup {config})
  /\ Report("add", "RuntimeException")
  /\ UNCHANGED <<state, ptr>>

(* InvalidRuleSetException.  Whether the configuration that was there      *)
(* stays is up to libddwaf; the one that was rejected is not put in force. *)
AddInvalid(path, config) ==
  /\ state = "online" /\ ptr = "live"
  /\ config \in Invalid
  /\ configs' \in {configs, Unset(configs, Key(path))}
  /\ Expect(path, expected[path] \cup {Nothing})
  /\ Report("add", "InvalidRuleSetException")
  /\ UNCHANGED <<state, ptr>>

RemoveConfig(path) ==
  /\ state = "online" /\ ptr = "live"
  /\ Key(path) \in DOMAIN configs
  /\ configs' = Unset(configs, Key(path))
  /\ Expect(path, {Nothing})
  /\ Report("remove", "nothing")
  /\ UNCHANGED <<state, ptr>>

(* UnclassifiedWafException: ddwaf_builder_remove_config found nothing.    *)
RemoveMissing(path) ==
  /\ state = "online" /\ ptr = "live"
  /\ Key(path) \notin DOMAIN configs
  /\ Expect(path, {Nothing})
  /\ Report("remove", "UnclassifiedWafException")
  /\ UNCHANGED <<state, ptr, configs>>

(* libddwaf builds nothing without a rule.  The handle that is made is the *)
(* business of module WafHandle.                                           *)
BuildWafHandleInstance ==
  /\ state = "online" /\ ptr = "live"
  /\ Range(configs) \cap WithRules # {}
  /\ Report("build", "nothing")
  /\ UNCHANGED <<state, ptr, configs, expected>>

BuildFails ==
  /\ state = "online" /\ ptr = "live"
  /\ Range(configs) \cap WithRules = {}
  /\ Report("build", "UnclassifiedWafException")
  /\ UNCHANGED <<state, ptr, configs, expected>>

(* close() on an offline builder returns at once and is a stuttering step. *)
Close ==
  /\ state = "online"
  /\ state' = "offline"
  /\ ptr' = IF ptr = "live" THEN "freed" ELSE ptr
  /\ configs' = None
  /\ expected' = [p \in Paths |-> {Nothing}]
  /\ Report("close", "nothing")

Next ==
  \/ NewBuilder \/ BuildWafHandleInstance \/ BuildFails \/ Close
  \/ \E op \in {"add", "remove", "build"} : CallFails(op) \/ CallOffline(op)
  \/ \E path \in Paths :
       \/ RemoveConfig(path) \/ RemoveMissing(path)
       \/ \E config \in WithRules \cup Others \cup Invalid :
            \/ AddOrUpdateConfig(path, config)
            \/ AddDiagnosticsFail(path, config)
            \/ AddInvalid(path, config)

Spec == Init /\ [][Next]_vars

-----------------------------------------------------------------------------
(* What the next handle is built with at a path.                           *)
InForce(path) == IF Key(path) \in DOMAIN configs THEN configs[Key(path)] ELSE Nothing

(* A path of ASCII characters only.                                        *)
Ascii(path) == \A i \in DOMAIN path : Len(path[i]) = 1

(* Every path: the next handle is built from what the calls on that path   *)
(* let their caller expect.  An update that returned is in force until the *)
(* next one, a removed configuration is gone; an update that threw leaves  *)
(* what was there, or what it was to put there, or (if the configuration   *)
(* was rejected) nothing, but never another configuration.                 *)
BuildsAsAsked ==
  state = "online" => \A path \in Paths : InForce(path) \in expected[path]

(* The same for the paths of ASCII characters, whose configurations calls  *)
(* on other paths, with whatever characters, never touch.                  *)
AsciiAsAsked ==
  state = "online" => \A path \in Paths : Ascii(path) => InForce(path) \in expected[path]

(* What the documentation of removeConfig says of UnclassifiedWafException: *)
(* it means that the builder is closed, and a path without a configuration *)
(* is no reason to throw.                                                  *)
RemoveThrowsOnlyIfClosed ==
  last.op = "remove" /\ last.threw = "UnclassifiedWafException" => state = "offline"

(* No other path is the same to libddwaf.                                  *)
Unshared(path) == \A other \in Paths : Key(other) = Key(path) => other = path

(* The inductive invariant: only a path that shares its key can be given a *)
(* configuration by calls on another one.                                  *)
BuilderInv ==
  /\ state = "none" => configs = None /\ expected = [p \in Paths |-> {Nothing}]
  /\ expected \in [Paths -> SUBSET (WithRules \cup Others \cup {Nothing})]
  /\ state = "online" =>
       \A path \in Paths : Unshared(path) => InForce(path) \in expected[path]

=============================================================================
