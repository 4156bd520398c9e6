------------------------------- MODULE Strings -------------------------------
(***************************************************************************)
(* How results become Java strings: the JSON of the events goes through    *)
(* java_json_to_jstring_checked (_create_result_checked, waf_jni.c), the   *)
(* JSON of a schema is compressed, encoded and goes through                *)
(* java_utf8_to_jstring_checked (output.c).  Conversions of single strings *)
(* are jobs of Utf.                                                        *)
(***************************************************************************)
EXTENDS Utf, Schema

CONSTANT Objects   (* ddwaf_objects: results of a run                      *)

ASSUME ObjectsAssumption == Objects \subseteq Nodes

VARIABLE use       (* "string", "events" or "schema"                       *)

strVars == <<utfVars, jsonVars, schemaVars, use>>

UtfIdle ==
  /\ op = "json" /\ in = <<>> /\ ends = <<>> /\ seg = 1 /\ fed = 0 /\ buf = <<>>
  /\ cur = 0 /\ eof = FALSE /\ out = <<>> /\ cap = 0 /\ phase = "idle"

StrInit ==
  /\ SchemaIdle
  /\ \/ use = "string" /\ UtfInit /\ JsonIdle
     \/ use \in {"events", "schema"} /\ UtfIdle /\ \E o \in Objects : JsonInit(o)

(* A list of segments as a job: its bytes and where the segments end.      *)
JsonJob ==
  [op |-> "json", str |-> JsonBytes, max |-> -1,
   ends |-> [k \in DOMAIN segs |-> Sums([i \in DOMAIN segs |-> Len(segs[i].bytes)])[k]]]

Hand(j) ==
  /\ phase = "idle"
  /\ op' = j.op /\ in' = Call(j).in /\ ends' = j.ends /\ seg' = 1 /\ fed' = Call(j).fed
  /\ buf' = Call(j).buf /\ cur' = 0 /\ eof' = (j.op # "json")
  /\ out' = <<>> /\ cap' = Call(j).cap /\ phase' = "convert"
  /\ UNCHANGED <<jsonVars, schemaVars, use>>

EventsToString == use = "events" /\ jphase = "json" /\ Hand(JsonJob)

SchemaToString ==
  /\ use = "schema" /\ bphase = "done"
  /\ Hand([op |-> "toUtf16", str |-> b64, max |-> -1, ends |-> <<>>])

StrStep ==
  \/ UtfStep /\ UNCHANGED <<jsonVars, schemaVars, use>>
  \/ JsonStep /\ UNCHANGED <<utfVars, schemaVars, use>>
  \/ use = "schema" /\ SchemaStep /\ UNCHANGED <<utfVars, jsonVars, use>>
  \/ EventsToString \/ SchemaToString

(* The conversion runs in one thread and waits for nothing.                *)
StrSpec == StrInit /\ [][StrStep]_strVars /\ WF_strVars(StrStep)

-----------------------------------------------------------------------------
(* Every conversion ends, with a string or with one of the failures of the *)
(* code.                                                                   *)
StringsTerminate ==
  <>(phase \in {"done", "failed"} \/ (use = "events" /\ jphase = "null") \/ zphase = "none")

=============================================================================
