---------------------------- MODULE MCNativeCalls ----------------------------
(* Configurations, reports and runs for the native methods, for TLC.       *)
EXTENDS NativeCallsRef

V(kind, len, items) == [kind |-> kind, len |-> len, items |-> items]
Leaves(kinds) == [i \in DOMAIN kinds |-> V(kinds[i], 3, <<>>)]

MCLimits == [depth |-> 2, elements |-> 6, text |-> 2]

MCValues == {
  V("map", 0, Leaves(<<"string", "number", "null">>)),
  V("iterable", 0, <<V("map", 0, <<V("iterable", 0, Leaves(<<"number">>))>>), V("boolean", 0, <<>>)>>),
  V("objects", 0, Leaves(<<"array", "direct", "reversed", "plain", "other">>)),
  V("map", 0, <<V("objects", 0, Leaves(<<"number", "number", "number">>)),
                V("iterable", 0, Leaves(<<"string">>)), V("string", 1, <<>>)>>) }

Text(name) == Named(name, Object("string", 1, <<>>))
List(name, n) == Named(name, Object("array", 0, [i \in 1 .. n |-> Text("")]))
Map(name, items) == Named(name, Object("map", 0, items))

MCReports == {
  Map("", <<Text("ruleset_version"), Map("rules", <<List("loaded", 2), List("failed", 0),
            Map("errors", <<List("missing", 1), List("none", 0)>>), Text("unknown")>>)>>),
  Map("", <<Text("error"), Map("actions", <<Text("error")>>)>>),
  Map("", <<Map("rules", <<Map("loaded", <<>>)>>)>>),
  Map("", <<Map("rules", <<Map("warnings", <<Text("missing")>>)>>), Map("error", <<>>)>>),
  Map("", <<Map("scanners", <<Named("skipped", Object("array", 0, <<Empty("map")>>))>>)>>) }

MCUpdates ==
  [value : MCValues, report : {Invalid}]
  \cup [value : {V("map", 0, <<>>)}, report : MCReports]

Number == Object("number", 0, <<>>)

MCResults == {
  Map("", <<>>),
  Map("", <<Map("actions", <<Map("block", <<Text("id"), List("list", 2)>>)>>), List("events", 1)>>),
  Map("", <<Map("attributes", <<Named("n", Number), Named("big", Empty("oversized")), List("l", 1),
                                Map("tag", <<Text("x")>>)>>)>>),
  Map("", <<Map("attributes", <<Text(Fingerprint), Text("other")>>)>>),
  Map("", <<Map("attributes", <<Named(Fingerprint, Number)>>)>>),
  Map("", <<Map("attributes", <<List(Fingerprint, 2)>>)>>),
  Map("", <<Map("actions", <<Named("bad", Empty("null"))>>)>>),
  Map("", <<Named("timeout", Empty("true"))>>) }

Absent == [text |-> "absent", number |-> 0]

OneRun == [persistent |-> "ok", ephemeral |-> "none", general |-> 5, run |-> 2, property |-> Absent,
           serialize |-> 4, convert |-> 4, code |-> "match", res |-> Map("", <<>>), metrics |-> TRUE]

(* Results, codes and buffers one at a time; and every mixture of budgets  *)
(* and times.                                                              *)
MCRuns ==
  {[OneRun EXCEPT !.res = r, !.metrics = m] : r \in MCResults, m \in BOOLEAN}
  \cup {[OneRun EXCEPT !.code = k] : k \in {"ok", "internal", "invalid"}}
  \cup {[OneRun EXCEPT !.persistent = p, !.ephemeral = q] : p, q \in {"none", "ok", "heap"}}

MCBudgets ==
  {[OneRun EXCEPT !.general = g, !.run = r, !.property = d, !.serialize = s, !.convert = t] :
     g \in {0, 2, 5}, r \in {0, 2}, s \in {0, 4, 6}, t \in {0, 5, 9},
     d \in {Absent} \cup [text : {"number", "garbage"}, number : {0, 1}] \cup [text : {"number"}, number : {-1}]}

MCAllRuns == MCRuns \cup MCBudgets

(* None of the first calls fails, one, or two of them: a method makes no   *)
(* more than these unless one of them fails.                               *)
LastCall == 60
MCFaults == {{a, b} : a, b \in 0 .. LastCall}

=============================================================================
