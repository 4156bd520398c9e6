---------------------------- MODULE NativeCallsRef ----------------------------
(***************************************************************************)
(* What the native methods promise, against definitions of their own of    *)
(* what the conversions have to yield.                                     *)
(***************************************************************************)
EXTENDS NativeCalls, FiniteSets

(* Every failure that is not aside is reported by the exception Java gets, *)
(* or by its cause: never one of logging it, of wrapping it, of cleaning   *)
(* up or of updating the metrics behind it.  And there is an exception or  *)
(* a result.                                                               *)
FirstFailureReported ==
  outcome # Returned =>
    /\ outcome.e.first # 0 => outcome.e.exc = outcome.e.first /\ outcome.result = Null
    /\ outcome.e.exc # 0 /\ outcome.e.first = 0 => outcome.call = "run" /\ outcome.given.metrics
    /\ outcome.e.exc = 0 => outcome.result # Null \/ outcome.call = "build"

-----------------------------------------------------------------------------
RECURSIVE Nodes(_), Undeleted(_)
Nodes(v) == 1 + FoldLeft(LAMBDA sum, x : sum + Nodes(x), 0, v.items)

(* Local references that the conversion of a value is known to keep: the   *)
(* string of a character sequence, the class and name of an unknown object.*)
Undeleted(v) ==
  (IF v.kind \in {"plain", "reversed"} THEN 1 ELSE IF v.kind = "other" THEN 2 ELSE 0)
  + FoldLeft(LAMBDA sum, x : sum + Undeleted(x), 0, v.items)

(* The largest element of a value: all that may be lost at a failure.      *)
InTransit(v) == Max({0} \cup {Nodes(v.items[i]) : i \in DOMAIN v.items})

(* However a native method ends, it has not called the JVM with an         *)
(* exception pending, has freed nothing twice, nothing that was not set,   *)
(* released the arrays it held, and everything it allocated, but for one   *)
(* element of a configuration that was not added because of a failure;     *)
(* without a failure nothing is lost, and the local references do not grow *)
(* with the size of what was converted, but for those of Undeleted.        *)
ResourcesReturned ==
  outcome # Returned =>
    LET e == outcome.e
    IN  /\ ~e.misused
        /\ e.live >= 0 /\ e.held = 0
        /\ e.live > 0 => outcome.call = "add" /\ e.exc # 0 /\ e.live <= InTransit(outcome.given.value)
        /\ e.exc = 0 => e.locals \in 0 .. IF outcome.call = "add" THEN Undeleted(outcome.given.value)
                                          ELSE 2

-----------------------------------------------------------------------------
(* The places in a value: paths of indices, through containers only.       *)
RECURSIVE At(_, _), Paths(_, _)
At(v, p) == IF p = <<>> THEN v ELSE At(v.items[Head(p)], Tail(p))
Paths(v, depth) ==
  {<<>>} \cup IF depth = 0 THEN {}
              ELSE UNION {{<<i>> \o p : p \in Paths(v.items[i], depth - 1)} : i \in DOMAIN v.items}

(* p comes before q when a value is read from its beginning.               *)
Before(p, q) ==
  \/ IsStrictPrefix(p, q)
  \/ \E k \in DOMAIN p \cap DOMAIN q : p[k] < q[k] /\ SubSeq(p, 1, k - 1) = SubSeq(q, 1, k - 1)

(* What the limits leave of a configuration: of the places up to the depth *)
(* allowed, as many as elements are allowed, from the beginning; and of a  *)
(* text what is within the size allowed.                                   *)
Limited(v, lims) ==
  LET all  == Paths(v, lims.depth)
      kept == {p \in all : Cardinality({q \in all : Before(q, p)}) < lims.elements} \cup {<<>>}
      RECURSIVE Made(_)
      Made(p) ==
        LET x == At(v, p)
            n == Cardinality({i \in DOMAIN x.items : Append(p, i) \in kept})
        IN  IF x.kind = "other" THEN Invalid
            ELSE Object(IF IsText(x) THEN "string" ELSE TypeOf(x),
                        IF IsText(x) THEN Min2(x.len, lims.text) ELSE 0,
                        [i \in 1 .. n |-> Made(Append(p, i))])
  IN  Made(<<>>)

(* An object as Java has it; maps as sets of their entries.                *)
RECURSIVE Seen(_)
Seen(o) ==
  IF o.type = "map" THEN {<<o.items[i].name, Seen(o.items[i])>> : i \in DOMAIN o.items}
  ELSE <<o.type, o.len, [i \in DOMAIN o.items |-> Seen(o.items[i])]>>

Parted(o) == Seen([o EXCEPT !.type = "map"])

(* The entries of a map with these names, that are there and not empty.    *)
Entries(o, names, As(_)) ==
  {<<x.name, As(x)>> : x \in {x \in ToSet(o.items) : x.name \in names /\
                                (x.type \in {"array", "map"} => x.items # <<>>)}}

(* A list in a map of errors is null if it is empty.                       *)
SeenErrors(o) ==
  IF o.type # "map" THEN Seen(o)
  ELSE {<<x.name, IF x.items = <<>> THEN Seen(Null) ELSE Seen(x)>> : x \in ToSet(o.items)}

SeenSection(o) ==
  IF \E x \in ToSet(o.items) : x.name = "error" THEN Entries(o, {"error"}, Seen)
  ELSE Entries(o, {"loaded", "skipped", "failed", "warnings", "errors"}, SeenErrors)

SeenReport(o) ==
  Entries(o, {"ruleset_version", "error"}, Seen)
  \cup {<<x.name, SeenSection(x)>> : x \in {x \in ToSet(o.items) : x.name \in ToSet(SectionNames)}}

(* The attributes with a type that Java knows.  Every fingerprint is a     *)
(* string, and keeps its text if it was one.                               *)
SeenAttributes(o) ==
  {<<x.name, Seen(x)>> : x \in {x \in ToSet(o.items) : x.name # Fingerprint /\
                                  x.type \notin {"array", "null", "invalid", "oversized"}}}
  \cup {<<x.name, <<"string", x.len + Len(x.items), <<>>>>>> : x \in {x \in ToSet(o.items) : x.name = Fingerprint}}

AsReport(o) ==
  {<<x.name, IF x.type \in {"section", "failed"}
             THEN {<<y.name, Seen(y)>> : y \in ToSet(x.items)} ELSE Seen(x)>> : x \in ToSet(o.items)}

(* What a successful call hands over is what it was given: libddwaf gets   *)
(* the part of a configuration that the limits define, Java gets all of    *)
(* the diagnostics, actions and attributes it has types for.               *)
ConversionsExact ==
  outcome # Returned /\ outcome.e.exc = 0 =>
    /\ outcome.call = "add" =>
         LET u == outcome.given
         IN  /\ outcome.result.items[1] = Limited(u.value, ConfigLimits)
             /\ u.report # Invalid => AsReport(outcome.result.items[2]) = SeenReport(u.report)
    /\ outcome.call = "run" =>
         LET acts == PartOf(outcome.given.res, "actions", "map")
             attr == PartOf(outcome.given.res, "attributes", "map")
         IN  /\ Seen(outcome.result.items[1]) = Seen(acts)
             /\ attr # Null => Seen(outcome.result.items[2]) = SeenAttributes(attr)

-----------------------------------------------------------------------------
(* libddwaf is called only while some of the budget is left, and is given  *)
(* no more time than is left of it, nor more than the limit of a run (if   *)
(* the system property is not negative).  The two measurements round down: *)
(* each may lose less than a microsecond.                                  *)
BudgetRespected ==
  outcome # Returned /\ outcome.call = "run" /\ outcome.e.ran # -1 =>
    LET c    == outcome.given
        left == c.general * NsPerUs - c.serialize - c.convert + 2 * (NsPerUs - 1)
    IN  /\ left > 0
        /\ RunLimit(c) >= 0 => outcome.e.ran * NsPerUs <= left /\ outcome.e.ran <= RunLimit(c)
        /\ RunLimit(c) > 0 => outcome.e.ran > 0

=============================================================================
