-------------------------------- MODULE JniEnv --------------------------------
(***************************************************************************)
(* What every native method does with the JVM: calls that may throw, the   *)
(* pending exception, local references; and how messages are logged and    *)
(* exceptions wrapped on the way (logging.c, java_call.c).                 *)
(*                                                                         *)
(* An environment e is a record:                                           *)
(*   n       the calls so far that can fail, of the JVM or of malloc       *)
(*   faults  the numbers of those that fail                                *)
(*   exc     the exception pending, by the number of the call that threw   *)
(*           it or its innermost cause; 0 if there is none                 *)
(*   first   the first exception of the method itself: not of logging, of  *)
(*           wrapping or of updating the metrics, which are "aside"        *)
(*   locals  local references created and not deleted                      *)
(*   live    native objects allocated and not freed                        *)
(*   held    elements of Java arrays not released                          *)
(*   misused a call was made with an exception pending, or an object was   *)
(*           freed that had not been set                                   *)
(*   left    lims->max_elements                                            *)
(*   logs    the log level is enabled                                      *)
(*   ran     the time libddwaf was given for a run; -1: it was not called  *)
(*   answer  what a call for a boolean returns that throws: JNI leaves it  *)
(*           undefined                                                     *)
(***************************************************************************)
EXTENDS Integers, Sequences, SequencesExt

Env(faults, logs, elements) ==
  [n |-> 0, faults |-> faults, exc |-> 0, first |-> 0, aside |-> FALSE,
   locals |-> 0, live |-> 0, held |-> 0, misused |-> FALSE, left |-> elements, logs |-> logs, ran |-> -1,
   answer |-> FALSE]

(* The exception thrown by the last call is pending.                       *)
Thrown(e) ==
  [e EXCEPT !.exc = e.n, !.first = IF @ = 0 /\ ~e.aside THEN e.n ELSE @]

Counted(e) == [e EXCEPT !.n = @ + 1, !.misused = @ \/ e.exc # 0]

(* A call that can fail.                                                   *)
Call(e) ==
  LET Answer(c) == IF c.n \in c.faults THEN Thrown(c) ELSE c
  IN  Answer(Counted(e))

ThrowNew(e) == Thrown(Counted(e))

(* ExceptionCheck: what follows is done unless an exception is pending.    *)
Then(e, Rest(_)) == IF e.exc # 0 THEN e ELSE Rest(e)

Local(e, d) == [e EXCEPT !.locals = @ + d]
Alloc(e)    == [e EXCEPT !.live = @ + 1]

(* java_meth_call, or a string made for Java: it returns an object.        *)
New(e) == Then(Call(e), LAMBDA c : Local(c, 1))

(* k of them, each with ExceptionCheck behind it.                          *)
RECURSIVE Calls(_, _), News(_, _)
Calls(e, k) == IF k = 0 \/ e.exc # 0 THEN e ELSE Calls(Call(e), k - 1)
News(e, k)  == IF k = 0 \/ e.exc # 0 THEN e ELSE News(New(e), k - 1)

(* Mutant: an exception thrown meanwhile takes the place of the earlier.   *)
AsideReplaces(e, k) ==
  LET q == Calls([e EXCEPT !.exc = 0, !.aside = TRUE], k)
  IN  [q EXCEPT !.exc = IF q.exc # 0 THEN q.exc ELSE e.exc, !.aside = e.aside]

(* k calls with the pending exception put away, and put back behind them,  *)
(* whatever they throw.  Their local references are deleted.               *)
Aside(e, k) ==
  LET q == Calls([e EXCEPT !.exc = 0, !.aside = TRUE], k)
  IN  [q EXCEPT !.exc = e.exc, !.aside = e.aside]

(* java_log, _waf_logging_c_throwable: four strings, an array, its four    *)
(* elements and the call of the logger.                                    *)
LogCalls == 10
Log(e) == IF e.logs THEN Aside(e, LogCalls) ELSE e

(* java_wrap_exc: the message (malloc, then a string) and the exception;   *)
(* if one of them fails the old exception stays, without a wrapper.        *)
WrapCalls == 3
Wrap(e) == IF e.exc = 0 THEN e ELSE Aside(e, WrapCalls)

(* _throw_pwaf_exception, _throw_pwaf_timeout_exception: the exception is  *)
(* made by Java, then thrown.                                              *)
ThrowMade(e) == Then(New(e), Thrown)

-----------------------------------------------------------------------------
(* ddwaf_objects: a type, the entries of a container, a length of a text,  *)
(* a name.                                                                 *)
Object(type, len, items) == [type |-> type, len |-> len, items |-> items, name |-> ""]
Named(name, o) == [o EXCEPT !.name = name]
Invalid == Object("invalid", 0, <<>>)
Empty(type) == Object(type, 0, <<>>)

RECURSIVE Size(_)
Size(o) ==
  IF o.type = "invalid" THEN 0
  ELSE 1 + FoldLeft(LAMBDA sum, x : sum + Size(x), 0, o.items)

(* ddwaf_object_free.                                                      *)
Free(e, o) == [e EXCEPT !.live = @ - Size(o)]

(* What a native function returns: the environment, and an object.         *)
Ret(e, o) == [e |-> e, o |-> o]

=============================================================================
