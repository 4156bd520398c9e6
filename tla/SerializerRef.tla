---------------------------- MODULE SerializerRef ----------------------------
(***************************************************************************)
(* What Serializer must produce: the tree libddwaf finds when it follows   *)
(* the pointers from a slot, against a definition of what the limits leave *)
(* of a Java value.                                                        *)
(*                                                                         *)
(* Elements are numbered in the order of a depth-first walk.  Number p is  *)
(* kept if p is within maxElements and its depth within maxDepth, and is   *)
(* an empty map otherwise; a container keeps as many elements as the       *)
(* element limit leaves after its own number.                              *)
(***************************************************************************)
EXTENDS Serializer

(* How far a walk has got: the number of its last element, and what was    *)
(* cut.  A visit is an element and how far the walk is when it gets there. *)
Progress == [last : Nat, cuts : [strings : Nat, elements : Nat, depth : Nat]]
Visits   == [name : Names, val : Values, at : Progress]

RootVisit(v) ==
  [name |-> Absent, val |-> v, at |-> [last |-> 0, cuts |-> NoMetrics]]

OverLimit(lim, x) == x.at.last >= lim.maxElements

Cut(lim, deep, x) == OverLimit(lim, x) \/ deep

(* The walk after the element itself, which is too deep or is not.         *)
Counted(lim, deep, x) ==
  [last |-> x.at.last + 1,
   cuts |-> [strings  |-> x.at.cuts.strings + TooLong(x.name, lim.maxStringSize) +
                          (IF ~Cut(lim, deep, x) /\ x.val.kind = "string"
                             THEN TooLong(x.val.text, lim.maxStringSize) ELSE 0),
             elements |-> x.at.cuts.elements + (IF OverLimit(lim, x) THEN 1 ELSE 0),
             depth    |-> x.at.cuts.depth + (IF deep /\ ~OverLimit(lim, x) THEN 1 ELSE 0)]]

(* The elements kept of a value.                                           *)
SizeLeft(lim, x) ==
  IF x.val.kind \in {"list", "map"} /\ ~OverLimit(lim, x)
    THEN AtMost(AtMost(x.val.claimed, Len(x.val.items)), lim.maxElements - x.at.last - 1)
    ELSE 0

Visit(item, progress) == [name |-> item.name, val |-> item.val, at |-> progress]

(* The walk after the first k elements of a container, if below is where   *)
(* it is after each of them.                                               *)
Along(lim, below, x) ==
  LET along[k \in 0 .. Len(x.val.items)] ==
        IF k = 0 THEN Counted(lim, FALSE, x)
                 ELSE below[Visit(x.val.items[k], along[k - 1])]
  IN  along

(* The walk after an element and what is in it, if the limits leave it no  *)
(* level or one level more than below.                                     *)
AfterDropped(lim) == [x \in Visits |-> Counted(lim, TRUE, x)]

AfterKept(lim, below) ==
  [x \in Visits |-> IF SizeLeft(lim, x) > 0 THEN Along(lim, below, x)[SizeLeft(lim, x)]
                                            ELSE Counted(lim, FALSE, x)]

After(lim) ==
  LET after[m \in Nat] == IF m = 0 THEN AfterDropped(lim) ELSE AfterKept(lim, after[m - 1])
  IN  after

-----------------------------------------------------------------------------
(* The tree in a memory mm of slots and bb of bytes.                       *)
Addrs == Int \X Int

(* A reference to a text whose bytes and terminator are in place.          *)
HoldsText(bb, ref, text) ==
  IF text = Absent THEN ref = Absent
  ELSE /\ ref # Absent /\ ref.len = Utf8Len(text)
       /\ \A i \in 0 .. ref.len :
            LET b == <<ref.seg, ref.start + i>>
            IN  b \in DOMAIN bb /\ bb[b] = [text |-> text, off |-> i]

HoldsName(mm, bb, lim, a, x) ==
  a \in DOMAIN mm /\ HoldsText(bb, mm[a].name, Truncated(x.name, lim.maxStringSize))

HoldsEmptyMap(mm, a) == mm[a].type = "map" /\ mm[a].n = 0

HoldsValue(mm, bb, lim, a, x) ==
  /\ mm[a].type = x.val.kind
  /\ mm[a].type = "scalar" => mm[a].ptr = x.val.val
  /\ mm[a].type = "string" =>
       HoldsText(bb, mm[a].ptr, Truncated(x.val.text, lim.maxStringSize))
  /\ mm[a].type \in {"list", "map"} => mm[a].n = SizeLeft(lim, x)

ElementOf(e, i) == <<e.ptr[1], e.ptr[2] + i - 1>>

(* The slot at an address holds what is left of an element, and those it   *)
(* points to what is left of the elements in it: below says which of them  *)
(* do, walk where the walk is after each.                                  *)
HoldsDropped(mm, bb, lim) ==
  [p \in Addrs \X Visits |-> HoldsName(mm, bb, lim, p[1], p[2]) /\ HoldsEmptyMap(mm, p[1])]

HoldsKept(mm, bb, lim, walk, below) ==
  [p \in Addrs \X Visits |->
     LET a == p[1]
         x == p[2]
     IN  /\ HoldsName(mm, bb, lim, a, x)
         /\ IF OverLimit(lim, x) THEN HoldsEmptyMap(mm, a) ELSE HoldsValue(mm, bb, lim, a, x)
         /\ \A i \in 1 .. SizeLeft(lim, x) :
              below[<<ElementOf(mm[a], i), Visit(x.val.items[i], Along(lim, walk, x)[i - 1])>>]]

Holds(mm, bb, lim) ==
  LET holds[m \in Nat] == IF m = 0 THEN HoldsDropped(mm, bb, lim)
                          ELSE HoldsKept(mm, bb, lim, After(lim)[m - 1], holds[m - 1])
  IN  holds

-----------------------------------------------------------------------------
(* Everything serializeMore has returned since the lease was taken can     *)
(* still be read back as the value it stands for: no slot keeps what an    *)
(* earlier lease left in it, none is written twice, and later calls, those *)
(* that throw included, do not disturb it.                                 *)
RootsIntact ==
  \A r \in roots : LET lim == r.call.limits
                   IN  Holds(mem, bytes, lim)[lim.maxDepth + 1][<<r.call.slot, RootVisit(r.call.val)>>]

(* Each truncation is counted once, under the limit that caused it.        *)
MetricsExact ==
  \A r \in roots : LET lim == r.call.limits
                   IN  r.metrics = After(lim)[lim.maxDepth + 1][RootVisit(r.call.val)].cuts

(* Serialization ends, whatever the value.                                 *)
Terminates == phase # "idle" ~> phase = "idle"

=============================================================================
