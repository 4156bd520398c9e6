------------------------------ MODULE Serializer ------------------------------
(***************************************************************************)
(* ByteBufferSerializer.serializeMore and doSerialize: laying out a Java   *)
(* value as a tree of ddwaf_objects in the arena of a lease.               *)
(*                                                                         *)
(* The recursion of doSerialize is an explicit stack of loops over the     *)
(* elements of a container.  Each call is two steps: Enter (limits, then   *)
(* the name of the slot) and the write of the value.  A slot keeps its old *)
(* contents until they are overwritten: arenas are recycled, never zeroed. *)
(*                                                                         *)
(* A value is a record with a `kind': "scalar" (null, numbers, booleans,   *)
(* objects of unknown type, written as null), "string", "list" (any        *)
(* Collection, array or Iterable) or "map".  A text is a sequence of       *)
(* characters, each the number of bytes of its UTF-8 form.  The elements   *)
(* of a container are pairs of a name and a value; `claimed' is what       *)
(* size() says there are, or, for an `iterable' that is no Collection,     *)
(* what a first pass over it can count: more than an int holds stands for  *)
(* an iterator without end.  It need not be what the iterator of the       *)
(* second pass yields: the application may be changing the container.      *)
(***************************************************************************)
EXTENDS Arena, SequenceSums

CONSTANTS
  Values,         (* the Java values: those handed to serializeMore and    *)
                  (* those inside them                                     *)
  Maps,           (* the values handed to serializeMore                    *)
  Throwing,       (* the maps whose containers are of classes of the       *)
                  (* application that may throw                            *)
  AllLimits,      (* the Waf.Limits they come with: maxElements, maxDepth  *)
                  (* and maxStringSize                                     *)
  Absent,         (* the name of a slot without one; a null pointer        *)
  MaxCalls,       (* bound on the serializations into one lease            *)
  MaxLeases       (* bound on the times the arena is leased                *)

(* Names and texts.                                                        *)
Texts == Seq(0 .. BytesPerChar)
Names == {Absent} \cup Texts

IsString(v)    == v = [kind |-> "string", text |-> v.text] /\ v.text \in Texts
IsContainer(v) ==
  /\ v.kind \in {"list", "map"} /\ v.claimed \in Nat
  /\ v.iterable \in BOOLEAN /\ (v.iterable => v.kind = "list")
  /\ v.items \in Seq([name : Names, val : Values])

IsValue(v) == v.kind = "scalar" \/ (v.kind = "string" /\ IsString(v)) \/ IsContainer(v)

ASSUME ValuesAssumption ==
  /\ Throwing \subseteq Maps /\ Maps \subseteq Values
  /\ \A v \in Values : IsValue(v)

(* A null pointer is neither a text nor a reference to one.                *)
ASSUME AbsentAssumption ==
  Absent \notin Texts \cup [seg : Nat, start : Nat, len : Nat]

ASSUME LimitsAssumption ==
  AllLimits \subseteq [maxElements : 0 .. MaxInt, maxDepth : Nat, maxStringSize : Nat]

VARIABLES
  mem,        (* contents of the slots written so far, by address          *)
  bytes,      (* contents of the string bytes written so far, by address   *)
  phase,      (* "idle", "enter", "value" or "loop"                        *)
  call,       (* the arguments of the current doSerialize                  *)
  counted,    (* the elements the first pass over an Iterable has seen     *)
  stack,      (* the enclosing loops, innermost first                      *)
  remaining,  (* remainingElements[0]                                      *)
  metrics,    (* truncations counted in this call                          *)
  root,       (* slot, value and limits of the current serializeMore       *)
  roots,      (* history: those that returned since the lease was taken    *)
  calls,      (* history: serializations into the current lease            *)
  leases      (* history: leases so far                                    *)

dataVars == <<mem, bytes>>
callVars == <<phase, call, counted, stack, remaining, metrics, root>>
histVars == <<roots, calls, leases>>
serVars  == <<arenaVars, dataVars, callVars, histVars>>

NoMetrics == [strings |-> 0, elements |-> 0, depth |-> 0]

EmptyMap == [kind |-> "map", iterable |-> FALSE, claimed |-> 0, items |-> <<>>]

NoCall == [slot |-> Absent, name |-> Absent, val |-> EmptyMap, depth |-> 0]

(* A slot of a new segment: the JVM zeroes direct buffers.                 *)
Blank == [name |-> Absent, type |-> "invalid", ptr |-> Absent, n |-> 0]

SerInit ==
  /\ ArenaInit
  /\ mem = <<>> /\ bytes = <<>>
  /\ phase = "idle" /\ call = NoCall /\ counted = 0 /\ stack = <<>>
  /\ remaining = 0 /\ metrics = NoMetrics /\ root = Absent
  /\ roots = {} /\ calls = 0 /\ leases = 1

-----------------------------------------------------------------------------
Utf8Len(text) == Total(text)

AtMost(m, n) == IF m < n THEN m ELSE n

(* Texts, and the count of truncated ones, under a maxStringSize.          *)
Truncated(text, max) ==
  IF text = Absent THEN Absent ELSE SubSeq(text, 1, AtMost(Len(text), max))

TooLong(text, max) == IF text # Absent /\ Len(text) > max THEN 1 ELSE 0

(* A memory after some of its cells were written.                          *)
Overwritten(memory, cells) ==
  [a \in DOMAIN memory \cup DOMAIN cells |->
     IF a \in DOMAIN cells THEN cells[a] ELSE memory[a]]

(* StringsSegment.writeNulTerminated: encode a text at the position of     *)
(* string segment k, and the reference to it that goes into a slot.        *)
TextRef(text, k) == [seg |-> k, start |-> Start(strings, k), len |-> Utf8Len(text)]

Encode(text, k) ==
  /\ WriteString(Len(text), Utf8Len(text), k)
  /\ LET at == Start(strings, k)
     IN  bytes' = Overwritten(bytes, [a \in {<<k, at + i>> : i \in 0 .. Utf8Len(text)} |->
                                        [text |-> text, off |-> a[2] - at]])

TooLarge(text) == MaxBytes(Len(text)) > MaxInt

Slot(addr) == IF addr \in DOMAIN mem THEN mem[addr] ELSE Blank

(* putParameterName writes the first half of a slot, the writers of values *)
(* the second.                                                             *)
PutName(ref) ==
  mem' = Overwritten(mem, [a \in {call.slot} |-> [Slot(a) EXCEPT !.name = ref]])

(* Mutant: an empty container leaves pointer and length alone.             *)
PutValueTypeOnly(type, ptr, n) ==
  mem' = Overwritten(mem, [a \in {call.slot} |->
           IF type \in {"list", "map"} /\ n = 0
             THEN [Slot(a) EXCEPT !.type = type]
             ELSE [Slot(a) EXCEPT !.type = type, !.ptr = ptr, !.n = n]])

PutValue(type, ptr, n) ==
  mem' = Overwritten(mem, [a \in {call.slot} |->
           [Slot(a) EXCEPT !.type = type, !.ptr = ptr, !.n = n]])

(* serializeMore is left, and its local variables with it.                 *)
Leave ==
  /\ phase' = "idle" /\ call' = NoCall /\ counted' = 0 /\ stack' = <<>>
  /\ remaining' = 0 /\ metrics' = NoMetrics /\ root' = Absent

(* By an exception: what was written stays in the arena.                   *)
Throw == Leave /\ UNCHANGED histVars

-----------------------------------------------------------------------------
(* serializeMore: a slot of its own for the value.                         *)
SerializeMap(m, lim) ==
  /\ phase = "idle"
  /\ calls < MaxCalls
  /\ \E k \in Candidates(slots) :
       /\ AllocatePWArgs(1, TRUE, k)
       /\ root' = [slot |-> <<k, Start(slots, k)>>, val |-> m, limits |-> lim]
  /\ call' = [slot |-> root'.slot, name |-> Absent, val |-> m, depth |-> lim.maxDepth]
  /\ phase' = "enter" /\ counted' = 0
  /\ remaining' = lim.maxElements
  /\ calls' = calls + 1
  /\ UNCHANGED <<dataVars, stack, metrics, roots, leases>>

MaxString == root.limits.maxStringSize

Dropped == remaining - 1 < 0 \/ call.depth < 0

(* What is left of the value when the limits have been applied.            *)
Kept == IF Dropped THEN EmptyMap
        ELSE IF call.val.kind = "string" THEN [call.val EXCEPT !.text = Truncated(@, MaxString)]
        ELSE call.val

KeptName == Truncated(call.name, MaxString)

(* Mutant: what the depth limit drops is counted under the element limit.  *)
CountDropped ==
  [strings  |-> metrics.strings + TooLong(call.name, MaxString) +
                (IF ~Dropped /\ call.val.kind = "string"
                   THEN TooLong(call.val.text, MaxString) ELSE 0),
   elements |-> metrics.elements + (IF Dropped THEN 1 ELSE 0),
   depth    |-> metrics.depth]

Count ==
  [strings  |-> metrics.strings + TooLong(call.name, MaxString) +
                (IF ~Dropped /\ call.val.kind = "string"
                   THEN TooLong(call.val.text, MaxString) ELSE 0),
   elements |-> metrics.elements + (IF remaining - 1 < 0 THEN 1 ELSE 0),
   depth    |-> metrics.depth + (IF remaining - 1 >= 0 /\ call.depth < 0 THEN 1 ELSE 0)]

(* An Iterable is counted before it is written, one hasNext() and next()   *)
(* at a time, as far as there are elements left to keep.                   *)
HasNext(v) == counted < v.claimed \/ v.claimed > MaxInt

MoreToCount ==
  /\ call.val.kind = "list" /\ call.val.iterable /\ ~Dropped
  /\ HasNext(call.val) /\ counted < remaining - 1

(* Mutant: the elements left are not looked at, and the int wraps.         *)
CountElementOn ==
  /\ phase = "enter"
  /\ call.val.kind = "list" /\ call.val.iterable /\ ~Dropped /\ HasNext(call.val)
  /\ counted' = (counted + 1) % (MaxInt + 1)
  /\ UNCHANGED <<arenaVars, dataVars, phase, call, stack, remaining, metrics, root, histVars>>

CountElement ==
  /\ phase = "enter" /\ MoreToCount
  /\ counted' = counted + 1
  /\ UNCHANGED <<arenaVars, dataVars, phase, call, stack, remaining, metrics, root, histVars>>

(* doSerialize up to putParameterName.                                     *)
Enter ==
  /\ phase = "enter" /\ ~MoreToCount
  /\ \/ /\ KeptName = Absent
        /\ PutName(Absent)
        /\ UNCHANGED <<arenaVars, bytes>>
     \/ /\ KeptName # Absent
        /\ \E k \in Candidates(strings) : Encode(KeptName, k) /\ PutName(TextRef(KeptName, k))
  /\ call' = [call EXCEPT !.name = KeptName, !.val = Kept]
  /\ remaining' = remaining - 1
  /\ metrics' = Count
  /\ phase' = "value"
  /\ UNCHANGED <<counted, stack, root, histVars>>

NameTooLarge ==
  /\ phase = "enter" /\ ~MoreToCount
  /\ KeptName # Absent /\ TooLarge(KeptName)
  /\ Throw
  /\ UNCHANGED <<arenaVars, dataVars>>

(* writeNull, writeBool, writeLong, writeDouble.                           *)
WriteScalar ==
  /\ phase = "value" /\ call.val.kind = "scalar"
  /\ PutValue("scalar", call.val.val, 0)
  /\ phase' = "loop"
  /\ UNCHANGED <<arenaVars, bytes, call, counted, stack, remaining, metrics, root, histVars>>

(* writeString.                                                            *)
WriteText ==
  /\ phase = "value" /\ call.val.kind = "string"
  /\ \E k \in Candidates(strings) :
       /\ Encode(call.val.text, k)
       /\ PutValue("string", TextRef(call.val.text, k), 0)
  /\ phase' = "loop"
  /\ UNCHANGED <<call, counted, stack, remaining, metrics, root, histVars>>

TextTooLarge ==
  /\ phase = "value" /\ call.val.kind = "string" /\ TooLarge(call.val.text)
  /\ Throw
  /\ UNCHANGED <<arenaVars, dataVars>>

(* Mutant: size() is trusted.                                              *)
SizeOfClaimed(v) == v.claimed

(* The elements a container gets slots for.                                *)
SizeOf(v) == IF v.iterable THEN counted ELSE AtMost(v.claimed, remaining)

(* The view AllocatePWArgs recycles, or adds, in segment k.                *)
ViewIndex(k) == IF k <= Len(nextView) THEN nextView[k] + 1 ELSE 1

(* writeArray and writeMap of no elements.                                 *)
WriteEmpty ==
  /\ phase = "value" /\ call.val.kind \in {"list", "map"}
  /\ SizeOf(call.val) <= 0
  /\ PutValue(call.val.kind, Absent, 0)
  /\ phase' = "loop"
  /\ UNCHANGED <<arenaVars, bytes, call, counted, stack, remaining, metrics, root, histVars>>

(* writeArray and writeMap: slots for the elements, and a loop over them   *)
(* that writes through the recycled view of those slots.                   *)
WriteContainer ==
  /\ phase = "value" /\ call.val.kind \in {"list", "map"}
  /\ SizeOf(call.val) > 0
  /\ \E k \in Candidates(slots) :
       /\ AllocatePWArgs(SizeOf(call.val), FALSE, k)
       /\ PutValue(call.val.kind, <<k, Start(slots, k)>>, SizeOf(call.val))
       /\ stack' = <<[seg |-> k, view |-> ViewIndex(k), i |-> 0,
                      size |-> SizeOf(call.val), items |-> call.val.items,
                      depth |-> call.depth]>> \o stack
  /\ phase' = "loop"
  /\ UNCHANGED <<bytes, call, counted, remaining, metrics, root, histVars>>

(* One round of the innermost loop: doSerialize of the next element, into  *)
(* the slot that PWArgsArrayBuffer.get(i) finds now.                       *)
NextElement ==
  /\ phase = "loop" /\ stack # <<>>
  /\ LET f == Head(stack)
         v == views[f.seg][f.view]
     IN  /\ f.items # <<>> /\ f.i < f.size
         /\ f.i < v.num
         /\ call' = [slot |-> <<f.seg, v.start + f.i>>, name |-> Head(f.items).name,
                     val |-> Head(f.items).val, depth |-> f.depth - 1]
         /\ stack' = <<[f EXCEPT !.i = @ + 1, !.items = Tail(@)]>> \o Tail(stack)
  /\ phase' = "enter" /\ counted' = 0
  /\ UNCHANGED <<arenaVars, dataVars, remaining, metrics, root, histVars>>

EndLoop ==
  /\ phase = "loop" /\ stack # <<>>
  /\ Head(stack).i = Head(stack).size
  /\ stack' = Tail(stack)
  /\ UNCHANGED <<arenaVars, dataVars, phase, call, counted, remaining, metrics, root, histVars>>

(* ConcurrentModificationException: the iterator ended early.              *)
Modified ==
  /\ phase = "loop" /\ stack # <<>>
  /\ Head(stack).items = <<>> /\ Head(stack).i # Head(stack).size
  /\ Throw
  /\ UNCHANGED <<arenaVars, dataVars>>

(* The application's code throws: size(), iterator() and the counting pass *)
(* before a container is written, hasNext(), next() and a key's toString() *)
(* while a loop is at work, that of an empty root included.                *)
ApplicationThrows ==
  /\ phase \in {"enter", "loop"} /\ root.val \in Throwing
  /\ phase = "enter" => call.val.kind \in {"list", "map"} /\ ~Dropped
  /\ phase = "loop" => stack # <<>> \/ call.slot = root.slot
  /\ Throw
  /\ UNCHANGED <<arenaVars, dataVars>>

(* serializeMore returns the buffer of its slot.                           *)
Return ==
  /\ phase = "loop" /\ stack = <<>>
  /\ roots' = roots \cup {[call |-> root, metrics |-> metrics]}
  /\ Leave
  /\ UNCHANGED <<arenaVars, dataVars, calls, leases>>

(* Mutant: reset() forgets the strings.                                    *)
ReleaseSlots ==
  /\ phase = "idle"
  /\ leases < MaxLeases
  /\ slots' = Rewind(slots)
  /\ nextView' = [k \in DOMAIN nextView |-> 0]
  /\ blocks' = {} /\ texts' = {}
  /\ roots' = {} /\ calls' = 0 /\ leases' = leases + 1
  /\ UNCHANGED <<strings, views, dataVars, callVars>>

(* The lease is closed and the arena leased again.                         *)
Release ==
  /\ phase = "idle"
  /\ leases < MaxLeases
  /\ Reset
  /\ roots' = {} /\ calls' = 0 /\ leases' = leases + 1
  /\ UNCHANGED <<dataVars, callVars>>

Step ==
  \/ CountElement \/ Enter \/ NameTooLarge \/ ApplicationThrows
  \/ WriteScalar \/ WriteText \/ TextTooLarge \/ WriteEmpty \/ WriteContainer
  \/ NextElement \/ EndLoop \/ Modified \/ Return

SerNext == Step \/ Release \/ \E m \in Maps, lim \in AllLimits : SerializeMap(m, lim)

SerSpec == SerInit /\ [][SerNext]_serVars /\ WF_serVars(Step)

-----------------------------------------------------------------------------
(* Dropped elements still take a slot each, but only in the containers     *)
(* that are open when the element limit is reached, at most one for each   *)
(* level: this is what one call can take from the arena.                   *)
SlotsBounded ==
  (calls = 1 /\ phase # "idle") =>
    Total(slots.pos) <= 1 + Max2(0, root.limits.maxElements - 1) * (root.limits.maxDepth + 1)

(* The serializer asks the arena for nothing it does not allow.            *)
UsesArena == ArenaSpec

-----------------------------------------------------------------------------
(* The inductive invariant behind these.  The call and the open loops are  *)
(* over values under the limits of the root.                               *)
Element == [name : Names, val : Values]
Frame   == [seg : Int, view : Int, i : Nat, size : Nat, items : Seq(Element), depth : Int]

CallOK ==
  /\ call = [slot |-> call.slot, name |-> call.name, val |-> call.val, depth |-> call.depth]
  /\ call.name \in Names /\ IsValue(call.val) /\ call.depth \in Int

SerTypeOK ==
  /\ phase \in {"idle", "enter", "value", "loop"}
  /\ calls \in Nat /\ counted \in Nat
  /\ stack \in Seq(Frame)
  /\ phase \in {"enter", "value"} => CallOK
  /\ phase # "idle" =>
       /\ root.limits \in AllLimits
       /\ remaining \in Int /\ remaining <= root.limits.maxElements

(* The first pass over an Iterable counts no more elements than it has and *)
(* no more than are left, and Enter waits for all of those: from then on   *)
(* an Iterable is as good as a Collection.                                 *)
CountOK ==
  /\ phase = "enter" /\ ~Dropped /\ call.val.kind = "list" /\ call.val.iterable =>
       counted <= AtMost(call.val.claimed, remaining - 1)
  /\ phase = "value" /\ call.val.kind \in {"list", "map"} /\ call.val.iterable =>
       counted = AtMost(call.val.claimed, remaining)

(* The depth of a call is that of the loops around it, whose slots were    *)
(* counted against the elements left after the root.                       *)
LoopsOK(loops, lim) ==
  \A j \in 1 .. Len(loops) :
    /\ loops[j].depth = lim.maxDepth - Len(loops) + j
    /\ loops[j].i <= loops[j].size
    /\ loops[j].size <= lim.maxElements - 1

LevelsOK ==
  phase # "idle" =>
    /\ LoopsOK(stack, root.limits)
    /\ phase \in {"enter", "value"} => call.depth = root.limits.maxDepth - Len(stack)
    /\ phase = "value" \/ stack # <<>> => remaining <= root.limits.maxElements - 1
    /\ phase = "value" /\ call.depth < 0 => call.val = EmptyMap

(* The slots taken are those of the elements counted, of the one about to  *)
(* be, and those the open loops have yet to fill.                          *)
Unfilled(loops) == Total([j \in 1 .. Len(loops) |-> loops[j].size - loops[j].i])

SlotsCounted ==
  /\ phase = "idle" => stack = <<>> /\ (calls = 0 => Total(slots.pos) = 0)
  /\ phase # "idle" => calls # 0
  /\ phase # "idle" /\ calls = 1 =>
       Total(slots.pos) = root.limits.maxElements - remaining
                          + (IF phase = "enter" THEN 1 ELSE 0) + Unfilled(stack)

SerInv == SerTypeOK /\ CountOK /\ LevelsOK /\ SlotsCounted /\ SlotsBounded

=============================================================================
