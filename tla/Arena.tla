-------------------------------- MODULE Arena --------------------------------
(***************************************************************************)
(* ByteBufferSerializer.Arena: the memory of one arena.                    *)
(*                                                                         *)
(* An arena has a list of segments for ddwaf_objects (PWArgs slots) and a  *)
(* list of segments for strings.  Both are filled from the front: the      *)
(* current segment hands out the room behind its position, and when what   *)
(* is asked for does not fit the next segment becomes current, allocated   *)
(* if there is none.  reset() rewinds everything and frees nothing.        *)
(*                                                                         *)
(* A segment also recycles the PWArgsArrayBuffer objects that stand for    *)
(* arrays of slots: views[k] are those of segment k, in use up to          *)
(* nextView[k], each naming its start and length.  The serializer holds on *)
(* to such an object while it fills the array, so it must not be handed    *)
(* out again before reset().                                               *)
(*                                                                         *)
(* A region is a list of segments: capacity and position of each, and the  *)
(* current one.  Slots and bytes are counted from 0, segments from 1.      *)
(***************************************************************************)
EXTENDS Integers, Sequences

CONSTANTS
  MinSlots,      (* PWARGS_MIN_SEGMENTS_SIZE                               *)
  MinBytes,      (* STRINGS_MIN_SEGMENTS_SIZE                              *)
  BytesPerChar,  (* MAX_BYTES_PER_CHAR_UTF8                                *)
  MaxInt         (* Integer.MAX_VALUE                                      *)

ASSUME SizesAssumption ==
  /\ MinSlots \in Nat \ {0}
  /\ MinBytes \in Nat \ {0}
  /\ BytesPerChar \in Nat \ {0}
  /\ MaxInt \in Nat

VARIABLES
  slots,      (* the region of PWArgs slots                                *)
  strings,    (* the region of string bytes                                *)
  views,      (* PWArgsSegment.pwargsArrays of each slot segment           *)
  nextView,   (* PWArgsSegment.idxOfNextUnusedPWArgsArrayBuffer of each    *)
  blocks,     (* history: the arrays of slots handed out since reset()     *)
  texts       (* history: the strings written since reset()                *)

arenaVars == <<slots, strings, views, nextView, blocks, texts>>

-----------------------------------------------------------------------------
NewRegion(min) == [cap |-> <<min>>, pos |-> <<0>>, cur |-> 1]

Left(r, k) == r.cap[k] - r.pos[k]

(* The segments a request may end up in: the current one, those after it,  *)
(* and a new one.                                                          *)
Candidates(r) == r.cur .. Len(r.cap) + 1

(* Mutant: a segment with one unit too few will do.                        *)
TakesTight(r, n, k) ==
  /\ k \in Candidates(r)
  /\ k <= Len(r.cap) => Left(r, k) + 1 >= n
  /\ \A j \in r.cur .. k - 1 : Left(r, j) + 1 < n

(* Segment k is where the allocation loop stops: the first candidate with  *)
(* room for n, a new one having room for anything.                         *)
Takes(r, n, k) ==
  /\ k \in Candidates(r)
  /\ k <= Len(r.cap) => Left(r, k) >= n
  /\ \A j \in r.cur .. k - 1 : Left(r, j) < n

(* Where the next allocation in segment k starts.                          *)
Start(r, k) == IF k <= Len(r.cap) THEN r.pos[k] ELSE 0

(* changePWArgsSegment, changeStringsSegment: add a segment if k is new.   *)
WithSegment(r, k, cap) ==
  IF k <= Len(r.cap) THEN r
  ELSE [cap |-> Append(r.cap, cap), pos |-> Append(r.pos, 0), cur |-> r.cur]

(* Make k current and move its position by n.                              *)
Advance(r, k, n) == [cap |-> r.cap, pos |-> [r.pos EXCEPT ![k] = @ + n], cur |-> k]

(* All segments are empty again, and the first one is current.             *)
Rewind(r) == [cap |-> r.cap, pos |-> [k \in DOMAIN r.pos |-> 0], cur |-> 1]

Max2(m, n) == IF m < n THEN n ELSE m

-----------------------------------------------------------------------------
(* new Arena().                                                            *)
ArenaInit ==
  /\ slots = NewRegion(MinSlots)
  /\ strings = NewRegion(MinBytes)
  /\ views = <<<<>>>>
  /\ nextView = <<0>>
  /\ blocks = {}
  /\ texts = {}

(* Mutant: the recycled view is not marked as used.                        *)
AllocatePWArgsShared(num, getAddressCompatible, k) ==
  LET r  == WithSegment(slots, k, Max2(MinSlots, num))
      vs == IF k <= Len(views) THEN views ELSE Append(views, <<>>)
      nv == IF k <= Len(nextView) THEN nextView ELSE Append(nextView, 0)
      v  == [start |-> Start(slots, k), num |-> num]
  IN  /\ num > 0
      /\ Takes(slots, num, k)
      /\ slots' = Advance(r, k, num)
      /\ IF getAddressCompatible
           THEN views' = vs /\ nextView' = nv
           ELSE /\ views' = [vs EXCEPT ![k] =
                               IF nv[k] >= Len(@) THEN Append(@, v)
                                                  ELSE [@ EXCEPT ![nv[k] + 1] = v]]
                /\ nextView' = nv
      /\ blocks' = blocks \cup
                     {[seg |-> k, start |-> v.start, num |-> num,
                       view |-> IF getAddressCompatible THEN 0 ELSE nv[k] + 1]}
      /\ UNCHANGED <<strings, texts>>

(* allocatePWArgsBuffer: num slots in segment k.  An array meant for       *)
(* GetDirectBufferAddress gets an object of its own; any other recycles    *)
(* the next unused view of the segment, or adds one.                       *)
AllocatePWArgs(num, getAddressCompatible, k) ==
  LET r  == WithSegment(slots, k, Max2(MinSlots, num))
      vs == IF k <= Len(views) THEN views ELSE Append(views, <<>>)
      nv == IF k <= Len(nextView) THEN nextView ELSE Append(nextView, 0)
      v  == [start |-> Start(slots, k), num |-> num]
  IN  /\ num > 0
      /\ Takes(slots, num, k)
      /\ slots' = Advance(r, k, num)
      /\ IF getAddressCompatible
           THEN views' = vs /\ nextView' = nv
           ELSE /\ views' = [vs EXCEPT ![k] =
                               IF nv[k] >= Len(@) THEN Append(@, v)
                                                  ELSE [@ EXCEPT ![nv[k] + 1] = v]]
                /\ nextView' = [nv EXCEPT ![k] = @ + 1]
      /\ blocks' = blocks \cup
                     {[seg |-> k, start |-> v.start, num |-> num,
                       view |-> IF getAddressCompatible THEN 0 ELSE nv[k] + 1]}
      /\ UNCHANGED <<strings, texts>>

(* writeStringUnlimited: room is asked for the worst case of `chars' UTF-16 *)
(* units and a terminator, and taken for the `bytes' really encoded.       *)
MaxBytes(chars) == chars * BytesPerChar + 1

WriteString(chars, bytes, k) ==
  LET r == WithSegment(strings, k, Max2(MinBytes, MaxBytes(chars)))
  IN  /\ MaxBytes(chars) <= MaxInt
      /\ Takes(strings, MaxBytes(chars), k)
      /\ strings' = Advance(r, k, bytes + 1)
      /\ texts' = texts \cup {[seg |-> k, start |-> Start(strings, k), num |-> bytes + 1]}
      /\ UNCHANGED <<slots, views, nextView, blocks>>

(* reset().                                                                *)
Reset ==
  /\ slots' = Rewind(slots)
  /\ strings' = Rewind(strings)
  /\ nextView' = [k \in DOMAIN nextView |-> 0]
  /\ blocks' = {}
  /\ texts' = {}
  /\ UNCHANGED views

-----------------------------------------------------------------------------
(* What the serializer may ask for: one slot with an address of its own,   *)
(* an array of slots, or room for a string of `chars' units.               *)
ArenaAllocate ==
  \/ \E k \in Candidates(slots) : AllocatePWArgs(1, TRUE, k)
  \/ \E num \in 1 .. MaxInt, k \in Candidates(slots) : AllocatePWArgs(num, FALSE, k)
  \/ \E chars \in 0 .. MaxInt : \E bytes \in 0 .. chars * BytesPerChar :
       \E k \in Candidates(strings) : WriteString(chars, bytes, k)

ArenaNext == ArenaAllocate \/ Reset

ArenaSpec == ArenaInit /\ [][ArenaNext]_arenaVars

-----------------------------------------------------------------------------
RegionOK(r) ==
  /\ r = [cap |-> r.cap, pos |-> r.pos, cur |-> r.cur]
  /\ r.cap \in Seq(Nat)
  /\ r.pos \in Seq(Nat)
  /\ Len(r.pos) = Len(r.cap)
  /\ r.cur \in 1 .. Len(r.cap)

ArenaTypeOK ==
  /\ RegionOK(slots)
  /\ RegionOK(strings)
  /\ views \in Seq(Seq([start : Nat, num : Nat]))
  /\ nextView \in Seq(Nat)
  /\ Len(views) = Len(slots.cap) /\ Len(nextView) = Len(slots.cap)

Disjoint(b, c) ==
  b.seg = c.seg => b.start + b.num <= c.start \/ c.start + c.num <= b.start

(* Nothing that was handed out since the last reset() overlaps anything    *)
(* else, or reaches past the end of its segment: later serializations into *)
(* the same lease cannot overwrite what libddwaf already points to.        *)
Separate(bs, r) ==
  /\ \A b, c \in bs : b # c => Disjoint(b, c)
  /\ \A b \in bs : b.start + b.num <= r.cap[b.seg]

LiveSeparate == Separate(blocks, slots) /\ Separate(texts, strings)

(* The PWArgsArrayBuffer of every array handed out since reset() still     *)
(* names that array: recycled objects are never shared by two of them.     *)
ViewsStable ==
  \A b \in blocks : b.view # 0 =>
    views[b.seg][b.view] = [start |-> b.start, num |-> b.num]

(* The inductive invariant behind these: what was handed out lies below    *)
(* the position of its segment, and its view below nextView.               *)
WithinCapacity(r) == \A k \in 1 .. Len(r.cap) : r.pos[k] <= r.cap[k]

Below(bs, r) ==
  \A b \in bs :
    /\ b.seg \in 1 .. Len(r.cap) /\ b.start \in Nat /\ b.num \in Nat \ {0}
    /\ b.start + b.num <= r.pos[b.seg]

ViewsInUse ==
  /\ \A k \in 1 .. Len(views) : nextView[k] <= Len(views[k])
  /\ \A b \in blocks : b.view \in 0 .. nextView[b.seg]

ArenaInv ==
  /\ ArenaTypeOK
  /\ WithinCapacity(slots) /\ WithinCapacity(strings)
  /\ Below(blocks, slots) /\ Below(texts, strings)
  /\ LiveSeparate
  /\ ViewsInUse
  /\ ViewsStable

=============================================================================
