---------------------------- MODULE ExclusivePool ----------------------------
(***************************************************************************)
(* What the arena pool promises, without its mechanism: a resource is      *)
(* free, or belongs to exactly one owner, or was dropped by its owner, or  *)
(* does not exist.  It changes owner only by being given back first, and a *)
(* dropped resource can only be destroyed.  Each step concerns one         *)
(* resource.                                                               *)
(***************************************************************************)
CONSTANTS Resources, Owners, Free, Dropped, Absent

VARIABLE owner

ExclusiveInit == owner = [r \in Resources |-> Absent]

Move(r, from, to) ==
  /\ owner[r] \in from
  /\ owner' = [owner EXCEPT ![r] = to]

Take(o, r)     == Move(r, {Free, Absent}, o)
GiveBack(o, r) == Move(r, {o}, Free)
Drop(o, r)     == Move(r, {o}, Dropped)
Destroy(r)     == Move(r, {Dropped}, Absent)

ExclusiveNext ==
  \E r \in Resources :
    \/ Destroy(r)
    \/ \E o \in Owners : Take(o, r) \/ GiveBack(o, r) \/ Drop(o, r)

ExclusiveSpec == ExclusiveInit /\ [][ExclusiveNext]_owner
=============================================================================
