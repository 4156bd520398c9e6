--------------------------- MODULE NativeInitProofs ---------------------------
(***************************************************************************)
(* Proof of what NativeInit promises, for any number of threads and any    *)
(* list of steps with the shape that InitAssumption states.                *)
(***************************************************************************)
EXTENDS NativeInit, SequenceTheorems, TLAPS

(* The place of a group in Disposal, 0 if it is never disposed of.         *)
Rank(g) ==
  IF g = "enums" THEN 1 ELSE IF g = "results" THEN 2 ELSE IF g = "classes" THEN 3
  ELSE IF g = "order" THEN 4 ELSE IF g = "methods" THEN 5 ELSE IF g = "output" THEN 6
  ELSE IF g = "log" THEN 8 ELSE 0

RankOf(r) == Rank(Steps[r].group)

(* What InitAssumption says of the steps, by their ranks.                  *)
LEMMA StepsTyped ==
  /\ Len(Steps) \in Nat /\ Len(Steps) >= 1 /\ Rte \in Refs
  /\ \A r \in Refs : /\ Steps[r].group \in Groups /\ Steps[r].kind \in Kinds
                     /\ RankOf(r) = 0 => Steps[r].kind \notin Keeps
                     /\ RankOf(r) \in 0 .. 8 /\ RankOf(r) # 7
<1>1. Steps \in Seq([group : Groups, kind : Kinds]) /\ Len(Steps) >= 1
  BY InitAssumption
<1>2. Len(Steps) \in Nat /\ Rte \in Refs
  BY <1>1, SMT DEF Rte, Refs
<1>3. \A r \in Refs : Steps[r] \in [group : Groups, kind : Kinds]
  BY <1>1, ElementOfSeq DEF Refs
<1>4. \A r \in Refs : Steps[r].group \in Groups /\ Steps[r].kind \in Kinds
  BY <1>3
<1>5. \A r \in Refs : RankOf(r) = 0 => Steps[r].group \in {"none", "fields"}
  BY <1>4, SMT DEF RankOf, Rank, Groups, CacheGroups
<1>6. \A r \in Refs : Steps[r].group \in {"none", "fields"} => Steps[r].kind \notin Keeps
  BY InitAssumption DEF Refs
<1>7. \A r \in Refs : RankOf(r) \in 0 .. 8 /\ RankOf(r) # 7
  BY SMT DEF RankOf, Rank
<1> QED
  BY <1>1, <1>2, <1>4, <1>5, <1>6, <1>7

(* Disposal takes the groups in the order of their ranks; the callback is  *)
(* removed at 7.                                                           *)
LEMMA DisposalRanks ==
  /\ Len(Disposal) = 8
  /\ \A k \in 1 .. 8 : Disposal[k] = {} <=> k = 7
  /\ \A k \in 1 .. 8 : \A r \in Refs : InGroups(r, Disposal[k]) <=> r # Rte /\ RankOf(r) = k
<1>1. /\ Len(Disposal) = 8
      /\ Disposal[1] = {"enums"} /\ Disposal[2] = {"results"} /\ Disposal[3] = {"classes"}
      /\ Disposal[4] = {"order"} /\ Disposal[5] = {"methods"} /\ Disposal[6] = {"output"}
      /\ Disposal[7] = {} /\ Disposal[8] = {"log"}
  BY SMT DEF Disposal
<1>a. \A k \in 1 .. 8 : k = 1 \/ k = 2 \/ k = 3 \/ k = 4 \/ k = 5 \/ k = 6 \/ k = 7 \/ k = 8
  BY SMT
<1>2. \A k \in 1 .. 8 : Disposal[k] = {} <=> k = 7
  BY <1>1, <1>a, SMT
<1>3. ASSUME NEW k \in 1 .. 8, NEW g PROVE g \in Disposal[k] <=> Rank(g) = k
  BY <1>1, <1>a, SMT DEF Rank
<1> QED
  BY <1>1, <1>2, <1>3 DEF InGroups, RankOf

-----------------------------------------------------------------------------
Deinitializing == \E t \in All : pc[t] = "deinit"

(* While JNI_OnLoad runs: what is behind it is cached, nothing is deleted. *)
Loading ==
  /\ \A r \in Refs : /\ r >= at => ptr[r] = "null"
                     /\ r < at /\ Needed(r) => ptr[r] = "live"
                     /\ ptr[r] # "stale" /\ freed[r] = 0
  /\ logcb => \A r \in Refs : Steps[r].group = "log" => r < at
  /\ \A k \in Refs : k < at /\ Steps[k].kind = "callback" => logcb

(* While _deinitialize runs: a group is untouched until its turn.          *)
Releasing ==
  \A t \in All : pc[t] = "deinit" =>
    /\ load = IF t = VM THEN "unloading" ELSE "ok"
    /\ dstep[t] <= 9 /\ (dstep[t] > 7 => ~logcb)
    /\ \A r \in Refs \ {Rte} :
         IF RankOf(r) >= dstep[t]
         THEN freed[r] = 0 /\ ptr[r] # "stale" /\ (Needed(r) => ptr[r] = "live")
         ELSE ptr[r] # "live"

NativeInv ==
  /\ InitTypeOK /\ ReleasedOnce /\ CallbackLive /\ RteUsable /\ NothingLeft
  /\ \A r \in Refs : Steps[r].kind \notin Keeps => ptr[r] = "null"
  /\ \A t, u \in All : pc[t] = "deinit" /\ pc[u] = "deinit" => t = u
  /\ load \in {"no", "loading"} => Loading
  /\ load = "no" => at = 1 /\ ~logcb
  /\ load \in {"no", "loading", "failed"} => ~init_ok
  /\ init_ok => /\ load = "ok"
                /\ \A r \in Refs : freed[r] = 0 /\ ptr[r] # "stale" /\ (Needed(r) => ptr[r] = "live")
  /\ init_ok \/ load \notin {"ok", "unloading"} => ~Deinitializing
  /\ Releasing
  /\ load \in {"ok", "unloading", "unloaded"} /\ ~init_ok /\ ~Deinitializing => ~logcb
  /\ load \in {"ok", "unloading"} => ptr[Rte] = "live" /\ freed[Rte] = 0
  /\ exc = "undefined" => load = "failed"
  /\ \A t \in Threads : pc[t] = "call" /\ ~overlapped[t] => init_ok

(* Before the library is loaded nothing is cached.                         *)
LEMMA InitialInv == NativeInitial => NativeInv
<1> SUFFICES ASSUME NativeInitial PROVE NativeInv
  OBVIOUS
<1>1. InitTypeOK
  <2>1. at \in 1 .. Len(Steps) + 1 /\ 0 \in Nat /\ 1 \in Nat \ {0}
    BY StepsTyped, SMT DEF NativeInitial
  <2>2. freed \in [Refs -> Nat] /\ dstep \in [All -> Nat \ {0}]
    BY <2>1 DEF NativeInitial
  <2> QED
    BY <2>1, <2>2 DEF NativeInitial, InitTypeOK
<1>2. \A r \in Refs : ptr[r] = "null" /\ freed[r] = 0 /\ r >= at /\ ~(r < at)
  BY StepsTyped, SMT DEF NativeInitial, Refs
<1>3. \A t \in All : pc[t] = "java"
  BY DEF NativeInitial
<1>4. ReleasedOnce
  BY <1>2, SMT DEF ReleasedOnce
<1>5. Loading
  BY <1>2 DEF NativeInitial, Loading
<1>6. Threads \subseteq All
  BY DEF All
<1> QED
  BY <1>1, <1>2, <1>3, <1>4, <1>5, <1>6
  DEF NativeInitial, NativeInv, CallbackLive, RteUsable, NothingLeft, Releasing, Deinitializing

-----------------------------------------------------------------------------
(* Actions that touch neither the references nor the phase.                *)
LEMMA InitializeInv == ASSUME NativeInv, NEW t \in Threads, Initialize(t) PROVE NativeInv'
<1>1. /\ load = "no" /\ load' = "loading" /\ tried' = TRUE /\ pc' = [pc EXCEPT ![t] = "load"]
      /\ UNCHANGED <<at, init_ok, logcb, ptr, leaked, exc, freed, dstep, overlapped>>
  BY DEF Initialize
<1>2. InitTypeOK' /\ t \in All /\ Threads \subseteq All
  BY <1>1 DEF NativeInv, InitTypeOK, All
<1>3. \A u \in All : pc'[u] # "deinit" /\ (pc'[u] = "call" => pc[u] = "call")
  BY <1>1, <1>2 DEF NativeInv, InitTypeOK, Deinitializing
<1> QED
  BY <1>1, <1>2, <1>3
  DEF NativeInv, ReleasedOnce, CallbackLive, RteUsable, NothingLeft, Loading, Releasing,
      Deinitializing, Needed, RankOf

(* A native method is entered.                                             *)
LEMMA CallInv == ASSUME NativeInv, NEW t \in Threads, Enter(t) PROVE NativeInv'
<1>1. /\ load = "ok" /\ pc' = [pc EXCEPT ![t] = "call"] /\ pc[t] = "java"
      /\ overlapped' = [overlapped EXCEPT ![t] = ~init_ok]
      /\ UNCHANGED <<tried, load, at, init_ok, logcb, ptr, leaked, exc, freed, dstep>>
  BY DEF Enter
<1>2. InitTypeOK' /\ t \in All /\ Threads \subseteq All
  BY <1>1 DEF NativeInv, InitTypeOK, All
<1>3. \A u \in All : pc'[u] = "deinit" <=> pc[u] = "deinit"
  BY <1>1, <1>2 DEF NativeInv, InitTypeOK
<1>4. \A u \in Threads : pc'[u] = "call" /\ ~overlapped'[u] => init_ok
  BY <1>1, <1>2 DEF NativeInv, InitTypeOK
<1> QED
  BY <1>1, <1>2, <1>3, <1>4
  DEF NativeInv, ReleasedOnce, CallbackLive, RteUsable, NothingLeft, Loading, Releasing,
      Deinitializing, Needed, RankOf

(* A native method returns.                                                *)
LEMMA LeaveInv == ASSUME NativeInv, NEW t \in Threads, Leave(t) PROVE NativeInv'
<1>1. /\ pc[t] = "call" /\ pc' = [pc EXCEPT ![t] = "java"]
      /\ UNCHANGED <<tried, load, at, init_ok, logcb, ptr, leaked, exc, freed, dstep, overlapped>>
  BY DEF Leave
<1>2. InitTypeOK' /\ t \in All /\ Threads \subseteq All
  BY <1>1 DEF NativeInv, InitTypeOK, All
<1>3. \A u \in All : /\ pc'[u] = "deinit" <=> pc[u] = "deinit"
                     /\ pc'[u] = "call" => pc[u] = "call"
  BY <1>1, <1>2 DEF NativeInv, InitTypeOK
<1> QED
  BY <1>1, <1>2, <1>3
  DEF NativeInv, ReleasedOnce, CallbackLive, RteUsable, NothingLeft, Loading, Releasing,
      Deinitializing, Needed, RankOf

(* One step of JNI_OnLoad.                                                 *)
LEMMA LoadStepInv == ASSUME NativeInv, LoadStep PROVE NativeInv'
<1>1. PICK p \in {"null", "live"} :
        /\ Steps[at].kind \in {"ref", "method"} => p = "live"
        /\ Steps[at].kind \notin Keeps => p = "null"
        /\ ptr' = [ptr EXCEPT ![at] = p]
  BY DEF LoadStep
<1>2. /\ load = "loading" /\ at' = at + 1
      /\ UNCHANGED <<tried, load, init_ok, leaked, exc, freed, pc, dstep, overlapped>>
  BY DEF LoadStep
<1>3. at \in Refs /\ at \in Nat /\ at' \in 1 .. Len(Steps) + 1
  BY <1>2, StepsTyped, SMT DEF NativeInv, InitTypeOK, Refs, LoadStep
<1>4. logcb' \in BOOLEAN /\ (logcb' <=> logcb \/ Steps[at].kind = "callback")
  BY DEF LoadStep, NativeInv, InitTypeOK
<1>5. ptr' \in [Refs -> {"null", "live", "stale"}]
  BY <1>1, <1>3 DEF NativeInv, InitTypeOK
<1>6. InitTypeOK'
  BY <1>2, <1>3, <1>4, <1>5 DEF NativeInv, InitTypeOK
<1>7. \A r \in Refs : ptr'[r] = IF r = at THEN p ELSE ptr[r]
  BY <1>1, <1>3 DEF NativeInv, InitTypeOK
<1>8. \A r \in Refs : /\ r >= at' => r # at /\ r >= at
                      /\ r < at' => r = at \/ r < at
                      /\ r <= at => r < at'
                      /\ r < at => r < at'
  BY <1>2, <1>3, StepsTyped, SMT DEF Refs
<1>9. Loading
  BY <1>2 DEF NativeInv
<1>10. \A r \in Refs : Steps[r].kind \notin Keeps => ptr'[r] = "null"
  BY <1>1, <1>7 DEF NativeInv
<1>11. \A r \in Refs : /\ r >= at' => ptr'[r] = "null"
                       /\ r < at' /\ Needed(r) => ptr'[r] = "live"
                       /\ ptr'[r] # "stale" /\ freed'[r] = 0
  BY <1>1, <1>2, <1>7, <1>8, <1>9 DEF Loading, Needed
<1>12. logcb' => \A r \in Refs : Steps[r].group = "log" => r < at'
  BY <1>3, <1>4, <1>8, <1>9, InitAssumption DEF Loading, Refs
<1>13. \A k \in Refs : k < at' /\ Steps[k].kind = "callback" => logcb'
  BY <1>4, <1>8, <1>9 DEF Loading
<1>14. Loading'
  BY <1>11, <1>12, <1>13 DEF Loading, Needed
<1>15. CallbackLive'
  BY <1>11, <1>12 DEF CallbackLive, Needed
<1> QED
  BY <1>2, <1>6, <1>10, <1>14, <1>15
  DEF NativeInv, ReleasedOnce, RteUsable, NothingLeft, Releasing, Deinitializing

(* What the disposal of some groups does to a reference.                   *)
LEMMA DisposedIs ==
  ASSUME InitTypeOK, NEW gs
  PROVE  /\ Disposed(gs) \in [Refs -> {"null", "live", "stale"}]
         /\ FreedBy(gs) \in [Refs -> Nat]
         /\ \A r \in Refs : IF InGroups(r, gs) /\ ptr[r] # "null"
                            THEN Disposed(gs)[r] = AfterDelete(r) /\ FreedBy(gs)[r] = freed[r] + 1
                            ELSE Disposed(gs)[r] = ptr[r] /\ FreedBy(gs)[r] = freed[r]
         /\ \A r \in Refs : AfterDelete(r) \in {"null", "stale"}
<1>1. \A r \in Refs : ptr[r] \in {"null", "live", "stale"} /\ freed[r] \in Nat /\ freed[r] + 1 \in Nat
  BY SMT DEF InitTypeOK
<1>2. \A r \in Refs : AfterDelete(r) \in {"null", "stale"}
  BY DEF AfterDelete
<1>3. Disposed(gs) \in [Refs -> {"null", "live", "stale"}]
  BY <1>1, <1>2 DEF Disposed
<1>4. FreedBy(gs) \in [Refs -> Nat]
  BY <1>1 DEF FreedBy
<1> QED
  BY <1>2, <1>3, <1>4 DEF Disposed, FreedBy

(* A failure deletes some of what is cached, for the first time, and never *)
(* what the callback uses.                                                 *)
LEMMA LoadFailsInv == ASSUME NativeInv, LoadFails PROVE NativeInv'
<1> DEFINE gs == ReleasedOnFailure
<1>1. /\ load = "loading" /\ load' = "failed"
      /\ ptr' = Disposed(gs) /\ freed' = FreedBy(gs)
      /\ pc' = [t \in All |-> IF pc[t] = "load" THEN "java" ELSE pc[t]]
      /\ exc' \in {"java", IF ptr'[Rte] = "live" THEN "rte" ELSE "undefined"}
      /\ leaked' \in {0, 1}
      /\ UNCHANGED <<tried, at, init_ok, logcb, dstep, overlapped>>
  BY DEF LoadFails
<1>2. InitTypeOK /\ Loading
  BY <1>1 DEF NativeInv
<1>3. at \in Refs
  BY <1>2, StepsTyped, SMT DEF LoadFails, InitTypeOK, Refs
<1>4. /\ gs = IF Steps[at].group \in CacheGroups THEN CacheGroups
              ELSE IF Steps[at].group = "none" THEN {} ELSE {Steps[at].group}
  BY DEF ReleasedOnFailure
<1> HIDE DEF gs
<1>5. /\ ptr' \in [Refs -> {"null", "live", "stale"}] /\ freed' \in [Refs -> Nat]
      /\ \A r \in Refs : IF InGroups(r, gs) /\ ptr[r] # "null"
                         THEN ptr'[r] = AfterDelete(r) /\ freed'[r] = freed[r] + 1
                         ELSE ptr'[r] = ptr[r] /\ freed'[r] = freed[r]
      /\ \A r \in Refs : AfterDelete(r) \in {"null", "stale"}
  BY <1>1, <1>2, DisposedIs
<1>6. ReleasedOnce'
  BY <1>2, <1>5, SMT DEF Loading, ReleasedOnce
<1>7. InitTypeOK'
  <2>1. exc' \in {"none", "java", "rte", "undefined"}
    BY <1>1
  <2>2. pc' \in [All -> {"java", "load", "call", "deinit"}]
    BY <1>1, <1>2 DEF InitTypeOK
  <2> QED
    BY <1>1, <1>2, <1>5, <2>1, <2>2 DEF InitTypeOK
<1>8. ptr'[Rte] = ptr[Rte]
  BY <1>5, StepsTyped DEF InGroups
<1>9. at # Rte => ptr[Rte] = "live"
  <2>1. at # Rte => Rte < at
    BY <1>3, StepsTyped, SMT DEF Rte, Refs
  <2>2. Needed(Rte)
    BY InitAssumption DEF Needed, Rte
  <2> QED
    BY <1>2, <2>1, <2>2, StepsTyped DEF Loading
<1>10. RteUsable'
  BY <1>1, <1>8, <1>9 DEF RteUsable
<1>11. CallbackLive'
  <2>1. logcb => Steps[at].group # "log"
    BY <1>2, <1>3, StepsTyped, SMT DEF Loading, Refs
  <2>2. logcb => "log" \notin gs
    BY <1>4, <2>1 DEF CacheGroups
  <2>3. CallbackLive
    BY DEF NativeInv
  <2> QED
    BY <1>1, <1>5, <2>2, <2>3 DEF CallbackLive, InGroups, Needed
<1>12. NothingLeft'
  <2> SUFFICES ASSUME ~logcb, NEW r \in Refs, Steps[r].group = "log" PROVE ptr'[r] # "live"
    BY <1>1 DEF NothingLeft
  <2>1. CASE Steps[at].group = "log"
    <3>1. r # Rte
      BY InitAssumption DEF Rte
    <3>2. InGroups(r, gs)
      BY <1>4, <2>1, <3>1 DEF InGroups, CacheGroups
    <3> QED
      BY <1>5, <3>2
  <2>2. CASE Steps[at].group # "log"
    <3>1. r \in 1 .. Len(Steps) /\ at \in 1 .. Len(Steps) /\ Len(Steps) \in Nat
      BY <1>3, StepsTyped DEF Refs
    <3>2. r < at => at \in r .. Len(Steps)
      BY <3>1, SMT
    <3>3. r < at => \E k \in r .. at : Steps[k].kind = "callback"
      BY <2>2, <3>1, <3>2, InitAssumption
    <3>4. ASSUME r < at PROVE FALSE
      <4>1. PICK k \in r .. at : Steps[k].kind = "callback"
        BY <3>3, <3>4
      <4>2. k \in 1 .. Len(Steps)
        BY <3>1, SMT
      <4>3. Steps[k].group = "log"
        BY <4>1, <4>2, InitAssumption
      <4>4. k # at
        BY <4>3, <2>2
      <4>5. k < at
        BY <3>1, <4>4, SMT
      <4> QED
        BY <1>2, <4>1, <4>2, <4>5 DEF Loading, Refs
    <3>5. r >= at
      BY <3>1, <3>4, SMT
    <3> QED
      BY <1>2, <1>5, <3>5 DEF Loading
  <2> QED
    BY <2>1, <2>2
<1>13. \A t \in All : pc'[t] # "deinit" /\ (pc'[t] = "call" => pc[t] = "call")
  BY <1>1 DEF NativeInv, InitTypeOK, Deinitializing
<1>14. \A r \in Refs : Steps[r].kind \notin Keeps => ptr'[r] = "null"
  BY <1>5 DEF NativeInv
<1>15. Threads \subseteq All
  BY DEF All
<1> QED
  BY <1>1, <1>6, <1>7, <1>10, <1>11, <1>12, <1>13, <1>14, <1>15 DEF NativeInv, Releasing, Deinitializing

(* JNI_OnLoad succeeds: every reference that is needed is there.           *)
LEMMA LoadEndsInv == ASSUME NativeInv, LoadEnds PROVE NativeInv'
<1>1. /\ load = "loading" /\ load' = "ok" /\ init_ok' = TRUE /\ at > Len(Steps)
      /\ pc' = [t \in All |-> IF pc[t] = "load" THEN "java" ELSE pc[t]]
      /\ UNCHANGED <<tried, at, logcb, ptr, leaked, exc, freed, dstep, overlapped>>
  BY DEF LoadEnds
<1>2. InitTypeOK /\ Loading
  BY <1>1 DEF NativeInv
<1>3. InitTypeOK'
  BY <1>1, <1>2 DEF InitTypeOK
<1>4. \A r \in Refs : r < at
  BY <1>1, <1>2, StepsTyped, SMT DEF InitTypeOK, Refs
<1>5. \A r \in Refs : freed[r] = 0 /\ ptr[r] # "stale" /\ (Needed(r) => ptr[r] = "live")
  BY <1>2, <1>4 DEF Loading
<1>6. Needed(Rte) /\ Rte \in Refs
  BY InitAssumption, StepsTyped DEF Needed, Rte
<1>7. \A t \in All : pc'[t] # "deinit"
  BY <1>1 DEF NativeInv, InitTypeOK, Deinitializing
<1> QED
  BY <1>1, <1>3, <1>5, <1>6, <1>7
  DEF NativeInv, ReleasedOnce, CallbackLive, RteUsable, NothingLeft, Releasing, Deinitializing, Needed

-----------------------------------------------------------------------------
(* The compare-and-swap: every reference is still there, its group not     *)
(* reached yet; and no other thread is at it.                              *)
LEMMA BeginInv ==
  ASSUME NativeInv, NEW t \in All, load = "ok", BeginDeinitialize(t),
         load' = IF t = VM THEN "unloading" ELSE "ok",
         UNCHANGED <<tried, at, logcb, ptr, leaked, exc, freed>>
  PROVE  NativeInv'
<1>1. /\ init_ok /\ init_ok' = FALSE
      /\ pc' = [pc EXCEPT ![t] = "deinit"] /\ dstep' = [dstep EXCEPT ![t] = 1]
      /\ overlapped' = [u \in All |-> overlapped[u] \/ pc[u] = "call"]
  BY DEF BeginDeinitialize
<1>2. InitTypeOK /\ load' \in {"ok", "unloading"}
  BY DEF NativeInv
<1>3. InitTypeOK'
  <2>1. 1 \in Nat \ {0}
    BY SMT
  <2>2. /\ pc' \in [All -> {"java", "load", "call", "deinit"}]
        /\ dstep' \in [All -> Nat \ {0}] /\ overlapped' \in [All -> BOOLEAN]
    BY <1>1, <1>2, <2>1 DEF InitTypeOK
  <2> QED
    BY <1>1, <1>2, <2>2 DEF InitTypeOK
<1>4. \A u \in All : pc[u] # "deinit"
  BY <1>1 DEF NativeInv, Deinitializing
<1>5. \A u \in All : pc'[u] = "deinit" <=> u = t
  BY <1>1, <1>2, <1>4 DEF InitTypeOK
<1>6. dstep'[t] = 1
  BY <1>1, <1>2 DEF InitTypeOK
<1>7. \A r \in Refs : freed[r] = 0 /\ ptr[r] # "stale" /\ (Needed(r) => ptr[r] = "live")
  BY <1>1 DEF NativeInv
<1>8. \A r \in Refs : IF RankOf(r) >= 1 THEN TRUE ELSE ptr[r] # "live"
  <2>1. \A r \in Refs : RankOf(r) >= 1 \/ RankOf(r) = 0
    BY StepsTyped, SMT
  <2> QED
    BY <2>1, StepsTyped DEF NativeInv
<1>9. 1 <= 9 /\ ~(1 > 7)
  BY SMT
<1>10. Releasing'
  BY <1>5, <1>6, <1>7, <1>8, <1>9 DEF Releasing, Needed, RankOf
<1>11. \A u \in Threads : pc'[u] = "call" => overlapped'[u]
  <2>1. Threads \subseteq All
    BY DEF All
  <2>2. \A u \in Threads : pc'[u] = "call" => pc[u] = "call"
    BY <1>1, <1>2, <2>1 DEF InitTypeOK
  <2> QED
    BY <1>1, <2>1, <2>2
<1>12. Deinitializing'
  BY <1>5 DEF Deinitializing
<1>13. ReleasedOnce' /\ CallbackLive' /\ RteUsable'
  BY <1>2 DEF NativeInv, ReleasedOnce, CallbackLive, RteUsable, Needed
<1>14. NothingLeft'
  BY <1>2, <1>5 DEF NothingLeft
<1> QED
  BY <1>1, <1>2, <1>3, <1>5, <1>10, <1>11, <1>12, <1>13, <1>14 DEF NativeInv

(* deinitialize() and JNI_OnUnload, which may find nothing to release.     *)
LEMMA DeinitializeInv == ASSUME NativeInv, NEW t \in Threads, Deinitialize(t) PROVE NativeInv'
<1>1. t \in All /\ t # VM
  BY InitAssumption DEF All
<1> QED
  BY <1>1, BeginInv DEF Deinitialize

(* JNI_OnUnload, with or without something to release.                     *)
LEMMA OnUnloadInv == ASSUME NativeInv, OnUnload PROVE NativeInv'
<1>1. CASE BeginDeinitialize(VM) /\ load' = "unloading"
  <2>1. VM \in All
    BY DEF All
  <2> QED
    BY <1>1, <2>1, BeginInv DEF OnUnload
<1>2. CASE ~init_ok /\ load' = "unloaded" /\ UNCHANGED <<init_ok, pc, dstep, overlapped>>
  <2>1. /\ load = "ok" /\ \A t \in All : pc[t] = "java"
        /\ UNCHANGED <<tried, at, logcb, ptr, leaked, exc, freed>>
    BY DEF OnUnload
  <2>2. InitTypeOK' /\ ReleasedOnce' /\ CallbackLive' /\ RteUsable' /\ NothingLeft'
    BY <1>2, <2>1
    DEF NativeInv, InitTypeOK, ReleasedOnce, CallbackLive, RteUsable, NothingLeft, Needed
  <2> QED
    BY <1>2, <2>1, <2>2 DEF NativeInv, Releasing, Deinitializing
<1> QED
  BY <1>1, <1>2 DEF OnUnload

(* A group is released: its references for the first time, the others not. *)
LEMMA DisposeInv == ASSUME NativeInv, NEW t \in All, Dispose(t) PROVE NativeInv'
<1> DEFINE k == dstep[t]
           gs == Disposal[k]
<1>1. /\ pc[t] = "deinit" /\ k <= Len(Disposal) /\ dstep' = [dstep EXCEPT ![t] = k + 1]
      /\ ptr' = Disposed(gs) /\ freed' = FreedBy(gs) /\ logcb' = (logcb /\ gs # {})
      /\ UNCHANGED <<tried, load, at, init_ok, leaked, exc, pc, overlapped>>
  BY DEF Dispose
<1>2. InitTypeOK /\ Releasing /\ Deinitializing
  BY <1>1 DEF NativeInv, Deinitializing
<1>3. k \in 1 .. 8 /\ k \in Nat
  BY <1>1, <1>2, DisposalRanks, SMT DEF InitTypeOK
<1>4. \A r \in Refs : InGroups(r, gs) <=> r # Rte /\ RankOf(r) = k
  BY <1>3, DisposalRanks
<1>5. gs = {} <=> k = 7
  BY <1>3, DisposalRanks
<1>6. dstep'[t] = k + 1
  BY <1>1, <1>2 DEF InitTypeOK
<1> HIDE DEF gs, k
<1>7. /\ ptr' \in [Refs -> {"null", "live", "stale"}] /\ freed' \in [Refs -> Nat]
      /\ \A r \in Refs : IF InGroups(r, gs) /\ ptr[r] # "null"
                         THEN ptr'[r] = AfterDelete(r) /\ freed'[r] = freed[r] + 1
                         ELSE ptr'[r] = ptr[r] /\ freed'[r] = freed[r]
      /\ \A r \in Refs : AfterDelete(r) \in {"null", "stale"}
  BY <1>1, <1>2, DisposedIs
<1>8. InitTypeOK'
  <2>1. k + 1 \in Nat \ {0}
    BY <1>3, SMT
  <2>2. dstep' \in [All -> Nat \ {0}]
    BY <1>1, <1>2, <2>1 DEF InitTypeOK
  <2>3. logcb' \in BOOLEAN
    BY <1>1
  <2> QED
    BY <1>1, <1>2, <1>7, <2>2, <2>3 DEF InitTypeOK
<1>9. /\ load = IF t = VM THEN "unloading" ELSE "ok"
      /\ k > 7 => ~logcb
      /\ \A r \in Refs \ {Rte} :
           IF RankOf(r) >= k
           THEN freed[r] = 0 /\ ptr[r] # "stale" /\ (Needed(r) => ptr[r] = "live")
           ELSE ptr[r] # "live"
  BY <1>1, <1>2 DEF Releasing, k
<1>10. load \in {"ok", "unloading"} /\ ~init_ok
  BY <1>2, <1>9 DEF NativeInv
<1>11. \A r \in Refs : /\ RankOf(r) = k => RankOf(r) >= k
                       /\ RankOf(r) >= k + 1 <=> RankOf(r) >= k /\ RankOf(r) # k
  BY <1>3, StepsTyped, SMT
<1>12. ReleasedOnce'
  <2>1. \A r \in Refs : freed'[r] = freed[r] \/ (freed[r] = 0 /\ freed'[r] = freed[r] + 1)
    BY <1>4, <1>7, <1>9, <1>11
  <2>2. \A r \in Refs : freed'[r] <= 1
    <3> SUFFICES ASSUME NEW r \in Refs PROVE freed'[r] <= 1
      OBVIOUS
    <3>1. freed[r] <= 1
      BY DEF NativeInv, ReleasedOnce
    <3>2. CASE freed'[r] = freed[r]
      BY <3>1, <3>2
    <3>3. CASE freed[r] = 0 /\ freed'[r] = freed[r] + 1
      BY <3>3, SMT
    <3> QED
      BY <2>1, <3>2, <3>3
  <2> QED
    BY <2>2 DEF ReleasedOnce
<1>13. ptr'[Rte] = ptr[Rte] /\ freed'[Rte] = freed[Rte]
  BY <1>4, <1>7, StepsTyped
<1>14. RteUsable'
  BY <1>1, <1>13 DEF NativeInv, RteUsable
<1>15. CallbackLive'
  <2>1. logcb' => logcb /\ k # 7
    BY <1>1, <1>5
  <2>2. logcb' => k # 8
    BY <1>9, <2>1, SMT
  <2>3. \A r \in Refs : Steps[r].group = "log" => RankOf(r) = 8
    BY DEF RankOf, Rank
  <2>4. CallbackLive
    BY DEF NativeInv
  <2> QED
    BY <1>4, <1>7, <2>1, <2>2, <2>3, <2>4 DEF CallbackLive, Needed
<1>16. NothingLeft'
  BY <1>1, <1>10 DEF NothingLeft
<1>17. Releasing'
  <2> SUFFICES ASSUME NEW u \in All, pc'[u] = "deinit"
               PROVE  /\ load' = IF u = VM THEN "unloading" ELSE "ok"
                      /\ dstep'[u] <= 9 /\ (dstep'[u] > 7 => ~logcb')
                      /\ \A r \in Refs \ {Rte} :
                           IF RankOf(r) >= dstep'[u]
                           THEN freed'[r] = 0 /\ ptr'[r] # "stale" /\ (Needed(r) => ptr'[r] = "live")
                           ELSE ptr'[r] # "live"
    BY DEF Releasing, Needed, RankOf
  <2>1. u = t
    BY <1>1 DEF NativeInv
  <2>2. k + 1 <= 9 /\ (k + 1 > 7 => k = 7 \/ k > 7)
    BY <1>3, SMT
  <2>3. k + 1 > 7 => ~logcb'
    BY <1>1, <1>5, <1>9, <2>2
  <2>4. ASSUME NEW r \in Refs \ {Rte}
        PROVE  IF RankOf(r) >= k + 1
               THEN freed'[r] = 0 /\ ptr'[r] # "stale" /\ (Needed(r) => ptr'[r] = "live")
               ELSE ptr'[r] # "live"
    <3>1. CASE RankOf(r) = k
      BY <1>4, <1>7, <1>11, <3>1
    <3>2. CASE RankOf(r) # k
      BY <1>4, <1>7, <1>9, <1>11, <3>2
    <3> QED
      BY <3>1, <3>2
  <2> QED
    BY <1>1, <1>6, <1>9, <2>1, <2>2, <2>3, <2>4
<1>18. \A r \in Refs : Steps[r].kind \notin Keeps => ptr'[r] = "null"
  BY <1>7 DEF NativeInv
<1>19. Deinitializing'
  BY <1>1, <1>2 DEF Deinitializing
<1> QED
  BY <1>1, <1>8, <1>10, <1>12, <1>13, <1>14, <1>15, <1>16, <1>17, <1>18, <1>19 DEF NativeInv

(* When every group was released, nothing but jcls_rte is left.            *)
LEMMA EndDeinitializeInv == ASSUME NativeInv, NEW t \in All, EndDeinitialize(t) PROVE NativeInv'
<1>1. /\ pc[t] = "deinit" /\ dstep[t] > Len(Disposal) /\ pc' = [pc EXCEPT ![t] = "java"]
      /\ load' = IF t = VM THEN "unloaded" ELSE load
      /\ UNCHANGED <<tried, at, init_ok, logcb, ptr, leaked, exc, freed, dstep, overlapped>>
  BY DEF EndDeinitialize
<1>2. InitTypeOK /\ Releasing /\ Deinitializing
  BY <1>1 DEF NativeInv, Deinitializing
<1>3. dstep[t] \in Nat /\ dstep[t] > 8 /\ dstep[t] > 7
  BY <1>1, <1>2, DisposalRanks, SMT DEF InitTypeOK
<1>4. load = (IF t = VM THEN "unloading" ELSE "ok") /\ ~logcb /\ ~init_ok
  BY <1>1, <1>2, <1>3 DEF NativeInv, Releasing
<1>5. \A r \in Refs \ {Rte} : ptr[r] # "live"
  <2>1. \A r \in Refs : ~(RankOf(r) >= dstep[t])
    BY <1>3, StepsTyped, SMT
  <2> QED
    BY <1>1, <1>2, <2>1 DEF Releasing
<1>6. InitTypeOK'
  BY <1>1, <1>2 DEF InitTypeOK
<1>7. \A u \in All : pc'[u] # "deinit" /\ (pc'[u] = "call" => pc[u] = "call")
  BY <1>1, <1>2 DEF NativeInv, InitTypeOK
<1>8. load' \in {"ok", "unloaded"} /\ (load' = "ok" => load = "ok")
  BY <1>1, <1>4
<1>9. NothingLeft'
  BY <1>1, <1>5, <1>8 DEF NothingLeft
<1>10. ReleasedOnce' /\ CallbackLive' /\ RteUsable'
  BY <1>1, <1>8 DEF NativeInv, ReleasedOnce, CallbackLive, RteUsable, Needed
<1>11. load \in {"ok", "unloading"}
  BY <1>4
<1>12. ptr'[Rte] = "live" /\ freed'[Rte] = 0
  BY <1>1, <1>11 DEF NativeInv
<1>13. Threads \subseteq All
  BY DEF All
<1> QED
  BY <1>1, <1>4, <1>6, <1>7, <1>8, <1>9, <1>10, <1>12, <1>13 DEF NativeInv, Releasing, Deinitializing

-----------------------------------------------------------------------------
(* NativeInv is inductive.                                                 *)
LEMMA NativeInvInductive == NativeInv /\ [NativeNext]_initVars => NativeInv'
<1> SUFFICES ASSUME NativeInv, [NativeNext]_initVars PROVE NativeInv'
  OBVIOUS
<1>1. CASE LoadStep \/ LoadFails \/ LoadEnds \/ OnUnload
  BY <1>1, LoadStepInv, LoadFailsInv, LoadEndsInv, OnUnloadInv
<1>2. ASSUME NEW t \in Threads,
             Initialize(t) \/ CheckedCall(t) \/ UncheckedCall(t) \/ Leave(t) \/ Deinitialize(t)
      PROVE  NativeInv'
  BY <1>2, InitializeInv, CallInv, LeaveInv, DeinitializeInv DEF CheckedCall, UncheckedCall
<1>3. ASSUME NEW t \in All, Running(t) PROVE NativeInv'
  BY <1>3, DisposeInv, EndDeinitializeInv DEF Running
<1>4. CASE UNCHANGED initVars
  BY <1>4
  DEF initVars, NativeInv, InitTypeOK, ReleasedOnce, CallbackLive, RteUsable, NothingLeft, Loading,
      Releasing, Deinitializing, Needed, RankOf
<1> QED
  BY <1>1, <1>2, <1>3, <1>4 DEF NativeNext

(* The invariant holds for every behaviour.                                *)
LEMMA NativeInvAlways == NativeSpec => []NativeInv
<1> QED
  BY InitialInv, NativeInvInductive, PTL DEF NativeSpec

(* JNI_OnLoad, deinitialize() and JNI_OnUnload keep the types.             *)
THEOREM NativeTyped == NativeSpec => []InitTypeOK
<1>1. NativeInv => InitTypeOK
  BY DEF NativeInv
<1> QED
  BY <1>1, NativeInvAlways, PTL

(* No global reference is deleted twice, however the failing steps of      *)
(* JNI_OnLoad, deinitialize() in several threads and JNI_OnUnload follow   *)
(* or overlap each other.                                                  *)
THEOREM NeverReleasedTwice == NativeSpec => []ReleasedOnce
<1>1. NativeInv => ReleasedOnce
  BY DEF NativeInv
<1> QED
  BY <1>1, NativeInvAlways, PTL

(* A call that deinitialize() does not overlap finds every reference.      *)
THEOREM CallsFindReferences == NativeSpec => []CallsSafe
<1>1. NativeInv => CallsSafe
  BY DEF NativeInv, CallsSafe
<1> QED
  BY <1>1, NativeInvAlways, PTL

(* The log callback is installed only while the references it uses exist.  *)
THEOREM CallbackAlwaysLive == NativeSpec => []CallbackLive
<1>1. NativeInv => CallbackLive
  BY DEF NativeInv
<1> QED
  BY <1>1, NativeInvAlways, PTL

(* jcls_rte, which _check_init throws with, is there whenever the library  *)
(* is loaded.                                                              *)
THEOREM RteAlwaysUsable == NativeSpec => []RteUsable
<1>1. NativeInv => RteUsable
  BY DEF NativeInv
<1> QED
  BY <1>1, NativeInvAlways, PTL

(* After deinitialize() or JNI_OnUnload only jcls_rte is left.             *)
THEOREM DeinitializeLeavesNothing == NativeSpec => []NothingLeft
<1>1. NativeInv => NothingLeft
  BY DEF NativeInv
<1> QED
  BY <1>1, NativeInvAlways, PTL

=============================================================================
