-------------------------- MODULE PageAllocProofs ---------------------------
(***************************************************************************)
(* Proofs about PageAlloc, for every memory map, size of memory, page size *)
(* and set of requests.  The inductive invariant IInv couples the bitmap   *)
(* with the pool of the walks and the callers' live blocks (Accounting);   *)
(* each group of actions has a lemma, and the refinement of FrameAlloc is  *)
(* read off the invariant, group by group.                                 *)
(***************************************************************************)
EXTENDS PageAlloc, TLAPS

\* Division as the SMT solver needs it spelled out.
LEMMA DivMod ==
    ASSUME NEW n \in Nat, NEW d \in Nat \ {0}
    PROVE  /\ n \div d \in Nat
           /\ n % d \in 0 .. d - 1
           /\ n = d * (n \div d) + (n % d)
  BY SMT

\* Products of naturals are monotone.
LEMMA MulMono ==
    ASSUME NEW a \in Nat, NEW b \in Nat, NEW k \in Nat, a <= b
    PROVE  /\ a * k <= b * k
           /\ k * a <= k * b
  BY SMT

\* Products of naturals are naturals.
LEMMA MulNat ==
    ASSUME NEW a \in Nat, NEW b \in Nat
    PROVE  a * b \in Nat
  BY SMT

\* A multiple of a leaves no remainder.
LEMMA MultipleMod ==
    ASSUME NEW k \in Nat, NEW a \in Nat \ {0}
    PROVE  (k * a) % a = 0
  BY SMT

\* Rounding a whole number of pages up gives that number.
LEMMA DivOfMultiple ==
    ASSUME NEW k \in Nat, NEW d \in Nat \ {0}
    PROVE  (k * d + d - 1) \div d = k
  BY SMT

\* align_up of find_run: not below its argument, and aligned.
LEMMA AlignUpFacts ==
    ASSUME NEW x \in Nat, NEW a \in Nat \ {0}
    PROVE  /\ AlignUp(x, a) \in Nat
           /\ AlignUp(x, a) >= x
           /\ AlignUp(x, a) % a = 0
  BY SMT DEF AlignUp

\* align_up of find_run: no aligned value lies between, so none is skipped.
LEMMA AlignUpLeast ==
    ASSUME NEW x \in Nat, NEW a \in Nat \ {0}, NEW m \in Nat, m >= x, m % a = 0
    PROVE  AlignUp(x, a) <= m
PROOF
  <1> DEFINE q == (x + a - 1) \div a
             k == m \div a
  <1>1. q \in Nat /\ q * a <= x + a - 1
    BY DivMod, SMT
  <1>2. k \in Nat /\ m = k * a
    BY DivMod, SMT
  <1>3. q * a < (k + 1) * a
    <2> HIDE DEF q, k
    <2>1. (k + 1) * a = m + a
      BY <1>2, SMT
    <2> QED BY <1>1, <2>1, SMT
  <1>4. q <= k
    <2> SUFFICES ASSUME k + 1 <= q PROVE FALSE
      BY <1>1, <1>2, SMT
    <2>1. (k + 1) * a <= q * a
      BY <1>1, <1>2, MulMono, SMT
    <2> QED BY <1>1, <1>2, <1>3, <2>1, SMT
  <1>5. q * a <= k * a
    BY <1>1, <1>2, <1>4, MulMono, SMT
  <1> QED BY <1>2, <1>5 DEF AlignUp
-----------------------------------------------------------------------------
\* The page count of a size is a natural, wrapped or not.
LEMMA NeedFramesNat ==
    ASSUME NEW n \in Nat
    PROVE  need_frames(n) \in Nat
PROOF
  <1>1. n + PageSize - 1 \in Nat /\ PageSize \in Nat \ {0} /\ WordSize \in Nat \ {0}
    BY FramesAssumption, MulNat, SMT
  <1>2. (n + PageSize - 1) % WordSize \in Nat
    BY <1>1, DivMod, SMT
  <1> QED BY <1>1, <1>2, DivMod DEF need_frames

\* page_free_bytes recomputes the page count page_alloc_pages was given.
LEMMA NeedFramesOfPages ==
    ASSUME NEW k \in Nat, k * PageSize + PageSize <= WordSize
    PROVE  need_frames(k * PageSize) = k
PROOF
  <1> DEFINE n == k * PageSize + PageSize - 1
  <1>1. n \in Nat /\ n < WordSize /\ WordSize \in Nat
    BY FramesAssumption, MulNat, SMT
  <1>2. n % WordSize = n
    <2> HIDE DEF n
    <2> QED BY <1>1, SMT
  <1>3. n \div PageSize = k
    BY FramesAssumption, DivOfMultiple
  <1> QED BY <1>2, <1>3 DEF need_frames

\* find_run never aligns to zero frames.
LEMMA AlignFramesPos ==
    ASSUME NEW a \in Nat
    PROVE  align_frames(a) \in Nat \ {0}
  BY NeedFramesNat DEF align_frames

\* What the calls pass to find_run; a wrapped page count comes unaligned.
LEMMA RequestsType ==
    /\ Requests \subseteq [bytes : Nat, needed : Nat, align : Nat \ {0}]
    /\ \A r \in Requests : r.needed = need_frames(r.bytes)
    /\ \A r \in Requests : r.needed = 0 => r.align = 1
PROOF
  <1>1. ASSUME NEW n \in ByteSizes
        PROVE  n \in Nat /\ need_frames(n) \in Nat
    BY SizesAssumption, NeedFramesNat
  <1>2. ASSUME NEW k \in PageCounts
        PROVE  k \in Nat /\ k * PageSize \in Nat /\ need_frames(k * PageSize) = k
    BY SizesAssumption, FramesAssumption, NeedFramesOfPages, MulNat
  <1>3. ASSUME NEW a \in Aligns
        PROVE  align_frames(a) \in Nat \ {0}
    BY SizesAssumption, AlignFramesPos
  <1> QED BY <1>1, <1>2, <1>3 DEF Requests

\* The frames of a descriptor are inside the bitmap and below desc_end.
LEMMA DescFacts ==
    ASSUME NEW d \in Descriptor
    PROVE  /\ desc_frames(d) \subseteq Frame
           /\ desc_frames(d) # {} => desc_end(d) \in 1 .. FrameCount
           /\ desc_frames(d) \subseteq 0 .. desc_end(d) - 1
  BY FramesAssumption DEF desc_frames, desc_end, Frame, Descriptor

\* A memory map is a sequence of descriptors with disjoint frames.
LEMMA MapFacts ==
    ASSUME NEW m \in Maps
    PROVE  /\ Len(m) \in Nat
           /\ \A i \in 1 .. Len(m) : m[i] \in Descriptor
           /\ \A i, j \in 1 .. Len(m) : i # j => desc_frames(m[i]) \cap desc_frames(m[j]) = {}
PROOF
  <1>1. m \in Seq(Descriptor)
    BY MapsAssumption
  <1>2. DOMAIN m = 1 .. Len(m) /\ Len(m) \in Nat
    BY <1>1
  <1>3. \A i \in 1 .. Len(m) : m[i] \in Descriptor
    BY <1>1, <1>2
  <1> QED BY <1>2, <1>3, MapsAssumption

-----------------------------------------------------------------------------
\* The state before page_allocator_init is well typed.
LEMMA TypeInit == Init => TypeOK
PROOF
  <1> SUFFICES ASSUME Init PROVE TypeOK
    OBVIOUS
  <1>1. off \in 1 .. Len(map) + 1
    BY MapFacts DEF Init
  <1>2. req \in [bytes : Nat, needed : Nat, align : Nat \ {0}]
    BY DEF Init, NoReq
  <1>3. frame_end \in 1 .. FrameCount /\ start \in Nat /\ ret \in Nat
    BY FramesAssumption DEF Init
  <1>4. used \subseteq Frame /\ live \subseteq Block
    BY DEF Init
  <1>5. released \in BOOLEAN /\ pc \in {"init", "ready", "find_run", "release"} /\ map \in Maps
    BY DEF Init
  <1> QED BY <1>1, <1>2, <1>3, <1>4, <1>5 DEF TypeOK

\* Every step keeps the types.
LEMMA TypeStep == TypeOK /\ [Next]_vars => TypeOK'
PROOF
  <1> SUFFICES ASSUME TypeOK, [Next]_vars PROVE TypeOK'
    OBVIOUS
  <1> USE DEF TypeOK
  <1>m. Len(map) \in Nat /\ \A i \in 1 .. Len(map) : map[i] \in Descriptor
    BY MapFacts
  <1>1. CASE init_descriptor
    <2>1. map[off] \in Descriptor /\ off + 1 \in 1 .. Len(map) + 1
      BY <1>1, <1>m DEF init_descriptor
    <2>2. frame_end' \in 1 .. FrameCount /\ used' \subseteq Frame
      BY <1>1, <2>1, DescFacts, FramesAssumption DEF init_descriptor, Extend
    <2> QED BY <1>1, <2>1, <2>2 DEF init_descriptor
  <1>2. CASE init_done
    BY <1>2, FramesAssumption DEF init_done, frame_begin
  <1>3. CASE release_call
    BY <1>3, <1>m DEF release_call
  <1>4. CASE release_descriptor
    <2>1. map[off] \in Descriptor /\ off + 1 \in 1 .. Len(map) + 1
      BY <1>4, <1>m DEF release_descriptor
    <2>2. frame_end' \in 1 .. FrameCount /\ used' \subseteq Frame
      BY <1>4, <2>1, DescFacts, FramesAssumption DEF release_descriptor, Extend
    <2> QED BY <1>4, <2>1, <2>2 DEF release_descriptor
  <1>5. CASE release_done
    BY <1>5 DEF release_done
  <1>6. CASE \E r \in Requests : alloc_call(r)
    <2>1. PICK r \in Requests : alloc_call(r)
      BY <1>6
    <2>2. r \in [bytes : Nat, needed : Nat, align : Nat \ {0}]
      BY RequestsType
    <2>3. AlignUp(frame_begin, r.align) \in Nat
      BY <2>2, AlignUpFacts DEF frame_begin
    <2> QED BY <2>1, <2>2, <2>3 DEF alloc_call
  <1>7. CASE find_run_hit
    <2>1. Run(start, req.needed) \subseteq Frame
      BY <1>7, FramesAssumption DEF find_run_hit, Run, Frame
    <2>2. [start |-> start, frames |-> req.needed, bytes |-> req.bytes, align |-> req.align] \in Block
      BY DEF Block
    <2> QED BY <1>7, <2>1, <2>2 DEF find_run_hit, Return, NoReq
  <1>8. CASE find_run_next
    <2>1. PICK u \in Run(start, req.needed) : start' = AlignUp(u + 1, req.align)
      BY <1>8 DEF find_run_next
    <2>2. start' \in Nat
      <3>1. u + 1 \in Nat /\ req.align \in Nat \ {0}
        BY DEF Run
      <3> QED BY <2>1, <3>1, AlignUpFacts
    <2> QED BY <1>8, <2>2 DEF find_run_next
  <1>9. CASE find_run_fail
    BY <1>9 DEF find_run_fail, Return, NoReq
  <1>10. CASE \E b \in live : page_free_bytes(b)
    BY <1>10 DEF page_free_bytes
  <1>11. CASE UNCHANGED vars
    BY <1>11 DEF vars
  <1> QED BY <1>1, <1>2, <1>3, <1>4, <1>5, <1>6, <1>7, <1>8, <1>9, <1>10, <1>11 DEF Next, Loops

(* The bitmap, frame_end and find_run's candidate stay in range through both
   walks of page_alloc.c and every call, for every memory map. *)
THEOREM TypeCorrect == Spec => []TypeOK
  BY TypeInit, TypeStep, PTL DEF Spec
-----------------------------------------------------------------------------
\* Raising frame_end keeps what lay below it.
LEMMA BelowMono ==
    ASSUME NEW S, NEW a \in Nat, NEW b \in Nat, a <= b, S \subseteq 0 .. a - 1
    PROVE  S \subseteq 0 .. b - 1
  OBVIOUS

\* The usable frames grow by exactly the next usable descriptor.
LEMMA UsableSplit ==
    ASSUME NEW m \in Maps, NEW n \in 1 .. Len(m)
    PROVE  /\ UsableUpTo(m, n) =
                UsableUpTo(m, n - 1) \cup (IF is_usable_type(m[n].type) THEN desc_frames(m[n]) ELSE {})
           /\ desc_frames(m[n]) \cap UsableUpTo(m, n - 1) = {}
PROOF
  <1>1. Len(m) \in Nat /\ m[n] \in Descriptor
    BY MapFacts
  <1>2. desc_frames(m[n]) \subseteq Frame
    BY <1>1, DescFacts
  <1>3. desc_frames(m[n]) \cap UsableUpTo(m, n - 1) = {}
    <2> SUFFICES ASSUME NEW i \in 1 .. n - 1
                 PROVE  desc_frames(m[n]) \cap desc_frames(m[i]) = {}
      BY DEF UsableUpTo
    <2>1. i \in 1 .. Len(m) /\ i # n
      BY <1>1
    <2> QED BY <2>1, MapFacts
  <1>4. \A i : i \in 1 .. n <=> i \in 1 .. n - 1 \/ i = n
    BY <1>1
  <1> HIDE DEF is_usable_type
  <1> QED BY <1>2, <1>3, <1>4 DEF UsableUpTo

\* So do the frames of boot services data.
LEMMA BootDataSplit ==
    ASSUME NEW m \in Maps, NEW n \in 1 .. Len(m)
    PROVE  BootDataUpTo(m, n) =
              BootDataUpTo(m, n - 1) \cup (IF m[n].type = "BootServicesData" THEN desc_frames(m[n]) ELSE {})
PROOF
  <1>1. Len(m) \in Nat /\ m[n] \in Descriptor
    BY MapFacts
  <1>2. desc_frames(m[n]) \subseteq Frame
    BY <1>1, DescFacts
  <1>3. \A i : i \in 1 .. n <=> i \in 1 .. n - 1 \/ i = n
    BY <1>1
  <1> QED BY <1>2, <1>3 DEF BootDataUpTo

\* A boot data descriptor shares no frame with usable memory or earlier boot data.
LEMMA BootDataApart ==
    ASSUME NEW m \in Maps, NEW n \in 1 .. Len(m), m[n].type = "BootServicesData"
    PROVE  /\ desc_frames(m[n]) \cap Usable(m) = {}
           /\ desc_frames(m[n]) \cap BootDataUpTo(m, n - 1) = {}
PROOF
  <1>1. Len(m) \in Nat
    BY MapFacts
  <1>2. ASSUME NEW i \in 1 .. Len(m), i # n
        PROVE  desc_frames(m[n]) \cap desc_frames(m[i]) = {}
    BY <1>2, MapFacts
  <1>3. desc_frames(m[n]) \cap Usable(m) = {}
    BY <1>2 DEF Usable, UsableUpTo, is_usable_type
  <1>4. \A i \in 1 .. n - 1 : i \in 1 .. Len(m) /\ i # n
    BY <1>1
  <1>5. desc_frames(m[n]) \cap BootDataUpTo(m, n - 1) = {}
    BY <1>2, <1>4 DEF BootDataUpTo
  <1> QED BY <1>3, <1>5

\* Before the first descriptor there is nothing in the pool.
LEMMA EmptyPrefix ==
    ASSUME NEW m PROVE UsableUpTo(m, 0) = {} /\ BootDataUpTo(m, 0) = {}
  BY DEF UsableUpTo, BootDataUpTo

\* The invariant holds before page_allocator_init.
LEMMA InvInit == Init => IInv
PROOF
  <1> SUFFICES ASSUME Init PROVE IInv
    OBVIOUS
  <1>1. TypeOK
    BY TypeInit
  <1>2. Pool = {}
    BY EmptyPrefix DEF Pool, Init
  <1>3. LiveFrames = {}
    BY DEF LiveFrames, Init
  <1>4. Accounting
    BY <1>2, <1>3 DEF Accounting, Init
  <1>5. Bookkeeping /\ LiveDisjoint /\ LiveInPool /\ NothingSkipped
    BY <1>2 DEF Bookkeeping, LiveDisjoint, LiveInPool, NothingSkipped, Init
  <1> QED BY <1>1, <1>4, <1>5 DEF IInv

\* page_allocator_init keeps the invariant, descriptor by descriptor.
LEMMA InitWalkStep == IInv /\ (init_descriptor \/ init_done) => IInv'
PROOF
  <1> SUFFICES ASSUME IInv, init_descriptor \/ init_done PROVE IInv'
    OBVIOUS
  <1> USE DEF IInv
  <1>t. TypeOK /\ TypeOK'
    BY TypeStep DEF Next, Loops
  <1>m. Len(map) \in Nat /\ \A i \in 1 .. Len(map) : map[i] \in Descriptor
    BY <1>t, MapFacts DEF TypeOK
  <1>i. pc = "init" /\ live = {} /\ ~released /\ live' = {} /\ ~released' /\ map' = map
    BY DEF init_descriptor, init_done, Bookkeeping
  <1>l. LiveFrames = {} /\ LiveFrames' = {}
    BY <1>i DEF LiveFrames
  <1>u. used = Frame \ Pool
    BY <1>l DEF Accounting
  <1>1. CASE init_descriptor
    <2> DEFINE d == map[off]
    <2>1. off \in 1 .. Len(map) /\ d \in Descriptor /\ off' - 1 = off
      BY <1>1, <1>t, <1>m DEF init_descriptor, TypeOK
    <2>2. Pool = UsableUpTo(map, off - 1) /\ Pool' = UsableUpTo(map, off)
      BY <1>1, <1>i, <2>1 DEF Pool, init_descriptor
    <2>3. Pool' = Pool \cup (IF is_usable_type(d.type) THEN desc_frames(d) ELSE {})
      BY <1>t, <2>1, <2>2, UsableSplit DEF TypeOK
    <2>4. desc_frames(d) \cap Pool = {} /\ desc_frames(d) \subseteq Frame
      BY <1>t, <2>1, <2>2, UsableSplit, DescFacts DEF TypeOK
    <2>5. used' = Frame \ Pool'
      <3> HIDE DEF d
      <3>1. CASE desc_frames(d) = {}
        BY <1>1, <1>u, <2>3, <3>1 DEF init_descriptor, d
      <3>2. CASE desc_frames(d) # {} /\ is_usable_type(d.type)
        BY <1>1, <1>u, <2>3, <3>2 DEF init_descriptor, d
      <3>3. CASE desc_frames(d) # {} /\ ~is_usable_type(d.type)
        BY <1>1, <1>u, <2>3, <2>4, <3>3 DEF init_descriptor, d
      <3> QED BY <3>1, <3>2, <3>3
    <2>6. Pool' \subseteq 0 .. frame_end' - 1
      <3>1. frame_end' >= frame_end /\ frame_end' \in Nat /\ frame_end \in Nat
        BY <1>1, <1>t, <2>1, FramesAssumption, DescFacts DEF init_descriptor, Extend, TypeOK
      <3>2. desc_frames(d) # {} /\ is_usable_type(d.type) => desc_end(d) <= frame_end' /\ desc_end(d) \in Nat
        BY <1>1, <1>t, <2>1, FramesAssumption, DescFacts DEF init_descriptor, Extend, TypeOK
      <3>3. desc_frames(d) \subseteq 0 .. desc_end(d) - 1
        BY <2>1, DescFacts
      <3>4. Pool \subseteq 0 .. frame_end - 1
        BY DEF Bookkeeping
      <3>5. Pool \subseteq 0 .. frame_end' - 1
        BY <3>1, <3>4, BelowMono
      <3>6. is_usable_type(d.type) => desc_frames(d) \subseteq 0 .. frame_end' - 1
        BY <3>1, <3>2, <3>3, BelowMono
      <3> HIDE DEF d
      <3> QED BY <2>3, <3>5, <3>6
    <2>7. pc' = "init"
      BY <1>1, <1>i DEF init_descriptor
    <2> QED BY <1>t, <1>i, <1>l, <2>5, <2>6, <2>7
            DEF Bookkeeping, Accounting, LiveDisjoint, LiveInPool, NothingSkipped
  <1>2. CASE init_done
    <2>1. off - 1 = Len(map)
      BY <1>2, <1>t, <1>m DEF init_done, TypeOK
    <2>2. Pool' = Pool
      BY <1>2, <1>i, <2>1 DEF Pool, Usable, init_done
    <2>3. frame_end' >= frame_end /\ frame_end' >= frame_begin + 1
      BY <1>2, <1>t DEF init_done, TypeOK, frame_begin
    <2>4. Pool' \subseteq 0 .. frame_end' - 1
      <3>1. frame_end \in Nat /\ frame_end' \in Nat /\ Pool \subseteq 0 .. frame_end - 1
        BY <1>t, FramesAssumption DEF Bookkeeping, TypeOK
      <3> QED BY <2>2, <2>3, <3>1, BelowMono
    <2> QED BY <1>2, <1>t, <1>i, <1>l, <1>u, <2>2, <2>3, <2>4
            DEF init_done, Bookkeeping, Accounting, LiveDisjoint, LiveInPool, NothingSkipped
  <1> QED BY <1>1, <1>2

\* The release walk keeps the invariant: it frees no frame in use.
LEMMA ReleaseWalkStep ==
    IInv /\ (release_call \/ release_descriptor \/ release_done) => IInv'
PROOF
  <1> SUFFICES ASSUME IInv, release_call \/ release_descriptor \/ release_done PROVE IInv'
    OBVIOUS
  <1> USE DEF IInv
  <1>t. TypeOK /\ TypeOK'
    BY TypeStep DEF Next, Loops
  <1>m. Len(map) \in Nat /\ \A i \in 1 .. Len(map) : map[i] \in Descriptor
    BY <1>t, MapFacts DEF TypeOK
  <1>i. pc # "init" /\ pc' # "init" /\ pc' # "find_run" /\ ~released /\ live' = live /\ map' = map
    BY DEF release_call, release_descriptor, release_done, Bookkeeping
  <1>l. LiveFrames' = LiveFrames
    BY <1>i DEF LiveFrames
  <1>p. ASSUME Pool \subseteq Pool', Pool' \subseteq 0 .. frame_end' - 1, frame_end <= frame_end',
               Accounting', pc' = "release" => ~released'
        PROVE  IInv'
    <2>1. frame_end \in Nat /\ frame_end' \in Nat
      BY <1>t, FramesAssumption DEF TypeOK
    <2>2. Bookkeeping'
      <3>1. frame_end' >= frame_begin + 1
        BY <1>i, <1>p, <2>1 DEF Bookkeeping, frame_begin
      <3> QED BY <1>i, <1>p, <3>1 DEF Bookkeeping
    <2>3. LiveInPool'
      <3>1. \A b \in live : Run(b.start, b.frames) \subseteq 0 .. frame_end - 1
        BY DEF LiveInPool
      <3>2. \A b \in live : Run(b.start, b.frames) \subseteq 0 .. frame_end' - 1
        BY <1>p, <2>1, <3>1, BelowMono
      <3> QED BY <1>i, <1>p, <3>2 DEF LiveInPool
    <2>4. LiveDisjoint' /\ NothingSkipped'
      BY <1>i DEF LiveDisjoint, NothingSkipped
    <2> QED BY <1>t, <1>p, <2>2, <2>3, <2>4
  <1>1. CASE release_call
    <2>1. off' - 1 = 0
      BY <1>1 DEF release_call
    <2>2. Pool' = Pool
      BY <1>1, <1>i, <2>1, EmptyPrefix DEF Pool, release_call
    <2> QED BY <1>1, <1>t, <1>i, <1>l, <1>p, <2>2 DEF release_call, Accounting, Bookkeeping, TypeOK
  <1>2. CASE release_descriptor
    <2> DEFINE d == map[off]
    <2>1. off \in 1 .. Len(map) /\ d \in Descriptor /\ off' - 1 = off
      BY <1>2, <1>t, <1>m DEF release_descriptor, TypeOK
    <2>2. pc = "release" /\ pc' = "release" /\ ~released'
      BY <1>2, <1>i DEF release_descriptor
    <2>3. Pool = Usable(map) \cup BootDataUpTo(map, off - 1) /\ Pool' = Usable(map) \cup BootDataUpTo(map, off)
      BY <1>i, <2>1, <2>2 DEF Pool
    <2>4. Pool' = Pool \cup (IF d.type = "BootServicesData" THEN desc_frames(d) ELSE {})
      BY <1>t, <2>1, <2>3, BootDataSplit DEF TypeOK
    <2>5. d.type = "BootServicesData" => desc_frames(d) \cap Pool = {}
      BY <1>t, <2>1, <2>3, BootDataApart DEF TypeOK
    <2>6. LiveFrames \subseteq Pool
      BY DEF LiveFrames, LiveInPool
    <2>7. Accounting'
      <3> HIDE DEF d
      <3>1. CASE d.type # "BootServicesData" \/ desc_frames(d) = {}
        BY <1>2, <1>l, <2>4, <3>1 DEF release_descriptor, Accounting, d
      <3>2. CASE d.type = "BootServicesData" /\ desc_frames(d) # {}
        <4>1. used' = used \ desc_frames(d)
          BY <1>2, <3>2 DEF release_descriptor, d
        <4>2. Pool' = Pool \cup desc_frames(d)
          BY <2>4, <3>2
        <4>3. LiveFrames \cap desc_frames(d) = {}
          BY <2>5, <2>6, <3>2
        <4> QED BY <1>l, <4>1, <4>2, <4>3 DEF Accounting
      <3> QED BY <3>1, <3>2
    <2>8. frame_end <= frame_end'
      BY <1>2, <1>t, <2>1, FramesAssumption, DescFacts DEF release_descriptor, Extend, TypeOK
    <2>9. Pool' \subseteq 0 .. frame_end' - 1
      <3>1. frame_end' \in Nat /\ frame_end \in Nat
        BY <1>t, FramesAssumption DEF TypeOK
      <3>2. desc_frames(d) # {} /\ d.type = "BootServicesData" => desc_end(d) <= frame_end' /\ desc_end(d) \in Nat
        BY <1>2, <1>t, <2>1, FramesAssumption, DescFacts DEF release_descriptor, Extend, TypeOK
      <3>3. desc_frames(d) \subseteq 0 .. desc_end(d) - 1
        BY <2>1, DescFacts
      <3>4. Pool \subseteq 0 .. frame_end - 1
        BY DEF Bookkeeping
      <3>5. Pool \subseteq 0 .. frame_end' - 1
        BY <2>8, <3>1, <3>4, BelowMono
      <3>6. d.type = "BootServicesData" => desc_frames(d) \subseteq 0 .. frame_end' - 1
        BY <3>1, <3>2, <3>3, BelowMono
      <3> HIDE DEF d
      <3> QED BY <2>4, <3>5, <3>6
    <2>10. Pool \subseteq Pool'
      BY <2>4
    <2> QED BY <1>p, <2>2, <2>7, <2>8, <2>9, <2>10
  <1>3. CASE release_done
    <2>1. off - 1 = Len(map)
      BY <1>3, <1>t, <1>m DEF release_done, TypeOK
    <2>2. Pool' = Pool
      BY <1>3, <1>i, <2>1 DEF Pool, BootData, release_done
    <2> QED BY <1>3, <1>t, <1>l, <1>p, <2>2 DEF release_done, Accounting, Bookkeeping, TypeOK
  <1> QED BY <1>1, <1>2, <1>3

\* The calls and the scan: the pool and frame_end stay as they are.
LEMMA PoolUnchanged ==
    ASSUME UNCHANGED <<map, frame_end, off, released>>,
           pc \in {"ready", "find_run"}, pc' \in {"ready", "find_run"}
    PROVE  Pool' = Pool
  BY DEF Pool

\* Entering find_run, skipping a used frame and giving up keep the invariant.
LEMMA FindRunStep ==
    IInv /\ ((\E r \in Requests : alloc_call(r)) \/ find_run_next \/ find_run_fail) => IInv'
PROOF
  <1> SUFFICES ASSUME IInv, (\E r \in Requests : alloc_call(r)) \/ find_run_next \/ find_run_fail
               PROVE  IInv'
    OBVIOUS
  <1> USE DEF IInv
  <1>t. TypeOK /\ TypeOK'
    BY TypeStep DEF Next, Loops
  <1>c. UNCHANGED <<map, used, frame_end, off, released, live>>
    BY DEF alloc_call, find_run_next, find_run_fail
  <1>q. pc \in {"ready", "find_run"} /\ pc' \in {"ready", "find_run"}
    BY DEF alloc_call, find_run_next, find_run_fail, Return
  <1>l. Pool' = Pool /\ LiveFrames' = LiveFrames
    BY <1>c, <1>q, PoolUnchanged DEF LiveFrames
  <1>k. Accounting' /\ LiveDisjoint' /\ LiveInPool'
    BY <1>c, <1>l DEF Accounting, LiveDisjoint, LiveInPool
  <1>p. ASSUME NothingSkipped',
               pc' = "find_run" => /\ req' \in Requests
                                   /\ start' >= frame_begin
                                   /\ Aligned(start', req'.align)
                                   /\ req'.needed = 0 => start' = frame_begin
        PROVE  IInv'
    BY <1>t, <1>c, <1>q, <1>l, <1>k, <1>p DEF Bookkeeping
  <1>1. CASE \E r \in Requests : alloc_call(r)
    <2>1. PICK r \in Requests : alloc_call(r)
      BY <1>1
    <2>2. req' = r /\ start' = AlignUp(1, r.align) /\ r.align \in Nat \ {0}
      BY <2>1, RequestsType DEF alloc_call, frame_begin
    <2>3. start' \in Nat /\ start' >= frame_begin /\ Aligned(start', r.align)
      BY <2>2, AlignUpFacts DEF Aligned, frame_begin
    <2>4. NothingSkipped'
      <3> SUFFICES ASSUME NEW s \in frame_begin .. FrameCount, Aligned(s, r.align)
                   PROVE  start' <= s
        BY <2>2 DEF NothingSkipped
      <3>1. s \in Nat /\ s >= 1 /\ s % r.align = 0
        BY FramesAssumption DEF Aligned, frame_begin
      <3> QED BY <2>2, <3>1, AlignUpLeast
    <2>5. r.needed = 0 => start' = frame_begin
      <3>1. AlignUp(1, 1) = 1
        BY DEF AlignUp
      <3>2. r.needed = 0 => r.align = 1
        BY RequestsType
      <3> QED BY <2>2, <3>1, <3>2 DEF frame_begin
    <2> QED BY <1>p, <2>2, <2>3, <2>4, <2>5
  <1>2. CASE find_run_next
    <2>1. PICK u \in Run(start, req.needed) \cap used :
                /\ \A v \in Run(start, req.needed) \cap used : u <= v
                /\ start' = AlignUp(u + 1, req.align)
      BY <1>2 DEF find_run_next
    <2>2. /\ u \in Nat /\ start \in Nat /\ req.needed \in Nat /\ req.align \in Nat \ {0}
          /\ start <= u /\ u < start + req.needed
      <3>1. start \in Nat /\ req.needed \in Nat /\ req.align \in Nat \ {0}
        <4> HIDE DEF IInv
        <4> QED BY <1>t DEF TypeOK
      <3>2. u \in Run(start, req.needed)
        OBVIOUS
      <3> HIDE DEF IInv
      <3> QED BY <3>1, <3>2 DEF Run
    <2>3. start' \in Nat /\ start' >= u + 1 /\ Aligned(start', req.align)
      BY <2>1, <2>2, AlignUpFacts DEF Aligned
    <2>4. pc = "find_run" /\ req' = req
      BY <1>2 DEF find_run_next
    <2>5. req \in Requests /\ start >= frame_begin
      BY <2>4 DEF Bookkeeping
    <2>6. NothingSkipped'
      <3> SUFFICES ASSUME NEW s \in frame_begin .. FrameCount, Aligned(s, req.align),
                          s + req.needed <= frame_end, Run(s, req.needed) \cap used = {}
                   PROVE  start' <= s
        BY <1>c, <2>4 DEF NothingSkipped
      <3>1. s \in Nat /\ start <= s
        BY <2>4, FramesAssumption DEF NothingSkipped, frame_begin
      <3>2. s >= u + 1
        <4> SUFFICES ASSUME s <= u PROVE FALSE
          BY <2>2, <3>1
        <4>1. u \in Run(s, req.needed)
          BY <2>2, <3>1 DEF Run
        <4> QED BY <2>1, <4>1
      <3> QED BY <2>1, <2>2, <3>1, <3>2, AlignUpLeast DEF Aligned
    <2>7. start' >= frame_begin
      BY <2>2, <2>3, <2>5 DEF frame_begin
    <2>8. req.needed # 0
      BY <2>2
    <2> QED BY <1>p, <2>3, <2>4, <2>5, <2>6, <2>7, <2>8
  <1>3. CASE find_run_fail
    BY <1>3, <1>p DEF find_run_fail, Return, NothingSkipped
  <1> QED BY <1>1, <1>2, <1>3

\* A run that ends by e, itself within the bitmap, lies below e and in the bitmap.
LEMMA RunBelow ==
  ASSUME NEW s \in Nat, NEW n \in Nat, NEW e \in Nat, s + n <= e, e <= FrameCount
  PROVE  Run(s, n) \subseteq 0 .. e - 1 /\ Run(s, n) \subseteq Frame
PROOF
  BY FramesAssumption DEF Run, Frame

\* Marking and returning a run keeps the invariant.
LEMMA HitStep == IInv /\ find_run_hit => IInv'
PROOF
  <1> SUFFICES ASSUME IInv, find_run_hit PROVE IInv'
    OBVIOUS
  <1> USE DEF IInv
  <1> DEFINE R  == Run(start, req.needed)
             nb == [start |-> start, frames |-> req.needed, bytes |-> req.bytes, align |-> req.align]
  <1>t. TypeOK /\ TypeOK'
    BY TypeStep DEF Next, Loops
  <1>1. /\ pc = "find_run" /\ pc' = "ready" /\ UNCHANGED <<map, frame_end, off, released>>
        /\ used' = used \cup R /\ live' = live \cup {nb} /\ R \cap used = {}
        /\ start + req.needed <= frame_end
    BY DEF find_run_hit, Return
  <1>2. Pool' = Pool
    BY <1>1, PoolUnchanged
  <1>3. R \subseteq 0 .. frame_end - 1 /\ R \subseteq Frame
    <2>1. /\ start \in Nat /\ req.needed \in Nat
          /\ frame_end \in Nat /\ frame_end <= FrameCount
      <3> HIDE DEF IInv
      <3> QED BY <1>t, FramesAssumption DEF TypeOK
    <2> QED BY <2>1, <1>1, RunBelow
  <1>4. R \subseteq Pool /\ R \cap LiveFrames = {}
    BY <1>1, <1>3 DEF Accounting
  <1>5. Run(nb.start, nb.frames) = R
    OBVIOUS
  <1>6. LiveFrames' = LiveFrames \cup R
    BY <1>1, <1>5 DEF LiveFrames
  <1>7. Accounting'
    BY <1>1, <1>2, <1>6 DEF Accounting
  <1>8. LiveDisjoint'
    <2> SUFFICES ASSUME NEW b \in live', NEW c \in live', b # c
                 PROVE  Run(b.start, b.frames) \cap Run(c.start, c.frames) = {}
      BY DEF LiveDisjoint
    <2>1. \A x \in live : Run(x.start, x.frames) \subseteq LiveFrames
      BY DEF LiveFrames
    <2>2. \A x \in live : Run(x.start, x.frames) \cap Run(nb.start, nb.frames) = {}
      BY <2>1, <1>4, <1>5
    <2> HIDE DEF nb, R
    <2> QED BY <1>1, <2>2 DEF LiveDisjoint
  <1>9. start >= frame_begin /\ Aligned(start, req.align) /\ req.needed = need_frames(req.bytes)
    <2>1. req \in Requests /\ start >= frame_begin /\ Aligned(start, req.align)
      BY <1>1 DEF Bookkeeping
    <2> QED BY <2>1, RequestsType
  <1>10. LiveInPool'
    BY <1>1, <1>2, <1>3, <1>4, <1>5, <1>9 DEF LiveInPool
  <1>11. ~released => R \subseteq Usable(map)
    BY <1>1, <1>4 DEF Pool
  <1>12. Bookkeeping'
    BY <1>1, <1>2, <1>5, <1>9, <1>11 DEF Bookkeeping
  <1> QED BY <1>t, <1>1, <1>7, <1>8, <1>10, <1>12 DEF NothingSkipped

\* page_free_bytes keeps the invariant: it clears the block's own frames.
LEMMA FreeStep == ASSUME IInv, NEW b \in live, page_free_bytes(b) PROVE IInv'
PROOF
  <1> USE DEF IInv
  <1> DEFINE R == Run(b.start, b.frames)
  <1>t. TypeOK /\ TypeOK'
    BY TypeStep DEF Next
  <1>1. need_frames(b.bytes) = b.frames
    BY DEF Bookkeeping
  <1>2. /\ pc = "ready" /\ UNCHANGED <<map, frame_end, pc, off, released>>
        /\ used' = used \ R /\ live' = live \ {b}
    BY <1>1 DEF page_free_bytes
  <1>3. Pool' = Pool
    BY <1>2, PoolUnchanged
  <1>4. \A c \in live : c # b => Run(c.start, c.frames) \cap R = {}
    BY DEF LiveDisjoint
  <1>5. LiveFrames' = LiveFrames \ R
    <2> HIDE DEF R
    <2>1. \A f : f \in LiveFrames <=> f \in R \/ \E c \in live : c # b /\ f \in Run(c.start, c.frames)
      BY DEF LiveFrames, R
    <2>2. \A f : f \in LiveFrames' <=> \E c \in live : c # b /\ f \in Run(c.start, c.frames)
      BY <1>2 DEF LiveFrames
    <2> QED BY <1>4, <2>1, <2>2
  <1>6. R \subseteq Pool
    BY DEF LiveInPool
  <1>7. Accounting'
    <2> HIDE DEF R
    <2> QED BY <1>2, <1>3, <1>5, <1>6 DEF Accounting
  <1>8. LiveDisjoint' /\ LiveInPool'
    BY <1>2, <1>3 DEF LiveDisjoint, LiveInPool
  <1>9. Bookkeeping' /\ NothingSkipped'
    BY <1>2, <1>3 DEF Bookkeeping, NothingSkipped
  <1> QED BY <1>t, <1>7, <1>8, <1>9

\* Every step keeps the invariant.
LEMMA InvStep == IInv /\ [Next]_vars => IInv'
PROOF
  <1> SUFFICES ASSUME IInv, [Next]_vars PROVE IInv'
    OBVIOUS
  <1>1. CASE UNCHANGED vars
    BY <1>1 DEF vars, IInv, TypeOK, Bookkeeping, Pool, Accounting, LiveFrames,
                LiveDisjoint, LiveInPool, NothingSkipped
  <1> QED BY <1>1, InitWalkStep, ReleaseWalkStep, FindRunStep, HitStep, FreeStep DEF Next, Loops

(* The inductive invariant of page_alloc.c holds in every reachable state. *)
THEOREM AllocatorInvariant == Spec => []IInv
  BY InvInit, InvStep, PTL DEF Spec

(* page_alloc.c loses and steals no frame: a bit is set exactly for frames
   outside the pool or in a live block, through any order of allocations,
   frees and the release walk. *)
THEOREM FramesAccounted == Spec => []Accounting
PROOF
  <1>1. IInv => Accounting
    BY DEF IInv
  <1> QED BY <1>1, AllocatorInvariant, PTL

(* No frame page_alloc.c hands out is another caller's, nor outside the pool. *)
THEOREM LiveBlocksSound == Spec => []LiveSound
PROOF
  <1>1. IInv => LiveSound
    BY DEF IInv, LiveSound
  <1> QED BY <1>1, AllocatorInvariant, PTL

(* page_alloc_bytes and page_alloc_pages give what was asked for: an aligned
   block of enough frames, for every size whose rounding does not overflow. *)
THEOREM RequestsCovered == Spec => []CoversUnlessWrapped
PROOF
  <1>1. ASSUME NEW n \in Nat, n + PageSize - 1 < WordSize
        PROVE  need_frames(n) * PageSize >= n
    <2> DEFINE m == n + PageSize - 1
    <2>1. m \in Nat /\ m % WordSize = m /\ PageSize \in Nat \ {0}
      BY <1>1, FramesAssumption
    <2>2. m = PageSize * (m \div PageSize) + (m % PageSize) /\ m % PageSize \in 0 .. PageSize - 1
             /\ m \div PageSize \in Nat
      BY <2>1, DivMod
    <2>3. PageSize * (m \div PageSize) >= n
      BY <2>1, <2>2, MulNat
    <2> QED  BY <2>1, <2>2, <2>3 DEF need_frames
  <1>2. IInv => CoversUnlessWrapped
    <2> SUFFICES ASSUME IInv, NEW b \in live
                 PROVE  /\ Aligned(b.start, b.align)
                        /\ b.bytes + PageSize - 1 < WordSize => b.frames * PageSize >= b.bytes
      BY DEF CoversUnlessWrapped
    <2>1. b.bytes \in Nat
      BY DEF IInv, TypeOK, Block
    <2>2. b.frames = need_frames(b.bytes) /\ Aligned(b.start, b.align)
      BY DEF IInv, Bookkeeping
    <2> QED  BY <1>1, <2>1, <2>2
  <1> QED  BY <1>2, AllocatorInvariant, PTL

(* find_run's jumps past a used frame miss no run that would have fitted. *)
THEOREM FirstFitComplete == Spec => []NothingSkipped
PROOF
  <1>1. IInv => NothingSkipped
    BY DEF IInv
  <1> QED BY <1>1, AllocatorInvariant, PTL
-----------------------------------------------------------------------------
\* Which frames the abstract allocator sees as free, point by point.
LEMMA AvailFacts ==
    IInv /\ pc # "init" =>
        /\ Avail = (Pool \ LiveFrames) \ {0}
        /\ LiveFrames \subseteq Pool \cap (1 .. frame_end - 1)
PROOF
  <1> SUFFICES ASSUME IInv, pc # "init"
               PROVE  /\ Avail = (Pool \ LiveFrames) \ {0}
                      /\ LiveFrames \subseteq Pool \cap (1 .. frame_end - 1)
    OBVIOUS
  <1> USE DEF IInv
  <1>1. \A f \in Frame : f \notin used <=> f \in Pool /\ f \notin LiveFrames
    BY DEF Accounting
  <1>2. Pool \subseteq 0 .. frame_end - 1 /\ 0 .. frame_end - 1 \subseteq Frame
    BY FramesAssumption DEF Bookkeeping, TypeOK, Frame
  <1>3. LiveFrames \subseteq Pool \cap (1 .. frame_end - 1)
    <2> SUFFICES ASSUME NEW b \in live, NEW f \in Run(b.start, b.frames)
                 PROVE  f \in Pool \cap (1 .. frame_end - 1)
      BY DEF LiveFrames
    <2>1. f \in Pool /\ f \in 0 .. frame_end - 1 /\ b.start >= 1
      BY DEF LiveInPool, frame_begin
    <2>2. b.start \in Nat /\ b.frames \in Nat
      BY DEF TypeOK, Block
    <2>3. f >= 1
      BY <2>1, <2>2 DEF Run
    <2> QED BY <2>1, <2>3
  <1>4. \A f : f \in 1 .. frame_end - 1 <=> f \in 0 .. frame_end - 1 /\ f # 0
    BY DEF TypeOK
  <1> QED BY <1>1, <1>2, <1>3, <1>4 DEF Avail, frame_begin

\* The same in the next state.
LEMMA AvailFactsNext ==
    IInv' /\ (pc # "init")' => (Avail = (Pool \ LiveFrames) \ {0})'
  BY AvailFacts, PTL

\* The instance's copies of the operators of Frames.
LEMMA SameOperators ==
    /\ FA!frame_begin = frame_begin
    /\ \A s, n : FA!Run(s, n) = Run(s, n)
    /\ \A m : FA!Usable(m) = Usable(m) /\ FA!BootData(m) = BootData(m)
PROOF
  <1>1. \A d : FA!desc_frames(d) = desc_frames(d)
    BY DEF FA!desc_frames, desc_frames, FA!desc_end, desc_end, FA!Frame, Frame
  <1>2. \A t : FA!is_usable_type(t) = is_usable_type(t)
    BY DEF FA!is_usable_type, is_usable_type
  <1>3. \A m : FA!Usable(m) = Usable(m)
    BY <1>1, <1>2 DEF FA!Usable, Usable, FA!UsableUpTo, UsableUpTo, FA!Frame, Frame
  <1>4. \A m : FA!BootData(m) = BootData(m)
    BY <1>1 DEF FA!BootData, BootData, FA!BootDataUpTo, BootDataUpTo, FA!Frame, Frame
  <1> QED BY <1>3, <1>4 DEF FA!frame_begin, frame_begin, FA!Run, Run

\* Boot services data is no usable memory.
LEMMA BootDataNotUsable ==
    ASSUME NEW m \in Maps PROVE BootData(m) \cap Usable(m) = {}
PROOF
  <1> SUFFICES ASSUME NEW n \in 1 .. Len(m), m[n].type = "BootServicesData"
               PROVE  desc_frames(m[n]) \cap Usable(m) = {}
    BY DEF BootData, BootDataUpTo
  <1> QED BY BootDataApart

\* A prefix of the boot data is boot data.
LEMMA BootDataPrefix ==
    ASSUME NEW m \in Maps, NEW n \in 0 .. Len(m)
    PROVE  BootDataUpTo(m, n) \subseteq BootData(m)
PROOF
  <1>1. \A i \in 1 .. n : i \in 1 .. Len(m)
    BY MapFacts
  <1> QED BY <1>1 DEF BootData, BootDataUpTo

\* The walks are FrameAlloc's Boot and Release at their last step, stutters before.
LEMMA RefineWalks ==
    ASSUME IInv, IInv',
           \/ init_descriptor \/ init_done
           \/ release_call \/ release_descriptor \/ release_done
    PROVE  [FA!Next]_(FA!vars)
PROOF
  <1> USE DEF IInv
  <1>t. map \in Maps /\ Len(map) \in Nat /\ off \in 1 .. Len(map) + 1
    BY MapFacts DEF TypeOK
  <1>d. BootData(map) \cap Usable(map) = {}
    BY <1>t, BootDataNotUsable
  <1>1. CASE init_descriptor
    BY <1>1 DEF init_descriptor, FA!vars
  <1>2. CASE init_done
    <2>1. pc = "init" /\ pc' = "ready" /\ ~released /\ ~released' /\ UNCHANGED <<map, live, ret>> /\ live = {}
      BY <1>2 DEF init_done, Bookkeeping
    <2>2. Pool' = Usable(map) /\ LiveFrames' = {}
      BY <2>1 DEF Pool, LiveFrames
    <2>3. Avail' = Usable(map) \ {0}
      BY <2>1, <2>2, AvailFactsNext
    <2>4. FA!Boot
      BY <2>1, <2>3, SameOperators DEF FA!Boot
    <2> QED BY <2>4 DEF FA!Next
  <1>3. CASE release_call
    <2>1. pc = "ready" /\ pc' = "release" /\ ~released /\ ~released' /\ UNCHANGED <<map, used, frame_end, live, ret>>
      BY <1>3 DEF release_call
    <2>2. Pool = Usable(map)
      BY <2>1 DEF Pool
    <2>3. Avail' = Avail /\ Avail \ BootData(map) = Avail
      BY <1>d, <2>1, <2>2, AvailFacts DEF Avail
    <2> QED BY <2>1, <2>3 DEF FA!vars
  <1>4. CASE release_descriptor
    <2>1. /\ pc = "release" /\ pc' = "release" /\ ~released /\ ~released'
          /\ UNCHANGED <<map, live, ret>> /\ off' = off + 1 /\ off \in 1 .. Len(map)
      BY <1>4, <1>t DEF release_descriptor, Bookkeeping
    <2>2. off - 1 \in 0 .. Len(map) /\ off' - 1 \in 0 .. Len(map)
      BY <1>t, <2>1
    <2>3. BootDataUpTo(map, off - 1) \subseteq BootData(map) /\ BootDataUpTo(map, off' - 1) \subseteq BootData(map)
      BY <1>t, <2>2, BootDataPrefix
    <2>4. Pool \ BootData(map) = Usable(map) \ BootData(map) /\ Pool' \ BootData(map) = Usable(map) \ BootData(map)
      BY <2>1, <2>3 DEF Pool
    <2>5. LiveFrames' = LiveFrames
      BY <2>1 DEF LiveFrames
    <2>6. Avail = (Pool \ LiveFrames) \ {0} /\ Avail' = (Pool' \ LiveFrames') \ {0}
      BY <2>1, AvailFacts, AvailFactsNext
    <2>7. Avail' \ BootData(map) = Avail \ BootData(map)
      BY <2>4, <2>5, <2>6
    <2> QED BY <2>1, <2>7 DEF FA!vars
  <1>5. CASE release_done
    <2>1. /\ pc = "release" /\ pc' = "ready" /\ ~released /\ released'
          /\ UNCHANGED <<map, live, ret>> /\ off - 1 = Len(map)
      BY <1>5, <1>t DEF release_done, Bookkeeping
    <2>2. Pool = Usable(map) \cup BootData(map) /\ Pool' = Usable(map) \cup BootData(map)
      BY <2>1 DEF Pool, BootData
    <2>3. LiveFrames \subseteq Usable(map) /\ LiveFrames' = LiveFrames
      BY <2>1 DEF Bookkeeping, LiveFrames
    <2>4. Avail = (Pool \ LiveFrames) \ {0} /\ Avail' = (Pool' \ LiveFrames') \ {0}
      BY <2>1, AvailFacts, AvailFactsNext
    <2>5. Avail' = (Avail \ BootData(map)) \cup (BootData(map) \ {0})
      BY <1>d, <2>2, <2>3, <2>4
    <2>6. BootData(map) \cap ((Avail \ BootData(map)) \cup LiveFrames) = {}
      BY <1>d, <2>3
    <2>7. FA!Release
      BY <2>1, <2>5, <2>6, SameOperators DEF FA!Release, LiveFrames
    <2> QED BY <2>7 DEF FA!Next
  <1> QED BY <1>1, <1>2, <1>3, <1>4, <1>5

\* find_run is an Alloc or a Fail when it returns, a stutter before; a free is a Free.
LEMMA RefineCalls ==
    ASSUME IInv, IInv',
           \/ \E r \in Requests : alloc_call(r)
           \/ find_run_hit \/ find_run_next \/ find_run_fail
           \/ \E b \in live : page_free_bytes(b)
    PROVE  [FA!Next]_(FA!vars)
PROOF
  <1> USE DEF IInv
  <1>1. CASE (\E r \in Requests : alloc_call(r)) \/ find_run_next
    BY <1>1 DEF alloc_call, find_run_next, FA!vars, Avail
  <1>2. ASSUME pc = "find_run"
        PROVE  /\ start \in Nat /\ req.needed \in Nat /\ req.align \in Nat \ {0}
               /\ req \in Requests /\ start >= 1 /\ frame_end \in 2 .. FrameCount
               /\ \A t \in FA!Fits(req.needed, req.align) :
                     /\ t \in Nat
                     /\ start + req.needed <= frame_end => start <= t
                     /\ start + req.needed <= frame_end
    <2>1. start \in Nat /\ req.needed \in Nat /\ req.align \in Nat \ {0}
      BY DEF TypeOK
    <2>2. req \in Requests /\ start >= 1 /\ frame_end \in 2 .. FrameCount /\ (req.needed = 0 => start = 1)
      BY <1>2, FramesAssumption DEF Bookkeeping, TypeOK, frame_begin
    <2>3. ASSUME NEW t \in FA!Fits(req.needed, req.align)
          PROVE  /\ t \in Nat
                 /\ start + req.needed <= frame_end => start <= t
                 /\ start + req.needed <= frame_end
      <3>1. t \in 1 .. FrameCount /\ Aligned(t, req.align) /\ Run(t, req.needed) \subseteq Avail
        BY <1>2, SameOperators DEF FA!Fits, frame_begin, Aligned
      <3>2. Run(t, req.needed) \cap used = {} /\ Run(t, req.needed) \subseteq 0 .. frame_end - 1
        BY <3>1, <2>2 DEF Avail, frame_begin
      <3>3. t \in Nat /\ t >= 1
        BY <3>1, FramesAssumption
      <3>4. CASE t + req.needed <= frame_end
        <4>1. start <= t
          BY <1>2, <3>1, <3>2, <3>4 DEF NothingSkipped, frame_begin
        <4> QED BY <2>1, <2>2, <3>3, <3>4, <4>1
      <3>5. CASE t + req.needed > frame_end
        <4>1. req.needed = 0
          <5> SUFFICES ASSUME req.needed > 0 PROVE FALSE
            BY <2>1
          <5>1. t + req.needed - 1 \in Run(t, req.needed)
            BY <2>1, <3>3 DEF Run
          <5> QED BY <2>1, <2>2, <3>2, <3>3, <3>5, <5>1
        <4> QED BY <2>1, <2>2, <3>3, <4>1
      <3> QED BY <2>1, <2>2, <3>3, <3>4, <3>5
    <2> QED BY <2>1, <2>2, <2>3
  <1>3. CASE find_run_hit
    <2> DEFINE R == Run(start, req.needed)
    <2>1. /\ pc = "find_run" /\ pc' = "ready" /\ UNCHANGED <<map, frame_end, off, released>>
          /\ used' = used \cup R /\ ret' = start /\ R \cap used = {}
          /\ start + req.needed <= frame_end
          /\ live' = live \cup {[start |-> start, frames |-> req.needed, bytes |-> req.bytes, align |-> req.align]}
      BY <1>3 DEF find_run_hit, Return
    <2>2. R \subseteq Avail
      BY <1>2, <2>1 DEF Avail, Run, frame_begin
    <2>3. Avail' = Avail \ R
      BY <2>1 DEF Avail
    <2>4. start \in frame_begin .. FrameCount /\ start % req.align = 0
      <3>1. Aligned(start, req.align)
        BY <2>1 DEF Bookkeeping
      <3>2. start \in Nat /\ req.needed \in Nat /\ start >= 1 /\ frame_end \in 2 .. FrameCount
        BY <1>2, <2>1
      <3>3. start \in 1 .. FrameCount
        BY <2>1, <3>2, FramesAssumption
      <3> QED BY <3>1, <3>3 DEF frame_begin, Aligned
    <2>5. start \in FA!Fits(req.needed, req.align)
      BY <2>1, <2>2, <2>4, SameOperators DEF FA!Fits
    <2>6. \A t \in FA!Fits(req.needed, req.align) : start <= t
      BY <1>2, <2>1
    <2>7. FA!Alloc(req)
      BY <2>1, <2>3, <2>5, <2>6, SameOperators DEF FA!Alloc
    <2> QED BY <1>2, <2>1, <2>7 DEF FA!Next
  <1>4. CASE find_run_fail
    <2>1. /\ pc = "find_run" /\ pc' = "ready" /\ UNCHANGED <<map, used, frame_end, off, released, live>>
          /\ start + req.needed > frame_end /\ ret' = 0
      BY <1>4 DEF find_run_fail, Return
    <2>2. FA!Fits(req.needed, req.align) = {}
      BY <1>2, <2>1
    <2>3. Avail' = Avail
      BY <2>1 DEF Avail
    <2>4. FA!Fail(req)
      BY <2>1, <2>2, <2>3 DEF FA!Fail
    <2> QED BY <1>2, <2>1, <2>4 DEF FA!Next
  <1>5. CASE \E b \in live : page_free_bytes(b)
    <2>1. PICK b \in live : page_free_bytes(b)
      BY <1>5
    <2>2. need_frames(b.bytes) = b.frames
      BY DEF Bookkeeping
    <2>3. /\ pc = "ready" /\ pc' = "ready" /\ UNCHANGED <<map, frame_end, released, ret>>
          /\ used' = used \ Run(b.start, b.frames) /\ live' = live \ {b}
      BY <2>1, <2>2 DEF page_free_bytes
    <2>4. Run(b.start, b.frames) \subseteq 1 .. frame_end - 1
      BY <2>3, AvailFacts DEF LiveFrames
    <2>5. Avail' = Avail \cup Run(b.start, b.frames)
      BY <2>3, <2>4 DEF Avail, frame_begin
    <2>6. FA!Free(b)
      BY <2>3, <2>5, SameOperators DEF FA!Free
    <2> QED BY <2>6 DEF FA!Next
  <1> QED BY <1>1, <1>3, <1>4, <1>5

(* page_alloc.c, with its bitmap, walks and scan, implements the atomic
   first-fit allocator the rest of the kernel is modelled on. *)
THEOREM ImplementsFrameAlloc == Spec => Refines
PROOF
  <1>1. Init => FA!Init
    BY DEF Init, FA!Init
  <1>2. IInv /\ IInv' /\ [Next]_vars => [FA!Next]_(FA!vars)
    <2> SUFFICES ASSUME IInv, IInv', [Next]_vars PROVE [FA!Next]_(FA!vars)
      OBVIOUS
    <2>1. CASE UNCHANGED vars
      BY <2>1 DEF vars, FA!vars, Avail
    <2> QED BY <2>1, RefineWalks, RefineCalls DEF Next, Loops
  <1> QED BY <1>1, <1>2, AllocatorInvariant, PTL DEF Spec, Refines, FA!Spec
=============================================================================
