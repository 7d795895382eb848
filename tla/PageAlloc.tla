----------------------------- MODULE PageAlloc ------------------------------
(***************************************************************************)
(* kernel/page_alloc.c, loop by loop: the used/unused bitmap, frame_end,   *)
(* the two memory-map walks (one descriptor per step) and find_run's       *)
(* first-fit scan (one candidate start per step).  The caller's side is    *)
(* the ghost variable live: it frees what it was given, with the size it   *)
(* asked for, as the API asks it to.                                       *)
(***************************************************************************)
EXTENDS Frames

CONSTANTS
    ByteSizes,    \* nbytes arguments of page_alloc_bytes
    PageCounts,   \* num_pages arguments of page_alloc_pages
    Aligns        \* align_bytes arguments of page_alloc_pages

\* Arguments are words; a page count leaves room for its size in bytes.
ASSUME SizesAssumption ==
    /\ ByteSizes \subseteq 0 .. WordSize - 1
    /\ Aligns \subseteq 0 .. WordSize - 1
    /\ PageCounts \subseteq {k \in Nat : k * PageSize + PageSize <= WordSize}

VARIABLES
    map,         \* the MEMORY_MAP both walks read
    used,        \* g_bitmap: frames whose bit is 1
    frame_end,   \* g_frame_end
    pc,          \* which loop is running: init, find_run, release; or ready
    off,         \* descriptor the walk is at (1-based)
    released,    \* the release walk has been run (kernelMain runs it once)
    req,         \* find_run's needed and align_frames, and the bytes asked for
    start,       \* find_run's candidate
    live,        \* ghost: blocks handed out and not yet freed
    ret          \* frame of the pointer last returned, 0 for NULL

vars == <<map, used, frame_end, pc, off, released, req, start, live, ret>>

Requests ==
    {[bytes |-> n, needed |-> need_frames(n), align |-> 1] : n \in ByteSizes \ {0}}
    \cup {[bytes |-> k * PageSize, needed |-> k, align |-> align_frames(a)]
            : k \in PageCounts \ {0}, a \in Aligns}

NoReq == [bytes |-> 0, needed |-> 0, align |-> 1]

Block == [start : Nat, frames : Nat, bytes : Nat, align : Nat]

\* Frames in [frame_begin, frame_end) whose bit is clear.
Avail == {f \in frame_begin .. frame_end - 1 : f \notin used}

LiveFrames == UNION {Run(b.start, b.frames) : b \in live}

Init ==
    /\ map \in Maps
    /\ used = Frame
    /\ frame_end = 1
    /\ pc = "init"
    /\ off = 1
    /\ released = FALSE
    /\ req = NoReq
    /\ start = 0
    /\ live = {}
    /\ ret = 0

(* ---- page_allocator_init ---- *)

\* Mutant: the walks never move frame_end.
Mutant_Extend_never(d) == frame_end

Extend(d) == IF desc_end(d) > frame_end THEN desc_end(d) ELSE frame_end

init_descriptor ==
    /\ pc = "init"
    /\ off <= Len(map)
    /\ LET d == map[off] IN
        \/ /\ desc_frames(d) = {}
           /\ UNCHANGED <<used, frame_end>>
        \/ /\ desc_frames(d) # {}
           /\ is_usable_type(d.type)
           /\ used' = used \ desc_frames(d)
           /\ frame_end' = Extend(d)
        \/ /\ desc_frames(d) # {}
           /\ ~is_usable_type(d.type)
           /\ used' = used \cup desc_frames(d)
           /\ UNCHANGED frame_end
    /\ off' = off + 1
    /\ UNCHANGED <<map, pc, released, req, start, live, ret>>

init_done ==
    /\ pc = "init"
    /\ off > Len(map)
    /\ frame_end' = IF frame_end <= frame_begin THEN frame_begin + 1 ELSE frame_end
    /\ pc' = "ready"
    /\ UNCHANGED <<map, used, off, released, req, start, live, ret>>

(* ---- page_allocator_release_boot_services_data ---- *)

release_call ==
    /\ pc = "ready"
    /\ ~released
    /\ pc' = "release"
    /\ off' = 1
    /\ UNCHANGED <<map, used, frame_end, released, req, start, live, ret>>

release_descriptor ==
    /\ pc = "release"
    /\ off <= Len(map)
    /\ LET d == map[off] IN
        \/ /\ d.type # "BootServicesData" \/ desc_frames(d) = {}
           /\ UNCHANGED <<used, frame_end>>
        \/ /\ d.type = "BootServicesData"
           /\ desc_frames(d) # {}
           /\ used' = used \ desc_frames(d)
           /\ frame_end' = Extend(d)
    /\ off' = off + 1
    /\ UNCHANGED <<map, pc, released, req, start, live, ret>>

release_done ==
    /\ pc = "release"
    /\ off > Len(map)
    /\ released' = TRUE
    /\ pc' = "ready"
    /\ UNCHANGED <<map, used, frame_end, off, req, start, live, ret>>

(* ---- page_alloc_bytes, page_alloc_pages, page_alloc_4k_aligned ---- *)

\* Entry of find_run; the zero-size early returns never get here (Requests).
alloc_call(r) ==
    /\ pc = "ready"
    /\ pc' = "find_run"
    /\ req' = r
    /\ start' = AlignUp(frame_begin, r.align)
    /\ UNCHANGED <<map, used, frame_end, off, released, live, ret>>

\* find_run's locals go out of scope.
Return ==
    /\ pc' = "ready"
    /\ req' = NoReq
    /\ start' = 0

\* The inner loop of find_run ran to the end: mark_range_used and return.
find_run_hit ==
    /\ pc = "find_run"
    /\ start + req.needed <= frame_end
    /\ Run(start, req.needed) \cap used = {}
    /\ used' = used \cup Run(start, req.needed)
    /\ live' = live \cup {[start |-> start, frames |-> req.needed,
                           bytes |-> req.bytes, align |-> req.align]}
    /\ ret' = start
    /\ Return
    /\ UNCHANGED <<map, frame_end, off, released>>

\* Mutant: restarts at the used frame, not past it.
Mutant_find_run_next_stuck ==
    /\ pc = "find_run"
    /\ start + req.needed <= frame_end
    /\ \E u \in Run(start, req.needed) \cap used :
        /\ \A v \in Run(start, req.needed) \cap used : u <= v
        /\ start' = AlignUp(u, req.align)
    /\ UNCHANGED <<map, used, frame_end, pc, off, released, req, live, ret>>

\* The inner loop stopped at u, the first used frame: restart past it.
find_run_next ==
    /\ pc = "find_run"
    /\ start + req.needed <= frame_end
    /\ \E u \in Run(start, req.needed) \cap used :
        /\ \A v \in Run(start, req.needed) \cap used : u <= v
        /\ start' = AlignUp(u + 1, req.align)
    /\ UNCHANGED <<map, used, frame_end, pc, off, released, req, live, ret>>

\* No candidate is left: NULL.
find_run_fail ==
    /\ pc = "find_run"
    /\ start + req.needed > frame_end
    /\ ret' = 0
    /\ Return
    /\ UNCHANGED <<map, used, frame_end, off, released, live>>

(* ---- page_free_bytes, page_free_4k ---- *)

\* Mutants: one frame too few is freed, or one too many.
Mutant_page_free_bytes_short(b) ==
    /\ pc = "ready"
    /\ used' = used \ Run(b.start, b.bytes \div PageSize)
    /\ live' = live \ {b}
    /\ UNCHANGED <<map, frame_end, pc, off, released, req, start, ret>>
Mutant_page_free_bytes_long(b) ==
    /\ pc = "ready"
    /\ used' = used \ Run(b.start, need_frames(b.bytes) + 1)
    /\ live' = live \ {b}
    /\ UNCHANGED <<map, frame_end, pc, off, released, req, start, ret>>

page_free_bytes(b) ==
    /\ pc = "ready"
    /\ used' = used \ Run(b.start, need_frames(b.bytes))
    /\ live' = live \ {b}
    /\ UNCHANGED <<map, frame_end, pc, off, released, req, start, ret>>

Loops ==
    \/ init_descriptor \/ init_done
    \/ release_descriptor \/ release_done
    \/ find_run_hit \/ find_run_next \/ find_run_fail

Next ==
    \/ Loops
    \/ release_call
    \/ \E r \in Requests : alloc_call(r)
    \/ \E b \in live : page_free_bytes(b)

Spec == Init /\ [][Next]_vars

\* A call runs to its return; nobody is obliged to call.
FairSpec == Spec /\ WF_vars(Loops)
-----------------------------------------------------------------------------
(* Types: g_bitmap and g_frame_end stay within the bitmap's FrameCount frames
   (the clip at MAX_PHYS_SIZE), and the loops within the map. *)
TypeOK ==
    /\ map \in Maps
    /\ used \subseteq Frame
    /\ frame_end \in 1 .. FrameCount
    /\ pc \in {"init", "ready", "find_run", "release"}
    /\ off \in 1 .. Len(map) + 1
    /\ released \in BOOLEAN
    /\ req \in [bytes : Nat, needed : Nat, align : Nat \ {0}]
    /\ start \in Nat
    /\ live \subseteq Block
    /\ ret \in Nat

\* The frames the allocator may own at this point of its walks.
Pool ==
    IF pc = "init" THEN UsableUpTo(map, off - 1)
    ELSE Usable(map) \cup
         (IF released THEN BootData(map)
          ELSE IF pc = "release" THEN BootDataUpTo(map, off - 1) ELSE {})

(* No frame is lost and none is stolen: at every point of every walk and
   scan, a bit is set exactly for the frames outside the pool and the frames of
   live blocks.  In particular the release walk never frees a frame in use. *)
Accounting == used = (Frame \ Pool) \cup LiveFrames

\* Two live blocks share no frame.
LiveDisjoint ==
    \A b, c \in live : b # c => Run(b.start, b.frames) \cap Run(c.start, c.frames) = {}

\* Every live block lies in pool memory below frame_end and starts above frame 0.
LiveInPool ==
    \A b \in live :
        /\ b.start >= frame_begin
        /\ Run(b.start, b.frames) \subseteq Pool \cap (0 .. frame_end - 1)

(* Whatever the order of allocations, frees and the release of boot services
   data, page_alloc.c never gives a frame to two callers, nor firmware, loader
   or reserved memory, nor address 0 to any. *)
LiveSound == LiveDisjoint /\ LiveInPool

Aligned(s, a) == s % a = 0

(* find_run's skipping (restart past the used frame, re-aligned) never
   jumps over a run that would have fitted, so a NULL means there was none and
   a success is the lowest one. *)
NothingSkipped ==
    pc = "find_run" =>
        \A s \in frame_begin .. FrameCount :
            (Aligned(s, req.align) /\ s + req.needed <= frame_end
               /\ Run(s, req.needed) \cap used = {}) => start <= s

(* A block starts on a multiple of the alignment in frames and holds at least
   the bytes asked for, unless rounding them up to frames overflowed. *)
CoversUnlessWrapped ==
    \A b \in live :
        /\ Aligned(b.start, b.align)
        /\ b.bytes + PageSize - 1 < WordSize => b.frames * PageSize >= b.bytes

\* What the proofs need beside the properties above to go from step to step.
Bookkeeping ==
    /\ Pool \subseteq 0 .. frame_end - 1
    /\ pc = "init" => live = {} /\ ~released
    /\ pc # "init" => frame_end >= frame_begin + 1
    /\ pc = "release" => ~released
    /\ pc = "find_run" => /\ req \in Requests
                          /\ start >= frame_begin
                          /\ Aligned(start, req.align)
                          /\ req.needed = 0 => start = frame_begin
    /\ ~released => \A b \in live : Run(b.start, b.frames) \subseteq Usable(map)
    /\ \A b \in live : b.frames = need_frames(b.bytes) /\ Aligned(b.start, b.align)

(* The inductive invariant of the allocator. *)
IInv ==
    /\ TypeOK
    /\ Bookkeeping
    /\ Accounting
    /\ LiveDisjoint
    /\ LiveInPool
    /\ NothingSkipped

(* Every call of an allocation returns: the scan moves forward past each
   used frame it meets. *)
CallsReturn == []<>(pc = "ready")

\* The refinement: the loops are invisible, the bitmap becomes the set of free frames.
FA == INSTANCE FrameAlloc WITH
        phase <- IF pc = "init" THEN "boot" ELSE IF released THEN "released" ELSE "running",
        avail <- IF pc = "init" THEN {} 
                 ELSE IF pc = "release" THEN Avail \ BootData(map) ELSE Avail

(* The bitmap allocator implements the atomic first-fit allocator. *)
Refines == FA!Spec
=============================================================================
