------------------------------- MODULE Frames -------------------------------
(***************************************************************************)
(* Physical memory as the kernel's allocators see it: 4 KiB frames, the    *)
(* UEFI memory map, and the byte/frame conversions of kernel/page_alloc.c. *)
(*                                                                         *)
(* A descriptor carries its first frame and its page count: UEFI           *)
(* descriptors are page aligned, so phys_to_frame(PhysicalStart) is exact. *)
(* Sizes in bytes keep the width of size_t: WordSize stands for 2^64.      *)
(***************************************************************************)
EXTENDS Integers, Sequences

CONSTANTS
    FrameCount,   \* MAX_PHYS_SIZE / FRAME_SIZE: frames the bitmap can describe
    PageSize,     \* PAGE_SIZE
    WordSize,     \* 2^64 in the code: size_t arithmetic wraps at this value
    Maps          \* the memory maps the firmware may hand over

Frame == 0 .. FrameCount - 1

MemType == {"Conventional", "BootServicesCode", "BootServicesData", "LoaderData"}

Descriptor == [type : MemType, start : Nat, pages : Nat]

\* Mutant: boot services data counted as usable from the start.
Mutant_usable_boot_data(t) == t \in {"Conventional", "BootServicesCode", "BootServicesData"}

is_usable_type(t) == t \in {"Conventional", "BootServicesCode"}

\* Mutant: the clip to the bitmap is forgotten.
Mutant_desc_end_unclipped(d) == d.start + d.pages

\* fN of the descriptor loops: the end of d, clipped to the bitmap.
desc_end(d) ==
    IF d.start + d.pages > FrameCount THEN FrameCount ELSE d.start + d.pages

\* [f0, fN) of the descriptor loops; empty when the loop skips d.
desc_frames(d) == {f \in Frame : d.start <= f /\ f < desc_end(d)}

\* Frames of the first n descriptors of m that are usable, resp. boot data.
UsableUpTo(m, n) ==
    {f \in Frame : \E i \in 1 .. n : is_usable_type(m[i].type) /\ f \in desc_frames(m[i])}
BootDataUpTo(m, n) ==
    {f \in Frame : \E i \in 1 .. n : m[i].type = "BootServicesData" /\ f \in desc_frames(m[i])}

Usable(m)   == UsableUpTo(m, Len(m))
BootData(m) == BootDataUpTo(m, Len(m))

\* g_frame_begin: frame 0 is reserved, so physical address 0 is free to be NULL.
frame_begin == 1

\* Mutant: rounds down.
Mutant_need_frames_floor(nbytes) == nbytes \div PageSize

\* (nbytes + PAGE_SIZE - 1) / PAGE_SIZE in size_t arithmetic.
need_frames(nbytes) == ((nbytes + PageSize - 1) % WordSize) \div PageSize

\* The alignment find_run works with: page_alloc_pages converts bytes to frames
\* only above a page, and find_run replaces 0 by 1.
align_frames(align_bytes) ==
    LET a == IF align_bytes > PageSize THEN need_frames(align_bytes) ELSE 1
    IN  IF a = 0 THEN 1 ELSE a

\* Mutant: moves past a value that is aligned already.
Mutant_AlignUp_strict(x, a) == (x \div a + 1) * a

AlignUp(x, a) == ((x + a - 1) \div a) * a

Run(s, n) == s .. s + n - 1

ASSUME FramesAssumption ==
    /\ FrameCount \in Nat /\ FrameCount >= 2
    /\ PageSize \in Nat \ {0}
    /\ WordSize \in Nat /\ WordSize >= FrameCount * PageSize

\* The firmware's descriptors never overlap (UEFI specification, GetMemoryMap).
ASSUME MapsAssumption ==
    \A m \in Maps :
        /\ m \in Seq(Descriptor)
        /\ \A i, j \in DOMAIN m : i # j => desc_frames(m[i]) \cap desc_frames(m[j]) = {}
=============================================================================
