----------------------------- MODULE FrameAlloc -----------------------------
(***************************************************************************)
(* What the page allocator promises its callers: a pool of free frames, a  *)
(* set of live blocks, and an allocation that takes the lowest suitably    *)
(* aligned free run in one step.  No bitmap, no frame_end, no loops.       *)
(***************************************************************************)
EXTENDS Frames

CONSTANTS Requests   \* [bytes, needed, align] triples a caller may ask for

VARIABLES
    map,     \* the memory map the kernel was booted with
    phase,   \* "boot", "running" or "released"
    avail,   \* frames that may be handed out
    live,    \* blocks handed out and not yet freed
    ret      \* first frame of the last block handed out, 0 for NULL

vars == <<map, phase, avail, live, ret>>

Fits(needed, align) ==
    {s \in frame_begin .. FrameCount : s % align = 0 /\ Run(s, needed) \subseteq avail}

Init ==
    /\ map \in Maps
    /\ phase = "boot"
    /\ avail = {}
    /\ live = {}
    /\ ret = 0

Boot ==
    /\ phase = "boot"
    /\ phase' = "running"
    /\ avail' = Usable(map) \ {0}
    /\ UNCHANGED <<map, live, ret>>

Alloc(r) ==
    /\ phase # "boot"
    /\ \E s \in Fits(r.needed, r.align) :
        /\ \A t \in Fits(r.needed, r.align) : s <= t
        /\ avail' = avail \ Run(s, r.needed)
        /\ live' = live \cup {[start |-> s, frames |-> r.needed, bytes |-> r.bytes, align |-> r.align]}
        /\ ret' = s
    /\ UNCHANGED <<map, phase>>

Fail(r) ==
    /\ phase # "boot"
    /\ Fits(r.needed, r.align) = {}
    /\ ret' = 0
    /\ UNCHANGED <<map, phase, avail, live>>

Free(b) ==
    /\ phase # "boot"
    /\ avail' = avail \cup Run(b.start, b.frames)
    /\ live' = live \ {b}
    /\ UNCHANGED <<map, phase, ret>>

\* The boot services data joins the pool, once, whole, and none of it is in use.
Release ==
    /\ phase = "running"
    /\ phase' = "released"
    /\ BootData(map) \cap (avail \cup UNION {Run(b.start, b.frames) : b \in live}) = {}
    /\ avail' = avail \cup (BootData(map) \ {0})
    /\ UNCHANGED <<map, live, ret>>

Next ==
    \/ Boot \/ Release
    \/ \E r \in Requests : Alloc(r) \/ Fail(r)
    \/ \E b \in live : Free(b)

Spec == Init /\ [][Next]_vars
=============================================================================
