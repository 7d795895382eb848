------------------------------- MODULE Paging -------------------------------
(***************************************************************************)
(* kernel/arch/x86/paging.c in kernelMain's order: page_allocator_init,    *)
(* paging_reconstruct_and_mark, the release of boot services data, then    *)
(* clients that allocate, overwrite and free frames.  The recursion of     *)
(* clone_lv3, clone_lv2 and clone_lv1 is an explicit stack, one table      *)
(* entry per step, so every point at which an allocation can fail is one.  *)
(* The page allocator is FrameAlloc, which PageAlloc implements.           *)
(***************************************************************************)
EXTENDS Frames

CONSTANTS
    PT_ENTRIES,     \* entries of a table (512)
    DirectIdx,      \* idx_lv4(DIRECT_MAP_BASE)
    OldRoot,        \* frame of the firmware's level-4 table
    OldMems,        \* contents of memory the firmware may leave behind
    ClientPages     \* page counts clients ask for

Idx == 0 .. PT_ENTRIES - 1
PTE == [p : BOOLEAN, ps : BOOLEAN, pa : Nat, fl : STRING]
NotPresent == [p |-> FALSE, ps |-> FALSE, pa |-> 0, fl |-> "none"]
\* A clone function at work: its level, its copy, the next entry.
Activation == [lvl : 1 .. 4, tbl : Frame, i : 0 .. PT_ENTRIES]
ZeroTable == [i \in Idx |-> NotPresent]
\* What a client writes over a frame it owns: present entries to nowhere.
Junk == [i \in Idx |-> [p |-> TRUE, ps |-> TRUE, pa |-> 0, fl |-> "junk"]]

VARIABLES
    map, phase, avail, pages, frame,   \* the page allocator
    mem0,            \* memory as the firmware left it (never changes)
    mem,             \* memory: each frame read as a page table
    cr3,
    reconstructed,   \* g_mapping_reconstructed
    new_lv4,         \* g_new_lv4
    pc,
    stack,           \* the clone recursion: [lvl, tbl, i] per activation
    held,            \* ghost: blocks the rest of the kernel holds
    copies           \* ghost: the tables made, [lvl, src]: a copy, for level lvl, of
                     \* the firmware's table src; lvl 0 for the direct map's

PA == INSTANCE FrameAlloc WITH Requests <- {}, live <- pages, ret <- frame

alloc == <<map, phase, avail, pages, frame>>
vars  == <<alloc, mem0, mem, cr3, reconstructed, new_lv4, pc, stack, held, copies>>

\* The ghost's record of a new table.
Made(f, lvl, src) ==
    copies' = [g \in DOMAIN copies \cup {f} |-> IF g = f THEN [lvl |-> lvl, src |-> src] ELSE copies[g]]

OnePage == [bytes |-> PageSize, needed |-> 1, align |-> 1]

Init ==
    /\ PA!Init
    /\ mem0 \in OldMems
    /\ mem = mem0
    /\ cr3 = OldRoot
    /\ reconstructed = FALSE
    /\ new_lv4 = 0
    /\ pc = "page_allocator_init"
    /\ stack = <<>>
    /\ held = {}
    /\ copies = <<>>

page_allocator_init ==
    /\ pc = "page_allocator_init"
    /\ PA!Boot
    /\ pc' = "alloc_lv4"
    /\ UNCHANGED <<mem0, mem, cr3, reconstructed, new_lv4, stack, held, copies>>

alloc_lv4 ==
    /\ pc = "alloc_lv4"
    /\ PA!Alloc(OnePage)
    /\ new_lv4' = frame'
    /\ mem' = [mem EXCEPT ![frame'] = ZeroTable]
    /\ pc' = "map_direct"
    /\ Made(frame', 4, cr3)
    /\ UNCHANGED <<mem0, cr3, reconstructed, stack, held>>

\* Mutant: every entry maps the first gigabyte.
Mutant_DirectTable_flat == [i \in Idx |-> [p |-> TRUE, ps |-> TRUE, pa |-> 0, fl |-> "rw"]]

\* One level-3 table of 1 GiB pages, linked from the new level-4 table.
DirectTable == [i \in Idx |-> [p |-> TRUE, ps |-> TRUE, pa |-> i, fl |-> "rw"]]

map_direct_region_1g ==
    /\ pc = "map_direct"
    /\ PA!Alloc(OnePage)
    /\ mem' = [mem EXCEPT ![frame'] = DirectTable,
                          ![new_lv4][DirectIdx] = [p |-> TRUE, ps |-> FALSE, pa |-> frame', fl |-> "rwnx"]]
    /\ stack' = << [lvl |-> 4, tbl |-> new_lv4, i |-> DirectIdx + 1] >>
    /\ pc' = "clone"
    /\ Made(frame', 0, 0)
    /\ UNCHANGED <<mem0, cr3, reconstructed, new_lv4, held>>

Top == stack[Len(stack)]
\* Mutant: the loop counter does not move.
Mutant_SetTop_stuck(f) == stack

SetTop(f) == [stack EXCEPT ![Len(stack)] = f]

\* The entry the loop looks at: level 4 reads the old table, the others their copy.
Entry == IF Top.lvl = 4 THEN mem[cr3][Top.i] ELSE mem[Top.tbl][Top.i]

\* Mutant: level-1 tables stay shared with the firmware's.
Mutant_Descends_shallow == Entry.p /\ Top.lvl > 2 /\ (Top.lvl = 4 \/ ~Entry.ps)

\* A level-1 table is copied whole; a large page is a leaf at levels 2 and 3.
Descends == Entry.p /\ Top.lvl > 1 /\ (Top.lvl = 4 \/ ~Entry.ps)

clone_skip ==
    /\ pc = "clone"
    /\ Top.i < PT_ENTRIES
    /\ ~Descends
    /\ stack' = SetTop([Top EXCEPT !.i = @ + 1])
    /\ UNCHANGED <<alloc, mem0, mem, cr3, reconstructed, new_lv4, pc, held, copies>>

\* Mutant: a level calls itself instead of the level below.
Mutant_clone_call_same_level ==
    /\ pc = "clone"
    /\ Top.i < PT_ENTRIES
    /\ Descends
    /\ PA!Alloc(OnePage)
    /\ mem' = [mem EXCEPT ![frame'] = mem[Entry.pa]]
    /\ stack' = Append(stack, [lvl |-> Top.lvl, tbl |-> frame', i |-> 0])
    /\ Made(frame', Top.lvl, Entry.pa)
    /\ UNCHANGED <<mem0, cr3, reconstructed, new_lv4, pc, held>>

\* Call of clone_lv3, clone_lv2 or clone_lv1: allocate, zero, memcpy, loop.
clone_call ==
    /\ pc = "clone"
    /\ Top.i < PT_ENTRIES
    /\ Descends
    /\ PA!Alloc(OnePage)
    /\ mem' = [mem EXCEPT ![frame'] = mem[Entry.pa]]
    /\ stack' = Append(stack, [lvl |-> Top.lvl - 1, tbl |-> frame', i |-> 0])
    /\ Made(frame', Top.lvl - 1, Entry.pa)
    /\ UNCHANGED <<mem0, cr3, reconstructed, new_lv4, pc, held>>

\* Its return: the caller's entry is pointed at the copy, flags kept.
clone_return ==
    /\ pc = "clone"
    /\ Len(stack) > 1
    /\ Top.i = PT_ENTRIES
    /\ LET caller == stack[Len(stack) - 1]
           pte == IF caller.lvl = 4 THEN mem[cr3][caller.i] ELSE mem[caller.tbl][caller.i]
       IN  /\ mem' = [mem EXCEPT ![caller.tbl][caller.i] = [pte EXCEPT !.pa = Top.tbl]]
           /\ stack' = [SubSeq(stack, 1, Len(stack) - 1) EXCEPT ![Len(stack) - 1].i = @ + 1]
    /\ UNCHANGED <<alloc, mem0, cr3, reconstructed, new_lv4, pc, held, copies>>

\* alloc_pt_zeroed returned NULL: -1 all the way up, kernelMain halts.
out_of_frames ==
    /\ \/ pc \in {"alloc_lv4", "map_direct"}
       \/ pc = "clone" /\ Top.i < PT_ENTRIES /\ Descends
    /\ PA!Fail(OnePage)
    /\ pc' = "halted"
    /\ UNCHANGED <<mem0, mem, cr3, reconstructed, new_lv4, stack, held, copies>>

write_cr3 ==
    /\ pc = "clone"
    /\ Len(stack) = 1
    /\ Top.i = PT_ENTRIES
    /\ cr3' = new_lv4
    /\ stack' = <<>>
    /\ pc' = "switched"
    /\ UNCHANGED <<alloc, mem0, mem, reconstructed, new_lv4, held, copies>>

paging_mark_reconstructed ==
    /\ pc = "switched"
    /\ reconstructed' = TRUE
    /\ pc' = "release"
    /\ UNCHANGED <<alloc, mem0, mem, cr3, new_lv4, stack, held, copies>>

release_boot_services_data ==
    /\ pc = "release"
    /\ PA!Release
    /\ pc' = "running"
    /\ UNCHANGED <<mem0, mem, cr3, reconstructed, new_lv4, stack, held, copies>>

\* The rest of the kernel: it owns, and overwrites, what it allocates.
client_alloc(n) ==
    /\ pc = "running"
    /\ LET r == [bytes |-> n * PageSize, needed |-> n, align |-> 1] IN
        \/ /\ PA!Alloc(r)
           /\ mem' = [f \in Frame |-> IF f \in Run(frame', n) THEN Junk ELSE mem[f]]
           /\ held' = held \cup (pages' \ pages)
        \/ /\ PA!Fail(r)
           /\ UNCHANGED <<mem, held>>
    /\ UNCHANGED <<mem0, cr3, reconstructed, new_lv4, pc, stack, copies>>

\* Clients free what they allocated; page tables are never freed.
client_free(b) ==
    /\ pc = "running"
    /\ PA!Free(b)
    /\ held' = held \ {b}
    /\ UNCHANGED <<mem0, mem, cr3, reconstructed, new_lv4, pc, stack, copies>>

BootSteps ==
    \/ page_allocator_init \/ alloc_lv4 \/ map_direct_region_1g
    \/ clone_skip \/ clone_call \/ clone_return \/ out_of_frames
    \/ write_cr3 \/ paging_mark_reconstructed \/ release_boot_services_data

Next ==
    \/ BootSteps
    \/ \E n \in ClientPages : client_alloc(n)
    \/ \E b \in held : client_free(b)

\* kernelMain runs on; what the clients do is up to them.
Spec == Init /\ [][Next]_vars /\ WF_vars(BootSteps)
-----------------------------------------------------------------------------
\* One level of the processor's walk: w is what it knows, i its index into w's table.
Read(m, w, i) ==
    IF w.kind # "table" THEN w
    ELSE LET e == m[w.e.pa][i] IN
         IF ~e.p THEN [kind |-> "fault", lvl |-> w.lvl, e |-> NotPresent]
         ELSE IF w.lvl = 1 \/ (e.ps /\ w.lvl < 4) THEN [kind |-> "page", lvl |-> w.lvl, e |-> e]
         ELSE [kind |-> "table", lvl |-> w.lvl - 1, e |-> e]

\* The walk of va = <<l1, l2, l3, l4>> from root: the leaf entry and its level, or a fault.
Walk(m, root, va) ==
    LET w4 == [kind |-> "table", lvl |-> 4, e |-> [NotPresent EXCEPT !.pa = root]]
        w3 == Read(m, w4, va[4])
        w2 == Read(m, w3, va[3])
        w1 == Read(m, w2, va[2])
    IN  Read(m, w1, va[1])

\* Where the kernel looks for the 1 GiB of physical memory number g.
phys2virt(g) == <<0, 0, g, IF reconstructed THEN DirectIdx ELSE 0>>

VA == {<<l1, l2, l3, l4>> : l1 \in Idx, l2 \in Idx, l3 \in Idx, l4 \in Idx}
KernelVA == {va \in VA : va[4] > DirectIdx}

\* Tables that entries of the tables S of level l point to.
Kids(m, S, l) ==
    {m[t[1]][t[2]].pa : t \in {u \in S \X Idx : m[u[1]][u[2]].p /\ (l = 4 \/ ~m[u[1]][u[2]].ps)}}

\* Tables of each level the processor can reach from root, and all of them.
Level(m, root, l) ==
    LET l3 == Kids(m, {root}, 4)
        l2 == Kids(m, l3, 3)
    IN  CASE l = 4 -> {root} [] l = 3 -> l3 [] l = 2 -> l2 [] l = 1 -> Kids(m, l2, 2)
TablesFrom(m, root) == UNION {Level(m, root, l) : l \in 1 .. 4}

\* The tables the firmware leaves: in memory whose type says it is in use until boot
\* services end, with the identity map UEFI promises in level-4 entry 0.
ASSUME FirmwareAssumption ==
    /\ PT_ENTRIES \in Nat \ {0} /\ DirectIdx \in Idx /\ OldRoot \in Frame
    /\ \A m \in OldMems :
        /\ m \in [Frame -> [Idx -> PTE]]
        /\ TablesFrom(m, OldRoot) \subseteq Frame
        /\ \A mp \in Maps : \A i \in 1 .. Len(mp) :
            mp[i].type \in {"Conventional", "BootServicesCode"} =>
                TablesFrom(m, OldRoot) \cap desc_frames(mp[i]) = {}
        /\ \A g \in Idx : LET t == Walk(m, OldRoot, <<0, 0, g, 0>>)
                          IN  t.kind = "page" /\ t.lvl = 3 /\ t.e.pa = g

(* Types: the activations of the clone functions are at levels 4, 3, 2, 1 in
   this order, and what the kernel holds the page allocator has handed out. *)
TypeOK ==
    /\ cr3 \in Frame /\ new_lv4 \in Frame
    /\ pc \in {"page_allocator_init", "alloc_lv4", "map_direct", "clone", "switched",
               "release", "running", "halted"}
    /\ held \subseteq pages
    /\ stack \in Seq(Activation)
    /\ \A k \in 1 .. Len(stack) : stack[k].lvl = 5 - k

(* The kernel's own half of the address space translates to the same pages,
   with the same flags, in every state: while it is being cloned, across the
   CR3 switch, after the firmware's tables are given away and overwritten. *)
KernelAlwaysMapped ==
    \A va \in KernelVA : Walk(mem, cr3, va) = Walk(mem0, OldRoot, va)

\* No table the processor may walk is free memory or a client's memory.
TablesOwned ==
    TablesFrom(mem, cr3) \cap (avail \cup UNION {Run(b.start, b.frames) : b \in held}) = {}

\* Once CR3 is switched no table lies in boot services data or is one of the firmware's.
NewTablesApart ==
    cr3 # OldRoot =>
        TablesFrom(mem, cr3) \cap (BootData(map) \cup TablesFrom(mem0, OldRoot)) = {}

(* From the first clone to the release and after, nobody else is given the
   memory of a table the processor may walk, and after the switch none is left
   that the release of boot services data may give away. *)
TablesKept == TablesOwned /\ NewTablesApart

(* phys2virt yields an address that the CR3 in force maps to that physical
   address, whenever code that dereferences it can run: the flag and CR3
   change in two steps and nothing allocates in between. *)
PhysReachable ==
    pc # "switched" =>
        \A l3 \in Idx :
            LET t == Walk(mem, cr3, phys2virt(l3))
            IN  t.kind = "page" /\ t.lvl = 3 /\ t.e.pa = l3

\* The inductive invariant of the proofs, part by part.
Cloning == pc \in {"clone", "switched", "release", "running"}
New == pc \in {"switched", "release", "running"}

\* Where the boot is, and what it has set by then.
Position ==
    /\ map \in Maps /\ mem0 \in OldMems
    /\ pc = "page_allocator_init" <=> phase = "boot"
    /\ phase = "released" <=> pc = "running"
    /\ cr3 = IF New THEN new_lv4 ELSE OldRoot
    /\ reconstructed <=> pc \in {"release", "running"}
    /\ New => stack = <<>>
    /\ pc = "clone" => stack # <<>>
    /\ pc # "running" => held = {}
    /\ pc \in {"page_allocator_init", "alloc_lv4"} => DOMAIN copies = {}
    /\ pc \in {"page_allocator_init", "alloc_lv4", "map_direct"} => stack = <<>>
    /\ pc = "map_direct" => mem[new_lv4] = ZeroTable
    /\ pc = "map_direct" \/ Cloning =>
            new_lv4 \in DOMAIN copies /\ copies[new_lv4].lvl = 4 /\ copies[new_lv4].src = OldRoot

\* Tables lie in memory usable from the start that nobody else has.
TablesApart ==
    /\ DOMAIN copies \subseteq Usable(map) \ avail
    /\ avail \subseteq Frame
    /\ pc # "running" => avail \subseteq Usable(map)
    /\ \A b \in held : Run(b.start, b.frames) \subseteq Frame \ DOMAIN copies

\* Memory: what is not a table of the kernel's is as the firmware left it, until clients run.
Contents ==
    /\ DOMAIN mem = Frame
    /\ \A f \in Frame : DOMAIN mem[f] = Idx
    /\ pc # "running" => \A f \in Frame \ DOMAIN copies : mem[f] = mem0[f]

\* The activations work on copies, each of the table its caller's entry points to.
Activations ==
    /\ Len(stack) \in 0 .. 4
    /\ \A k \in 1 .. Len(stack) :
        LET a == stack[k]
        IN  /\ a.tbl \in DOMAIN copies /\ copies[a.tbl].lvl = 5 - k
            /\ k = 1 => a.tbl = new_lv4 /\ a.i > DirectIdx
            /\ k < Len(stack) =>
                LET o == mem0[copies[a.tbl].src][a.i]
                IN  /\ a.i < PT_ENTRIES /\ o.p /\ (k = 1 \/ ~o.ps)
                    /\ copies[stack[k + 1].tbl].src = o.pa

\* The loop of the activation that copies t, if one is under way, is past entry i.
Done(t, i) == \A k \in 1 .. Len(stack) : stack[k].tbl = t => i < stack[k].i

\* e is o, pointed at the copy of the table o points to.
Repointed(e, o, lvl) ==
    /\ e.p /\ e.ps = o.ps /\ e.fl = o.fl
    /\ e.pa \in DOMAIN copies /\ copies[e.pa].lvl = lvl - 1 /\ copies[e.pa].src = o.pa

\* Entry i of a copy t of level 1, 2 or 3, against the entry it was copied from.
CopiedEntry(t, i) ==
    LET o == mem0[copies[t].src][i]
    IN  IF Done(t, i) /\ o.p /\ copies[t].lvl > 1 /\ ~o.ps
        THEN Repointed(mem[t][i], o, copies[t].lvl) ELSE mem[t][i] = o

\* Entry i of the new level-4 table: the direct map's slot, above it the kernel's half.
RootEntry(i) ==
    LET o == mem0[OldRoot][i]
        e == mem[new_lv4][i]
    IN  IF i = DirectIdx
        THEN e.p /\ e.pa \in DOMAIN copies /\ copies[e.pa].lvl = 0
        ELSE IF i > DirectIdx /\ Done(new_lv4, i) /\ o.p
        THEN Repointed(e, o, 4)
        ELSE ~e.p

Copied ==
    /\ \A t \in DOMAIN copies :
        /\ copies[t].lvl \in 0 .. 4
        /\ copies[t].lvl = 0 => mem[t] = DirectTable
        /\ copies[t].lvl = 4 => t = new_lv4
        /\ copies[t].lvl \in 1 .. 3 =>
                copies[t].src \in Level(mem0, OldRoot, copies[t].lvl) /\ \A i \in Idx : CopiedEntry(t, i)
    /\ Cloning => \A i \in Idx : RootEntry(i)

IInv == TypeOK /\ Position /\ TablesApart /\ Contents /\ Activations /\ Copied

(* The recursion ends: the kernel runs, or halts for lack of frames. *)
BootEnds == <>(pc \in {"running", "halted"})
=============================================================================
