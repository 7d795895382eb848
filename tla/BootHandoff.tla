---------------------------- MODULE BootHandoff -----------------------------
(***************************************************************************)
(* The hand-off from firmware to kernel: efi_main (bootloader/boot.c), the *)
(* memory map code (bootloader/memmap.c) and the kernel's snapshot of what *)
(* it was handed (kernel/bootinfo.c).  The firmware may change its memory  *)
(* map between any two calls (a timer event, or the allocation the loader  *)
(* itself makes), which changes the map's key and size.                    *)
(*                                                                         *)
(* A memory map is abstracted to its key and size, and a buffer holds the  *)
(* map last written to it.  Sizes are counted in descriptors.              *)
(***************************************************************************)
EXTENDS Integers, FiniteSets

CONSTANTS
    BufSize,     \* capacity of memmap_init's four pages
    Slack,       \* what memmap_refresh adds: two descriptors and a page
    SnapSize,    \* capacity of BOOTINFO_MM_BUF_BYTES
    MapSizes,    \* sizes the firmware's map may have
    MaxKey       \* bound: the firmware changes its map at most this often

ASSUME HandoffAssumption ==
    /\ BufSize \in Nat \ {0} /\ Slack \in Nat \ {0} /\ SnapSize \in Nat
    /\ MapSizes \subseteq Nat \ {0} /\ MaxKey \in Nat \ {0}

VARIABLES
    fw,        \* firmware: key and size of the current map
    bufs,      \* pool: live buffers
    content,   \* the map each buffer was last filled with
    next,      \* name of the next buffer
    mm,        \* the loader's MEMORY_MAP
    bi,        \* BOOT_INFO.memory_map: the copy handed to the kernel
    pc,        \* step of efi_main, or of the refresh it is in
    site,      \* which refresh: "first", or "exit", "retry" of exit_boot_services_with_map
    snap       \* the kernel's snapshot: rc, and the copied map

vars == <<fw, bufs, content, next, mm, bi, pc, site, snap>>

\* buf is the descriptors pointer, 0 for NULL.
NoMap == [buf |-> 0, buffer_size |-> 0, map_size |-> 0, key |-> 0]
NoSnap == [rc |-> 1, size |-> 0]
Empty == [key |-> 0, size |-> 0]

Init ==
    /\ \E n \in MapSizes : fw = [key |-> 1, size |-> n]
    /\ bufs = {}
    /\ content = [b \in {0} |-> Empty]
    /\ next = 1
    /\ mm = NoMap
    /\ bi = NoMap
    /\ pc = "load_kernel"
    /\ site = "first"
    /\ snap = NoSnap

BootServices == pc \notin {"kernel", "kernel_up", "halted"}

\* The firmware changes its map, on its own or because of a call it served.
Touched == fw' = fw \/ (fw.key < MaxKey /\ \E n \in MapSizes : fw' = [key |-> fw.key + 1, size |-> n])

firmware_event ==
    /\ BootServices
    /\ Touched
    /\ fw' # fw
    /\ UNCHANGED <<bufs, content, next, mm, bi, pc, site, snap>>

halt ==
    /\ pc' = "halted"

\* init_file, OpenRoot, load_kernel_elf, CloseRoot.  The loader stops when the file
\* system cannot be opened (efi_main returns) or the load fails (it stalls for ever).
load_kernel ==
    /\ pc = "load_kernel"
    /\ pc' \in {"memmap_init", "halted"}
    /\ Touched
    /\ UNCHANGED <<bufs, content, next, mm, bi, site, snap>>

\* BS->AllocatePool(EfiLoaderData): a fresh buffer, or an error.
AllocatePool ==
    /\ Touched
    /\ bufs' = bufs \cup {next}
    /\ content' = [b \in DOMAIN content \cup {next} |-> IF b = next THEN Empty ELSE content[b]]
    /\ next' = next + 1

AllocatePoolFails == UNCHANGED <<fw, bufs, content, next>>

memmap_init ==
    /\ pc = "memmap_init"
    /\ \/ /\ AllocatePool
          /\ mm' = [buf |-> next, buffer_size |-> BufSize, map_size |-> BufSize, key |-> 0]
          /\ pc' = "refresh"
       \/ /\ AllocatePoolFails
          /\ mm' = [NoMap EXCEPT !.buffer_size = BufSize, !.map_size = BufSize]
          /\ halt
    /\ UNCHANGED <<bi, site, snap>>

(* ---- memmap_refresh ---- *)

\* Where a successful refresh returns to, and where its error leads.
Returns == IF site = "first" THEN "fill_bootinfo" ELSE "exit_boot_services"

\* GetMemoryMap into the buffer at hand: fits, too small, or another error.
refresh_get ==
    /\ pc = "refresh"
    /\ \/ /\ fw.size <= mm.buffer_size
          /\ content' = [content EXCEPT ![mm.buf] = fw]
          /\ mm' = [mm EXCEPT !.map_size = fw.size, !.key = fw.key]
          /\ pc' = Returns
       \/ /\ fw.size > mm.buffer_size
          /\ mm' = [mm EXCEPT !.buffer_size = fw.size + Slack, !.map_size = fw.size + Slack]
          /\ pc' = "refresh_free"
          /\ UNCHANGED content
       \/ /\ mm' = [mm EXCEPT !.map_size = mm.buffer_size]
          /\ halt
          /\ UNCHANGED content
    /\ UNCHANGED <<fw, bufs, next, bi, site, snap>>

\* Mutants: the pointer is not reset, or the buffer is not freed.
Mutant_refresh_free_dangling ==
    /\ pc = "refresh_free"
    /\ bufs' = bufs \ {mm.buf}
    /\ Touched
    /\ pc' = "refresh_alloc"
    /\ UNCHANGED <<content, next, mm, bi, site, snap>>
Mutant_refresh_free_leaks ==
    /\ pc = "refresh_free"
    /\ mm' = [mm EXCEPT !.buf = 0]
    /\ Touched
    /\ pc' = "refresh_alloc"
    /\ UNCHANGED <<bufs, content, next, bi, site, snap>>

refresh_free ==
    /\ pc = "refresh_free"
    /\ bufs' = bufs \ {mm.buf}
    /\ mm' = [mm EXCEPT !.buf = 0]
    /\ Touched
    /\ pc' = "refresh_alloc"
    /\ UNCHANGED <<content, next, bi, site, snap>>

refresh_alloc ==
    /\ pc = "refresh_alloc"
    /\ \/ /\ AllocatePool
          /\ mm' = [mm EXCEPT !.buf = next]
          /\ pc' = "refresh_get2"
       \/ /\ AllocatePoolFails
          /\ halt
          /\ UNCHANGED mm
    /\ UNCHANGED <<bi, site, snap>>

\* The second GetMemoryMap: its result is the refresh's, too small and any other
\* error included.
refresh_get2 ==
    /\ pc = "refresh_get2"
    /\ \/ /\ fw.size <= mm.map_size
          /\ content' = [content EXCEPT ![mm.buf] = fw]
          /\ mm' = [mm EXCEPT !.map_size = fw.size, !.key = fw.key]
          /\ pc' = Returns
       \/ /\ fw.size > mm.map_size
          /\ mm' = [mm EXCEPT !.map_size = fw.size]
          /\ halt
          /\ UNCHANGED content
       \/ halt /\ UNCHANGED <<mm, content>>
    /\ UNCHANGED <<fw, bufs, next, bi, site, snap>>

(* ---- efi_main, continued ---- *)

\* BOOT_INFO is filled from mm, then exit_boot_services_with_map refreshes mm.
fill_bootinfo ==
    /\ pc = "fill_bootinfo"
    /\ bi' = mm
    /\ site' = "exit"
    /\ pc' = "refresh"
    /\ UNCHANGED <<fw, bufs, content, next, mm, snap>>

\* Mutants: the retry's result is not looked at; the retry reuses the old key.
Mutant_exit_unchecked ==
    /\ pc = "exit_boot_services"
    /\ \/ /\ mm.key = fw.key \/ site = "retry"
          /\ pc' = "kernel"
          /\ UNCHANGED site
       \/ /\ mm.key # fw.key /\ site = "exit"
          /\ site' = "retry" /\ pc' = "refresh"
    /\ UNCHANGED <<fw, bufs, content, next, mm, bi, snap>>
Mutant_exit_same_key ==
    /\ pc = "exit_boot_services"
    /\ mm.key = fw.key
    /\ pc' = "kernel"
    /\ UNCHANGED <<fw, bufs, content, next, mm, bi, site, snap>>

\* ExitBootServices takes the key of the current map and no other.
exit_boot_services ==
    /\ pc = "exit_boot_services"
    /\ \/ /\ mm.key = fw.key
          /\ pc' = "kernel"
          /\ UNCHANGED site
       \/ /\ mm.key # fw.key
          /\ IF site = "exit" THEN site' = "retry" /\ pc' = "refresh"
                              ELSE halt /\ UNCHANGED site
    /\ UNCHANGED <<fw, bufs, content, next, mm, bi, snap>>

(* ---- the kernel ---- *)

\* A negative result (no map, or one that does not fit) halts kernelMain.
bootinfo_snapshot_init ==
    /\ pc = "kernel"
    /\ \/ /\ bi.buf = 0 \/ bi.map_size = 0 \/ bi.map_size > SnapSize
          /\ snap' = [NoSnap EXCEPT !.rc = IF bi.buf = 0 \/ bi.map_size = 0 THEN -2 ELSE -3]
          /\ halt
       \/ /\ bi.buf # 0 /\ bi.map_size \in 1 .. SnapSize
          /\ snap' = [rc |-> 0, size |-> bi.map_size]
          /\ pc' = "kernel_up"
    /\ UNCHANGED <<fw, bufs, content, next, mm, bi, site>>

Loader ==
    \/ load_kernel \/ memmap_init
    \/ refresh_get \/ refresh_free \/ refresh_alloc \/ refresh_get2
    \/ fill_bootinfo \/ exit_boot_services \/ bootinfo_snapshot_init

Next == Loader \/ firmware_event

Spec == Init /\ [][Next]_vars /\ WF_vars(Loader)
-----------------------------------------------------------------------------
(* Types: mm.descriptors is NULL or a buffer that is allocated. *)
TypeOK ==
    /\ fw \in [key : 1 .. MaxKey, size : MapSizes]
    /\ bufs \subseteq 1 .. next - 1
    /\ mm.buf \in {0} \cup bufs
    /\ pc \in {"load_kernel", "memmap_init", "refresh", "refresh_free", "refresh_alloc", "refresh_get2",
               "fill_bootinfo", "exit_boot_services", "kernel", "kernel_up", "halted"}
    /\ site \in {"first", "exit", "retry"}
    /\ snap.rc \in {1, 0, -2, -3}

(* However often the map moves under the loader, boot services end only
   when the loader's own MEMORY_MAP is the firmware's final map, whole, in a
   buffer that is still allocated. *)
ExitedWithCurrentMap ==
    pc \in {"kernel", "kernel_up"} =>
        /\ mm.buf \in bufs
        /\ content[mm.buf] = fw
        /\ mm.map_size = fw.size

\* The loader owns exactly the buffer mm points to.
OneBuffer == bufs = {mm.buf} \ {0}

\* A refresh that succeeded claims no more than the buffer holds.
MapFitsBuffer ==
    pc \in {"fill_bootinfo", "exit_boot_services", "kernel"} => mm.map_size <= mm.buffer_size

(* Across every reallocation and every failure of one, no buffer is leaked or
   freed twice, and the map read from it stays within it. *)
BufferSound == OneBuffer /\ MapFitsBuffer

\* What the proofs need beside the properties above to go from step to step: the loader has a
\* buffer exactly between its allocation and its free, the retry's GetMemoryMap may fill all of it,
BufferHeld ==
    /\ mm \in [buf : Nat, buffer_size : Nat, map_size : Nat, key : Nat]
    /\ pc \in {"refresh", "refresh_free", "refresh_get2", "fill_bootinfo", "exit_boot_services",
               "kernel", "kernel_up"} => mm.buf # 0
    /\ pc \in {"load_kernel", "memmap_init", "refresh_alloc"} => mm.buf = 0
    /\ pc \in {"refresh_free", "refresh_alloc", "refresh_get2"} => mm.map_size = mm.buffer_size

\* a key names one map, and no buffer holds a map younger than the firmware's,
KeysNameMaps ==
    /\ next \in Nat \ {0}
    /\ DOMAIN content = 0 .. next - 1
    /\ \A b \in DOMAIN content :
        /\ content[b] \in [key : Nat, size : Nat]
        /\ content[b].key <= fw.key
        /\ content[b].key = fw.key => content[b] = fw

\* and mm describes what its buffer holds once a refresh has succeeded.
MapDescribed ==
    /\ pc \in {"fill_bootinfo", "exit_boot_services", "kernel", "kernel_up"} =>
        content[mm.buf].key = mm.key /\ content[mm.buf].size = mm.map_size
    /\ pc \in {"kernel", "kernel_up"} => mm.key = fw.key

(* The inductive invariant of the hand-off. *)
IInv == TypeOK /\ BufferHeld /\ KeysNameMaps /\ MapDescribed /\ BufferSound

(* The loader gives up after one retry: it reaches the kernel or halts. *)
HandoffEnds == <>(pc \in {"kernel_up", "halted"})

(* boot.c: the descriptors handed to the kernel were allocated as
   LoaderData and keep their contents after ExitBootServices. *)
DescriptorsSurvive == pc = "kernel" => bi.buf \in bufs
=============================================================================
