---------------------------- MODULE KernelLoader ----------------------------
(***************************************************************************)
(* The first part of efi_main: open and list the volume (bootloader/       *)
(* file.c), load_kernel_elf (kernel_loader.c) with the page-table edits of *)
(* arch/x86/arch_x86_page.c, close the volume.  load_kernel_elf reads the  *)
(* ELF file, reserves its physical range, maps, loads and protects each    *)
(* segment.  Every firmware call may fail.  Addresses are in bytes, a page *)
(* has PgSz of them; the kernel's range is not mapped by the firmware      *)
(* beforehand.                                                             *)
(***************************************************************************)
EXTENDS Integers, Sequences

CONSTANTS
    PgSz,         \* PAGE_SIZE_4K
    Fan,          \* entries of a page table (512)
    Images,       \* ELF files: sequences of program headers
    Entry,        \* e_entry, not 0
    MAX_FILE_NUM, \* entries of file_list
    RootEntries   \* numbers of entries the root directory may have

ASSUME LoaderAssumption ==
    /\ PgSz \in Nat \ {0} /\ Fan \in Nat \ {0, 1} /\ Entry \in Nat \ {0}
    /\ MAX_FILE_NUM \in Nat /\ RootEntries \subseteq Nat

\* What linker.ld makes of every kernel.elf: a segment starts at the same offset into its virtual and
\* physical page and takes no more of the file than of memory, loaded segments do not overlap in
\* memory, and an empty PT_LOAD does not start inside a page of a loaded one.
Header == [load : BOOLEAN, vaddr : Nat, paddr : Nat, memsz : Nat, filesz : Nat, w : BOOLEAN, x : BOOLEAN]
ASSUME ImagesAssumption ==
    \A im \in Images :
        /\ im \in Seq(Header)
        /\ \A k \in DOMAIN im : LET p == im[k] IN
            p.load /\ p.memsz > 0 => p.paddr % PgSz = p.vaddr % PgSz /\ p.filesz <= p.memsz
        /\ \A k, l \in DOMAIN im : LET p == im[k]  q == im[l] IN
            p.load /\ p.memsz > 0 /\ q.load =>
                /\ k # l /\ q.memsz > 0 => p.paddr + p.memsz <= q.paddr \/ q.paddr + q.memsz <= p.paddr
                /\ q.memsz = 0 /\ q.vaddr % PgSz # 0 =>
                    q.vaddr \div PgSz \notin p.vaddr \div PgSz .. (p.vaddr + p.memsz - 1) \div PgSz

VARIABLES
    Root,       \* the volume's handle is open; FALSE is NULL
    idx,        \* entries of file_list filled
    img,        \* the file's program headers
    pc,
    st,         \* the function's status variable (the outer one)
    entry,      \* *out_entry; efi_main initialises it to 0
    file,       \* the file is open
    phdrs,      \* the program header buffer is allocated
    reserved,   \* physical pages AllocatePages(AllocateAddress) gave
    tables,     \* page tables below level 4: <<level, index of the region it covers>>
    ptes,       \* level-1 entries: virtual page -> [pa, attr]
    mem,        \* physical bytes written: <<i, k>> byte k of segment i, or zero
    i, off      \* loop counters: header, and page of the segment

vars == <<Root, idx, img, pc, st, entry, file, phdrs, reserved, tables, ptes, mem, i, off>>

align_down(x) == (x \div PgSz) * PgSz
\* Mutant: rounds down.
Mutant_align_up_floor(x) == (x \div PgSz) * PgSz

align_up(x) == ((x + PgSz - 1) \div PgSz) * PgSz

\* Segments the range, map and load loops look at.
Loads(p) == p.load /\ p.memsz > 0

SegV(p) == align_down(p.vaddr)
\* Mutant: the segment's offset in its first page is forgotten.
Mutant_SegSize_no_offset(p) == align_up(p.memsz)

SegSize(p) == align_up(p.memsz + (p.vaddr - SegV(p)))

attr_from_phdr(p) == [w |-> p.w, x |-> p.x]
temp_attr_for_load(p) == [w |-> TRUE, x |-> p.x]

Zero == <<0, 0>>

Init ==
    /\ Root = FALSE /\ idx = 0
    /\ img \in Images
    /\ pc = "init_file"
    /\ st = "unset"
    /\ entry = 0
    /\ file = FALSE /\ phdrs = FALSE
    /\ reserved = {}
    /\ tables = {}
    /\ ptes = <<>> /\ mem = <<>>
    /\ i = 1 /\ off = 0

Goto(label, status) == pc' = label /\ st' = status

(* ---- file.c ---- *)

\* An error ends efi_main.  Success without a protocol lets it go on, and OpenRoot do nothing.
init_file ==
    /\ pc = "init_file"
    /\ pc' \in {"quit", "open_root", "lv4_writable"}
    /\ UNCHANGED <<Root, idx, img, st, entry, file, phdrs, reserved, tables, ptes, mem, i, off>>

\* OpenVolume; efi_main does not look at the result.
OpenRoot ==
    /\ pc = "open_root"
    /\ \/ Root' = TRUE /\ pc' = "list"
       \/ UNCHANGED Root /\ pc' = "lv4_writable"
    /\ UNCHANGED <<idx, img, st, entry, file, phdrs, reserved, tables, ptes, mem, i, off>>

\* The listing loop: another entry, or an error, the end of the directory, a full file_list.
OpenRoot_list ==
    /\ pc = "list"
    /\ \/ /\ idx < MAX_FILE_NUM /\ \E n \in RootEntries : idx < n
          /\ idx' = idx + 1
          /\ UNCHANGED pc
       \/ pc' = "lv4_writable" /\ UNCHANGED idx
    /\ UNCHANGED <<Root, img, st, entry, file, phdrs, reserved, tables, ptes, mem, i, off>>

\* Mutant: the volume is closed on success only.
Mutant_CloseRoot_success ==
    /\ pc = "returned" /\ Root
    /\ Root' = (st = "error")
    /\ pc' = IF st = "error" THEN "stalled" ELSE "handed_over"
    /\ UNCHANGED <<idx, img, st, entry, file, phdrs, reserved, tables, ptes, mem, i, off>>

\* Called on both paths of efi_main; it then stalls, or goes on to the memory map.
CloseRoot ==
    /\ pc = "returned" /\ Root
    /\ Root' = FALSE
    /\ pc' = IF st = "error" THEN "stalled" ELSE "handed_over"
    /\ UNCHANGED <<idx, img, st, entry, file, phdrs, reserved, tables, ptes, mem, i, off>>

\* Root->Close is read through NULL: what is called is not defined.
CloseRoot_null ==
    /\ pc = "returned" /\ ~Root
    /\ pc' = "undefined"
    /\ UNCHANGED <<Root, idx, img, st, entry, file, phdrs, reserved, tables, ptes, mem, i, off>>

(* ---- load_kernel_elf ---- *)

\* EFI_INVALID_PARAMETER without a volume.
page_set_lv4_writable ==
    /\ pc = "lv4_writable"
    /\ (Root /\ Goto("open", "success")) \/ Goto("returned", "error")
    /\ UNCHANGED <<Root, idx, img, entry, file, phdrs, reserved, tables, ptes, mem, i, off>>

open_file ==
    /\ pc = "open"
    /\ \/ Goto("header", "success") /\ file' = TRUE
       \/ Goto("returned", "error") /\ UNCHANGED file
    /\ UNCHANGED <<Root, idx, img, entry, phdrs, reserved, tables, ptes, mem, i, off>>

\* Read error, wrong magic or wrong class.
read_header ==
    /\ pc = "header"
    /\ Goto("phdrs", "success") \/ Goto("cleanup", "error")
    /\ UNCHANGED <<Root, idx, img, entry, file, phdrs, reserved, tables, ptes, mem, i, off>>

alloc_phdrs ==
    /\ pc = "phdrs"
    /\ \/ Goto("read_phdrs", "success") /\ phdrs' = TRUE
       \/ Goto("cleanup", "error") /\ UNCHANGED phdrs
    /\ UNCHANGED <<Root, idx, img, entry, file, reserved, tables, ptes, mem, i, off>>

read_phdrs ==
    /\ pc = "read_phdrs"
    /\ Goto("allocate", "success") \/ Goto("cleanup_ph", "error")
    /\ UNCHANGED <<Root, idx, img, entry, file, phdrs, reserved, tables, ptes, mem, i, off>>

\* [k_phys_start, k_phys_end): the pages from the lowest to the highest segment.
PhysPages ==
    LET loaded == {img[k] : k \in {k \in DOMAIN img : Loads(img[k])}}
    IN  UNION {p.paddr \div PgSz .. align_up(q.paddr + q.memsz) \div PgSz - 1 : p \in loaded, q \in loaded}

allocate_image ==
    /\ pc = "allocate"
    /\ \/ /\ \A k \in DOMAIN img : ~Loads(img[k])
          /\ Goto("cleanup_ph", "error")
          /\ UNCHANGED reserved
       \/ /\ \E k \in DOMAIN img : Loads(img[k])
          /\ \/ Goto("map", "success") /\ reserved' = PhysPages
             \/ Goto("cleanup_ph", "error") /\ UNCHANGED reserved
    /\ i' = 1 /\ off' = 0
    /\ UNCHANGED <<Root, idx, img, entry, file, phdrs, tables, ptes, mem>>

\* Mutants: one header too many, or the same header again.
Mutant_Advance_past_end(after) ==
    IF i <= Len(img) THEN i' = i + 1 /\ off' = 0 /\ UNCHANGED pc
    ELSE i' = 1 /\ off' = 0 /\ pc' = after
Mutant_Advance_stuck(after) ==
    IF i < Len(img) THEN UNCHANGED <<i, off, pc>>
    ELSE i' = 1 /\ off' = 0 /\ pc' = after

\* The loop header: the next header, or the next loop.
Advance(after) ==
    IF i < Len(img) THEN i' = i + 1 /\ off' = 0 /\ UNCHANGED pc
    ELSE i' = 1 /\ off' = 0 /\ pc' = after

map_skip ==
    /\ pc = "map"
    /\ ~Loads(img[i]) \/ off >= SegSize(img[i])
    /\ Advance("load")
    /\ UNCHANGED <<Root, idx, img, st, entry, file, phdrs, reserved, tables, ptes, mem>>

\* The tables page_map4k_to walks through, highest level first; the ones it does not find are allocated.
VPage == (SegV(img[i]) + off) \div PgSz
Path == << <<3, VPage \div (Fan * Fan * Fan)>>, <<2, VPage \div (Fan * Fan)>>, <<1, VPage \div Fan>> >>

page_map4k_to ==
    /\ pc = "map"
    /\ Loads(img[i]) /\ off < SegSize(img[i])
    /\ VPage \notin DOMAIN ptes
    /\ tables' = tables \cup {Path[k] : k \in 1 .. 3}
    /\ ptes' = [v \in DOMAIN ptes \cup {VPage} |->
                    IF v = VPage THEN [pa |-> (align_down(img[i].paddr) + off) \div PgSz,
                                       attr |-> temp_attr_for_load(img[i])]
                    ELSE ptes[v]]
    /\ off' = off + PgSz
    /\ UNCHANGED <<Root, idx, img, pc, st, entry, file, phdrs, reserved, mem, i>>

\* A table could not be allocated, or the page is mapped already.  The error
\* lands in the loop's own st, which shadows the function's: st keeps its value.
map_fails ==
    /\ pc = "map"
    /\ Loads(img[i]) /\ off < SegSize(img[i])
    /\ \/ \E k \in 1 .. 3 : Path[k] \notin tables /\ tables' = tables \cup {Path[j] : j \in 1 .. k - 1}
       \/ /\ VPage \in DOMAIN ptes
          /\ UNCHANGED tables
    /\ Goto("cleanup_ph", st)
    /\ UNCHANGED <<Root, idx, img, entry, file, phdrs, reserved, ptes, mem, i, off>>

load_skip ==
    /\ pc = "load"
    /\ ~Loads(img[i])
    /\ Advance("finalize")
    /\ UNCHANGED <<Root, idx, img, st, entry, file, phdrs, reserved, tables, ptes, mem>>

SegBytes(p) == p.paddr .. p.paddr + p.memsz - 1

\* Memory after bytes S of segment p are written, from the file or as zeros.
Written(p, S) ==
    [b \in DOMAIN mem \cup S |->
        IF b \notin S THEN mem[b]
        ELSE IF b < p.paddr + p.filesz THEN <<i, b - p.paddr>> ELSE Zero]

\* Read p_filesz bytes to p_paddr and zero the rest; a read error or a short
\* file leaves the bytes read so far behind.
load_segment ==
    /\ pc = "load"
    /\ Loads(img[i])
    /\ LET p == img[i] IN
        \/ /\ mem' = Written(p, SegBytes(p))
           /\ Advance("finalize")
           /\ st' = "success"
        \/ /\ \E n \in 0 .. p.filesz - 1 : mem' = Written(p, p.paddr .. p.paddr + n - 1)
           /\ Goto("cleanup_ph", "error")
           /\ UNCHANGED <<i, off>>
    /\ UNCHANGED <<Root, idx, img, entry, file, phdrs, reserved, tables, ptes>>

\* finalize_segment_protection looks at empty PT_LOAD headers too.
finalize_skip ==
    /\ pc = "finalize"
    /\ ~img[i].load \/ off >= SegSize(img[i])
    /\ Advance("done")
    /\ UNCHANGED <<Root, idx, img, st, entry, file, phdrs, reserved, tables, ptes, mem>>

page_set_attr_4k ==
    /\ pc = "finalize"
    /\ img[i].load /\ off < SegSize(img[i])
    /\ VPage \in DOMAIN ptes
    /\ ptes' = [ptes EXCEPT ![VPage].attr = attr_from_phdr(img[i])]
    /\ off' = off + PgSz
    /\ UNCHANGED <<Root, idx, img, pc, st, entry, file, phdrs, reserved, tables, mem, i>>

\* Again the loop's own st.
finalize_fails ==
    /\ pc = "finalize"
    /\ img[i].load /\ off < SegSize(img[i])
    /\ VPage \notin DOMAIN ptes
    /\ Goto("cleanup_ph", st)
    /\ UNCHANGED <<Root, idx, img, entry, file, phdrs, reserved, tables, ptes, mem, i, off>>

done ==
    /\ pc = "done"
    /\ entry' = Entry
    /\ Goto("cleanup_ph", "success")
    /\ UNCHANGED <<Root, idx, img, file, phdrs, reserved, tables, ptes, mem, i, off>>

cleanup_ph ==
    /\ pc = "cleanup_ph"
    /\ phdrs' = FALSE
    /\ pc' = "cleanup"
    /\ UNCHANGED <<Root, idx, img, st, entry, file, reserved, tables, ptes, mem, i, off>>

cleanup ==
    /\ pc = "cleanup"
    /\ file' = FALSE
    /\ pc' = "returned"
    /\ UNCHANGED <<Root, idx, img, st, entry, phdrs, reserved, tables, ptes, mem, i, off>>

Next ==
    \/ init_file \/ OpenRoot \/ OpenRoot_list \/ CloseRoot \/ CloseRoot_null
    \/ page_set_lv4_writable \/ open_file \/ read_header \/ alloc_phdrs \/ read_phdrs
    \/ allocate_image \/ map_skip \/ page_map4k_to \/ map_fails
    \/ load_skip \/ load_segment \/ finalize_skip \/ page_set_attr_4k \/ finalize_fails
    \/ done \/ cleanup_ph \/ cleanup

Spec == Init /\ [][Next]_vars /\ WF_vars(Next)
-----------------------------------------------------------------------------
(* Types: the header loops of load_kernel_elf stay within the e_phnum headers, and the listing
   of the root directory within file_list. *)
TypeOK ==
    /\ Root \in BOOLEAN /\ idx \in 0 .. MAX_FILE_NUM
    /\ pc \in {"init_file", "open_root", "list", "lv4_writable", "open", "header", "phdrs", "read_phdrs",
               "allocate", "map", "load", "finalize", "done", "cleanup_ph", "cleanup", "returned",
               "quit", "stalled", "handed_over", "undefined"}
    /\ st \in {"unset", "success", "error"}
    /\ entry \in {0, Entry}
    /\ pc \in {"map", "load", "finalize"} => i \in DOMAIN img
    /\ \A v \in DOMAIN ptes : v \in Nat /\ ptes[v] \in [pa : Nat, attr : [w : BOOLEAN, x : BOOLEAN]]
    /\ tables \subseteq (1 .. 3) \X Nat

(* Whichever call fails, the loader comes out with the file closed, the header buffer freed and
   the volume closed; only a volume that never opened is closed through NULL. *)
NothingHeldOnReturn ==
    /\ pc = "returned" => ~file /\ ~phdrs
    /\ pc \in {"handed_over", "stalled"} => ~Root /\ ~file /\ ~phdrs
    /\ pc = "undefined" => st = "error" /\ reserved = {}

(* The loader writes to no physical byte outside the pages it reserved, and
   maps no page outside them. *)
InsideReserved ==
    /\ \A b \in DOMAIN mem : b \div PgSz \in reserved
    /\ \A v \in DOMAIN ptes : ptes[v].pa \in reserved

(* efi_main is given an entry point only for a complete image: every byte of
   every segment from the file or zero, behind its virtual page, with the
   segment's own protection and no longer the one used for loading. *)
EntryMeansComplete ==
    entry # 0 =>
        \A k \in {k \in DOMAIN img : Loads(img[k])} : \A n \in 0 .. img[k].memsz - 1 :
            LET p  == img[k]
                vp == (p.vaddr + n) \div PgSz
            IN  /\ vp \in DOMAIN ptes
                /\ ptes[vp].pa = (p.paddr + n) \div PgSz
                /\ ptes[vp].attr = attr_from_phdr(p)
                /\ mem[p.paddr + n] = IF n < p.filesz THEN <<k, n>> ELSE Zero

\* The inductive invariant: what is open where,
Before == {"init_file", "open_root", "list", "lv4_writable", "open", "header", "phdrs", "read_phdrs", "allocate"}
Loops == {"map", "load", "finalize", "done"}
Held ==
    /\ file => pc \in {"header", "phdrs", "read_phdrs", "allocate", "cleanup_ph", "cleanup"} \cup Loops
    /\ phdrs => pc \in {"read_phdrs", "allocate", "cleanup_ph"} \cup Loops
    /\ ~Root => pc \notin {"open", "header", "phdrs", "read_phdrs", "allocate", "cleanup_ph", "cleanup"} \cup Loops
    /\ pc = "returned" /\ ~Root => st = "error" /\ reserved = {}
    /\ entry # 0 => pc \notin Before \cup Loops
\* the loops' position,
Position ==
    /\ img \in Images /\ i \in Nat \ {0} /\ off \in Nat /\ off % PgSz = 0
    /\ pc \in Before => reserved = {} /\ ptes = <<>> /\ mem = <<>>
    /\ pc \in Loops => reserved = PhysPages
\* the pages of a segment, by number, up to page n of segment k: all of them mapped, where they should
\* be, and no two to the same place,
SegPages(p) == {n \in 0 .. SegSize(p) : PgSz * n < SegSize(p)}
Past(k, n) == k < i \/ (k = i /\ PgSz * n < off)
PageAt(k, n) == img[k].vaddr \div PgSz + n
MappedPages ==
    pc \in Loops =>
        \A k \in {k \in DOMAIN img : Loads(img[k])} : \A n \in SegPages(img[k]) :
            (pc = "map" => Past(k, n)) =>
                /\ PageAt(k, n) \in DOMAIN ptes
                /\ ptes[PageAt(k, n)].pa = img[k].paddr \div PgSz + n
                /\ \A l \in {l \in DOMAIN img : Loads(img[l])} : \A m \in SegPages(img[l]) :
                    (pc = "map" => Past(l, m)) /\ PageAt(k, n) = PageAt(l, m) => k = l
\* the bytes of the segments loaded,
LoadedBytes ==
    pc \in {"load", "finalize", "done"} =>
        \A k \in {k \in DOMAIN img : Loads(img[k])} : \A n \in 0 .. img[k].memsz - 1 :
            (pc = "load" => k < i) =>
                img[k].paddr + n \in DOMAIN mem /\ mem[img[k].paddr + n] = IF n < img[k].filesz THEN <<k, n>> ELSE Zero
\* and the pages protected.
ProtectedPages ==
    pc \in {"finalize", "done"} =>
        \A k \in {k \in DOMAIN img : Loads(img[k])} : \A n \in SegPages(img[k]) :
            (pc = "finalize" => Past(k, n)) => ptes[PageAt(k, n)].attr = attr_from_phdr(img[k])

IInv ==
    /\ TypeOK /\ Held /\ Position /\ NothingHeldOnReturn /\ InsideReserved
    /\ MappedPages /\ LoadedBytes /\ ProtectedPages /\ EntryMeansComplete

(* The loader ends, whichever calls fail and however large the root directory is: a volume
   that opened is closed again, after which efi_main stalls or goes on. *)
LoaderReturns ==
    /\ pc = "list" ~> pc \in {"handed_over", "stalled"}
    /\ <>(pc \in {"quit", "undefined", "handed_over", "stalled"})

(* efi_main jumps to the entry point whenever the status is not an error. *)
SuccessHasEntry == pc = "returned" /\ st = "success" => entry # 0
=============================================================================
