--------------------------- MODULE MCKernelLoader ---------------------------
(***************************************************************************)
(* Instance of KernelLoader: pages of two bytes, tables of two entries.    *)
(* The images: the kernel's layout (text, read-only data, data with bss,   *)
(* and a note), one whose segments share a page, one without a segment to  *)
(* load, and one with an empty PT_LOAD and a segment that starts inside a  *)
(* page.                                                                   *)
(***************************************************************************)
EXTENDS KernelLoader

Seg(v, p, m, f, w, x) ==
    [load |-> TRUE, vaddr |-> v, paddr |-> p, memsz |-> m, filesz |-> f, w |-> w, x |-> x]
Note == [Seg(0, 0, 1, 1, FALSE, FALSE) EXCEPT !.load = FALSE]

\* Linked high and loaded low, as linker.ld does on its scale.
KernelElf == << Seg(34, 6, 3, 3, FALSE, TRUE), Seg(38, 10, 2, 1, FALSE, FALSE), Note,
                Seg(40, 12, 5, 1, TRUE, FALSE) >>

MCImages == { KernelElf,
              << Seg(34, 6, 3, 3, FALSE, TRUE), Seg(37, 9, 3, 2, TRUE, FALSE) >>,
              << Note >>,
              << Seg(34, 6, 2, 2, FALSE, TRUE), Seg(39, 11, 0, 0, TRUE, FALSE), Note,
                 Seg(43, 15, 2, 0, TRUE, TRUE) >> }
=============================================================================
