---------------------------- MODULE MCPageAlloc -----------------------------
(***************************************************************************)
(* Instance of PageAlloc: seven frames of four bytes.  The maps contain    *)
(* boot data at frame 0, a descriptor clipped by the bitmap's limit, one   *)
(* beyond it, an empty one, boot data above every usable frame, and a map  *)
(* without usable memory.                                                  *)
(***************************************************************************)
EXTENDS PageAlloc

D(t, s, n) == [type |-> t, start |-> s, pages |-> n]

MCMaps == {
    << D("BootServicesData", 0, 1), D("Conventional", 1, 2), D("LoaderData", 3, 1),
       D("BootServicesCode", 4, 2), D("BootServicesData", 6, 1) >>,
    << D("Conventional", 0, 3), D("Conventional", 3, 0), D("BootServicesData", 3, 2),
       D("Conventional", 5, 9), D("Conventional", 20, 1) >>,
    << D("LoaderData", 0, 2), D("BootServicesData", 2, 5) >> }
=============================================================================
