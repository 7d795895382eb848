----------------------------- MODULE MCBinAlloc -----------------------------
(***************************************************************************)
(* Instance of BinAlloc: pages of eight bytes, bins of two and four, and   *)
(* requests that meet every path: both bins, an alignment above the size,  *)
(* a page for an alignment above the largest bin, two aligned pages, and a *)
(* size whose page count wraps to zero.                                    *)
(***************************************************************************)
EXTENDS BinAlloc

D(t, s, n) == [type |-> t, start |-> s, pages |-> n]
R(n, a) == [n |-> n, align |-> a]

MCMaps == { << D("BootServicesData", 0, 1), D("LoaderData", 1, 1), D("Conventional", 2, 1),
               D("BootServicesData", 3, 2) >> }
MCBinSizes == <<2, 4>>

\* Power-of-two alignments, as the heap's users pass them.
MCRequests == { R(0, 2), R(1, 0), R(2, 4), R(3, 1), R(1, 8), R(9, 16), R(125, 16) }
=============================================================================
