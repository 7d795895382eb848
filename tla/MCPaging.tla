------------------------------ MODULE MCPaging ------------------------------
(***************************************************************************)
(* Instance of Paging: tables of four entries, the firmware's tables in    *)
(* frames 1 to 6 of boot services data, the kernel image in frame 7.       *)
(* Level-4 entry 0 is the firmware's identity map, 1 the direct map's slot *)
(* and 2, 3 the kernel's half.  Three firmwares: one with pages of every   *)
(* size, one whose clone needs more frames than there are, one sharing a   *)
(* level-3 table between the two kernel entries.                           *)
(***************************************************************************)
EXTENDS Paging, TLC

MCMaps == { << [type |-> "BootServicesData", start |-> 0, pages |-> 7],
               [type |-> "LoaderData", start |-> 7, pages |-> 1],
               [type |-> "Conventional", start |-> 8, pages |-> 7] >> }

Tab(fl, f)  == [p |-> TRUE, ps |-> FALSE, pa |-> f, fl |-> fl]
Page(fl, f) == [p |-> TRUE, ps |-> TRUE, pa |-> f, fl |-> fl]
Put(es) == [i \in Idx |-> IF i \in DOMAIN es THEN es[i] ELSE NotPresent]

Identity == [i \in Idx |-> Page("rw", i)]
Level1   == Put([i \in {0, 3} |-> Tab("rx", 7)])
Level2   == Put(1 :> Tab("rw", 5) @@ 2 :> Page("rw", 2))
Level3   == Put(0 :> Tab("rw", 4) @@ 3 :> Page("ro", 3))

Mem(l4, l3, l2, l6) ==
    [f \in Frame |-> CASE f = 1 -> l4 [] f = 2 -> Identity [] f = 3 -> l3
                       [] f = 4 -> l2 [] f = 5 -> Level1 [] f = 6 -> l6 [] OTHER -> ZeroTable]

MCMems == {
    Mem(Put(0 :> Tab("rw", 2) @@ 3 :> Tab("rw", 3)), Level3, Level2, Level1),
    Mem(Put(0 :> Tab("rw", 2) @@ 2 :> Tab("rw", 3) @@ 3 :> Tab("rw", 3)), Level3,
        Put(0 :> Tab("rw", 5) @@ 1 :> Tab("rw", 6)), Level1),
    Mem(Put(0 :> Tab("rw", 2) @@ 2 :> Tab("rw", 3) @@ 3 :> Tab("ro", 3)),
        Put(1 :> Page("rw", 1)), ZeroTable, ZeroTable) }
=============================================================================
