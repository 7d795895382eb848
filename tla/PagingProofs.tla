---------------------------- MODULE PagingProofs ----------------------------
(***************************************************************************)
(* Proofs about Paging, for tables of any size, any memory map and any     *)
(* firmware tables that meet FirmwareAssumption.  What the firmware left   *)
(* comes first, then the inductive invariant IInv, one lemma per step of   *)
(* kernelMain and of the clone functions, then the walks.                  *)
(***************************************************************************)
EXTENDS Paging, TLAPS

(* ---- the firmware's tables ---- *)

\* A present entry of a table of S leads to one of its kids, and only such entries do.
LEMMA KidsAre ==
    ASSUME NEW m, NEW S, NEW l, NEW x
    PROVE  x \in Kids(m, S, l) <=>
              \E t \in S, i \in Idx : m[t][i].p /\ (l = 4 \/ ~m[t][i].ps) /\ x = m[t][i].pa
PROOF
  <1> DEFINE U == {u \in S \X Idx : m[u[1]][u[2]].p /\ (l = 4 \/ ~m[u[1]][u[2]].ps)}
  <1>1. Kids(m, S, l) = {m[t[1]][t[2]].pa : t \in U}
    BY DEF Kids
  <1>2. ASSUME NEW t \in S, NEW i \in Idx, m[t][i].p, l = 4 \/ ~m[t][i].ps, x = m[t][i].pa
        PROVE  x \in Kids(m, S, l)
    <2>1. <<t, i>> \in U
      BY <1>2
    <2> HIDE DEF U
    <2> QED BY <1>1, <1>2, <2>1
  <1>3. ASSUME x \in Kids(m, S, l)
        PROVE  \E t \in S, i \in Idx : m[t][i].p /\ (l = 4 \/ ~m[t][i].ps) /\ x = m[t][i].pa
    <2>1. PICK u \in U : x = m[u[1]][u[2]].pa
      <3> HIDE DEF U
      <3> QED BY <1>1, <1>3
    <2>2. u[1] \in S /\ u[2] \in Idx
      BY <2>1
    <2> QED BY <2>1, <2>2
  <1> QED BY <1>2, <1>3

LEMMA Levels ==
    ASSUME NEW m, NEW root
    PROVE  /\ Level(m, root, 4) = {root}
           /\ Level(m, root, 3) = Kids(m, Level(m, root, 4), 4)
           /\ Level(m, root, 2) = Kids(m, Level(m, root, 3), 3)
           /\ Level(m, root, 1) = Kids(m, Level(m, root, 2), 2)
PROOF
  BY DEF Level

\* The table a present entry of a table points to is one level down.
LEMMA LevelDown ==
    ASSUME NEW m, NEW root, NEW l \in 2 .. 4, NEW t \in Level(m, root, l), NEW i \in Idx,
           m[t][i].p, l = 4 \/ ~m[t][i].ps
    PROVE  m[t][i].pa \in Level(m, root, l - 1)
PROOF
  <1>1. m[t][i].pa \in Kids(m, Level(m, root, l), l)
    BY KidsAre
  <1>2. l = 4 \/ l = 3 \/ l = 2
    OBVIOUS
  <1> QED BY <1>1, <1>2, Levels

LEMMA LevelIsTable ==
    ASSUME NEW m, NEW root, NEW l \in 1 .. 4, NEW t \in Level(m, root, l)
    PROVE  t \in TablesFrom(m, root)
PROOF
  <1> DEFINE U == {Level(m, root, k) : k \in 1 .. 4}
  <1>1. Level(m, root, l) \in U
    OBVIOUS
  <1> HIDE DEF U
  <1>2. t \in UNION U
    BY <1>1
  <1> QED BY <1>2 DEF U, TablesFrom

LEMMA TableHasLevel ==
    ASSUME NEW m, NEW root, NEW t \in TablesFrom(m, root)
    PROVE  \E l \in 1 .. 4 : t \in Level(m, root, l)
PROOF
  <1> DEFINE U == {Level(m, root, k) : k \in 1 .. 4}
  <1>1. t \in UNION U
    BY DEF TablesFrom
  <1>2. PICK S \in U : t \in S
    <2> HIDE DEF U
    <2> QED BY <1>1
  <1> QED BY <1>2

\* The firmware's tables are frames that are not usable before the release.
LEMMA FirmwareTables ==
    ASSUME NEW m \in OldMems, NEW mp \in Maps
    PROVE  TablesFrom(m, OldRoot) \subseteq Frame /\ TablesFrom(m, OldRoot) \cap Usable(mp) = {}
PROOF
  <1>1. ASSUME NEW f \in TablesFrom(m, OldRoot), f \in Usable(mp) PROVE FALSE
    <2>1. PICK i \in 1 .. Len(mp) : is_usable_type(mp[i].type) /\ f \in desc_frames(mp[i])
      BY <1>1 DEF Usable, UsableUpTo
    <2> QED BY <1>1, <2>1, FirmwareAssumption DEF is_usable_type
  <1> QED BY <1>1, FirmwareAssumption

LEMMA OldTable ==
    ASSUME Position, NEW l \in 1 .. 4, NEW t \in Level(mem0, OldRoot, l)
    PROVE  t \in Frame /\ t \notin Usable(map)
PROOF
  <1>1. t \in TablesFrom(mem0, OldRoot)
    BY LevelIsTable
  <1>2. TablesFrom(mem0, OldRoot) \subseteq Frame /\ TablesFrom(mem0, OldRoot) \cap Usable(map) = {}
    BY FirmwareTables DEF Position
  <1> QED BY <1>1, <1>2

LEMMA OldEntry ==
    ASSUME Position, NEW t \in Frame, NEW i \in Idx
    PROVE  /\ mem0[t][i] \in PTE /\ DOMAIN mem0[t] = Idx /\ DOMAIN mem0 = Frame
           /\ mem0[t][i].p \in BOOLEAN /\ mem0[t][i].ps \in BOOLEAN
PROOF
  <1>1. mem0 \in [Frame -> [Idx -> PTE]]
    BY FirmwareAssumption DEF Position
  <1>2. mem0[t] \in [Idx -> PTE] /\ mem0[t][i] \in PTE
    BY <1>1
  <1> QED BY <1>1, <1>2 DEF PTE

\* Memory that is usable from the start is not boot services data.
LEMMA UsableNotBootData ==
    ASSUME NEW m \in Maps PROVE Usable(m) \cap BootData(m) = {}
PROOF
  <1> SUFFICES ASSUME NEW f \in Usable(m), f \in BootData(m) PROVE FALSE
    OBVIOUS
  <1>1. PICK i \in 1 .. Len(m) : is_usable_type(m[i].type) /\ f \in desc_frames(m[i])
    BY DEF Usable, UsableUpTo
  <1>2. PICK j \in 1 .. Len(m) : m[j].type = "BootServicesData" /\ f \in desc_frames(m[j])
    BY DEF BootData, BootDataUpTo
  <1>3. i # j
    BY <1>1, <1>2 DEF is_usable_type
  <1>4. i \in DOMAIN m /\ j \in DOMAIN m
    BY <1>1, <1>2, MapsAssumption
  <1> QED BY <1>1, <1>2, <1>3, <1>4, MapsAssumption

LEMMA UsableIsFrame == ASSUME NEW m PROVE Usable(m) \subseteq Frame /\ BootData(m) \subseteq Frame
PROOF
  BY DEF Usable, UsableUpTo, BootData, BootDataUpTo

(* ---- the page allocator ---- *)

LEMMA SameOperators ==
    /\ PA!frame_begin = 1
    /\ \A s, n : PA!Run(s, n) = Run(s, n)
    /\ \A m : PA!Usable(m) = Usable(m) /\ PA!BootData(m) = BootData(m)
PROOF
  <1>1. \A d : PA!desc_frames(d) = desc_frames(d)
    BY DEF PA!desc_frames, desc_frames, PA!desc_end, desc_end, PA!Frame, Frame
  <1>2. \A t : PA!is_usable_type(t) = is_usable_type(t)
    BY DEF PA!is_usable_type, is_usable_type
  <1>3. \A m : PA!Usable(m) = Usable(m)
    BY <1>1, <1>2 DEF PA!Usable, Usable, PA!UsableUpTo, UsableUpTo, PA!Frame, Frame
  <1>4. \A m : PA!BootData(m) = BootData(m)
    BY <1>1 DEF PA!BootData, BootData, PA!BootDataUpTo, BootDataUpTo, PA!Frame, Frame
  <1> QED BY <1>3, <1>4 DEF PA!frame_begin, PA!Run, Run

\* alloc_pt_zeroed: a frame that was free, and is free no more.
LEMMA OneTaken ==
    ASSUME TablesApart, PA!Alloc(OnePage)
    PROVE  /\ frame' \in avail /\ frame' \in Frame /\ frame' \notin DOMAIN copies
           /\ avail' = avail \ {frame'} /\ pages \subseteq pages'
           /\ UNCHANGED <<map, phase>>
PROOF
  <1>1. OnePage.needed = 1 /\ OnePage.align = 1
    BY DEF OnePage
  <1>2. PICK s \in PA!Fits(1, 1) :
           /\ avail' = avail \ Run(s, 1) /\ pages \subseteq pages' /\ frame' = s
    BY <1>1, SameOperators DEF PA!Alloc
  <1>3. s \in Nat /\ Run(s, 1) \subseteq avail
    BY <1>2, SameOperators, FramesAssumption DEF PA!Fits
  <1>4. Run(s, 1) = {s}
    BY <1>3 DEF Run
  <1> QED BY <1>2, <1>3, <1>4 DEF TablesApart, PA!Alloc

(* ---- the inductive invariant ---- *)

LEMMA InvInit == ASSUME Init PROVE IInv
PROOF
  <1>1. /\ map \in Maps /\ phase = "boot" /\ avail = {} /\ pages = {}
        /\ mem0 \in OldMems /\ mem = mem0 /\ cr3 = OldRoot /\ reconstructed = FALSE
        /\ new_lv4 = 0 /\ pc = "page_allocator_init" /\ stack = <<>> /\ held = {}
        /\ copies = <<>> /\ DOMAIN copies = {}
    BY DEF Init, PA!Init
  <1>2. mem0 \in [Frame -> [Idx -> PTE]] /\ OldRoot \in Frame /\ 0 \in Frame
    BY <1>1, FirmwareAssumption, FramesAssumption DEF Frame
  <1>3. Len(stack) = 0 /\ stack \in Seq(Activation)
    BY <1>1
  <1>4. TypeOK
    BY <1>1, <1>2, <1>3 DEF TypeOK
  <1>5. Position
    BY <1>1 DEF Position, New, Cloning
  <1>6. TablesApart
    BY <1>1 DEF TablesApart
  <1>7. Contents
    BY <1>1, <1>2 DEF Contents
  <1>8. Activations
    BY <1>1, <1>3 DEF Activations
  <1>9. Copied
    BY <1>1 DEF Copied, Cloning
  <1> QED BY <1>4, <1>5, <1>6, <1>7, <1>8, <1>9 DEF IInv

\* What a step that leaves tables and activations alone preserves.
LEMMA QuietStep ==
    ASSUME Contents, Activations, Copied, UNCHANGED <<mem0, mem, copies, stack, new_lv4>>,
           Cloning' => Cloning, pc = "running" => pc' = "running"
    PROVE  Contents' /\ Activations' /\ Copied'
PROOF
  <1>1. Contents'
    BY DEF Contents
  <1>2. Activations'
    BY DEF Activations
  <1>3. \A t, i : (Done(t, i))' <=> Done(t, i)
    BY DEF Done
  <1>4. \A t, i : (CopiedEntry(t, i))' <=> CopiedEntry(t, i)
    BY <1>3 DEF CopiedEntry, Repointed
  <1>5. \A i : (RootEntry(i))' <=> RootEntry(i)
    BY <1>3 DEF RootEntry, Repointed
  <1> HIDE DEF Cloning
  <1>6. Copied'
    BY <1>4, <1>5 DEF Copied
  <1> QED BY <1>1, <1>2, <1>6

LEMMA PagesInit == ASSUME IInv, page_allocator_init PROVE IInv'
PROOF
  <1> USE DEF IInv
  <1>1. /\ pc = "page_allocator_init" /\ pc' = "alloc_lv4" /\ phase' = "running"
        /\ avail' = Usable(map) \ {0} /\ UNCHANGED <<map, pages>>
        /\ UNCHANGED <<mem0, mem, cr3, reconstructed, new_lv4, stack, held, copies>>
    BY SameOperators DEF page_allocator_init, PA!Boot
  <1>2. TypeOK'
    BY <1>1 DEF TypeOK
  <1>3. Position'
    BY <1>1 DEF Position, New, Cloning
  <1>4. TablesApart'
    BY <1>1, UsableIsFrame DEF TablesApart, Position
  <1>5. Contents' /\ Activations' /\ Copied'
    BY <1>1, QuietStep DEF Cloning
  <1> QED BY <1>2, <1>3, <1>4, <1>5

LEMMA AllocLv4 == ASSUME IInv, alloc_lv4 PROVE IInv'
PROOF
  <1> USE DEF IInv
  <1>1. /\ pc = "alloc_lv4" /\ pc' = "map_direct" /\ new_lv4' = frame'
        /\ mem' = [mem EXCEPT ![frame'] = ZeroTable] /\ Made(frame', 4, cr3)
        /\ UNCHANGED <<mem0, cr3, reconstructed, stack, held>>
    BY DEF alloc_lv4
  <1>2. /\ frame' \in avail /\ frame' \in Frame /\ frame' \notin DOMAIN copies
        /\ avail' = avail \ {frame'} /\ pages \subseteq pages'
        /\ UNCHANGED <<map, phase>>
    BY OneTaken DEF alloc_lv4
  <1>3. DOMAIN copies = {} /\ cr3 = OldRoot /\ stack = <<>>
    BY <1>1 DEF Position, New
  <1>4. DOMAIN copies' = {frame'} /\ copies'[frame'].lvl = 4 /\ copies'[frame'].src = OldRoot
    BY <1>1, <1>2, <1>3 DEF Made
  <1>5. /\ DOMAIN mem' = Frame /\ mem'[frame'] = ZeroTable
        /\ \A f \in Frame \ {frame'} : mem'[f] = mem[f]
    BY <1>1, <1>2 DEF Contents
  <1>6. TypeOK'
    BY <1>1, <1>2 DEF TypeOK
  <1>7. Position'
    BY <1>1, <1>2, <1>3, <1>4, <1>5 DEF Position, New, Cloning
  <1>8. TablesApart'
    BY <1>1, <1>2, <1>3, <1>4 DEF TablesApart, Position
  <1>9. Contents'
    BY <1>1, <1>2, <1>3, <1>4, <1>5 DEF Contents, ZeroTable
  <1>10. Activations'
    BY <1>1, <1>3 DEF Activations
  <1>11. Copied'
    BY <1>1, <1>4 DEF Copied, Cloning
  <1> QED BY <1>6, <1>7, <1>8, <1>9, <1>10, <1>11

LEMMA MapDirect == ASSUME IInv, map_direct_region_1g PROVE IInv'
PROOF
  <1> USE DEF IInv
  <1>1. /\ pc = "map_direct" /\ pc' = "clone" /\ UNCHANGED new_lv4
        /\ mem' = [mem EXCEPT ![frame'] = DirectTable,
                     ![new_lv4][DirectIdx] = [p |-> TRUE, ps |-> FALSE, pa |-> frame', fl |-> "rwnx"]]
        /\ stack' = << [lvl |-> 4, tbl |-> new_lv4, i |-> DirectIdx + 1] >>
        /\ Made(frame', 0, 0)
        /\ UNCHANGED <<mem0, cr3, reconstructed, held>>
    BY DEF map_direct_region_1g
  <1>2. /\ frame' \in avail /\ frame' \in Frame /\ frame' \notin DOMAIN copies
        /\ avail' = avail \ {frame'} /\ pages \subseteq pages'
        /\ UNCHANGED <<map, phase>>
    BY OneTaken DEF map_direct_region_1g
  <1>3. /\ cr3 = OldRoot /\ stack = <<>> /\ mem[new_lv4] = ZeroTable /\ new_lv4 \in DOMAIN copies
        /\ copies[new_lv4].lvl = 4 /\ copies[new_lv4].src = OldRoot /\ new_lv4 \in Frame
        /\ new_lv4 # frame'
    BY <1>1, <1>2 DEF Position, New, TypeOK
  <1>4. /\ DOMAIN copies' = DOMAIN copies \cup {frame'} /\ copies'[frame'].lvl = 0
        /\ \A t \in DOMAIN copies : t # frame' /\ copies'[t] = copies[t]
    BY <1>1, <1>2 DEF Made
  <1>5. DirectIdx \in Idx /\ PT_ENTRIES \in Nat \ {0} /\ DOMAIN ZeroTable = Idx /\ DOMAIN DirectTable = Idx
    BY FirmwareAssumption DEF ZeroTable, DirectTable
  <1>6. /\ DOMAIN mem' = Frame /\ mem'[frame'] = DirectTable
        /\ mem'[new_lv4] = [ZeroTable EXCEPT ![DirectIdx] = [p |-> TRUE, ps |-> FALSE, pa |-> frame', fl |-> "rwnx"]]
        /\ \A f \in Frame \ {frame', new_lv4} : mem'[f] = mem[f]
    BY <1>1, <1>2, <1>3 DEF Contents
  <1>7. /\ Len(stack') = 1 /\ stack'[1].tbl = new_lv4 /\ stack'[1].i = DirectIdx + 1
        /\ stack'[1].lvl = 4 /\ stack' \in Seq(Activation) /\ stack' # <<>>
    <2>1. [lvl |-> 4, tbl |-> new_lv4, i |-> DirectIdx + 1] \in Activation
      BY <1>3, <1>5 DEF Activation, Idx
    <2> QED BY <1>1, <2>1
  <1>8. TypeOK'
    <2>1. \A k \in 1 .. Len(stack') : k = 1
      BY <1>7
    <2> QED BY <1>1, <1>2, <1>7, <2>1 DEF TypeOK
  <1>9. Position'
    BY <1>1, <1>2, <1>3, <1>4, <1>7 DEF Position, New, Cloning
  <1>10. TablesApart'
    BY <1>1, <1>2, <1>4 DEF TablesApart, Position
  <1>11. Contents'
    BY <1>1, <1>2, <1>3, <1>4, <1>5, <1>6 DEF Contents
  <1>12. Activations'
    <2>1. Len(stack') \in 0 .. 4 /\ \A k \in 1 .. Len(stack') : k = 1 /\ ~(k < Len(stack'))
      BY <1>7
    <2>2. stack'[1].tbl \in DOMAIN copies' /\ copies'[stack'[1].tbl].lvl = 4 /\ stack'[1].i > DirectIdx
      BY <1>1, <1>3, <1>4, <1>5, <1>7 DEF Idx
    <2>3. new_lv4' = new_lv4
      BY <1>1
    <2>4. stack'[1].tbl = new_lv4'
      BY <1>7, <2>3
    <2>5. 4 = 5 - 1
      OBVIOUS
    <2> QED BY <2>1, <2>2, <2>4, <2>5, Zenon DEF Activations
  <1>13. Copied'
    <2>1. ASSUME NEW t \in DOMAIN copies, copies[t].lvl \in 1 .. 3, NEW i \in Idx
          PROVE  (CopiedEntry(t, i))'
      <3>1. t # new_lv4 /\ t # frame' /\ t \in Frame
        BY <1>2, <1>3, <2>1, UsableIsFrame DEF TablesApart
      <3>2. mem'[t][i] = mem[t][i] /\ copies'[t] = copies[t]
        BY <1>4, <1>6, <3>1
      <3>3. Done(t, i) /\ (Done(t, i))'
        BY <1>3, <1>7, <3>1 DEF Done
      <3>4. CopiedEntry(t, i)
        BY <2>1 DEF Copied
      <3> QED BY <1>1, <1>4, <3>2, <3>3, <3>4 DEF CopiedEntry, Repointed
    <2>2. ASSUME NEW i \in Idx PROVE (RootEntry(i))'
      <3>1. CASE i = DirectIdx
        <4>1. mem'[new_lv4][i].p /\ mem'[new_lv4][i].pa = frame'
          BY <1>5, <1>6, <3>1
        <4> QED BY <1>1, <1>4, <3>1, <4>1 DEF RootEntry
      <3>2. CASE i # DirectIdx
        <4>1. ~mem'[new_lv4][i].p
          BY <1>5, <1>6, <3>2 DEF ZeroTable, NotPresent
        <4>2. i > DirectIdx => ~(Done(new_lv4, i))'
          BY <1>1, <1>5, <1>7 DEF Done, Idx
        <4> QED BY <1>1, <3>2, <4>1, <4>2 DEF RootEntry
      <3> QED BY <3>1, <3>2
    <2>3. ASSUME NEW t \in DOMAIN copies
          PROVE  /\ copies[t].lvl \in 0 .. 4
                 /\ copies[t].lvl = 0 => mem'[t] = DirectTable
                 /\ copies[t].lvl = 4 => t = new_lv4
                 /\ copies[t].lvl \in 1 .. 3 => copies[t].src \in Level(mem0, OldRoot, copies[t].lvl)
      <3>1. t # frame' /\ t \in Frame
        BY <1>2, UsableIsFrame DEF TablesApart
      <3> QED BY <1>3, <1>6, <3>1 DEF Copied
    <2>4. ASSUME NEW t \in DOMAIN copies'
          PROVE  /\ copies'[t].lvl \in 0 .. 4
                 /\ copies'[t].lvl = 0 => mem'[t] = DirectTable
                 /\ copies'[t].lvl = 4 => t = new_lv4'
                 /\ copies'[t].lvl \in 1 .. 3 =>
                      copies'[t].src \in Level(mem0, OldRoot, copies'[t].lvl) /\ \A i \in Idx : (CopiedEntry(t, i))'
      <3>1. CASE t = frame'
        BY <1>4, <1>6, <3>1
      <3>2. CASE t \in DOMAIN copies
        <4>1. copies'[t] = copies[t]
          BY <1>4, <3>2
        <4> QED BY <1>1, <2>1, <2>3, <3>2, <4>1
      <3> QED BY <1>4, <3>1, <3>2
    <2> QED BY <1>1, <2>2, <2>4 DEF Copied
  <1> QED BY <1>8, <1>9, <1>10, <1>11, <1>12, <1>13

(* ---- the clone functions ---- *)

\* Activations work on tables of their own, and say where their loops are.
LEMMA StackShape ==
    ASSUME TypeOK, Activations
    PROVE  /\ \A k \in 1 .. Len(stack) : stack[k] \in Activation
           /\ \A j, k \in 1 .. Len(stack) : stack[j].tbl = stack[k].tbl => j = k
           /\ \A k \in 1 .. Len(stack) : \A i : Done(stack[k].tbl, i) <=> i < stack[k].i
PROOF
  <1>1. \A k \in 1 .. Len(stack) : stack[k] \in Activation
    BY DEF TypeOK
  <1>2. \A k \in 1 .. Len(stack) : copies[stack[k].tbl].lvl = 5 - k
    BY DEF Activations
  <1>3. \A j, k \in 1 .. Len(stack) : stack[j].tbl = stack[k].tbl => j = k
    BY <1>2
  <1> QED BY <1>1, <1>3 DEF Done

\* Until the switch the processor's level-4 table is the firmware's, untouched.
LEMMA OldRootRead ==
    ASSUME Position, TablesApart, Contents, pc # "running", ~New
    PROVE  cr3 = OldRoot /\ mem[cr3] = mem0[OldRoot]
PROOF
  <1>1. OldRoot \in Frame /\ OldRoot \notin Usable(map)
    BY OldTable, Levels
  <1> QED BY <1>1 DEF Position, TablesApart, Contents

\* The entry a loop has come to is still the firmware's, of a firmware's table of that level.
LEMMA Pending ==
    ASSUME IInv, pc = "clone", NEW k \in 1 .. Len(stack), stack[k].i < PT_ENTRIES
    PROVE  /\ stack[k].i \in Idx /\ stack[k].tbl \in Frame /\ copies[stack[k].tbl].src \in Frame
           /\ stack[k].tbl \in DOMAIN copies
           /\ copies[stack[k].tbl].src \in Level(mem0, OldRoot, 5 - k)
           /\ (IF stack[k].lvl = 4 THEN mem[cr3][stack[k].i] ELSE mem[stack[k].tbl][stack[k].i])
                = mem0[copies[stack[k].tbl].src][stack[k].i]
PROOF
  <1> USE DEF IInv
  <1>1. /\ stack[k] \in Activation /\ stack[k].lvl = 5 - k /\ Len(stack) \in 0 .. 4 /\ k \in 1 .. 4
        /\ stack[k].tbl \in DOMAIN copies /\ copies[stack[k].tbl].lvl = 5 - k
        /\ k = 1 => stack[k].tbl = new_lv4
    <2>1. stack[k] \in Activation /\ stack[k].lvl = 5 - k
      BY StackShape DEF TypeOK
    <2>2. Len(stack) \in 0 .. 4
      BY DEF Activations
    <2>3. /\ stack[k].tbl \in DOMAIN copies /\ copies[stack[k].tbl].lvl = 5 - k
          /\ k = 1 => stack[k].tbl = new_lv4
      BY DEF Activations
    <2> QED BY <2>1, <2>2, <2>3
  <1>2. stack[k].i \in Idx /\ stack[k].tbl \in Frame
    BY <1>1, FirmwareAssumption DEF Activation, Idx
  <1>3. CASE k = 1
    <2>1. copies[stack[k].tbl].src = OldRoot /\ stack[k].lvl = 4
      BY <1>1, <1>3 DEF Position, Cloning
    <2>2. cr3 = OldRoot /\ mem[cr3] = mem0[OldRoot]
      BY OldRootRead DEF New
    <2>3. OldRoot \in Level(mem0, OldRoot, 5 - k) /\ OldRoot \in Frame
      BY <1>3, Levels, FirmwareAssumption
    <2> QED BY <1>1, <1>2, <2>1, <2>2, <2>3
  <1>4. CASE k # 1
    <2>1. copies[stack[k].tbl].lvl \in 1 .. 3 /\ stack[k].lvl # 4 /\ 5 - k \in 1 .. 4
      BY <1>1, <1>4
    <2>2. /\ copies[stack[k].tbl].src \in Level(mem0, OldRoot, 5 - k)
          /\ CopiedEntry(stack[k].tbl, stack[k].i)
      BY <1>1, <1>2, <2>1 DEF Copied
    <2>3. ~Done(stack[k].tbl, stack[k].i)
      <3>1. ~(stack[k].i < stack[k].i)
        BY <1>2, FirmwareAssumption DEF Idx
      <3> QED BY <3>1, StackShape
    <2>4. copies[stack[k].tbl].src \in Frame
      BY <2>1, <2>2, OldTable
    <2> QED BY <1>1, <1>2, <2>1, <2>2, <2>3, <2>4 DEF CopiedEntry
  <1> QED BY <1>3, <1>4

\* Top is an activation; clone_* functions are at most four deep.
LEMMA TopFacts ==
    ASSUME TypeOK, Position, Activations, pc = "clone"
    PROVE  /\ Len(stack) \in 1 .. 4 /\ Len(stack) \in 1 .. Len(stack) /\ Top = stack[Len(stack)]
           /\ Top \in Activation /\ Top.lvl = 5 - Len(stack)
PROOF
  <1>1. stack \in Seq(Activation) /\ stack # <<>> /\ Len(stack) \in 0 .. 4
    BY DEF TypeOK, Position, Activations
  <1>2. Len(stack) \in 1 .. 4 /\ Len(stack) \in 1 .. Len(stack)
    BY <1>1
  <1> QED BY <1>1, <1>2 DEF Top, TypeOK

LEMMA EntryIs ==
    ASSUME IInv, pc = "clone", Top.i < PT_ENTRIES
    PROVE  /\ Top.i \in Idx /\ Top.tbl \in Frame /\ Top.tbl \in DOMAIN copies
           /\ copies[Top.tbl].src \in Frame
           /\ copies[Top.tbl].src \in Level(mem0, OldRoot, Top.lvl)
           /\ Entry = mem0[copies[Top.tbl].src][Top.i] /\ Entry \in PTE
           /\ Entry.p \in BOOLEAN /\ Entry.ps \in BOOLEAN
PROOF
  <1> USE DEF IInv
  <1>1. Len(stack) \in 1 .. Len(stack) /\ Top = stack[Len(stack)] /\ Top.lvl = 5 - Len(stack)
    BY TopFacts
  <1>2. /\ Top.i \in Idx /\ Top.tbl \in Frame /\ Top.tbl \in DOMAIN copies
        /\ copies[Top.tbl].src \in Frame
        /\ copies[Top.tbl].src \in Level(mem0, OldRoot, Top.lvl)
        /\ Entry = mem0[copies[Top.tbl].src][Top.i]
    BY <1>1, Pending DEF Entry
  <1> QED BY <1>2, OldEntry

\* An entry stays right when neither it nor its loop moves and no copy is forgotten.
LEMMA EntryKept ==
    ASSUME UNCHANGED mem0, NEW t \in DOMAIN copies, NEW i, CopiedEntry(t, i),
           \A g \in DOMAIN copies : g \in DOMAIN copies' /\ copies'[g] = copies[g],
           mem'[t][i] = mem[t][i], (Done(t, i))' <=> Done(t, i)
    PROVE  (CopiedEntry(t, i))'
PROOF
  BY DEF CopiedEntry, Repointed

LEMMA RootKept ==
    ASSUME UNCHANGED <<mem0, new_lv4>>, NEW i, RootEntry(i),
           \A g \in DOMAIN copies : g \in DOMAIN copies' /\ copies'[g] = copies[g],
           mem'[new_lv4][i] = mem[new_lv4][i], (Done(new_lv4, i))' <=> Done(new_lv4, i)
    PROVE  (RootEntry(i))'
PROOF
  <1>1. (Done(new_lv4, i))' <=> \A k \in 1 .. Len(stack') : stack'[k].tbl = new_lv4 => i < stack'[k].i
    BY DEF Done
  <1>2. Done(new_lv4, i) <=> \A k \in 1 .. Len(stack) : stack[k].tbl = new_lv4 => i < stack[k].i
    BY DEF Done
  <1> QED BY <1>1, <1>2 DEF RootEntry, Repointed, Done

LEMMA CloneSkip == ASSUME IInv, clone_skip PROVE IInv'
PROOF
  <1> USE DEF IInv
  <1>1. /\ pc = "clone" /\ Top.i < PT_ENTRIES /\ ~Descends
        /\ stack' = SetTop([Top EXCEPT !.i = @ + 1])
        /\ UNCHANGED <<map, phase, avail, pages, mem0, mem, cr3, reconstructed, new_lv4, pc, held, copies>>
    BY DEF clone_skip, alloc
  <1>2. /\ Len(stack) \in 1 .. 4 /\ Len(stack) \in 1 .. Len(stack) /\ Top = stack[Len(stack)]
        /\ Top \in Activation /\ Top.lvl = 5 - Len(stack)
    BY <1>1, TopFacts
  <1>3. /\ Top.i \in Idx /\ Top.tbl \in Frame /\ Top.tbl \in DOMAIN copies
        /\ copies[Top.tbl].src \in Frame
        /\ Entry = mem0[copies[Top.tbl].src][Top.i]
        /\ Entry.p \in BOOLEAN /\ Entry.ps \in BOOLEAN
    BY <1>1, EntryIs
  <1>4. /\ stack' \in Seq(Activation) /\ Len(stack') = Len(stack) /\ stack' # <<>>
        /\ \A k \in 1 .. Len(stack) : k # Len(stack) => stack'[k] = stack[k]
        /\ \A k \in 1 .. Len(stack) : stack'[k].lvl = stack[k].lvl /\ stack'[k].tbl = stack[k].tbl
        /\ stack'[Len(stack)].i = Top.i + 1
    <2>1. [Top EXCEPT !.i = @ + 1] \in Activation
      BY <1>1, <1>2, FirmwareAssumption DEF Activation
    <2>2. stack \in Seq(Activation)
      BY DEF TypeOK
    <2>3. stack' = [stack EXCEPT ![Len(stack)] = [Top EXCEPT !.i = @ + 1]]
      BY <1>1 DEF SetTop
    <2>4. stack' \in Seq(Activation) /\ Len(stack') = Len(stack) /\ stack' # <<>>
      BY <1>2, <2>1, <2>2, <2>3
    <2>5. /\ \A k \in 1 .. Len(stack) : k # Len(stack) => stack'[k] = stack[k]
          /\ stack'[Len(stack)] = [Top EXCEPT !.i = @ + 1]
      BY <1>2, <2>2, <2>3
    <2>6. /\ stack'[Len(stack)].lvl = Top.lvl /\ stack'[Len(stack)].tbl = Top.tbl
          /\ stack'[Len(stack)].i = Top.i + 1
      BY <1>2, <2>5 DEF Activation
    <2> QED BY <1>2, <2>4, <2>5, <2>6
  <1>5. TypeOK'
    BY <1>1, <1>4 DEF TypeOK
  <1>6. Position'
    BY <1>1, <1>4 DEF Position, New, Cloning
  <1>7. TablesApart' /\ Contents'
    BY <1>1 DEF TablesApart, Contents
  <1>8. Activations'
    <2>1. ASSUME NEW k \in 1 .. Len(stack)
          PROVE  /\ stack[k].tbl \in DOMAIN copies /\ copies[stack[k].tbl].lvl = 5 - k
                 /\ k = 1 => stack[k].tbl = new_lv4 /\ stack'[k].i > DirectIdx
                 /\ k < Len(stack) => stack'[k].i = stack[k].i
      <3>1. k = 1 => stack[k].i > DirectIdx
        BY DEF Activations
      <3>2. stack[k].i \in Nat /\ DirectIdx \in Int
        BY StackShape, FirmwareAssumption DEF Activation, Idx
      <3>3. /\ k < Len(stack) => stack'[k].i = stack[k].i
            /\ k = Len(stack) => stack'[k].i = stack[k].i + 1
        BY <1>2, <1>4
      <3>4. k = 1 => stack'[k].i > DirectIdx
        <4>1. k < Len(stack) \/ k = Len(stack)
          BY <1>2
        <4>2. stack'[k].i = stack[k].i \/ stack'[k].i = stack[k].i + 1
          BY <3>3, <4>1, Zenon
        <4> QED BY <3>1, <3>2, <4>2
      <3>5. /\ stack[k].tbl \in DOMAIN copies /\ copies[stack[k].tbl].lvl = 5 - k
            /\ k = 1 => stack[k].tbl = new_lv4
        BY Zenon DEF Activations
      <3> QED BY <3>3, <3>4, <3>5, Zenon
    <2>2. Len(stack') \in 0 .. 4
      BY <1>4 DEF Activations
    <2>3. ASSUME NEW k \in 1 .. Len(stack), k < Len(stack)
          PROVE  /\ stack'[k].i < PT_ENTRIES
                 /\ mem0[copies[stack[k].tbl].src][stack'[k].i].p
                 /\ k = 1 \/ ~mem0[copies[stack[k].tbl].src][stack'[k].i].ps
                 /\ copies[stack'[k + 1].tbl].src = mem0[copies[stack[k].tbl].src][stack'[k].i].pa
      <3>1. k + 1 \in 1 .. Len(stack)
        BY <1>2, <2>3
      <3> QED BY <1>4, <2>1, <2>3, <3>1 DEF Activations
    <2>4. ASSUME NEW k \in 1 .. Len(stack')
          PROVE  /\ stack'[k].tbl \in DOMAIN copies' /\ copies'[stack'[k].tbl].lvl = 5 - k
                 /\ k = 1 => stack'[k].tbl = new_lv4' /\ stack'[k].i > DirectIdx
                 /\ k < Len(stack') =>
                      /\ stack'[k].i < PT_ENTRIES
                      /\ mem0'[copies'[stack'[k].tbl].src][stack'[k].i].p
                      /\ k = 1 \/ ~mem0'[copies'[stack'[k].tbl].src][stack'[k].i].ps
                      /\ copies'[stack'[k + 1].tbl].src = mem0'[copies'[stack'[k].tbl].src][stack'[k].i].pa
      <3>1. copies' = copies /\ mem0' = mem0 /\ new_lv4' = new_lv4
        BY <1>1
      <3>2. k \in 1 .. Len(stack) /\ Len(stack') = Len(stack) /\ stack'[k].tbl = stack[k].tbl
        BY <1>4
      <3> QED BY <2>1, <2>3, <3>1, <3>2
    <2> QED BY <2>2, <2>4 DEF Activations
  <1>9. \A t, i : (t # Top.tbl \/ i # Top.i) /\ i \in Idx => ((Done(t, i))' <=> Done(t, i))
    <2>1. \A t, i : t # Top.tbl => ((Done(t, i))' <=> Done(t, i))
      BY <1>2, <1>4 DEF Done
    <2>2. ASSUME NEW t, t = Top.tbl
          PROVE  \A i \in Idx : i # Top.i => ((Done(t, i))' <=> Done(t, i))
      <3>1. \A i \in Idx : i # Top.i => (i < Top.i <=> i < Top.i + 1)
        BY <1>3, FirmwareAssumption DEF Idx
      <3>2. \A k \in 1 .. Len(stack) : stack[k].tbl = t => k = Len(stack)
        BY <1>2, <2>2, StackShape
      <3> QED BY <1>2, <1>4, <2>2, <3>1, <3>2 DEF Done
    <2> QED BY <2>1, <2>2
  <1>10. ~Done(Top.tbl, Top.i)
    <2>1. ~(Top.i < Top.i)
      BY <1>3, FirmwareAssumption DEF Idx
    <2> QED BY <1>2, <2>1, StackShape
  <1>11. Copied'
    <2>1. ASSUME NEW t \in DOMAIN copies, copies[t].lvl \in 1 .. 3, NEW i \in Idx
          PROVE  (CopiedEntry(t, i))'
      <3>1. CopiedEntry(t, i)
        BY <2>1 DEF Copied
      <3>2. CASE t # Top.tbl \/ i # Top.i
        BY <1>1, <1>9, <3>1, <3>2, EntryKept
      <3>3. CASE t = Top.tbl /\ i = Top.i
        <4>1. mem[t][i] = Entry /\ copies[t].lvl = Top.lvl
          BY <1>2, <1>3, <1>10, <3>1, <3>3 DEF CopiedEntry, Activations
        <4>2. ~(Entry.p /\ copies[t].lvl > 1 /\ ~Entry.ps)
          BY <1>1, <4>1 DEF Descends
        <4> QED BY <1>1, <1>3, <3>3, <4>1, <4>2 DEF CopiedEntry
      <3> QED BY <3>2, <3>3
    <2>2. ASSUME NEW i \in Idx PROVE (RootEntry(i))'
      <3>1. RootEntry(i) /\ new_lv4 \in DOMAIN copies /\ copies[new_lv4].lvl = 4 /\ copies[new_lv4].src = OldRoot
        BY <1>1 DEF Copied, Cloning, Position
      <3>2. CASE new_lv4 # Top.tbl \/ i # Top.i
        BY <1>1, <1>9, <3>1, <3>2, RootKept
      <3>3. CASE new_lv4 = Top.tbl /\ i = Top.i
        <4>1. Top.lvl = 4
          BY <1>2, <3>1, <3>3 DEF Activations
        <4>2. ~mem0[OldRoot][i].p
          BY <1>1, <1>3, <3>1, <3>3, <4>1 DEF Descends
        <4> QED BY <1>1, <1>10, <3>1, <3>3, <4>2 DEF RootEntry
      <3> QED BY <3>2, <3>3
    <2> QED BY <1>1, <2>1, <2>2 DEF Copied
  <1> QED BY <1>5, <1>6, <1>7, <1>8, <1>11

LEMMA CloneCall == ASSUME IInv, clone_call PROVE IInv'
PROOF
  <1> USE DEF IInv
  <1>1. /\ pc = "clone" /\ Top.i < PT_ENTRIES /\ Descends
        /\ mem' = [mem EXCEPT ![frame'] = mem[Entry.pa]]
        /\ stack' = Append(stack, [lvl |-> Top.lvl - 1, tbl |-> frame', i |-> 0])
        /\ Made(frame', Top.lvl - 1, Entry.pa)
        /\ UNCHANGED <<mem0, cr3, reconstructed, new_lv4, pc, held>>
    BY DEF clone_call
  <1>2. PICK n : n = Len(stack)
    OBVIOUS
  <1>3. PICK f : f = frame'
    OBVIOUS
  <1>4. PICK x : x = Entry.pa
    OBVIOUS
  <1>5. /\ n \in 1 .. 4 /\ n \in 1 .. Len(stack) /\ Top = stack[n]
        /\ Top \in Activation /\ Top.lvl = 5 - n
    BY <1>1, <1>2, TopFacts
  <1>6. /\ f \in avail /\ f \in Frame /\ f \notin DOMAIN copies
        /\ avail' = avail \ {f} /\ pages \subseteq pages'
        /\ UNCHANGED <<map, phase>>
    BY <1>3, OneTaken DEF clone_call
  <1>7. /\ Top.i \in Idx /\ Top.tbl \in Frame /\ Top.tbl \in DOMAIN copies
        /\ copies[Top.tbl].src \in Level(mem0, OldRoot, Top.lvl)
        /\ Entry = mem0[copies[Top.tbl].src][Top.i]
    BY <1>1, EntryIs
  <1>8. n < 4 /\ Entry.p /\ (n = 1 \/ ~Entry.ps)
    BY <1>1, <1>5 DEF Descends
  <1>9. x \in Level(mem0, OldRoot, 4 - n) /\ x \in Frame /\ x \notin Usable(map)
    <2>1. 5 - n \in 2 .. 4 /\ 4 - n \in 1 .. 4 /\ (5 - n) - 1 = 4 - n /\ (5 - n = 4 \/ ~Entry.ps)
      BY <1>5, <1>8
    <2>2. x \in Level(mem0, OldRoot, (5 - n) - 1)
      BY <1>4, <1>5, <1>7, <1>8, <2>1, LevelDown
    <2> QED BY <2>1, <2>2, OldTable
  <1>10. mem[x] = mem0[x]
    BY <1>1, <1>9 DEF Contents, TablesApart
  <1>11. /\ DOMAIN mem' = Frame /\ mem'[f] = mem0[x]
         /\ \A g \in Frame \ {f} : mem'[g] = mem[g]
    BY <1>1, <1>3, <1>4, <1>6, <1>10 DEF Contents
  <1>12. /\ DOMAIN copies' = DOMAIN copies \cup {f} /\ copies'[f].lvl = 4 - n /\ copies'[f].src = x
         /\ \A g \in DOMAIN copies : g # f /\ g \in DOMAIN copies' /\ copies'[g] = copies[g]
    BY <1>1, <1>3, <1>4, <1>5, <1>6 DEF Made
  <1>13. /\ stack' \in Seq(Activation) /\ Len(stack') = n + 1 /\ stack' # <<>>
         /\ \A k \in 1 .. n : stack'[k] = stack[k]
         /\ stack'[n + 1].lvl = 4 - n /\ stack'[n + 1].tbl = f /\ stack'[n + 1].i = 0
    <2> DEFINE a == [lvl |-> 4 - n, tbl |-> f, i |-> 0]
    <2>1. a \in Activation /\ a.lvl = 4 - n /\ a.tbl = f /\ a.i = 0
      BY <1>5, <1>6, <1>8, FirmwareAssumption DEF Activation
    <2>2. stack \in Seq(Activation) /\ stack' = Append(stack, a)
      BY <1>1, <1>3, <1>5 DEF TypeOK
    <2> HIDE DEF a
    <2> QED BY <1>2, <1>5, <2>1, <2>2
  <1>14. TypeOK'
    BY <1>1, <1>2, <1>5, <1>6, <1>13 DEF TypeOK
  <1>15. Position'
    BY <1>1, <1>6, <1>12, <1>13 DEF Position, New, Cloning
  <1>16. TablesApart'
    BY <1>1, <1>6, <1>12 DEF TablesApart, Position
  <1>17. Contents'
    <2>1. DOMAIN mem0[x] = Idx
      BY <1>9, FirmwareAssumption DEF Position
    <2> QED BY <1>1, <1>6, <1>11, <1>12, <2>1 DEF Contents
  <1>18. Activations'
    <2>1. \A k \in 1 .. n : stack[k].tbl \in DOMAIN copies /\ copies[stack[k].tbl].lvl = 5 - k
      BY <1>2 DEF Activations
    <2>2. ASSUME NEW k \in 1 .. n
          PROVE  /\ stack[k].i < PT_ENTRIES
                 /\ mem0[copies[stack[k].tbl].src][stack[k].i].p
                 /\ k = 1 \/ ~mem0[copies[stack[k].tbl].src][stack[k].i].ps
                 /\ copies'[stack'[k + 1].tbl].src = mem0[copies[stack[k].tbl].src][stack[k].i].pa
      <3>1. CASE k = n
        BY <1>1, <1>4, <1>5, <1>7, <1>8, <1>12, <1>13, <3>1
      <3>2. CASE k < n
        <4>1. k + 1 \in 1 .. n
          BY <1>5, <3>2
        <4>2. k \in 1 .. Len(stack) /\ k < Len(stack)
          BY <1>2, <1>5, <3>2
        <4>3. /\ stack[k].i < PT_ENTRIES
              /\ mem0[copies[stack[k].tbl].src][stack[k].i].p
              /\ k = 1 \/ ~mem0[copies[stack[k].tbl].src][stack[k].i].ps
              /\ copies[stack[k + 1].tbl].src = mem0[copies[stack[k].tbl].src][stack[k].i].pa
          BY <4>2, Zenon DEF Activations
        <4>4. copies'[stack'[k + 1].tbl] = copies[stack[k + 1].tbl]
          BY <1>12, <1>13, <2>1, <4>1
        <4> QED BY <4>3, <4>4, Zenon
      <3>3. k = n \/ k < n
        BY <1>5
      <3> QED BY <3>1, <3>2, <3>3, Zenon
    <2>3. ASSUME NEW k \in 1 .. Len(stack')
          PROVE  /\ stack'[k].tbl \in DOMAIN copies' /\ copies'[stack'[k].tbl].lvl = 5 - k
                 /\ k = 1 => stack'[k].tbl = new_lv4' /\ stack'[k].i > DirectIdx
                 /\ k < Len(stack') =>
                      /\ stack'[k].i < PT_ENTRIES
                      /\ mem0'[copies'[stack'[k].tbl].src][stack'[k].i].p
                      /\ k = 1 \/ ~mem0'[copies'[stack'[k].tbl].src][stack'[k].i].ps
                      /\ copies'[stack'[k + 1].tbl].src = mem0'[copies'[stack'[k].tbl].src][stack'[k].i].pa
      <3>1. mem0' = mem0 /\ new_lv4' = new_lv4
        BY <1>1
      <3>2. CASE k = n + 1
        <4>1. k # 1 /\ ~(k < Len(stack')) /\ 5 - k = 4 - n
          BY <1>5, <1>13, <3>2
        <4>2. stack'[k].tbl = f /\ f \in DOMAIN copies' /\ copies'[f].lvl = 4 - n
          BY <1>12, <1>13, <3>2, Zenon
        <4> QED BY <4>1, <4>2, Zenon
      <3>3. CASE k \in 1 .. n
        <4>1. stack'[k] = stack[k] /\ copies'[stack[k].tbl] = copies[stack[k].tbl] /\ stack[k].tbl \in DOMAIN copies'
          BY <1>12, <1>13, <2>1, <3>3
        <4>2. k = 1 => stack[k].tbl = new_lv4 /\ stack[k].i > DirectIdx
          BY <1>2, <3>3 DEF Activations
        <4> QED BY <2>1, <2>2, <3>1, <3>3, <4>1, <4>2
      <3>4. k = n + 1 \/ k \in 1 .. n
        BY <1>5, <1>13
      <3> QED BY <3>2, <3>3, <3>4, Zenon
    <2>4. Len(stack') \in 0 .. 4
      BY <1>5, <1>8, <1>13
    <2> QED BY <2>3, <2>4 DEF Activations
  <1>19. \A t \in DOMAIN copies : \A i : (Done(t, i))' <=> Done(t, i)
    BY <1>2, <1>5, <1>12, <1>13 DEF Done
  <1>20. \A t \in DOMAIN copies : mem'[t] = mem[t]
    BY <1>6, <1>11, UsableIsFrame DEF TablesApart
  <1>21. Copied'
    <2>1. ASSUME NEW i \in Idx PROVE (RootEntry(i))'
      <3>1. RootEntry(i) /\ new_lv4 \in DOMAIN copies
        BY <1>1 DEF Copied, Cloning, Position
      <3> QED BY <1>1, <1>12, <1>19, <1>20, <3>1, RootKept
    <2>2. ASSUME NEW i \in Idx PROVE (CopiedEntry(f, i))'
      <3>1. ~(Done(f, i))'
        BY <1>5, <1>13, FirmwareAssumption DEF Done, Idx
      <3> QED BY <1>1, <1>11, <1>12, <3>1 DEF CopiedEntry
    <2>3. ASSUME NEW t \in DOMAIN copies'
          PROVE  /\ copies'[t].lvl \in 0 .. 4
                 /\ copies'[t].lvl = 0 => mem'[t] = DirectTable
                 /\ copies'[t].lvl = 4 => t = new_lv4'
                 /\ copies'[t].lvl \in 1 .. 3 =>
                      copies'[t].src \in Level(mem0', OldRoot, copies'[t].lvl) /\ \A i \in Idx : (CopiedEntry(t, i))'
      <3>1. CASE t = f
        <4>1. 4 - n \in 1 .. 3 /\ mem0' = mem0
          BY <1>1, <1>5, <1>8
        <4> QED BY <1>9, <1>12, <2>2, <3>1, <4>1
      <3>2. CASE t \in DOMAIN copies
        <4>1. copies'[t] = copies[t] /\ mem'[t] = mem[t] /\ mem0' = mem0 /\ new_lv4' = new_lv4
          BY <1>1, <1>12, <1>20, <3>2
        <4>2. ASSUME copies[t].lvl \in 1 .. 3, NEW i \in Idx PROVE (CopiedEntry(t, i))'
          <5>1. CopiedEntry(t, i)
            BY <3>2, <4>2 DEF Copied
          <5> QED BY <1>12, <1>19, <3>2, <4>1, <5>1, EntryKept
        <4> QED BY <3>2, <4>1, <4>2 DEF Copied
      <3> QED BY <1>12, <3>1, <3>2
    <2> QED BY <2>1, <2>3 DEF Copied
  <1> QED BY <1>14, <1>15, <1>16, <1>17, <1>18, <1>21

LEMMA CloneReturn == ASSUME IInv, clone_return PROVE IInv'
PROOF
  <1> USE DEF IInv
  <1>1. PICK n : n = Len(stack) - 1
    OBVIOUS
  <1>2. PICK c : c = stack[n]
    OBVIOUS
  <1>3. PICK r : r = Top.tbl
    OBVIOUS
  <1>4. PICK pte : pte = IF c.lvl = 4 THEN mem[cr3][c.i] ELSE mem[c.tbl][c.i]
    OBVIOUS
  <1>5. /\ pc = "clone" /\ Len(stack) > 1 /\ Top.i = PT_ENTRIES
        /\ mem' = [mem EXCEPT ![c.tbl][c.i] = [pte EXCEPT !.pa = r]]
        /\ stack' = [SubSeq(stack, 1, n) EXCEPT ![n].i = @ + 1]
        /\ UNCHANGED <<map, phase, avail, pages, mem0, cr3, reconstructed, new_lv4, pc, held, copies>>
    BY <1>1, <1>2, <1>3, <1>4 DEF clone_return, alloc
  <1>6. /\ n \in 1 .. 3 /\ Len(stack) = n + 1 /\ Top = stack[n + 1] /\ n + 1 \in 1 .. Len(stack)
        /\ n \in 1 .. Len(stack) /\ Top \in Activation
    BY <1>1, <1>5, TopFacts
  <1>7. /\ c \in Activation /\ c.lvl = 5 - n /\ c.tbl \in DOMAIN copies /\ copies[c.tbl].lvl = 5 - n
        /\ c.i < PT_ENTRIES
        /\ n = 1 => c.tbl = new_lv4 /\ c.i > DirectIdx
    <2>1. c \in Activation /\ c.lvl = 5 - n
      BY <1>2, <1>6, StackShape DEF TypeOK
    <2>2. n < Len(stack)
      BY <1>6
    <2> QED BY <1>2, <1>6, <2>1, <2>2, Zenon DEF Activations
  <1>8. PICK o : o = mem0[copies[c.tbl].src][c.i]
    OBVIOUS
  <1>9. /\ o.p /\ (n = 1 \/ ~o.ps) /\ r \in DOMAIN copies
        /\ copies[r].src = o.pa /\ copies[r].lvl = 4 - n
    <2>1. n < Len(stack) /\ 5 - (n + 1) = 4 - n
      BY <1>6
    <2> QED BY <1>2, <1>3, <1>6, <1>8, <2>1, Zenon DEF Activations
  <1>10. c.i \in Idx /\ c.tbl \in Frame /\ pte = o /\ o \in PTE
    <2>1. c.i \in Idx /\ c.tbl \in Frame /\ copies[c.tbl].src \in Frame /\ pte = o
      BY <1>2, <1>4, <1>5, <1>6, <1>7, <1>8, Pending
    <2> QED BY <1>8, <2>1, OldEntry
  <1>11. /\ DOMAIN mem' = Frame /\ \A g \in Frame : DOMAIN mem'[g] = Idx
         /\ mem'[c.tbl][c.i] = [pte EXCEPT !.pa = r]
         /\ \A g \in Frame, i \in Idx : g # c.tbl \/ i # c.i => mem'[g][i] = mem[g][i]
         /\ \A g \in Frame : g # c.tbl => mem'[g] = mem[g]
    BY <1>5, <1>10 DEF Contents
  <1>12. PICK e : e = mem'[c.tbl][c.i]
    OBVIOUS
  <1>13. e.p /\ e.ps = o.ps /\ e.fl = o.fl /\ e.pa = r
    BY <1>9, <1>10, <1>11, <1>12 DEF PTE
  <1>14. /\ stack' \in Seq(Activation) /\ Len(stack') = n /\ stack' # <<>>
         /\ \A k \in 1 .. n : k # n => stack'[k] = stack[k]
         /\ \A k \in 1 .. n : stack'[k].lvl = stack[k].lvl /\ stack'[k].tbl = stack[k].tbl
         /\ stack'[n].i = c.i + 1
    <2> DEFINE q == SubSeq(stack, 1, n)
    <2>1. q \in Seq(Activation) /\ Len(q) = n /\ \A k \in 1 .. n : q[k] = stack[k]
      BY <1>6 DEF TypeOK
    <2> HIDE DEF q
    <2>2. [c EXCEPT !.i = @ + 1] \in Activation
      BY <1>7, <1>10, FirmwareAssumption DEF Activation, Idx
    <2>3. stack' = [q EXCEPT ![n] = [c EXCEPT !.i = @ + 1]]
      <3>1. stack' = [q EXCEPT ![n].i = @ + 1]
        BY <1>5 DEF q
      <3>2. q[n] = c
        BY <1>2, <1>6, <2>1
      <3> QED BY <3>1, <3>2
    <2>4. stack' \in Seq(Activation) /\ Len(stack') = n /\ stack' # <<>>
      BY <1>6, <2>1, <2>2, <2>3
    <2>5. /\ \A k \in 1 .. n : k # n => stack'[k] = stack[k]
          /\ stack'[n] = [c EXCEPT !.i = @ + 1]
      BY <1>6, <2>1, <2>3
    <2>6. stack'[n].lvl = c.lvl /\ stack'[n].tbl = c.tbl /\ stack'[n].i = c.i + 1
      BY <1>7, <2>5 DEF Activation
    <2> QED BY <1>2, <1>6, <2>4, <2>5, <2>6
  <1>15. TypeOK'
    <2>1. \A k \in 1 .. Len(stack') : k \in 1 .. Len(stack) /\ stack'[k].lvl = stack[k].lvl
      BY <1>6, <1>14
    <2> QED BY <1>5, <1>14, <2>1 DEF TypeOK
  <1>16. Position'
    BY <1>5, <1>14 DEF Position, New, Cloning
  <1>17. TablesApart'
    BY <1>5 DEF TablesApart
  <1>18. Contents'
    BY <1>5, <1>7, <1>11 DEF Contents
  <1>19. Activations'
    <2>1. ASSUME NEW k \in 1 .. n
          PROVE  /\ stack[k].tbl \in DOMAIN copies /\ copies[stack[k].tbl].lvl = 5 - k
                 /\ k = 1 => stack[k].tbl = new_lv4 /\ stack'[k].i > DirectIdx
                 /\ k < n => stack'[k].i = stack[k].i
      <3>1. k = 1 => stack[k].i > DirectIdx
        <4>1. k \in 1 .. Len(stack)
          BY <1>6
        <4> QED BY <4>1, Zenon DEF Activations
      <3>2. stack[k].i \in Nat /\ DirectIdx \in Int
        BY <1>6, StackShape, FirmwareAssumption DEF Activation, Idx
      <3>3. k \in 1 .. Len(stack)
        BY <1>6
      <3>4. /\ k < n => stack'[k].i = stack[k].i
            /\ k = n => stack'[k].i = stack[k].i + 1
        BY <1>2, <1>6, <1>14
      <3>5. k = 1 => stack'[k].i > DirectIdx
        BY <1>6, <3>1, <3>2, <3>4
      <3>6. /\ stack[k].tbl \in DOMAIN copies /\ copies[stack[k].tbl].lvl = 5 - k
            /\ k = 1 => stack[k].tbl = new_lv4
        BY <3>3, Zenon DEF Activations
      <3> QED BY <3>4, <3>5, <3>6, Zenon
    <2>2. Len(stack') \in 0 .. 4
      BY <1>6, <1>14
    <2>3. ASSUME NEW k \in 1 .. n, k < n
          PROVE  /\ stack'[k].i < PT_ENTRIES
                 /\ mem0[copies[stack[k].tbl].src][stack'[k].i].p
                 /\ k = 1 \/ ~mem0[copies[stack[k].tbl].src][stack'[k].i].ps
                 /\ copies[stack'[k + 1].tbl].src = mem0[copies[stack[k].tbl].src][stack'[k].i].pa
      <3>1. k + 1 \in 1 .. n /\ k \in 1 .. Len(stack) /\ k < Len(stack)
        BY <1>6, <2>3
      <3>2. stack'[k].i = stack[k].i /\ stack'[k + 1].tbl = stack[k + 1].tbl
        BY <1>14, <2>1, <2>3, <3>1
      <3> QED BY <3>1, <3>2, Zenon DEF Activations
    <2>4. ASSUME NEW k \in 1 .. Len(stack')
          PROVE  /\ stack'[k].tbl \in DOMAIN copies' /\ copies'[stack'[k].tbl].lvl = 5 - k
                 /\ k = 1 => stack'[k].tbl = new_lv4' /\ stack'[k].i > DirectIdx
                 /\ k < Len(stack') =>
                      /\ stack'[k].i < PT_ENTRIES
                      /\ mem0'[copies'[stack'[k].tbl].src][stack'[k].i].p
                      /\ k = 1 \/ ~mem0'[copies'[stack'[k].tbl].src][stack'[k].i].ps
                      /\ copies'[stack'[k + 1].tbl].src = mem0'[copies'[stack'[k].tbl].src][stack'[k].i].pa
      <3>1. copies' = copies /\ mem0' = mem0 /\ new_lv4' = new_lv4
        BY <1>5
      <3>2. k \in 1 .. n /\ Len(stack') = n /\ stack'[k].tbl = stack[k].tbl
        BY <1>14
      <3> QED BY <2>1, <2>3, <3>1, <3>2
    <2> QED BY <2>2, <2>4 DEF Activations
  <1>20. ASSUME NEW t, NEW i \in Idx, t # c.tbl \/ i # c.i PROVE (Done(t, i))' <=> Done(t, i)
    <2>1. \A k \in 1 .. n + 1 : k \in 1 .. n \/ k = n + 1
      BY <1>6
    <2>2. CASE t = r
      <3>1. Done(t, i)
        <4>1. i < Top.i
          BY <1>5, FirmwareAssumption DEF Idx
        <4> QED BY <1>3, <1>6, <2>2, <4>1, StackShape
      <3>2. \A k \in 1 .. n : stack[k].tbl # t
        BY <1>3, <1>6, <2>2, StackShape
      <3> QED BY <1>14, <3>1, <3>2 DEF Done
    <2>3. CASE t # r /\ t # c.tbl
      <3>1. \A k \in 1 .. n : stack[k].tbl = t => stack'[k] = stack[k]
        BY <1>2, <1>14, <2>3
      <3> QED BY <1>3, <1>6, <1>14, <2>1, <2>3, <3>1 DEF Done
    <2>4. CASE t = c.tbl
      <3>1. i < c.i <=> i < c.i + 1
        BY <1>10, <1>20, <2>4, FirmwareAssumption DEF Idx
      <3>2. Done(t, i) <=> i < c.i
        BY <1>2, <1>6, <2>4, StackShape
      <3>3. \A k \in 1 .. n : stack[k].tbl = t => k = n
        BY <1>2, <1>6, <2>4, StackShape
      <3>4. (Done(t, i))' <=> i < c.i + 1
        BY <1>2, <1>6, <1>14, <2>4, <3>3 DEF Done
      <3> QED BY <3>1, <3>2, <3>4
    <2> QED BY <2>2, <2>3, <2>4
  <1>21. \A g \in DOMAIN copies : g \in Frame /\ g \in DOMAIN copies' /\ copies'[g] = copies[g]
    BY <1>5, UsableIsFrame DEF TablesApart
  <1>22. Copied'
    <2>1. ASSUME NEW t \in DOMAIN copies, copies[t].lvl \in 1 .. 3, NEW i \in Idx
          PROVE  (CopiedEntry(t, i))'
      <3>1. CopiedEntry(t, i)
        BY <2>1 DEF Copied
      <3>2. CASE t # c.tbl \/ i # c.i
        <4>1. mem'[t][i] = mem[t][i] /\ mem0' = mem0
          BY <1>5, <1>11, <1>21, <3>2
        <4>2. (Done(t, i))' <=> Done(t, i)
          BY <1>20, <3>2
        <4> QED BY <1>21, <3>1, <4>1, <4>2, EntryKept
      <3>3. CASE t = c.tbl /\ i = c.i
        <4>1. copies[t].lvl = 5 - n /\ n # 1 /\ 5 - n > 1 /\ (5 - n) - 1 = 4 - n
          BY <1>6, <1>7, <2>1, <3>3
        <4>2. mem'[t][i] = e /\ mem0'[copies'[t].src][i] = o /\ copies' = copies
          BY <1>5, <1>8, <1>12, <3>3
        <4>3. e.pa \in DOMAIN copies /\ copies[e.pa].lvl = 4 - n /\ copies[e.pa].src = o.pa
          BY <1>9, <1>13
        <4>4. (Done(t, i))'
          <5>1. \A k \in 1 .. n : stack[k].tbl = t => k = n
            BY <1>2, <1>6, <3>3, StackShape
          <5>2. i < c.i + 1
            BY <1>10, <3>3, FirmwareAssumption DEF Idx
          <5> QED BY <1>14, <5>1, <5>2 DEF Done
        <4> QED BY <1>9, <1>13, <4>1, <4>2, <4>3, <4>4 DEF CopiedEntry, Repointed
      <3> QED BY <3>2, <3>3
    <2>2. ASSUME NEW i \in Idx PROVE (RootEntry(i))'
      <3>1. PICK t : t = new_lv4
        OBVIOUS
      <3>2. RootEntry(i) /\ t \in DOMAIN copies /\ copies[t].lvl = 4 /\ copies[t].src = OldRoot
        BY <1>5, <3>1 DEF Copied, Cloning, Position
      <3>3. CASE t # c.tbl \/ i # c.i
        <4>1. mem'[t][i] = mem[t][i] /\ mem0' = mem0 /\ new_lv4' = t
          BY <1>5, <1>11, <1>21, <3>1, <3>2, <3>3
        <4>2. (Done(t, i))' <=> Done(t, i)
          BY <1>20, <3>3
        <4>3. (Done(new_lv4, i))' <=> Done(new_lv4, i)
          BY <3>1, <4>1, <4>2 DEF Done
        <4> QED BY <1>5, <1>21, <3>1, <3>2, <4>1, <4>3, RootKept
      <3>4. CASE t = c.tbl /\ i = c.i
        <4>1. n = 1 /\ i > DirectIdx /\ i # DirectIdx
          BY <1>6, <1>7, <3>2, <3>4, FirmwareAssumption DEF Idx
        <4>2. mem'[t][i] = e /\ mem0'[OldRoot][i] = o /\ new_lv4' = t /\ copies' = copies
          BY <1>5, <1>8, <1>12, <3>1, <3>2, <3>4
        <4>3. e.pa \in DOMAIN copies /\ copies[e.pa].lvl = 4 - 1 /\ copies[e.pa].src = o.pa
          BY <1>9, <1>13, <4>1
        <4>4. \A k \in 1 .. Len(stack') : stack'[k].tbl = t => i < stack'[k].i
          BY <1>7, <1>10, <1>14, <3>4, <4>1, FirmwareAssumption DEF Idx
        <4> QED BY <1>9, <1>13, <4>1, <4>2, <4>3, <4>4 DEF RootEntry, Repointed, Done
      <3> QED BY <3>3, <3>4
    <2>3. ASSUME NEW t \in DOMAIN copies, copies[t].lvl = 0 PROVE mem'[t] = DirectTable
      <3>1. mem'[t] = mem[t]
        BY <1>6, <1>7, <1>11, <1>21, <2>3
      <3> QED BY <2>3, <3>1 DEF Copied
    <2> QED BY <1>5, <2>1, <2>2, <2>3 DEF Copied
  <1> QED BY <1>15, <1>16, <1>17, <1>18, <1>19, <1>22

(* ---- the other steps ---- *)

LEMMA OutOfFrames == ASSUME IInv, out_of_frames PROVE IInv'
PROOF
  <1> USE DEF IInv
  <1>1. /\ pc \in {"alloc_lv4", "map_direct", "clone"} /\ pc' = "halted"
        /\ UNCHANGED <<map, phase, avail, pages>>
        /\ UNCHANGED <<mem0, mem, cr3, reconstructed, new_lv4, stack, held, copies>>
    BY DEF out_of_frames, PA!Fail
  <1>2. TypeOK'
    BY <1>1 DEF TypeOK
  <1>3. Position'
    BY <1>1 DEF Position, New, Cloning
  <1>4. TablesApart'
    BY <1>1 DEF TablesApart
  <1>5. Contents' /\ Activations' /\ Copied'
    BY <1>1, QuietStep DEF Cloning
  <1> QED BY <1>2, <1>3, <1>4, <1>5

LEMMA WriteCr3 == ASSUME IInv, write_cr3 PROVE IInv'
PROOF
  <1> USE DEF IInv
  <1>1. /\ pc = "clone" /\ Len(stack) = 1 /\ Top.i = PT_ENTRIES /\ cr3' = new_lv4
        /\ stack' = <<>> /\ pc' = "switched"
        /\ UNCHANGED <<map, phase, avail, pages, mem0, mem, reconstructed, new_lv4, held, copies>>
    BY DEF write_cr3, alloc
  <1>2. Len(stack') = 0 /\ stack' \in Seq(Activation)
    BY <1>1
  <1>3. TypeOK'
    BY <1>1, <1>2 DEF TypeOK
  <1>4. Position'
    BY <1>1 DEF Position, New, Cloning
  <1>5. TablesApart' /\ Contents'
    BY <1>1 DEF TablesApart, Contents
  <1>6. Activations'
    BY <1>1, <1>2 DEF Activations
  <1>7. \A t : \A i \in Idx : (Done(t, i))' /\ Done(t, i)
    <2>1. \A i \in Idx : i < PT_ENTRIES
      BY FirmwareAssumption DEF Idx
    <2>2. \A k \in 1 .. Len(stack) : stack[k].i = PT_ENTRIES
      BY <1>1 DEF Top
    <2> QED BY <1>2, <2>1, <2>2 DEF Done
  <1>8. Copied'
    <2>1. ASSUME NEW t \in DOMAIN copies, copies[t].lvl \in 1 .. 3, NEW i \in Idx
          PROVE  (CopiedEntry(t, i))'
      <3>1. CopiedEntry(t, i)
        BY <2>1 DEF Copied
      <3> QED BY <1>1, <1>7, <3>1, EntryKept
    <2>2. ASSUME NEW i \in Idx PROVE (RootEntry(i))'
      <3>1. RootEntry(i)
        BY <1>1 DEF Copied, Cloning
      <3> QED BY <1>1, <1>7, <3>1, RootKept
    <2> QED BY <1>1, <2>1, <2>2 DEF Copied
  <1> QED BY <1>3, <1>4, <1>5, <1>6, <1>8

LEMMA MarkReconstructed == ASSUME IInv, paging_mark_reconstructed PROVE IInv'
PROOF
  <1> USE DEF IInv
  <1>1. /\ pc = "switched" /\ pc' = "release" /\ reconstructed' = TRUE
        /\ UNCHANGED <<map, phase, avail, pages, mem0, mem, cr3, new_lv4, stack, held, copies>>
    BY DEF paging_mark_reconstructed, alloc
  <1>2. TypeOK' /\ TablesApart'
    BY <1>1 DEF TypeOK, TablesApart
  <1>3. Position'
    BY <1>1 DEF Position, New, Cloning
  <1>4. Contents' /\ Activations' /\ Copied'
    BY <1>1, QuietStep DEF Cloning
  <1> QED BY <1>2, <1>3, <1>4

\* The tables lie in memory that was usable before: the release cannot reach them.
LEMMA ReleaseData == ASSUME IInv, release_boot_services_data PROVE IInv'
PROOF
  <1> USE DEF IInv
  <1>1. /\ pc = "release" /\ pc' = "running" /\ phase' = "released"
        /\ avail' = avail \cup (BootData(map) \ {0}) /\ UNCHANGED <<map, pages>>
        /\ UNCHANGED <<mem0, mem, cr3, reconstructed, new_lv4, stack, held, copies>>
    BY SameOperators DEF release_boot_services_data, PA!Release
  <1>2. TypeOK'
    BY <1>1 DEF TypeOK
  <1>3. Position'
    BY <1>1 DEF Position, New, Cloning
  <1>4. Usable(map) \cap BootData(map) = {} /\ BootData(map) \subseteq Frame
    BY UsableNotBootData, UsableIsFrame DEF Position
  <1>5. TablesApart'
    BY <1>1, <1>4 DEF TablesApart, Position
  <1>6. Contents' /\ Activations' /\ Copied'
    BY <1>1, QuietStep DEF Cloning
  <1> QED BY <1>2, <1>3, <1>5, <1>6

LEMMA ClientAlloc == ASSUME IInv, NEW n \in ClientPages, client_alloc(n) PROVE IInv'
PROOF
  <1> USE DEF IInv
  <1> DEFINE r == [bytes |-> n * PageSize, needed |-> n, align |-> 1]
  <1>1. /\ pc = "running" /\ UNCHANGED <<mem0, cr3, reconstructed, new_lv4, pc, stack, copies>>
        /\ \/ /\ PA!Alloc(r)
              /\ mem' = [f \in Frame |-> IF f \in Run(frame', n) THEN Junk ELSE mem[f]]
              /\ held' = held \cup (pages' \ pages)
           \/ /\ PA!Fail(r)
              /\ UNCHANGED <<mem, held>>
    BY DEF client_alloc
  <1>2. CASE PA!Fail(r) /\ UNCHANGED <<mem, held>>
    <2>1. UNCHANGED <<map, phase, avail, pages>>
      BY <1>2 DEF PA!Fail
    <2>2. TypeOK' /\ TablesApart'
      BY <1>1, <1>2, <2>1 DEF TypeOK, TablesApart
    <2>3. Position'
      BY <1>1, <1>2, <2>1 DEF Position, New, Cloning
    <2>4. Contents' /\ Activations' /\ Copied'
      BY <1>1, <1>2, QuietStep DEF Cloning
    <2> QED BY <2>2, <2>3, <2>4
  <1>3. CASE /\ PA!Alloc(r)
             /\ mem' = [f \in Frame |-> IF f \in Run(frame', n) THEN Junk ELSE mem[f]]
             /\ held' = held \cup (pages' \ pages)
    <2>1. r.needed = n /\ r.align = 1
      OBVIOUS
    <2> HIDE DEF r
    <2>2. PICK s \in PA!Fits(n, 1) :
             /\ avail' = avail \ Run(s, n) /\ frame' = s
             /\ pages' = pages \cup {[start |-> s, frames |-> n, bytes |-> r.bytes, align |-> 1]}
      BY <1>3, <2>1, SameOperators DEF PA!Alloc
    <2>3. Run(s, n) \subseteq avail /\ UNCHANGED <<map, phase>>
      BY <1>3, <2>2, SameOperators DEF PA!Fits, PA!Alloc
    <2>4. /\ held' \subseteq pages'
          /\ \A b \in held' : b \in held \/ (b.start = s /\ b.frames = n)
      BY <1>3, <2>2 DEF TypeOK
    <2>5. TypeOK'
      BY <1>1, <2>2, <2>4 DEF TypeOK
    <2>6. Position'
      BY <1>1, <2>3 DEF Position, New, Cloning
    <2>7. TablesApart'
      <3>1. Run(s, n) \subseteq Frame \ DOMAIN copies
        BY <2>3 DEF TablesApart
      <3> QED BY <1>1, <2>2, <2>3, <2>4, <3>1 DEF TablesApart
    <2>8. \A t \in DOMAIN copies : mem'[t] = mem[t]
      BY <1>3, <2>2, <2>3, UsableIsFrame DEF TablesApart
    <2>9. Contents'
      BY <1>1, <1>3 DEF Contents, Junk
    <2>10. Activations'
      BY <1>1 DEF Activations
    <2>11. \A t, i : (Done(t, i))' <=> Done(t, i)
      BY <1>1 DEF Done
    <2>12. Copied'
      <3>1. ASSUME NEW t \in DOMAIN copies, copies[t].lvl \in 1 .. 3, NEW i \in Idx
            PROVE  (CopiedEntry(t, i))'
        <4>1. CopiedEntry(t, i)
          BY <3>1 DEF Copied
        <4> QED BY <1>1, <2>8, <2>11, <4>1, EntryKept
      <3>2. ASSUME NEW i \in Idx PROVE (RootEntry(i))'
        <4>1. RootEntry(i) /\ new_lv4 \in DOMAIN copies
          BY <1>1 DEF Copied, Cloning, Position
        <4> QED BY <1>1, <2>8, <2>11, <4>1, RootKept
      <3> QED BY <1>1, <2>8, <3>1, <3>2 DEF Copied
    <2> QED BY <2>5, <2>6, <2>7, <2>9, <2>10, <2>12
  <1> QED BY <1>1, <1>2, <1>3

LEMMA ClientFree == ASSUME IInv, NEW b \in held, client_free(b) PROVE IInv'
PROOF
  <1> USE DEF IInv
  <1>1. /\ pc = "running" /\ held' = held \ {b}
        /\ avail' = avail \cup Run(b.start, b.frames) /\ pages' = pages \ {b}
        /\ UNCHANGED <<map, phase, mem0, mem, cr3, reconstructed, new_lv4, pc, stack, copies>>
    BY SameOperators DEF client_free, PA!Free
  <1>2. TypeOK'
    BY <1>1 DEF TypeOK
  <1>3. Position'
    BY <1>1 DEF Position, New, Cloning
  <1>4. TablesApart'
    BY <1>1 DEF TablesApart
  <1>5. Contents' /\ Activations' /\ Copied'
    BY <1>1, QuietStep DEF Cloning
  <1> QED BY <1>2, <1>3, <1>4, <1>5

LEMMA InvNext == ASSUME IInv, [Next]_vars PROVE IInv'
PROOF
  <1>1. CASE BootSteps
    BY <1>1, PagesInit, AllocLv4, MapDirect, CloneSkip, CloneCall, CloneReturn, OutOfFrames,
       WriteCr3, MarkReconstructed, ReleaseData DEF BootSteps
  <1>2. CASE \E n \in ClientPages : client_alloc(n)
    BY <1>2, ClientAlloc
  <1>3. CASE \E b \in held : client_free(b)
    BY <1>3, ClientFree
  <1>4. CASE UNCHANGED vars
    <2>1. UNCHANGED <<map, phase, avail, pages, mem0, mem, cr3, reconstructed, new_lv4, pc, stack, held, copies>>
      BY <1>4 DEF vars, alloc
    <2>2. TypeOK' /\ TablesApart'
      BY <2>1 DEF IInv, TypeOK, TablesApart
    <2>3. Position'
      BY <2>1 DEF IInv, Position, New, Cloning
    <2>4. Contents' /\ Activations' /\ Copied'
      BY <2>1, QuietStep DEF IInv, Cloning
    <2> QED BY <2>2, <2>3, <2>4 DEF IInv
  <1> QED BY <1>1, <1>2, <1>3, <1>4 DEF Next

\* The inductive invariant holds throughout the boot and after it.
THEOREM Invariance == Spec => []IInv
PROOF
  BY InvInit, InvNext, PTL DEF Spec

(* Types: the clone functions nest at levels 4, 3, 2, 1, their loop counters stay
   within the table, and clients hold only blocks the page allocator handed out. *)
THEOREM TypeCorrect == Spec => []TypeOK
PROOF
  <1>1. IInv => TypeOK
    BY DEF IInv
  <1> QED BY <1>1, Invariance, PTL

(* ---- the walks ---- *)

\* w is a leaf, a fault, or a table of its level among those reachable in m0.
Reaches(m0, root, w) ==
    w.kind = "table" => w.lvl \in 1 .. 4 /\ w.e.pa \in Level(m0, root, w.lvl)

LEMMA ReadSame ==
    ASSUME NEW m, NEW m0, NEW root, \A l \in 1 .. 4 : \A t \in Level(m0, root, l) : m[t] = m0[t],
           NEW w, Reaches(m0, root, w), NEW i \in Idx
    PROVE  Read(m, w, i) = Read(m0, w, i) /\ Reaches(m0, root, Read(m0, w, i))
PROOF
  <1>1. CASE w.kind # "table"
    BY <1>1 DEF Read, Reaches
  <1>2. CASE w.kind = "table"
    <2>1. w.lvl \in 1 .. 4 /\ w.e.pa \in Level(m0, root, w.lvl)
      BY <1>2 DEF Reaches
    <2>2. PICK e : e = m0[w.e.pa][i]
      OBVIOUS
    <2>3. m[w.e.pa][i] = e
      BY <2>1, <2>2
    <2>4. Read(m, w, i) = Read(m0, w, i)
      BY <2>2, <2>3 DEF Read
    <2>5. CASE ~e.p
      BY <1>2, <2>2, <2>4, <2>5 DEF Read, Reaches
    <2>6. CASE e.p /\ (w.lvl = 1 \/ (e.ps /\ w.lvl < 4))
      BY <1>2, <2>2, <2>4, <2>6 DEF Read, Reaches
    <2>7. CASE e.p /\ ~(w.lvl = 1 \/ (e.ps /\ w.lvl < 4))
      <3>1. w.lvl \in 2 .. 4 /\ (w.lvl = 4 \/ ~e.ps)
        BY <2>1, <2>7
      <3>2. e.pa \in Level(m0, root, w.lvl - 1)
        BY <2>1, <2>2, <2>7, <3>1, LevelDown
      <3>3. Read(m0, w, i) = [kind |-> "table", lvl |-> w.lvl - 1, e |-> e]
        BY <1>2, <2>2, <2>7 DEF Read
      <3>4. w.lvl - 1 \in 1 .. 4
        BY <3>1
      <3> QED BY <2>4, <3>2, <3>3, <3>4 DEF Reaches
    <2> QED BY <2>5, <2>6, <2>7
  <1> QED BY <1>1, <1>2

\* Where the processor starts.
AtRoot(root) == [kind |-> "table", lvl |-> 4, e |-> [NotPresent EXCEPT !.pa = root]]

LEMMA RootFacts ==
    ASSUME NEW root
    PROVE  AtRoot(root).kind = "table" /\ AtRoot(root).lvl = 4 /\ AtRoot(root).e.pa = root
PROOF
  BY DEF AtRoot, NotPresent

LEMMA WalkIs ==
    ASSUME NEW m, NEW root, NEW va
    PROVE  Walk(m, root, va) = Read(m, Read(m, Read(m, Read(m, AtRoot(root), va[4]), va[3]), va[2]), va[1])
PROOF
  BY DEF Walk, AtRoot

\* A walk sees only the tables it can reach.
LEMMA SameWalk ==
    ASSUME NEW m, NEW m0, NEW root, \A l \in 1 .. 4 : \A t \in Level(m0, root, l) : m[t] = m0[t],
           NEW va, va[1] \in Idx, va[2] \in Idx, va[3] \in Idx, va[4] \in Idx
    PROVE  Walk(m, root, va) = Walk(m0, root, va)
PROOF
  <1>1. PICK w4 : w4 = AtRoot(root)
    OBVIOUS
  <1>2. PICK w3 : w3 = Read(m0, w4, va[4])
    OBVIOUS
  <1>3. PICK w2 : w2 = Read(m0, w3, va[3])
    OBVIOUS
  <1>4. PICK w1 : w1 = Read(m0, w2, va[2])
    OBVIOUS
  <1>5. Reaches(m0, root, w4)
    BY <1>1, RootFacts, Levels DEF Reaches
  <1>6. Read(m, w4, va[4]) = w3 /\ Reaches(m0, root, w3)
    BY <1>2, <1>5, ReadSame
  <1>7. Read(m, w3, va[3]) = w2 /\ Reaches(m0, root, w2)
    BY <1>3, <1>6, ReadSame
  <1>8. Read(m, w2, va[2]) = w1 /\ Reaches(m0, root, w1)
    BY <1>4, <1>7, ReadSame
  <1>9. Read(m, w1, va[1]) = Read(m0, w1, va[1])
    BY <1>8, ReadSame
  <1> QED BY <1>1, <1>2, <1>3, <1>4, <1>6, <1>7, <1>8, <1>9, WalkIs

\* Kids depend on the tables they are kids of and on nothing else.
LEMMA SameKids ==
    ASSUME NEW m, NEW m0, NEW S, NEW l, \A t \in S : m[t] = m0[t]
    PROVE  Kids(m, S, l) = Kids(m0, S, l)
PROOF
  <1>1. \A x : x \in Kids(m, S, l) <=> x \in Kids(m0, S, l)
    <2> TAKE x
    <2>1. x \in Kids(m, S, l) <=>
             \E t \in S, i \in Idx : m[t][i].p /\ (l = 4 \/ ~m[t][i].ps) /\ x = m[t][i].pa
      BY KidsAre
    <2>2. x \in Kids(m0, S, l) <=>
             \E t \in S, i \in Idx : m0[t][i].p /\ (l = 4 \/ ~m0[t][i].ps) /\ x = m0[t][i].pa
      BY KidsAre
    <2> QED BY <2>1, <2>2
  <1> QED BY <1>1

LEMMA SameTables ==
    ASSUME NEW m, NEW m0, NEW root, \A l \in 1 .. 4 : \A t \in Level(m0, root, l) : m[t] = m0[t]
    PROVE  TablesFrom(m, root) = TablesFrom(m0, root)
PROOF
  <1>1. Level(m, root, 4) = Level(m0, root, 4)
    BY Levels
  <1>2. Level(m, root, 3) = Level(m0, root, 3)
    BY <1>1, Levels, SameKids
  <1>3. Level(m, root, 2) = Level(m0, root, 2)
    BY <1>2, Levels, SameKids
  <1>4. Level(m, root, 1) = Level(m0, root, 1)
    BY <1>3, Levels, SameKids
  <1>5. \A l \in 1 .. 4 : Level(m, root, l) = Level(m0, root, l)
    BY <1>1, <1>2, <1>3, <1>4
  <1> QED BY <1>5 DEF TablesFrom

\* Until clients run the firmware's tables are as the firmware left them.
LEMMA OldTablesKept ==
    ASSUME Position, TablesApart, Contents, pc # "running"
    PROVE  \A l \in 1 .. 4 : \A t \in Level(mem0, OldRoot, l) : mem[t] = mem0[t]
PROOF
  BY OldTable DEF TablesApart, Contents

\* What the processor knows, w, walking the copies, and w0, walking the originals.
Related(w, w0) ==
    IF w0.kind = "table"
    THEN /\ w.kind = "table" /\ w.lvl = w0.lvl /\ w.lvl \in 1 .. 3
         /\ w.e.pa \in DOMAIN copies /\ copies[w.e.pa].lvl = w.lvl /\ copies[w.e.pa].src = w0.e.pa
    ELSE w = w0

\* The first level: the kernel's half of the new level-4 table.
LEMMA RootRelated ==
    ASSUME IInv, New, NEW i \in Idx, i > DirectIdx
    PROVE  Related(Read(mem, AtRoot(cr3), i), Read(mem0, AtRoot(OldRoot), i))
PROOF
  <1> USE DEF IInv
  <1>1. cr3 = new_lv4 /\ stack = <<>> /\ Cloning
    BY DEF Position, New, Cloning
  <1>2. PICK e : e = mem[new_lv4][i]
    OBVIOUS
  <1>3. PICK o : o = mem0[OldRoot][i]
    OBVIOUS
  <1>4. o.p \in BOOLEAN
    BY <1>3, OldEntry, FirmwareAssumption
  <1>5. i # DirectIdx /\ Done(new_lv4, i)
    BY <1>1, FirmwareAssumption DEF Done, Idx
  <1>6. RootEntry(i)
    BY <1>1 DEF Copied
  <1>7. IF o.p THEN Repointed(e, o, 4) ELSE ~e.p
    BY <1>2, <1>3, <1>5, <1>6 DEF RootEntry
  <1>8. CASE ~o.p
    BY <1>1, <1>2, <1>3, <1>7, <1>8, RootFacts DEF Read, Related
  <1>9. CASE o.p
    <2>1. /\ Read(mem, AtRoot(cr3), i) = [kind |-> "table", lvl |-> 3, e |-> e]
          /\ Read(mem0, AtRoot(OldRoot), i) = [kind |-> "table", lvl |-> 3, e |-> o]
      BY <1>1, <1>2, <1>3, <1>7, <1>9, RootFacts DEF Read, Repointed
    <2> QED BY <1>7, <1>9, <2>1 DEF Related, Repointed
  <1> QED BY <1>4, <1>8, <1>9

\* Every level below it.
LEMMA ReadRelated ==
    ASSUME IInv, New, NEW w, NEW w0, Related(w, w0), NEW i \in Idx
    PROVE  Related(Read(mem, w, i), Read(mem0, w0, i))
PROOF
  <1> USE DEF IInv
  <1>1. CASE w0.kind # "table"
    BY <1>1 DEF Read, Related
  <1>2. CASE w0.kind = "table"
    <2>1. /\ w.kind = "table" /\ w.lvl = w0.lvl /\ w.lvl \in 1 .. 3
          /\ w.e.pa \in DOMAIN copies /\ copies[w.e.pa].lvl = w.lvl /\ copies[w.e.pa].src = w0.e.pa
      BY <1>2 DEF Related
    <2>2. PICK e : e = mem[w.e.pa][i]
      OBVIOUS
    <2>3. PICK o : o = mem0[w0.e.pa][i]
      OBVIOUS
    <2>4. stack = <<>>
      BY DEF Position
    <2>5. Done(w.e.pa, i)
      BY <2>4 DEF Done
    <2>6. CopiedEntry(w.e.pa, i) /\ w0.e.pa \in Level(mem0, OldRoot, w.lvl)
      BY <2>1 DEF Copied
    <2>7. IF o.p /\ w.lvl > 1 /\ ~o.ps THEN Repointed(e, o, w.lvl) ELSE e = o
      BY <2>1, <2>2, <2>3, <2>5, <2>6 DEF CopiedEntry
    <2>8. o.p \in BOOLEAN /\ o.ps \in BOOLEAN
      <3>1. w0.e.pa \in Frame
        BY <2>1, <2>6, OldTable
      <3> QED BY <2>3, <3>1, OldEntry
    <2>9. CASE o.p /\ w.lvl > 1 /\ ~o.ps
      <3>1. e.p /\ ~e.ps /\ Repointed(e, o, w.lvl)
        BY <2>7, <2>9 DEF Repointed
      <3>2. /\ Read(mem, w, i) = [kind |-> "table", lvl |-> w.lvl - 1, e |-> e]
            /\ Read(mem0, w0, i) = [kind |-> "table", lvl |-> w.lvl - 1, e |-> o]
        BY <1>2, <2>1, <2>2, <2>3, <2>9, <3>1 DEF Read
      <3>3. w.lvl - 1 \in 1 .. 3
        BY <2>1, <2>9
      <3> QED BY <3>1, <3>2, <3>3 DEF Related, Repointed
    <2>10. CASE ~(o.p /\ w.lvl > 1 /\ ~o.ps)
      <3>1. e = o
        BY <2>7, <2>10
      <3>2. Read(mem, w, i) = Read(mem0, w0, i)
        BY <1>2, <2>1, <2>2, <2>3, <3>1 DEF Read
      <3>3. ~o.p \/ w.lvl = 1 \/ (o.ps /\ w.lvl < 4)
        BY <2>1, <2>8, <2>10
      <3>4. Read(mem0, w0, i).kind # "table"
        BY <1>2, <2>1, <2>3, <3>3 DEF Read
      <3> QED BY <3>2, <3>4 DEF Related
    <2> QED BY <2>9, <2>10
  <1> QED BY <1>1, <1>2

\* A level-1 table ends the walk.
LEMMA Lowest ==
    ASSUME NEW m, NEW w, w.kind = "table" => w.lvl = 1, NEW i
    PROVE  Read(m, w, i).kind # "table"
PROOF
  BY DEF Read

LEMMA Lower ==
    ASSUME NEW m, NEW w, NEW l \in 1 .. 4, w.kind = "table" => w.lvl = l, NEW i
    PROVE  Read(m, w, i).kind = "table" => Read(m, w, i).lvl = l - 1
PROOF
  BY DEF Read

LEMMA KernelWalks == ASSUME IInv PROVE KernelAlwaysMapped
PROOF
  <1> USE DEF IInv
  <1> SUFFICES ASSUME NEW va \in KernelVA PROVE Walk(mem, cr3, va) = Walk(mem0, OldRoot, va)
    BY DEF KernelAlwaysMapped
  <1>1. /\ va[1] \in Idx /\ va[2] \in Idx /\ va[3] \in Idx /\ va[4] \in Idx /\ va[4] > DirectIdx
    BY DEF KernelVA, VA
  <1>2. CASE ~New
    <2>1. pc # "running" /\ cr3 = OldRoot
      BY <1>2 DEF New, Position
    <2>2. \A l \in 1 .. 4 : \A t \in Level(mem0, OldRoot, l) : mem[t] = mem0[t]
      BY <2>1, OldTablesKept
    <2> QED BY <1>1, <2>1, <2>2, SameWalk
  <1>3. CASE New
    <2>1. PICK v4, v3, v2, v1 : /\ v4 = Read(mem, AtRoot(cr3), va[4]) /\ v3 = Read(mem, v4, va[3])
                                /\ v2 = Read(mem, v3, va[2]) /\ v1 = Read(mem, v2, va[1])
      OBVIOUS
    <2>2. PICK w4, w3, w2, w1 : /\ w4 = Read(mem0, AtRoot(OldRoot), va[4]) /\ w3 = Read(mem0, w4, va[3])
                                /\ w2 = Read(mem0, w3, va[2]) /\ w1 = Read(mem0, w2, va[1])
      OBVIOUS
    <2>3. Related(v4, w4)
      BY <1>1, <1>3, <2>1, <2>2, RootRelated
    <2>4. Related(v3, w3)
      BY <1>1, <1>3, <2>1, <2>2, <2>3, ReadRelated
    <2>5. Related(v2, w2)
      BY <1>1, <1>3, <2>1, <2>2, <2>4, ReadRelated
    <2>6. Related(v1, w1)
      BY <1>1, <1>3, <2>1, <2>2, <2>5, ReadRelated
    <2>7. w4.kind = "table" => w4.lvl = 4 - 1
      BY <2>2, Lower, RootFacts
    <2>8. w3.kind = "table" => w3.lvl = 3 - 1
      BY <2>2, <2>7, Lower
    <2>9. w2.kind = "table" => w2.lvl = 2 - 1
      BY <2>2, <2>8, Lower
    <2>10. w1.kind # "table"
      BY <2>2, <2>9, Lowest
    <2>11. v1 = w1
      BY <2>6, <2>10 DEF Related
    <2> QED BY <2>1, <2>2, <2>11, WalkIs
  <1> QED BY <1>2, <1>3

(* ---- who owns the tables ---- *)

\* From the new level-4 table the processor reaches copies only, each at its level.
LEMMA NewKids ==
    ASSUME IInv, New, NEW l \in 1 .. 3, NEW S, NEW x \in Kids(mem, S, l),
           \A t \in S : t \in DOMAIN copies /\ copies[t].lvl \in {l, 0}
    PROVE  l > 1 => x \in DOMAIN copies /\ copies[x].lvl = l - 1
PROOF
  <1> USE DEF IInv
  <1>1. PICK t \in S, i \in Idx : mem[t][i].p /\ (l = 4 \/ ~mem[t][i].ps) /\ x = mem[t][i].pa
    BY KidsAre
  <1>2. t \in DOMAIN copies /\ copies[t].lvl \in {l, 0}
    OBVIOUS
  <1>3. copies[t].lvl # 0
    <2>1. ~mem[t][i].ps
      BY <1>1
    <2>2. DirectTable[i].ps
      BY DEF DirectTable
    <2> QED BY <1>2, <2>1, <2>2 DEF Copied
  <1>4. copies[t].lvl = l /\ copies[t].lvl \in 1 .. 3
    BY <1>2, <1>3
  <1>5. PICK o : o = mem0[copies[t].src][i]
    OBVIOUS
  <1>6. CopiedEntry(t, i) /\ Done(t, i)
    BY <1>2, <1>4 DEF Copied, Position, Done
  <1>7. IF o.p /\ l > 1 /\ ~o.ps THEN Repointed(mem[t][i], o, l) ELSE mem[t][i] = o
    BY <1>4, <1>5, <1>6 DEF CopiedEntry
  <1> QED BY <1>1, <1>7 DEF Repointed

LEMMA NewTables ==
    ASSUME IInv, New PROVE TablesFrom(mem, new_lv4) \subseteq DOMAIN copies
PROOF
  <1> USE DEF IInv
  <1>1. new_lv4 \in DOMAIN copies /\ stack = <<>> /\ Cloning
    BY DEF Position, New, Cloning
  <1>2. ASSUME NEW x \in Level(mem, new_lv4, 3) PROVE x \in DOMAIN copies /\ copies[x].lvl \in {3, 0}
    <2>1. PICK i \in Idx : mem[new_lv4][i].p /\ x = mem[new_lv4][i].pa
      <3>1. x \in Kids(mem, {new_lv4}, 4)
        BY Levels
      <3> QED BY <3>1, KidsAre
    <2>2. RootEntry(i)
      BY <1>1 DEF Copied
    <2> QED BY <2>1, <2>2 DEF RootEntry, Repointed
  <1>3. ASSUME NEW x \in Level(mem, new_lv4, 2) PROVE x \in DOMAIN copies /\ copies[x].lvl \in {2, 0}
    <2>1. x \in Kids(mem, Level(mem, new_lv4, 3), 3)
      BY Levels
    <2> QED BY <1>2, <2>1, NewKids
  <1>4. ASSUME NEW x \in Level(mem, new_lv4, 1) PROVE x \in DOMAIN copies
    <2>1. x \in Kids(mem, Level(mem, new_lv4, 2), 2)
      BY Levels
    <2> QED BY <1>3, <2>1, NewKids
  <1>5. Level(mem, new_lv4, 4) \subseteq DOMAIN copies
    BY <1>1, Levels
  <1>6. \A l \in 1 .. 4 : Level(mem, new_lv4, l) \subseteq DOMAIN copies
    BY <1>2, <1>3, <1>4, <1>5
  <1> QED BY <1>6, TableHasLevel

LEMMA TablesAreOwned == ASSUME IInv PROVE TablesKept
PROOF
  <1> USE DEF IInv
  <1> DEFINE R == {Run(b.start, b.frames) : b \in held}
  <1>1. (UNION R) \cap DOMAIN copies = {}
    <2> SUFFICES ASSUME NEW x \in UNION R PROVE x \notin DOMAIN copies
      OBVIOUS
    <2>1. PICK S \in R : x \in S
      <3> HIDE DEF R
      <3> QED OBVIOUS
    <2>2. PICK b \in held : S = Run(b.start, b.frames)
      BY <2>1
    <2> QED BY <2>1, <2>2 DEF TablesApart
  <1>2. held = {} => UNION R = {}
    OBVIOUS
  <1> HIDE DEF R
  <1>3. CASE ~New
    <2>1. pc # "running" /\ cr3 = OldRoot /\ held = {}
      BY <1>3 DEF New, Position
    <2>2. \A l \in 1 .. 4 : \A t \in Level(mem0, OldRoot, l) : mem[t] = mem0[t]
      BY <2>1, OldTablesKept
    <2>3. TablesFrom(mem, cr3) = TablesFrom(mem0, OldRoot)
      BY <2>1, <2>2, SameTables
    <2>4. TablesFrom(mem, cr3) \cap avail = {}
      BY <2>1, <2>3, FirmwareTables DEF TablesApart, Position
    <2> QED BY <1>2, <2>1, <2>4 DEF TablesKept, TablesOwned, NewTablesApart, R
  <1>4. CASE New
    <2>1. cr3 = new_lv4
      BY <1>4 DEF Position
    <2>2. TablesFrom(mem, cr3) \subseteq DOMAIN copies
      BY <1>4, <2>1, NewTables
    <2>3. DOMAIN copies \cap avail = {} /\ DOMAIN copies \subseteq Usable(map)
      BY DEF TablesApart
    <2>4. TablesOwned
      <3>1. TablesFrom(mem, cr3) \cap (avail \cup UNION R) = {}
        BY <1>1, <2>2, <2>3
      <3> QED BY <3>1 DEF TablesOwned, R
    <2>5. Usable(map) \cap BootData(map) = {} /\ TablesFrom(mem0, OldRoot) \cap Usable(map) = {}
      BY UsableNotBootData, FirmwareTables DEF Position
    <2>6. NewTablesApart
      BY <2>2, <2>3, <2>5 DEF NewTablesApart
    <2> QED BY <2>4, <2>6 DEF TablesKept
  <1> QED BY <1>3, <1>4

(* ---- physical memory ---- *)

LEMMA PhysWalks == ASSUME IInv PROVE PhysReachable
PROOF
  <1> USE DEF IInv
  <1> SUFFICES ASSUME pc # "switched", NEW g \in Idx
               PROVE  LET t == Walk(mem, cr3, phys2virt(g))
                      IN  t.kind = "page" /\ t.lvl = 3 /\ t.e.pa = g
    BY DEF PhysReachable
  <1>1. 0 \in Idx /\ DirectIdx \in Idx
    BY FirmwareAssumption DEF Idx
  <1>2. CASE ~New
    <2>1. pc # "running" /\ cr3 = OldRoot /\ ~reconstructed
      BY <1>2 DEF New, Position
    <2>2. \A l \in 1 .. 4 : \A t \in Level(mem0, OldRoot, l) : mem[t] = mem0[t]
      BY <2>1, OldTablesKept
    <2>3. PICK va : va = <<0, 0, g, 0>>
      OBVIOUS
    <2>4. va[1] = 0 /\ va[2] = 0 /\ va[3] = g /\ va[4] = 0 /\ phys2virt(g) = va
      BY <2>1, <2>3 DEF phys2virt
    <2>5. Walk(mem, cr3, va) = Walk(mem0, OldRoot, va)
      BY <1>1, <2>1, <2>2, <2>4, SameWalk
    <2> QED BY <2>3, <2>4, <2>5, FirmwareAssumption DEF Position
  <1>3. CASE New
    <2>1. reconstructed /\ cr3 = new_lv4 /\ Cloning
      BY <1>3 DEF New, Position, Cloning
    <2>2. PICK va : va = <<0, 0, g, DirectIdx>>
      OBVIOUS
    <2>3. va[1] = 0 /\ va[2] = 0 /\ va[3] = g /\ va[4] = DirectIdx /\ phys2virt(g) = va
      BY <2>1, <2>2 DEF phys2virt
    <2>4. PICK e : e = mem[new_lv4][DirectIdx]
      OBVIOUS
    <2>5. e.p /\ e.pa \in DOMAIN copies /\ mem[e.pa] = DirectTable
      <3>1. RootEntry(DirectIdx)
        BY <1>1, <2>1 DEF Copied
      <3> QED BY <2>4, <3>1 DEF RootEntry, Copied
    <2>6. PICK w4 : w4 = Read(mem, AtRoot(cr3), DirectIdx)
      OBVIOUS
    <2>7. w4.kind = "table" /\ w4.lvl = 3 /\ w4.e = e
      BY <2>1, <2>4, <2>5, <2>6, RootFacts DEF Read
    <2>8. PICK w3 : w3 = Read(mem, w4, g)
      OBVIOUS
    <2>9. DirectTable[g].p /\ DirectTable[g].ps /\ DirectTable[g].pa = g
      BY DEF DirectTable
    <2>10. w3.kind = "page" /\ w3.lvl = 3 /\ w3.e.pa = g
      BY <2>5, <2>7, <2>8, <2>9 DEF Read
    <2>11. Read(mem, w3, 0) = w3
      BY <2>10 DEF Read
    <2>12. Walk(mem, cr3, va) = w3
      BY <2>3, <2>6, <2>8, <2>11, WalkIs
    <2> QED BY <2>3, <2>10, <2>12
  <1> QED BY <1>2, <1>3

(* ---- the theorems ---- *)

(* The kernel's half of the address space translates as the firmware left it
   in every state: paging_reconstruct never unmaps or remaps the code it runs. *)
THEOREM KernelStaysMapped == Spec => []KernelAlwaysMapped
PROOF
  BY Invariance, KernelWalks, PTL

(* No frame of a table the processor may walk is free or a client's, and after
   the CR3 switch none is the firmware's or boot services data, which the
   release gives away. *)
THEOREM TablesAreKept == Spec => []TablesKept
PROOF
  BY Invariance, TablesAreOwned, PTL

(* phys2virt's addresses are mapped to the physical address asked for, before
   the switch by the firmware's identity map, after it by the direct map. *)
THEOREM DirectMapReachable == Spec => []PhysReachable
PROOF
  BY Invariance, PhysWalks, PTL
=============================================================================
