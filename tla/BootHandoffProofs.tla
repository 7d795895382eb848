------------------------- MODULE BootHandoffProofs --------------------------
(***************************************************************************)
(* Proofs about BootHandoff, for every size of the buffers, every set of   *)
(* map sizes and any number of changes of the firmware's map.  The         *)
(* inductive invariant IInv is stated in BootHandoff; it ties the key      *)
(* ExitBootServices compares to the map in the loader's buffer.            *)
(***************************************************************************)
EXTENDS BootHandoff, TLAPS

\* The state in which efi_main starts satisfies the invariant.
LEMMA InvInit == Init => IInv
PROOF
  <1> SUFFICES ASSUME Init PROVE IInv
    OBVIOUS
  <1>1. PICK n \in MapSizes : fw = [key |-> 1, size |-> n]
    BY DEF Init
  <1>2. TypeOK
    BY <1>1, HandoffAssumption DEF Init, TypeOK, NoMap, NoSnap
  <1>3. BufferHeld /\ KeysNameMaps /\ MapDescribed /\ BufferSound
    BY <1>1 DEF Init, NoMap, Empty, BufferHeld, KeysNameMaps, MapDescribed, BufferSound, OneBuffer,
                MapFitsBuffer
  <1> QED BY <1>2, <1>3 DEF IInv

\* A change of the firmware's map takes a new key, so that no buffer holds the current map.
LEMMA TouchedFacts ==
    ASSUME TypeOK, KeysNameMaps, Touched
    PROVE  /\ fw' \in [key : 1 .. MaxKey, size : MapSizes]
           /\ \A b \in DOMAIN content :
                /\ content[b].key <= fw'.key
                /\ content[b].key = fw'.key => content[b] = fw'
PROOF
  <1>1. CASE fw' = fw
    BY <1>1 DEF TypeOK, KeysNameMaps
  <1>2. CASE fw.key < MaxKey /\ \E n \in MapSizes : fw' = [key |-> fw.key + 1, size |-> n]
    BY <1>2, HandoffAssumption DEF TypeOK, KeysNameMaps
  <1> QED BY <1>1, <1>2 DEF Touched

\* A refresh ends with the firmware's map in the loader's buffer, and described by mm.
LEMMA RefreshedStep ==
    ASSUME IInv, mm.buf # 0, fw.size <= mm.buffer_size,
           content' = [content EXCEPT ![mm.buf] = fw],
           mm' = [mm EXCEPT !.map_size = fw.size, !.key = fw.key],
           pc' = Returns,
           UNCHANGED <<fw, bufs, next, bi, site, snap>>
    PROVE  IInv'
PROOF
  <1>1. pc' \in {"fill_bootinfo", "exit_boot_services"}
    BY DEF Returns
  <1>2. mm.buf \in bufs /\ mm.buf \in DOMAIN content /\ fw \in [key : Nat, size : Nat]
    BY HandoffAssumption DEF IInv, TypeOK, KeysNameMaps
  <1>3. mm' \in [buf : Nat, buffer_size : Nat, map_size : Nat, key : Nat] /\ mm'.buf = mm.buf
        /\ mm'.map_size = fw.size /\ mm'.key = fw.key /\ mm'.buffer_size = mm.buffer_size
    BY <1>2 DEF IInv, BufferHeld
  <1>4. TypeOK'
    BY <1>1, <1>2, <1>3 DEF IInv, TypeOK
  <1>5. BufferHeld'
    BY <1>1, <1>3 DEF BufferHeld
  <1>6. KeysNameMaps'
    BY <1>2 DEF IInv, KeysNameMaps
  <1>7. MapDescribed'
    BY <1>1, <1>2, <1>3 DEF MapDescribed
  <1>8. BufferSound'
    BY <1>3 DEF IInv, BufferSound, OneBuffer, MapFitsBuffer
  <1> QED BY <1>4, <1>5, <1>6, <1>7, <1>8 DEF IInv

\* AllocatePool gives a buffer no pointer of the loader's refers to.
LEMMA AllocatedStep ==
    ASSUME IInv, mm.buf = 0, AllocatePool,
           mm' \in [buf : {next}, buffer_size : Nat, map_size : Nat, key : Nat],
           mm'.map_size = mm'.buffer_size,
           pc' \in {"refresh", "refresh_get2"},
           UNCHANGED <<bi, site, snap>>
    PROVE  IInv'
PROOF
  <1> USE DEF IInv
  <1>1. next \in Nat \ {0} /\ bufs = {} /\ bufs' = {next} /\ next' = next + 1 /\ mm'.buf = next
    BY DEF KeysNameMaps, BufferSound, OneBuffer, AllocatePool
  <1>2. TypeOK'
    BY <1>1, TouchedFacts DEF TypeOK, AllocatePool
  <1>3. BufferHeld'
    BY <1>1 DEF BufferHeld
  <1>4. KeysNameMaps'
    <2>1. fw'.key \in Nat \ {0}
      BY TouchedFacts, HandoffAssumption DEF AllocatePool
    <2>2. DOMAIN content' = 0 .. next' - 1
      BY <1>1 DEF AllocatePool, KeysNameMaps
    <2>3. ASSUME NEW b \in DOMAIN content'
          PROVE  /\ content'[b] \in [key : Nat, size : Nat] /\ content'[b].key <= fw'.key
                 /\ content'[b].key = fw'.key => content'[b] = fw'
      <3>1. CASE b = next
        BY <2>1, <2>2, <3>1 DEF AllocatePool, Empty
      <3>2. CASE b # next
        <4>1. b \in DOMAIN content /\ content'[b] = content[b]
          BY <1>1, <2>2, <3>2 DEF AllocatePool, KeysNameMaps
        <4> QED BY <4>1, TouchedFacts DEF AllocatePool, KeysNameMaps
      <3> QED BY <3>1, <3>2
    <2> QED BY <1>1, <2>2, <2>3 DEF KeysNameMaps
  <1>5. MapDescribed'
    BY DEF MapDescribed
  <1>6. BufferSound'
    BY <1>1 DEF BufferSound, OneBuffer, MapFitsBuffer
  <1> QED BY <1>2, <1>3, <1>4, <1>5, <1>6

\* The firmware's changes, the load of the kernel and the free of the old buffer touch no map the loader uses.
LEMMA FirmwareStep ==
    ASSUME IInv, firmware_event \/ load_kernel \/ refresh_free
    PROVE  IInv'
PROOF
  <1> USE DEF IInv
  <1>1. Touched /\ UNCHANGED <<content, next, bi, site, snap>>
    BY DEF firmware_event, load_kernel, refresh_free
  <1>2. KeysNameMaps'
    BY <1>1, TouchedFacts DEF KeysNameMaps
  <1>3. CASE firmware_event
    BY <1>1, <1>2, <1>3, TouchedFacts
       DEF firmware_event, BootServices, TypeOK, BufferHeld, MapDescribed, BufferSound, OneBuffer, MapFitsBuffer
  <1>4. CASE load_kernel
    BY <1>1, <1>2, <1>4, TouchedFacts
       DEF load_kernel, TypeOK, BufferHeld, MapDescribed, BufferSound, OneBuffer, MapFitsBuffer
  <1>5. CASE refresh_free
    BY <1>1, <1>2, <1>5, TouchedFacts
       DEF refresh_free, TypeOK, BufferHeld, MapDescribed, BufferSound, OneBuffer, MapFitsBuffer
  <1> QED BY <1>3, <1>4, <1>5

\* Every step keeps the invariant.
LEMMA InvStep == IInv /\ [Next]_vars => IInv'
PROOF
  <1> SUFFICES ASSUME IInv, [Next]_vars PROVE IInv'
    OBVIOUS
  <1> USE DEF IInv
  <1>s. fw.size \in Nat /\ BufSize \in Nat /\ Slack \in Nat
    BY HandoffAssumption DEF TypeOK
  <1>1. CASE firmware_event \/ load_kernel \/ refresh_free
    BY <1>1, FirmwareStep
  <1>2. CASE memmap_init
    <2>1. mm.buf = 0
      BY <1>2 DEF memmap_init, BufferHeld
    <2>2. CASE AllocatePool /\ pc' = "refresh"
      BY <1>2, <1>s, <2>1, <2>2, AllocatedStep DEF memmap_init, KeysNameMaps, halt
    <2>3. CASE AllocatePoolFails /\ pc' = "halted"
      BY <1>2, <1>s, <2>1, <2>3
         DEF memmap_init, AllocatePoolFails, NoMap, TypeOK, BufferHeld, KeysNameMaps, MapDescribed, BufferSound,
             OneBuffer, MapFitsBuffer
    <2> QED BY <1>2, <2>2, <2>3 DEF memmap_init, halt
  <1>3. CASE refresh_get
    <2>1. mm.buf # 0
      BY <1>3 DEF refresh_get, BufferHeld
    <2>2. CASE fw.size <= mm.buffer_size /\ content' = [content EXCEPT ![mm.buf] = fw]
                /\ mm' = [mm EXCEPT !.map_size = fw.size, !.key = fw.key] /\ pc' = Returns
      BY <1>3, <2>1, <2>2, RefreshedStep DEF refresh_get
    <2>3. CASE pc' = "refresh_free" /\ UNCHANGED content
                /\ mm' = [mm EXCEPT !.buffer_size = fw.size + Slack, !.map_size = fw.size + Slack]
      <3> DEFINE n == fw.size + Slack
      <3>1. n \in Nat
        BY <1>s
      <3>2. mm' = [mm EXCEPT !.buffer_size = n, !.map_size = n]
        BY <2>3
      <3>3. mm' \in [buf : Nat, buffer_size : Nat, map_size : Nat, key : Nat] /\ mm'.buf = mm.buf
            /\ mm'.map_size = mm'.buffer_size
        <4> HIDE DEF n
        <4> QED BY <3>1, <3>2 DEF BufferHeld
      <3> QED BY <1>3, <2>1, <2>3, <3>3
         DEF refresh_get, TypeOK, BufferHeld, KeysNameMaps, MapDescribed, BufferSound, OneBuffer, MapFitsBuffer
    <2>4. CASE pc' = "halted" /\ UNCHANGED content /\ mm' = [mm EXCEPT !.map_size = mm.buffer_size]
      BY <1>3, <2>1, <2>4
         DEF refresh_get, TypeOK, BufferHeld, KeysNameMaps, MapDescribed, BufferSound, OneBuffer, MapFitsBuffer
    <2> QED BY <1>3, <2>2, <2>3, <2>4 DEF refresh_get, halt
  <1>4. CASE refresh_alloc
    <2>1. CASE AllocatePool /\ mm' = [mm EXCEPT !.buf = next] /\ pc' = "refresh_get2"
      BY <1>4, <2>1, AllocatedStep DEF refresh_alloc, BufferHeld
    <2>2. CASE AllocatePoolFails /\ pc' = "halted" /\ UNCHANGED mm
      BY <1>4, <2>2
         DEF refresh_alloc, AllocatePoolFails, TypeOK, BufferHeld, KeysNameMaps, MapDescribed, BufferSound,
             OneBuffer, MapFitsBuffer
    <2> QED BY <1>4, <2>1, <2>2 DEF refresh_alloc, halt
  <1>5. CASE refresh_get2
    <2>1. mm.buf # 0 /\ mm.map_size = mm.buffer_size
      BY <1>5 DEF refresh_get2, BufferHeld
    <2>2. CASE fw.size <= mm.map_size /\ content' = [content EXCEPT ![mm.buf] = fw]
                /\ mm' = [mm EXCEPT !.map_size = fw.size, !.key = fw.key] /\ pc' = Returns
      BY <1>5, <2>1, <2>2, RefreshedStep DEF refresh_get2
    <2>3. CASE pc' = "halted" /\ UNCHANGED content /\ mm' \in {mm, [mm EXCEPT !.map_size = fw.size]}
      BY <1>5, <1>s, <2>1, <2>3
         DEF refresh_get2, TypeOK, BufferHeld, KeysNameMaps, MapDescribed, BufferSound, OneBuffer, MapFitsBuffer
    <2> QED BY <1>5, <2>2, <2>3 DEF refresh_get2, halt
  <1>6. CASE fill_bootinfo
    BY <1>6 DEF fill_bootinfo, TypeOK, BufferHeld, KeysNameMaps, MapDescribed, BufferSound, OneBuffer, MapFitsBuffer
  <1>7. CASE exit_boot_services
    BY <1>7 DEF exit_boot_services, halt, TypeOK, BufferHeld, KeysNameMaps, MapDescribed, BufferSound, OneBuffer,
                MapFitsBuffer
  <1>8. CASE bootinfo_snapshot_init
    BY <1>8 DEF bootinfo_snapshot_init, halt, NoSnap, TypeOK, BufferHeld, KeysNameMaps, MapDescribed, BufferSound,
                OneBuffer, MapFitsBuffer
  <1>9. CASE UNCHANGED vars
    BY <1>9 DEF vars, TypeOK, BufferHeld, KeysNameMaps, MapDescribed, BufferSound, OneBuffer, MapFitsBuffer
  <1> QED BY <1>1, <1>2, <1>3, <1>4, <1>5, <1>6, <1>7, <1>8, <1>9 DEF Next, Loader
-----------------------------------------------------------------------------
\* The invariant holds in every reachable state.
LEMMA HandoffInvariant == Spec => []IInv
  BY InvInit, InvStep, PTL DEF Spec

(* mm.descriptors of memmap.c is NULL or a buffer that is allocated, whichever
   call of the firmware fails. *)
THEOREM TypeCorrect == Spec => []TypeOK
PROOF
  <1>1. IInv => TypeOK
    BY DEF IInv
  <1> QED BY <1>1, HandoffInvariant, PTL

(* memmap_init and memmap_refresh leak no buffer and free none twice, and the
   map they report stays within the buffer they hold. *)
THEOREM BufferKept == Spec => []BufferSound
PROOF
  <1>1. IInv => BufferSound
    BY DEF IInv
  <1> QED BY <1>1, HandoffInvariant, PTL

(* exit_boot_services_with_map leaves boot services only with the firmware's
   final map, whole, in the loader's buffer: the key it passed names that map. *)
THEOREM ExitTakesCurrentMap == Spec => []ExitedWithCurrentMap
PROOF
  <1>1. IInv => ExitedWithCurrentMap
    <2> SUFFICES ASSUME IInv, pc \in {"kernel", "kernel_up"}
                 PROVE  mm.buf \in bufs /\ content[mm.buf] = fw /\ mm.map_size = fw.size
      BY DEF ExitedWithCurrentMap
    <2>1. mm.buf \in bufs /\ mm.buf \in DOMAIN content
      BY DEF IInv, TypeOK, BufferHeld, KeysNameMaps
    <2> QED BY <2>1 DEF IInv, KeysNameMaps, MapDescribed
  <1> QED BY <1>1, HandoffInvariant, PTL
=============================================================================
