----------------------------- MODULE VmcsFields -----------------------------
(***************************************************************************)
(* VMCS field encodings: what vmm/vmcs.h makes of a field's type, index,   *)
(* access and width, and the fields a processor has under which numbers    *)
(* (external).                                                             *)
(***************************************************************************)
EXTENDS Integers

VMCS_FULL == 0
VMCS_HIGH == 1

\* Widths: 16 bits, 64 bits, 32 bits, natural.
VMCS_W == 0
VMCS_Q == 1
VMCS_D == 2
VMCS_N == 3

VMCS_TYPE_CONTROL == 0
VMCS_TYPE_VMEXIT_RO == 1
VMCS_TYPE_GUEST == 2
VMCS_TYPE_HOST == 3

\* Mutant: the width at bit 12, where the header's own comment places it.
Mutant_VMCS_ENCODE_bit12(type, index, access, width) ==
    (access % 2) + 2 * (index % 512) + 1024 * (type % 4) + 4096 * (width % 4)

VMCS_ENCODE(type, index, access, width) ==
    (access % 2) + 2 * (index % 512) + 1024 * (type % 4) + 8192 * (width % 4)

VMCS_EG(idx, acc, w) == VMCS_ENCODE(VMCS_TYPE_GUEST, idx, acc, w)
VMCS_EH(idx, acc, w) == VMCS_ENCODE(VMCS_TYPE_HOST, idx, acc, w)
VMCS_EC(idx, acc, w) == VMCS_ENCODE(VMCS_TYPE_CONTROL, idx, acc, w)
VMCS_ER(idx, acc, w) == VMCS_ENCODE(VMCS_TYPE_VMEXIT_RO, idx, acc, w)

(* The header's enumerations, by the fields that vcpu.c, vmcs.c and vmx_log.c use. *)

\* Controls
VMCS_PIN_BASED_CTLS == VMCS_EC(0, VMCS_FULL, VMCS_D)
VMCS_PRIMARY_PROC_CTLS == VMCS_EC(1, VMCS_FULL, VMCS_D)
VMCS_VMEXIT_CTLS == VMCS_EC(6, VMCS_FULL, VMCS_D)
VMCS_VMENTRY_CTLS == VMCS_EC(9, VMCS_FULL, VMCS_D)

\* VM-exit information
VMCS_VM_INSTRUCTION_ERROR == VMCS_ER(0, VMCS_FULL, VMCS_D)
VMCS_EXIT_REASON == VMCS_ER(1, VMCS_FULL, VMCS_D)

\* Guest state: CR0, CR3 and CR4; bases; selectors; limits; access rights.  Segments are
\* numbered ES CS SS DS FS GS LDTR TR GDTR IDTR.
VMCS_GUEST_CR(i) == VMCS_EG(i, VMCS_FULL, VMCS_N)
VMCS_GUEST_BASE(s) == VMCS_EG(3 + s, VMCS_FULL, VMCS_N)
VMCS_GUEST_SELECTOR(s) == VMCS_EG(s, VMCS_FULL, VMCS_W)
VMCS_GUEST_LIMIT(s) == VMCS_EG(s, VMCS_FULL, VMCS_D)
VMCS_GUEST_ACCESS_RIGHTS(s) == VMCS_EG(10 + s, VMCS_FULL, VMCS_D)
VMCS_GUEST_RIP == VMCS_EG(15, VMCS_FULL, VMCS_N)
VMCS_GUEST_RFLAGS == VMCS_EG(16, VMCS_FULL, VMCS_N)
VMCS_GUEST_VMCS_LINK_POINTER == VMCS_EG(0, VMCS_FULL, VMCS_Q)
VMCS_GUEST_IA32_EFER == VMCS_EG(3, VMCS_FULL, VMCS_Q)

\* Host state; segments are numbered ES CS SS DS FS GS TR.
VMCS_HOST_CR(i) == VMCS_EH(i, VMCS_FULL, VMCS_N)
VMCS_HOST_FS_BASE == VMCS_EH(3, VMCS_FULL, VMCS_N)
VMCS_HOST_GS_BASE == VMCS_EH(4, VMCS_FULL, VMCS_N)
VMCS_HOST_TR_BASE == VMCS_EH(5, VMCS_FULL, VMCS_N)
VMCS_HOST_GDTR_BASE == VMCS_EH(6, VMCS_FULL, VMCS_N)
VMCS_HOST_IDTR_BASE == VMCS_EH(7, VMCS_FULL, VMCS_N)
VMCS_HOST_RSP == VMCS_EH(10, VMCS_FULL, VMCS_N)
VMCS_HOST_RIP == VMCS_EH(11, VMCS_FULL, VMCS_N)
VMCS_HOST_SELECTOR(s) == VMCS_EH(s, VMCS_FULL, VMCS_W)
VMCS_HOST_IA32_EFER == VMCS_EH(1, VMCS_FULL, VMCS_Q)
-----------------------------------------------------------------------------
(* ---- the processor's side ---- *)

Evens(first, last) == {e \in first .. last : e % 2 = 0}

\* The encodings it defines, width by width: controls, exit information, guest, host.
Implemented ==
    Evens(0, 8) \cup Evens(2048, 2068) \cup Evens(3072, 3084)
    \cup (Evens(8192, 8268) \ {8262, 8264}) \cup {9216} \cup Evens(10240, 10264) \cup Evens(11264, 11270)
    \cup Evens(16384, 16420) \cup Evens(17408, 17422) \cup (Evens(18432, 18478) \ {18476}) \cup {19456}
    \cup Evens(24576, 24590) \cup Evens(25600, 25610) \cup Evens(26624, 26668) \cup Evens(27648, 27676)

ReadOnly(e) == (e \div 1024) % 4 = 1
=============================================================================
