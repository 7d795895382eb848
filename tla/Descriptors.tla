---------------------------- MODULE Descriptors -----------------------------
(***************************************************************************)
(* The descriptors that kernel/arch/x86/gdt.c and idt.c put together, and  *)
(* how the processor takes them apart.  A word is the set of its one bits, *)
(* so | is \cup and a mask is an intersection.                             *)
(***************************************************************************)
EXTENDS Integers

Shl(w, n) == {b + n : b \in w}
Shr(w, n) == {b - n : b \in {c \in w : c >= n}}
Low(w, n) == w \cap 0 .. (n - 1)
BitsOf(n) == {b \in 0 .. 15 : (n \div 2^b) % 2 = 1}

make_desc(base, limit, access, flags_nib) ==
    Low(limit, 16) \cup Shl(Low(base, 24), 16) \cup Shl(access, 40)
        \cup Shl(Low(Shr(limit, 16), 4), 48) \cup Shl(Low(flags_nib, 4), 52)
        \cup Shl(Low(Shr(base, 24), 8), 56)

\* access 0x9A, flags 0xA: present, S, executable, readable; G, L.
make_code64_desc == make_desc({}, 0 .. 19, {7, 4, 3, 1}, {3, 1})
\* access 0x92, flags 0xC: present, S, writable; G, D/B.
make_data_desc == make_desc({}, 0 .. 19, {7, 4, 1}, {3, 2})

\* access 0x89: present, available TSS.  The low half is put together as in make_desc.
set_tss_desc(base, limit) ==
    [low |-> make_desc(Low(base, 32), limit, {7, 3, 0}, {}), high |-> Low(Shr(base, 32), 32)]

KERNEL_DS_IDX == 1
KERNEL_CS_IDX == 2
KERNEL_TSS_IDX == 3

sel_gdt(index, rpl) == (8 * index) + (rpl % 4)

NoGate == [p |-> 0]

\* Mutant: the middle part of the offset is taken from bit 15 up.
Mutant_idt_set_gate_shift(isr, cs_selector, gate_type) ==
    [p |-> 1, selector |-> cs_selector, type |-> gate_type, offset_low |-> Low(isr, 16),
     offset_mid |-> Low(Shr(isr, 15), 16), offset_high |-> Low(Shr(isr, 32), 32)]

\* The gate's other fields (ist, dpl, reserved) are zero in every call.
idt_set_gate(isr, cs_selector, gate_type) ==
    [p |-> 1, selector |-> cs_selector, type |-> gate_type, offset_low |-> Low(isr, 16),
     offset_mid |-> Low(Shr(isr, 16), 16), offset_high |-> Low(Shr(isr, 32), 32)]

(* ---- the processor's reading ---- *)

GateTarget(g) == g.offset_low \cup Shl(g.offset_mid, 16) \cup Shl(g.offset_high, 32)
\* Bits 47 present, 44 code or data, 43 executable, 53 long, 54 default size.
IsCode64(d) == {47, 44, 43, 53} \subseteq d /\ 54 \notin d
TssBase(low, high) ==
    Low(Shr(low, 16), 24) \cup Shl(Shr(low, 56), 24) \cup Shl(Low(high, 32), 32)
\* Bits 43..40 are 9, an available 64-bit TSS, or 11, a busy one; bit 44 is clear for system descriptors.
IsTss(low) == {47, 43, 40} \subseteq low /\ low \cap {44, 42, 41} = {}
IsBusyTss(low) == {47, 43, 41, 40} \subseteq low /\ low \cap {44, 42} = {}
\* LTR marks the available TSS it loads busy.
ltr(low) == IF IsTss(low) THEN low \cup {41} ELSE low
=============================================================================
