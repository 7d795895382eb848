----------------------------- MODULE VmxProofs ------------------------------
(***************************************************************************)
(* Proofs about Vmx, for every processor CpuType describes.  The lemmas    *)
(* on Writes say under which encodings the setup functions of vcpu.c write *)
(* which values; the inductive invariant IInv, stated in Vmx, carries them *)
(* from VMWRITE to VMWRITE, past the ones that fail and are ignored, to    *)
(* the launch and to the VM exit.                                          *)
(***************************************************************************)
EXTENDS Vmx, SequenceTheorems, TLAPS

(* The parts vmcs.h puts together are the ones the processor takes a field's number apart into:
   access in bit 0, index in bits 9:1, type in bits 11:10, width in bits 14:13. *)
THEOREM EncodingDecodes ==
    ASSUME NEW type \in 0 .. 3, NEW index \in 0 .. 511, NEW access \in 0 .. 1, NEW width \in 0 .. 3
    PROVE  LET e == VMCS_ENCODE(type, index, access, width) IN
           /\ e \in Nat /\ e < 32768
           /\ e % 2 = access
           /\ (e \div 2) % 512 = index
           /\ (e \div 1024) % 4 = type
           /\ (e \div 8192) % 4 = width
PROOF
  <1>1. PICK e : e = access + 2 * index + 1024 * type + 8192 * width
    OBVIOUS
  <1>2. VMCS_ENCODE(type, index, access, width) = e
    BY <1>1 DEF VMCS_ENCODE
  <1>3. e % 2 = access
    BY <1>1
  <1>4. e \div 2 = index + 512 * type + 4096 * width
    BY <1>1
  <1>5. (e \div 2) % 512 = index /\ (e \div 1024) % 4 = type /\ (e \div 8192) % 4 = width
    BY <1>1, <1>4
  <1>6. e \in Nat /\ e < 32768
    BY <1>1
  <1> QED BY <1>2, <1>3, <1>5, <1>6
-----------------------------------------------------------------------------
(* ---- the writes of vcpu_build_vmcs_and_launch ---- *)

\* s is a tuple of n elements; its elements.
IsTuple(s, n) == s = [i \in 1 .. n |-> s[i]]
Elements(s) == {s[i] : i \in DOMAIN s}

\* A function on 1 .. m is a sequence.
LEMMA FunctionIsSeq ==
    ASSUME NEW S, NEW m \in Nat, NEW s \in [1 .. m -> S]
    PROVE  s \in Seq(S) /\ Len(s) = m
PROOF
  <1>1. s \in Seq(S)
    BY SeqDef, Zenon
  <1>2. DOMAIN s = 1 .. Len(s) /\ Len(s) \in Nat
    BY <1>1
  <1> QED BY <1>1, <1>2

\* Tuples put one after the other: length and elements.
LEMMA ConcatTuples ==
    ASSUME NEW m \in Nat, NEW n \in Nat, NEW k, k = m + n, NEW s, NEW t, IsTuple(s, m), IsTuple(t, n)
    PROVE  /\ IsTuple(s \o t, k)
           /\ Len(s \o t) = k
           /\ Elements(s \o t) = Elements(s) \cup Elements(t)
PROOF
  <1> DEFINE S == {s[i] : i \in 1 .. m} \cup {t[i] : i \in 1 .. n}
  <1>1. s \in [1 .. m -> S] /\ t \in [1 .. n -> S]
    BY DEF IsTuple
  <1>2. s \in Seq(S) /\ t \in Seq(S) /\ Len(s) = m /\ Len(t) = n
    <2> HIDE DEF S
    <2> QED BY <1>1, FunctionIsSeq
  <1>3. /\ s \o t \in Seq(S) /\ Len(s \o t) = m + n
        /\ \A i \in 1 .. m + n : (s \o t)[i] = IF i <= m THEN s[i] ELSE t[i - m]
    <2> HIDE DEF S
    <2> QED BY <1>2, ConcatProperties
  <1>4. DOMAIN (s \o t) = 1 .. m + n /\ IsTuple(s \o t, m + n)
    <2> HIDE DEF S
    <2> QED BY <1>3 DEF IsTuple
  <1>5. \A i \in 1 .. n : m + i \in 1 .. m + n /\ (s \o t)[m + i] = t[i]
    BY <1>3
  <1>6. \A i \in 1 .. m : i \in 1 .. m + n /\ (s \o t)[i] = s[i]
    BY <1>3
  <1>7. \A i \in 1 .. m + n : i \in 1 .. m \/ (i - m \in 1 .. n /\ (s \o t)[i] = t[i - m])
    BY <1>3
  <1>8. DOMAIN s = 1 .. m /\ DOMAIN t = 1 .. n
    BY DEF IsTuple
  <1>9. Elements(s \o t) = Elements(s) \cup Elements(t)
    <2> DEFINE c == s \o t
    <2>1. DOMAIN c = 1 .. m + n
      BY <1>4
    <2>2. /\ \A i \in 1 .. n : m + i \in 1 .. m + n /\ c[m + i] = t[i]
          /\ \A i \in 1 .. m : i \in 1 .. m + n /\ c[i] = s[i]
          /\ \A i \in 1 .. m + n : i \in 1 .. m \/ (i - m \in 1 .. n /\ c[i] = t[i - m])
      BY <1>5, <1>6, <1>7
    <2> HIDE DEF c
    <2>3. Elements(c) \subseteq Elements(s) \cup Elements(t)
      BY <1>8, <2>1, <2>2 DEF Elements
    <2>4. Elements(s) \subseteq Elements(c) /\ Elements(t) \subseteq Elements(c)
      BY <1>8, <2>1, <2>2 DEF Elements
    <2> QED BY <2>3, <2>4 DEF c
  <1> QED BY <1>3, <1>4, <1>9

\* Elements of the tuples the setup functions are made of.
LEMMA ElementsOfControls ==
    /\ IsTuple(setup_exec_controls, 2) /\ IsTuple(setup_entry_exit_controls, 2)
    /\ Elements(setup_exec_controls) =
        {W(16384, adjust_ctrl_u32(Requested.pin, "pin")), W(16386, adjust_ctrl_u32(Requested.proc, "proc"))}
    /\ Elements(setup_entry_exit_controls) =
        {W(16402, adjust_ctrl_u32(Requested.entry, "entry")), W(16396, adjust_ctrl_u32(Requested.exit, "exit"))}
PROOF
  <1>1. /\ VMCS_PIN_BASED_CTLS = 16384 /\ VMCS_PRIMARY_PROC_CTLS = 16386
        /\ VMCS_VMENTRY_CTLS = 16402 /\ VMCS_VMEXIT_CTLS = 16396
    BY DEF VMCS_PIN_BASED_CTLS, VMCS_PRIMARY_PROC_CTLS, VMCS_VMENTRY_CTLS, VMCS_VMEXIT_CTLS, VMCS_EC, VMCS_ENCODE,
           VMCS_TYPE_CONTROL, VMCS_FULL, VMCS_D
  <1> QED BY <1>1 DEF setup_exec_controls, setup_entry_exit_controls, IsTuple, Elements

\* The fields setup_host_state writes, all of them with a look at the result.
LEMMA ElementsOfHost ==
    /\ IsTuple(setup_host_state, 20)
    /\ Elements(setup_host_state) =
        {W(27648, host.cr0), W(27650, host.cr3), W(27652, host.cr4),
         W(27668, "s_vmexit_tmp_stack"), W(27670, "vmexit_bootstrap_handler"),
         W(27660, host.gdtr), W(27662, host.idtr), W(3084, host.selectors[7]), W(27658, "tss_base_from_gdt"),
         W(27654, host.fs_base), W(27656, host.gs_base), W(27658, "0"), W(11266, host.efer)}
        \cup {W(3070 + 2 * i, host.selectors[i]) : i \in 1 .. 7}
PROOF
  <1> DEFINE first == << W(VMCS_HOST_CR(0), host.cr0), W(VMCS_HOST_CR(1), host.cr3), W(VMCS_HOST_CR(2), host.cr4),
                         W(VMCS_HOST_RSP, "s_vmexit_tmp_stack"), W(VMCS_HOST_RIP, "vmexit_bootstrap_handler") >>
             last == << W(VMCS_HOST_GDTR_BASE, host.gdtr), W(VMCS_HOST_IDTR_BASE, host.idtr),
                        W(VMCS_HOST_SELECTOR(6), host.selectors[7]), W(VMCS_HOST_TR_BASE, "tss_base_from_gdt"),
                        W(VMCS_HOST_FS_BASE, host.fs_base), W(VMCS_HOST_GS_BASE, host.gs_base),
                        W(VMCS_HOST_TR_BASE, "0"), W(VMCS_HOST_IA32_EFER, host.efer) >>
  <1>1. /\ VMCS_HOST_CR(0) = 27648 /\ VMCS_HOST_CR(1) = 27650 /\ VMCS_HOST_CR(2) = 27652
        /\ VMCS_HOST_RSP = 27668 /\ VMCS_HOST_RIP = 27670 /\ VMCS_HOST_GDTR_BASE = 27660
        /\ VMCS_HOST_IDTR_BASE = 27662 /\ VMCS_HOST_TR_BASE = 27658 /\ VMCS_HOST_FS_BASE = 27654
        /\ VMCS_HOST_GS_BASE = 27656 /\ VMCS_HOST_IA32_EFER = 11266
        /\ \A k \in 0 .. 6 : VMCS_HOST_SELECTOR(k) = 3072 + 2 * k
    BY DEF VMCS_HOST_CR, VMCS_HOST_RSP, VMCS_HOST_RIP, VMCS_HOST_GDTR_BASE, VMCS_HOST_IDTR_BASE, VMCS_HOST_TR_BASE,
           VMCS_HOST_FS_BASE, VMCS_HOST_GS_BASE, VMCS_HOST_IA32_EFER, VMCS_HOST_SELECTOR, VMCS_EH, VMCS_ENCODE,
           VMCS_TYPE_HOST, VMCS_FULL, VMCS_N, VMCS_Q, VMCS_W
  <1>2. IsTuple(first, 5) /\ Elements(first) =
            {W(27648, host.cr0), W(27650, host.cr3), W(27652, host.cr4), W(27668, "s_vmexit_tmp_stack"),
             W(27670, "vmexit_bootstrap_handler")}
    BY <1>1 DEF IsTuple, Elements
  <1>3. IsTuple(last, 8) /\ Elements(last) =
            {W(27660, host.gdtr), W(27662, host.idtr), W(3084, host.selectors[7]), W(27658, "tss_base_from_gdt"),
             W(27654, host.fs_base), W(27656, host.gs_base), W(27658, "0"), W(11266, host.efer)}
    <2>1. VMCS_HOST_SELECTOR(6) = 3084
      BY <1>1
    <2> QED BY <1>1, <2>1 DEF IsTuple, Elements
  <1>4. IsTuple(HostSelectors, 7) /\ Elements(HostSelectors) = {W(3070 + 2 * i, host.selectors[i]) : i \in 1 .. 7}
    <2>1. DOMAIN HostSegments = 1 .. 7 /\ \A i \in 1 .. 7 : HostSegments[i] \in 0 .. 6
      BY DEF HostSegments
    <2>2. \A k \in 0 .. 6 : \E i \in 1 .. 7 : HostSegments[i] = k
      BY DEF HostSegments
    <2>3. \A i \in 1 .. 7 : HostSelectors[i] = W(3072 + 2 * HostSegments[i], host.selectors[HostSegments[i] + 1])
      BY <1>1, <2>1 DEF HostSelectors
    <2>4. DOMAIN HostSelectors = 1 .. 7 /\ IsTuple(HostSelectors, 7)
      BY <2>1 DEF HostSelectors, IsTuple
    <2>5. ASSUME NEW i \in 1 .. 7
          PROVE  HostSelectors[i] \in {W(3070 + 2 * k, host.selectors[k]) : k \in 1 .. 7}
      <3>1. HostSegments[i] + 1 \in 1 .. 7 /\ 3072 + 2 * HostSegments[i] = 3070 + 2 * (HostSegments[i] + 1)
        BY <2>1
      <3> QED BY <2>3, <3>1
    <2>6. ASSUME NEW k \in 1 .. 7
          PROVE  W(3070 + 2 * k, host.selectors[k]) \in Elements(HostSelectors)
      <3>1. PICK i \in 1 .. 7 : HostSegments[i] = k - 1
        BY <2>2
      <3>2. HostSelectors[i] = W(3070 + 2 * k, host.selectors[k])
        BY <2>3, <3>1
      <3> QED BY <2>4, <3>2 DEF Elements
    <2> QED BY <2>4, <2>5, <2>6 DEF Elements
  <1> HIDE DEF first, last
  <1>5. IsTuple(first \o HostSelectors, 12)
        /\ Elements(first \o HostSelectors) = Elements(first) \cup Elements(HostSelectors)
    <2>1. IsTuple(first, 5) /\ IsTuple(HostSelectors, 7)
      BY <1>2, <1>4
    <2> QED BY <2>1, ConcatTuples
  <1>6. setup_host_state = (first \o HostSelectors) \o last
    BY DEF setup_host_state, first, last
  <1>7. IsTuple(setup_host_state, 20)
        /\ Elements(setup_host_state) = Elements(first \o HostSelectors) \cup Elements(last)
    <2>1. IsTuple(first \o HostSelectors, 12) /\ IsTuple(last, 8)
      BY <1>3, <1>5
    <2> QED BY <1>6, <2>1, ConcatTuples
  <1> QED BY <1>2, <1>3, <1>4, <1>5, <1>7

\* The encodings of the guest-state area, by their type, and writes that stay inside it and put the
\* host's EFER in the guest's.
GuestFields == {e \in Nat : (e \div 1024) % 4 = 2}
OnlyGuest(s) == \A w \in Elements(s) : w.field \in GuestFields /\ (w.field = 10246 => w.value = host.efer)

LEMMA ConcatGuest ==
    ASSUME NEW m \in Nat, NEW n \in Nat, NEW k, k = m + n, NEW s, NEW t, IsTuple(s, m), IsTuple(t, n),
           OnlyGuest(s), OnlyGuest(t)
    PROVE  IsTuple(s \o t, k) /\ OnlyGuest(s \o t)
PROOF
  <1>1. IsTuple(s \o t, k) /\ Elements(s \o t) = Elements(s) \cup Elements(t)
    BY ConcatTuples
  <1> QED BY <1>1 DEF OnlyGuest

\* setup_guest_state writes nothing but guest state, EFER with a look at the result.
LEMMA GuestWritesStayInGuest ==
    IsTuple(setup_guest_state, 43) /\ OnlyGuest(setup_guest_state) /\ W(10246, host.efer) \in Elements(setup_guest_state)
PROOF
  <1> DEFINE a == << W(VMCS_GUEST_CR(0), host.cr0), W(VMCS_GUEST_CR(1), host.cr3), W(VMCS_GUEST_CR(2), host.cr4) >>
             b == Each(W, VMCS_GUEST_BASE, <<1, 2, 3, 0, 4, 5, 7, 8, 9>>, "0")
             c == <<W(VMCS_GUEST_BASE(6), "0xDEAD00")>>
             d == Each(Void, VMCS_GUEST_LIMIT, <<1, 2, 3, 0, 4, 5>>, "max")
             e == Each(Void, VMCS_GUEST_LIMIT, <<7, 6, 9, 8>>, "0")
             f == <<W(VMCS_GUEST_SELECTOR(1), host.selectors[2])>>
             g == Each(W, VMCS_GUEST_SELECTOR, <<2, 3, 0, 4, 5, 7, 6>>, "0")
             h == <<Void(VMCS_GUEST_ACCESS_RIGHTS(1), "code64")>>
             i == Each(Void, VMCS_GUEST_ACCESS_RIGHTS, <<2, 3, 0, 4, 5>>, "data")
             j == <<Void(VMCS_GUEST_ACCESS_RIGHTS(7), "tss_busy"), Void(VMCS_GUEST_ACCESS_RIGHTS(6), "ldt"),
                    W(VMCS_GUEST_RIP, "vcpu_guest_hlt_loop"), W(VMCS_GUEST_RFLAGS, "if=0"),
                    W(VMCS_GUEST_IA32_EFER, host.efer), W(VMCS_GUEST_VMCS_LINK_POINTER, "none")>>
  <1>1. /\ \A n \in 0 .. 9 : /\ VMCS_GUEST_CR(n) \in GuestFields /\ VMCS_GUEST_BASE(n) \in GuestFields
                             /\ VMCS_GUEST_LIMIT(n) \in GuestFields /\ VMCS_GUEST_SELECTOR(n) \in GuestFields
                             /\ VMCS_GUEST_ACCESS_RIGHTS(n) \in GuestFields
        /\ VMCS_GUEST_RIP \in GuestFields /\ VMCS_GUEST_RFLAGS \in GuestFields
        /\ VMCS_GUEST_IA32_EFER \in GuestFields /\ VMCS_GUEST_VMCS_LINK_POINTER \in GuestFields
    BY DEF VMCS_GUEST_CR, VMCS_GUEST_BASE, VMCS_GUEST_LIMIT, VMCS_GUEST_SELECTOR, VMCS_GUEST_ACCESS_RIGHTS,
           VMCS_GUEST_RIP, VMCS_GUEST_RFLAGS, VMCS_GUEST_IA32_EFER, VMCS_GUEST_VMCS_LINK_POINTER,
           VMCS_EG, VMCS_ENCODE, VMCS_TYPE_GUEST, VMCS_FULL, VMCS_N, VMCS_D, VMCS_W, VMCS_Q, GuestFields
  <1>2. /\ \A n \in 0 .. 9 : 10246 \notin {VMCS_GUEST_CR(n), VMCS_GUEST_BASE(n), VMCS_GUEST_LIMIT(n),
                                            VMCS_GUEST_SELECTOR(n), VMCS_GUEST_ACCESS_RIGHTS(n)}
         /\ 10246 \notin {VMCS_GUEST_RIP, VMCS_GUEST_RFLAGS, VMCS_GUEST_VMCS_LINK_POINTER}
         /\ VMCS_GUEST_IA32_EFER = 10246
    BY DEF VMCS_GUEST_CR, VMCS_GUEST_BASE, VMCS_GUEST_LIMIT, VMCS_GUEST_SELECTOR, VMCS_GUEST_ACCESS_RIGHTS,
           VMCS_GUEST_RIP, VMCS_GUEST_RFLAGS, VMCS_GUEST_IA32_EFER, VMCS_GUEST_VMCS_LINK_POINTER,
           VMCS_EG, VMCS_ENCODE, VMCS_TYPE_GUEST, VMCS_FULL, VMCS_N, VMCS_D, VMCS_W, VMCS_Q
  <1>3. IsTuple(a, 3) /\ OnlyGuest(a)
    BY <1>1, <1>2 DEF IsTuple, OnlyGuest, Elements, W
  <1>4. IsTuple(b, 9) /\ OnlyGuest(b)
    BY <1>1, <1>2 DEF IsTuple, OnlyGuest, Elements, W, Each
  <1>5. IsTuple(c, 1) /\ OnlyGuest(c) /\ IsTuple(f, 1) /\ OnlyGuest(f) /\ IsTuple(h, 1) /\ OnlyGuest(h)
    BY <1>1, <1>2 DEF IsTuple, OnlyGuest, Elements, W, Void
  <1>6. IsTuple(d, 6) /\ OnlyGuest(d)
    BY <1>1, <1>2 DEF IsTuple, OnlyGuest, Elements, Void, Each
  <1>7. IsTuple(e, 4) /\ OnlyGuest(e)
    BY <1>1, <1>2 DEF IsTuple, OnlyGuest, Elements, Void, Each
  <1>8. IsTuple(g, 7) /\ OnlyGuest(g)
    BY <1>1, <1>2 DEF IsTuple, OnlyGuest, Elements, W, Each
  <1>9. IsTuple(i, 5) /\ OnlyGuest(i)
    BY <1>1, <1>2 DEF IsTuple, OnlyGuest, Elements, Void, Each
  <1>10. IsTuple(j, 6) /\ OnlyGuest(j)
    BY <1>1, <1>2 DEF IsTuple, OnlyGuest, Elements, W, Void
  <1>11. setup_guest_state = a \o b \o c \o d \o e \o f \o g \o h \o i \o j
    BY DEF setup_guest_state
  <1>12. W(10246, host.efer) \in Elements(j)
    BY <1>2 DEF Elements
  <1> HIDE DEF a, b, c, d, e, f, g, h, i, j
  <1>13. IsTuple(a \o b, 12) /\ OnlyGuest(a \o b)
    BY <1>3, <1>4, ConcatGuest
  <1>14. IsTuple(a \o b \o c, 13) /\ OnlyGuest(a \o b \o c)
    BY <1>5, <1>13, ConcatGuest
  <1>15. IsTuple(a \o b \o c \o d, 19) /\ OnlyGuest(a \o b \o c \o d)
    BY <1>6, <1>14, ConcatGuest
  <1>16. IsTuple(a \o b \o c \o d \o e, 23) /\ OnlyGuest(a \o b \o c \o d \o e)
    BY <1>7, <1>15, ConcatGuest
  <1>17. IsTuple(a \o b \o c \o d \o e \o f, 24) /\ OnlyGuest(a \o b \o c \o d \o e \o f)
    BY <1>5, <1>16, ConcatGuest
  <1>18. IsTuple(a \o b \o c \o d \o e \o f \o g, 31) /\ OnlyGuest(a \o b \o c \o d \o e \o f \o g)
    BY <1>8, <1>17, ConcatGuest
  <1>19. IsTuple(a \o b \o c \o d \o e \o f \o g \o h, 32) /\ OnlyGuest(a \o b \o c \o d \o e \o f \o g \o h)
    BY <1>5, <1>18, ConcatGuest
  <1>20. IsTuple(a \o b \o c \o d \o e \o f \o g \o h \o i, 37)
         /\ OnlyGuest(a \o b \o c \o d \o e \o f \o g \o h \o i)
    BY <1>9, <1>19, ConcatGuest
  <1>21. IsTuple(setup_guest_state, 43) /\ OnlyGuest(setup_guest_state)
    BY <1>10, <1>11, <1>20, ConcatGuest
  <1>22. Elements(j) \subseteq Elements(setup_guest_state)
    BY <1>10, <1>11, <1>20, ConcatTuples
  <1> QED BY <1>12, <1>21, <1>22

LEMMA WritesElements ==
    /\ DOMAIN Writes = 1 .. 67 /\ Len(Writes) = 67
    /\ Elements(Writes) = Elements(setup_exec_controls) \cup Elements(setup_host_state)
                          \cup Elements(setup_guest_state) \cup Elements(setup_entry_exit_controls)
PROOF
  <1> DEFINE a == setup_exec_controls \o setup_host_state
             b == a \o setup_guest_state
  <1>1. /\ IsTuple(setup_exec_controls, 2) /\ IsTuple(setup_host_state, 20)
        /\ IsTuple(setup_guest_state, 43) /\ IsTuple(setup_entry_exit_controls, 2)
    BY ElementsOfControls, ElementsOfHost, GuestWritesStayInGuest
  <1>2. IsTuple(a, 22) /\ Elements(a) = Elements(setup_exec_controls) \cup Elements(setup_host_state)
    BY <1>1, ConcatTuples
  <1> HIDE DEF a
  <1>3. IsTuple(b, 65) /\ Elements(b) = Elements(a) \cup Elements(setup_guest_state)
    BY <1>1, <1>2, ConcatTuples
  <1> HIDE DEF b
  <1>4. Writes = b \o setup_entry_exit_controls
    BY DEF Writes, a, b
  <1>5. /\ IsTuple(Writes, 67) /\ Len(Writes) = 67
        /\ Elements(Writes) = Elements(b) \cup Elements(setup_entry_exit_controls)
    BY <1>1, <1>3, <1>4, ConcatTuples
  <1>6. DOMAIN Writes = 1 .. 67
    BY <1>5 DEF IsTuple
  <1> QED BY <1>2, <1>3, <1>5, <1>6

\* The one value each control and host field is written with; only the TR base has two.
ControlValue ==
    [k \in Controls |-> adjust_ctrl_u32(Requested[k], k)]

LEMMA WrittenValues ==
    ASSUME NEW w \in Elements(Writes)
    PROVE  /\ \A k \in Controls : w.field = ControlField[k] => w.value = ControlValue[k]
           /\ w.field = 27648 => w.value = host.cr0
           /\ w.field = 27650 => w.value = host.cr3
           /\ w.field = 27652 => w.value = host.cr4
           /\ w.field = 27668 => w.value = "s_vmexit_tmp_stack"
           /\ w.field = 27670 => w.value = "vmexit_bootstrap_handler"
           /\ w.field = 27660 => w.value = host.gdtr
           /\ w.field = 27662 => w.value = host.idtr
           /\ w.field = 27654 => w.value = host.fs_base
           /\ w.field = 27656 => w.value = host.gs_base
           /\ w.field \in {11266, 10246} => w.value = host.efer
           /\ \A i \in 1 .. 7 : w.field = 3070 + 2 * i => w.value = host.selectors[i]
PROOF
  <1>1. CASE w \in Elements(setup_guest_state)
    <2>1. w.field \in GuestFields /\ (w.field = 10246 => w.value = host.efer)
      BY <1>1, GuestWritesStayInGuest DEF OnlyGuest
    <2>2. \A e \in GuestFields : e \notin 16384 .. 16402 /\ e \notin 27648 .. 27670
      BY DEF GuestFields
    <2>3. \A e \in GuestFields : e \notin 3072 .. 3084 /\ e # 11266
      BY DEF GuestFields
    <2>4. \A i \in 1 .. 7 : 3070 + 2 * i \in 3072 .. 3084
      OBVIOUS
    <2>5. \A k \in Controls : ControlField[k] \in 16384 .. 16402
      BY DEF ControlField, Controls
    <2> QED BY <2>1, <2>2, <2>3, <2>4, <2>5
  <1>2. CASE w \in Elements(setup_exec_controls) \cup Elements(setup_entry_exit_controls)
    <2>1. PICK k \in Controls : w = W(ControlField[k], ControlValue[k])
      BY <1>2, ElementsOfControls DEF ControlField, ControlValue, Controls
    <2>2. w.field = ControlField[k] /\ w.value = ControlValue[k]
      BY <2>1 DEF W
    <2>3. ControlField[k] \in 16384 .. 16402 /\ \A l \in Controls : ControlField[l] = ControlField[k] => l = k
      BY DEF ControlField, Controls
    <2> QED BY <2>2, <2>3
  <1>3. CASE w \in Elements(setup_host_state)
    <2>1. CASE w \in {W(3070 + 2 * i, host.selectors[i]) : i \in 1 .. 7}
      BY <2>1 DEF ControlField, Controls, W
    <2>2. CASE w = W(3084, host.selectors[7])
      BY <2>2 DEF ControlField, Controls, W
    <2>3. CASE w \in {W(27648, host.cr0), W(27650, host.cr3), W(27652, host.cr4),
                      W(27668, "s_vmexit_tmp_stack"), W(27670, "vmexit_bootstrap_handler")}
      BY <2>3 DEF ControlField, Controls, W
    <2>4. CASE w \in {W(27660, host.gdtr), W(27662, host.idtr), W(27658, "tss_base_from_gdt"),
                      W(27654, host.fs_base), W(27656, host.gs_base), W(27658, "0"), W(11266, host.efer)}
      BY <2>4 DEF ControlField, Controls, W
    <2> QED BY <1>3, <2>1, <2>2, <2>3, <2>4, ElementsOfHost
  <1> QED BY <1>1, <1>2, <1>3, WritesElements

\* The fields whose VMWRITE is looked at, among the ones a VM entry or exit depends on.
HostFields == {27648, 27650, 27652, 27668, 27670, 27660, 27662, 27654, 27656, 11266, 10246} \cup {3070 + 2 * i : i \in 1 .. 7}

LEMMA CheckedFields ==
    ASSUME NEW f \in HostFields \cup {ControlField[k] : k \in Controls}
    PROVE  \E j \in 1 .. 67 : Writes[j].field = f /\ Writes[j].checked
PROOF
  <1>1. SUFFICES \E v : W(f, v) \in Elements(Writes)
    <2>1. PICK v : W(f, v) \in Elements(Writes)
      BY <1>1
    <2>2. PICK j \in 1 .. 67 : Writes[j] = W(f, v)
      BY <2>1, WritesElements DEF Elements
    <2>3. W(f, v).field = f /\ W(f, v).checked
      BY DEF W
    <2> QED BY <2>2, <2>3, Zenon
  <1>2. CASE f \in {ControlField[k] : k \in Controls}
    BY <1>2, ElementsOfControls, WritesElements DEF ControlField, Controls
  <1>3. CASE f \in {3070 + 2 * i : i \in 1 .. 7}
    BY <1>3, ElementsOfHost, WritesElements
  <1>4. CASE f \in {27648, 27650, 27652, 27668, 27670, 27660, 27662, 27654, 27656, 11266}
    BY <1>4, ElementsOfHost, WritesElements
  <1>5. CASE f = 10246
    <2>1. W(10246, host.efer) \in Elements(Writes)
      BY GuestWritesStayInGuest, WritesElements
    <2>2. W(f, host.efer) = W(10246, host.efer)
      BY <1>5
    <2> QED BY <2>1, <2>2
  <1> QED BY <1>2, <1>3, <1>4, <1>5 DEF HostFields

\* What is written depends on the processor and the host registers only.
LEMMA WritesUnchanged ==
    ASSUME UNCHANGED <<cpu, host>>
    PROVE  Writes' = Writes
PROOF
  BY DEF Writes, setup_exec_controls, setup_host_state, setup_guest_state, setup_entry_exit_controls, HostSelectors,
         adjust_ctrl_u32, CtlMsr

LEMMA WritesLength == Len(Writes) = 67 /\ DOMAIN Writes = 1 .. 67
PROOF
  BY WritesElements

LEMMA WritesLengthKept == (Len(Writes) = 67 /\ DOMAIN Writes = 1 .. 67)'
PROOF
  BY WritesLength, PTL
-----------------------------------------------------------------------------
(* ---- the inductive invariant ---- *)

\* adjust_ctrl_u32 makes of any request a value the processor allows, and keeps what it supports.
LEMMA ControlValueAllowed ==
    ASSUME cpu \in Cpus
    PROVE  /\ \A k \in Controls : cpu.one[CtlMsr][k] \subseteq ControlValue[k] /\ ControlValue[k] \subseteq cpu.may[CtlMsr][k]
           /\ \A k \in Controls : Requested[k] \cap cpu.may[CtlMsr][k] \subseteq ControlValue[k]
PROOF
  <1>1. CpuType(cpu)
    BY VmxAssumption
  <1>2. \A k \in Controls : cpu.one[CtlMsr][k] \subseteq cpu.may[CtlMsr][k]
    BY <1>1 DEF CpuType, CtlMsr
  <1>3. \A k \in Controls : ControlValue[k] = adjust_ctrl_u32(Requested[k], k)
    BY DEF ControlValue
  <1> DEFINE one == cpu.one[CtlMsr]
             may == cpu.may[CtlMsr]
  <1>4. \A v, k : adjust_ctrl_u32(v, k) = (v \cup one[k]) \cap may[k]
    BY DEF adjust_ctrl_u32
  <1> HIDE DEF one, may
  <1>5. \A v, k : one[k] \subseteq may[k] => one[k] \subseteq adjust_ctrl_u32(v, k) /\ adjust_ctrl_u32(v, k) \subseteq may[k]
    BY <1>4
  <1>6. \A k \in Controls : Requested[k] \cap may[k] \subseteq ControlValue[k]
    BY <1>3, <1>4
  <1>7. \A k \in Controls : one[k] \subseteq may[k]
    BY <1>2 DEF one, may
  <1>8. \A k \in Controls : one[k] \subseteq ControlValue[k] /\ ControlValue[k] \subseteq may[k]
    BY <1>3, <1>5, <1>7
  <1> QED BY <1>6, <1>8 DEF one, may

\* When every write is done, the VMCS holds a value of the writes under each checked field, the right one.
LEMMA FilledFields ==
    ASSUME IInv, pc \in {"vmlaunch", "guest"}
    PROVE  /\ \A k \in Controls : Control(k) = ControlValue[k]
           /\ \A u : /\ Field(27648, u) = host.cr0 /\ Field(27650, u) = host.cr3 /\ Field(27652, u) = host.cr4
                     /\ Field(27668, u) = "s_vmexit_tmp_stack" /\ Field(27670, u) = "vmexit_bootstrap_handler"
                     /\ Field(27660, u) = host.gdtr /\ Field(27662, u) = host.idtr
                     /\ Field(27654, u) = host.fs_base /\ Field(27656, u) = host.gs_base
                     /\ Field(11266, u) = host.efer /\ Field(10246, u) = host.efer
                     /\ \A i \in 1 .. 7 : Field(3070 + 2 * i, u) = host.selectors[i]
PROOF
  <1>1. /\ \A f \in DOMAIN vmcs : \E j \in 1 .. 67 : Writes[j].field = f /\ Writes[j].value = vmcs[f]
        /\ \A j \in 1 .. 67 : Writes[j].checked => Writes[j].field \in DOMAIN vmcs
    <2>1. Filling /\ wi - 1 = 67 /\ DOMAIN Writes = 1 .. 67
      BY WritesLength DEF IInv, Filled, Filling
    <2> QED BY <2>1 DEF IInv, Filled
  <1>2. \A f \in DOMAIN vmcs : \E w \in Elements(Writes) : w.field = f /\ w.value = vmcs[f]
    <2> SUFFICES ASSUME NEW f \in DOMAIN vmcs
                 PROVE  \E w \in Elements(Writes) : w.field = f /\ w.value = vmcs[f]
      OBVIOUS
    <2>1. PICK j \in 1 .. 67 : Writes[j].field = f /\ Writes[j].value = vmcs[f]
      BY <1>1
    <2>2. Writes[j] \in Elements(Writes)
      BY WritesLength DEF Elements
    <2> QED BY <2>1, <2>2, Zenon
  <1>3. HostFields \cup {ControlField[k] : k \in Controls} \subseteq DOMAIN vmcs
    <2> SUFFICES ASSUME NEW f \in HostFields \cup {ControlField[k] : k \in Controls}
                 PROVE  f \in DOMAIN vmcs
      BY Zenon
    <2>1. PICK j \in 1 .. 67 : Writes[j].field = f /\ Writes[j].checked
      BY CheckedFields
    <2> QED BY <1>1, <2>1, Zenon
  <1>4. ASSUME NEW k \in Controls
        PROVE  Control(k) = ControlValue[k]
    <2>1. ControlField[k] \in DOMAIN vmcs
      BY <1>3
    <2>2. PICK w \in Elements(Writes) : w.field = ControlField[k] /\ w.value = vmcs[ControlField[k]]
      BY <1>2, <2>1
    <2> QED BY <2>1, <2>2, WrittenValues DEF Control, Field
  <1>5. ASSUME NEW u
        PROVE  /\ Field(27648, u) = host.cr0 /\ Field(27650, u) = host.cr3 /\ Field(27652, u) = host.cr4
               /\ Field(27668, u) = "s_vmexit_tmp_stack" /\ Field(27670, u) = "vmexit_bootstrap_handler"
               /\ Field(27660, u) = host.gdtr /\ Field(27662, u) = host.idtr
               /\ Field(27654, u) = host.fs_base /\ Field(27656, u) = host.gs_base
               /\ Field(11266, u) = host.efer /\ Field(10246, u) = host.efer
    <2>1. ASSUME NEW f \in {27648, 27650, 27652, 27668, 27670, 27660, 27662, 27654, 27656, 11266, 10246}
          PROVE  \E w \in Elements(Writes) : w.field = f /\ w.value = Field(f, u)
      BY <1>2, <1>3 DEF HostFields, Field
    <2> QED BY <2>1, WrittenValues
  <1>6. ASSUME NEW u, NEW i \in 1 .. 7
        PROVE  Field(3070 + 2 * i, u) = host.selectors[i]
    <2>1. 3070 + 2 * i \in DOMAIN vmcs
      BY <1>3 DEF HostFields
    <2>2. PICK w \in Elements(Writes) : w.field = 3070 + 2 * i /\ w.value = vmcs[3070 + 2 * i]
      BY <1>2, <2>1
    <2> QED BY <2>1, <2>2, WrittenValues DEF Field
  <1> QED BY <1>4, <1>5, <1>6

LEMMA InvInit == Init => IInv
PROOF
  <1> SUFFICES ASSUME Init PROVE IInv
    OBVIOUS
  <1>1. fc \in [lock : BOOLEAN, outside_smx : BOOLEAN] /\ cpu \in Cpus
    BY VmxAssumption DEF Init, CpuType
  <1>2. TypeOK
    <2>1. wi \in 1 .. Len(Writes) + 1 /\ depth \in 0 .. StackFrames
      BY VmxAssumption, WritesLength DEF Init
    <2> QED BY <1>1, <2>1, Zenon DEF Init, TypeOK
  <1>3. HostKept
    BY DEF Init, HostKept, BootHost
  <1>4. CallsSound /\ BringUp /\ ControlsAllowed /\ HostSurvivesExit
    BY DEF Init, CallsSound, BringUp, ControlsAllowed, HostSurvivesExit
  <1>5. Filled
    BY DEF Init, Filled, Filling
  <1> QED BY <1>1, <1>2, <1>3, <1>4, <1>5 DEF IInv

\* The bring-up, up to the loading of the VMCS, and the errors of its instructions.
LEMMA BringUpStep ==
    ASSUME IInv, \/ check_cpuid \/ vmx_enable_feature_control_outside_smx \/ vmx_adjust_cr0_cr4
                 \/ vmx_alloc_and_init_vmxon_region \/ asm_vmxon \/ vmcs_alloc \/ asm_vmclear \/ asm_vmptrld
                 \/ vmcs_vmread_ok \/ vmcs_vmread_fails
    PROVE  IInv'
PROOF
  <1> USE DEF Goto, ReadError
  <1>1. CASE check_cpuid \/ vmx_alloc_and_init_vmxon_region \/ asm_vmxon \/ vmcs_alloc
    <2>1. TypeOK'
      <3>1. wi' \in 1 .. Len(Writes)' + 1
        BY <1>1, WritesLength, WritesLengthKept
        DEF IInv, TypeOK, check_cpuid, vmx_alloc_and_init_vmxon_region, asm_vmxon, vmcs_alloc
      <3>2. CASE asm_vmxon
        BY <3>1, <3>2 DEF IInv, TypeOK, asm_vmxon
      <3>3. CASE check_cpuid \/ vmx_alloc_and_init_vmxon_region \/ vmcs_alloc
        BY <3>1, <3>3 DEF IInv, TypeOK, check_cpuid, vmx_alloc_and_init_vmxon_region, vmcs_alloc
      <3> QED BY <1>1, <3>2, <3>3
    <2>2. CallsSound' /\ BringUp' /\ HostKept' /\ HostSurvivesExit'
      BY <1>1 DEF IInv, CallsSound, BringUp, HostKept, HostSurvivesExit, check_cpuid, vmx_alloc_and_init_vmxon_region,
                  asm_vmxon, vmcs_alloc
    <2>3. Filled' /\ ControlsAllowed' /\ cpu' \in Cpus
      BY <1>1 DEF IInv, Filled, Filling, ControlsAllowed, check_cpuid, vmx_alloc_and_init_vmxon_region, asm_vmxon, vmcs_alloc
    <2> QED BY <2>1, <2>2, <2>3 DEF IInv
  <1>2. CASE vmx_enable_feature_control_outside_smx
    <2>1. TypeOK'
      BY <1>2, WritesLength, WritesLengthKept DEF IInv, TypeOK, vmx_enable_feature_control_outside_smx
    <2>2. CallsSound' /\ BringUp' /\ HostKept' /\ HostSurvivesExit'
      BY <1>2 DEF IInv, TypeOK, CallsSound, BringUp, HostKept, HostSurvivesExit, vmx_enable_feature_control_outside_smx
    <2>3. Filled' /\ ControlsAllowed' /\ cpu' \in Cpus
      BY <1>2 DEF IInv, Filled, Filling, ControlsAllowed, vmx_enable_feature_control_outside_smx
    <2> QED BY <2>1, <2>2, <2>3 DEF IInv
  <1>3. CASE vmx_adjust_cr0_cr4
    <2>1. TypeOK'
      BY <1>3, WritesLength, WritesLengthKept DEF IInv, TypeOK, vmx_adjust_cr0_cr4
    <2>2. CpuType(cpu)
      BY VmxAssumption DEF IInv
    <2>3. host'.cr0 = Fix("cr0") /\ host'.cr4 = Fix("cr4") \cup {"vmxe"}
      BY <1>3 DEF IInv, HostKept, BootHost, vmx_adjust_cr0_cr4
    <2>4. BringUp'
      BY <1>3, <2>2, <2>3 DEF IInv, BringUp, CpuType, Fix, vmx_adjust_cr0_cr4
    <2>5. HostKept'
      BY <1>3 DEF IInv, HostKept, BootHost, vmx_adjust_cr0_cr4
    <2>6. CallsSound' /\ HostSurvivesExit'
      BY <1>3 DEF IInv, CallsSound, HostKept, HostSurvivesExit, vmx_adjust_cr0_cr4
    <2>7. Filled' /\ ControlsAllowed' /\ cpu' \in Cpus
      BY <1>3 DEF IInv, Filled, Filling, ControlsAllowed, vmx_adjust_cr0_cr4
    <2> QED BY <2>1, <2>4, <2>5, <2>6, <2>7 DEF IInv
  <1>4. CASE asm_vmclear \/ asm_vmptrld
    <2>1. TypeOK'
      BY <1>4, WritesLength, WritesLengthKept DEF IInv, TypeOK, CallsSound, asm_vmclear, asm_vmptrld
    <2>2. CallsSound' /\ BringUp' /\ HostKept' /\ HostSurvivesExit'
      BY <1>4 DEF IInv, CallsSound, BringUp, HostKept, HostSurvivesExit, asm_vmclear, asm_vmptrld
    <2>3. Filled' /\ ControlsAllowed' /\ cpu' \in Cpus
      BY <1>4 DEF IInv, Filled, Filling, ControlsAllowed, asm_vmclear, asm_vmptrld
    <2> QED BY <2>1, <2>2, <2>3 DEF IInv
  <1>5. CASE vmcs_vmread_ok
    <2>1. pc' \in {"panic", "idle", "write"} /\ pc' = back
      BY <1>5 DEF IInv, CallsSound, vmcs_vmread_ok
    <2>2. TypeOK'
      BY <1>5, <2>1, VmxAssumption, WritesLength, WritesLengthKept DEF IInv, TypeOK, vmcs_vmread_ok
    <2>3. CallsSound' /\ BringUp' /\ HostKept' /\ HostSurvivesExit'
      BY <1>5, <2>1 DEF IInv, CallsSound, BringUp, HostKept, HostSurvivesExit, vmcs_vmread_ok
    <2>4. Writes' = Writes
      BY <1>5, WritesUnchanged DEF vmcs_vmread_ok
    <2>5. Filled' /\ ControlsAllowed' /\ cpu' \in Cpus
      BY <1>5, <2>1, <2>4 DEF IInv, Filled, Filling, ControlsAllowed, vmcs_vmread_ok
    <2> QED BY <2>2, <2>3, <2>5 DEF IInv
  <1>6. CASE vmcs_vmread_fails
    <2>1. TypeOK'
      BY <1>6, VmxAssumption, WritesLength, WritesLengthKept DEF IInv, TypeOK, vmcs_vmread_fails
    <2>2. CallsSound' /\ BringUp' /\ HostKept' /\ HostSurvivesExit'
      BY <1>6 DEF IInv, CallsSound, BringUp, HostKept, HostSurvivesExit, vmcs_vmread_fails
    <2>3. Writes' = Writes
      BY <1>6, WritesUnchanged DEF vmcs_vmread_fails
    <2>4. Filled' /\ ControlsAllowed' /\ cpu' \in Cpus
      BY <1>6, <2>3 DEF IInv, Filled, Filling, ControlsAllowed, vmcs_vmread_fails
    <2> QED BY <2>1, <2>2, <2>4 DEF IInv
  <1> QED BY <1>1, <1>2, <1>3, <1>4, <1>5, <1>6

\* One VMWRITE, taken or refused; the last one.
LEMMA WriteStep ==
    ASSUME IInv, vmcs_vmwrite \/ writes_done
    PROVE  IInv'
PROOF
  <1> USE DEF Goto, ReadError
  <1>1. Writes' = Writes /\ Len(Writes) = 67 /\ DOMAIN Writes = 1 .. 67
    BY WritesUnchanged, WritesLength DEF vmcs_vmwrite, writes_done
  <1>2. CASE vmcs_vmwrite
    <2> DEFINE w == Writes[wi]
    <2>1. /\ pc = "write" /\ wi \in 1 .. 67 /\ wi' = wi + 1
          /\ UNCHANGED <<cpu, fc, host, host0, root, current, launch, depth, reason>>
      BY <1>1, <1>2 DEF IInv, TypeOK, vmcs_vmwrite
    <2>2. \/ /\ vmcs' = [f \in DOMAIN vmcs \cup {w.field} |-> IF f = w.field THEN w.value ELSE vmcs[f]]
             /\ UNCHANGED <<pc, back>>
          \/ /\ pc' = "instruction_error" /\ back' = IF w.checked THEN "idle" ELSE "write"
             /\ UNCHANGED vmcs
      BY <1>2 DEF vmcs_vmwrite
    <2>3. TypeOK'
      BY <1>1, <2>1, <2>2 DEF IInv, TypeOK
    <2>4. CallsSound' /\ BringUp' /\ HostKept' /\ HostSurvivesExit' /\ ControlsAllowed' /\ cpu' \in Cpus
      BY <2>1, <2>2 DEF IInv, CallsSound, BringUp, HostKept, HostSurvivesExit, ControlsAllowed
    <2>5. Filled'
      <3>1. /\ \A f \in DOMAIN vmcs : \E j \in 1 .. 67 : Writes[j].field = f /\ Writes[j].value = vmcs[f]
            /\ \A j \in 1 .. wi - 1 : Writes[j].checked => Writes[j].field \in DOMAIN vmcs
        BY <1>1, <2>1 DEF IInv, Filled, Filling
      <3>2. \A j \in 1 .. wi' - 1 : j \in 1 .. wi - 1 \/ j = wi
        BY <2>1
      <3>3. CASE vmcs' = [f \in DOMAIN vmcs \cup {w.field} |-> IF f = w.field THEN w.value ELSE vmcs[f]]
                 /\ UNCHANGED <<pc, back>>
        <4>1. \A f \in DOMAIN vmcs' : \E j \in 1 .. 67 : Writes[j].field = f /\ Writes[j].value = vmcs'[f]
          BY <2>1, <3>1, <3>3
        <4>2. \A j \in 1 .. wi' - 1 : Writes[j].checked => Writes[j].field \in DOMAIN vmcs'
          BY <3>1, <3>2, <3>3
        <4>3. /\ pc' \notin {"cpuid", "feature_control", "adjust", "vmxon_region", "vmxon",
                            "vmcs_region", "vmclear", "vmptrld"}
              /\ pc' \notin {"vmlaunch", "guest"}
          BY <2>1, <3>3
        <4>4. DOMAIN Writes' = 1 .. 67
          BY <1>1
        <4> QED BY <1>1, <4>1, <4>2, <4>3, <4>4, Zenon DEF Filled
      <3>4. CASE pc' = "instruction_error" /\ (back' = IF w.checked THEN "idle" ELSE "write") /\ UNCHANGED vmcs
        <4>1. back' = "write" => \A j \in 1 .. wi' - 1 : Writes[j].checked => Writes[j].field \in DOMAIN vmcs'
          BY <3>1, <3>2, <3>4
        <4> QED BY <1>1, <2>1, <3>1, <3>4, <4>1 DEF Filled, Filling
      <3> QED BY <2>2, <3>3, <3>4
    <2> QED BY <2>3, <2>4, <2>5 DEF IInv
  <1>3. CASE writes_done
    <2>1. wi = 68 /\ pc = "write" /\ pc' = "vmlaunch"
      BY <1>1, <1>3 DEF IInv, TypeOK, writes_done
    <2>2. TypeOK'
      BY <1>1, <1>3 DEF IInv, TypeOK, writes_done
    <2>3. CallsSound' /\ BringUp' /\ HostKept' /\ HostSurvivesExit' /\ cpu' \in Cpus
      BY <1>3 DEF IInv, CallsSound, BringUp, HostKept, HostSurvivesExit, writes_done
    <2>4. Filled'
      BY <1>1, <1>3, <2>1 DEF IInv, Filled, Filling, writes_done
    <2>5. ControlsAllowed'
      <3>1. /\ \A f \in DOMAIN vmcs : \E j \in 1 .. 67 : Writes[j].field = f /\ Writes[j].value = vmcs[f]
            /\ \A j \in 1 .. 67 : Writes[j].checked => Writes[j].field \in DOMAIN vmcs
        BY <1>1, <2>1 DEF IInv, Filled, Filling
      <3>2. \A f \in DOMAIN vmcs : \E v \in Elements(Writes) : v.field = f /\ v.value = vmcs[f]
        <4> SUFFICES ASSUME NEW f \in DOMAIN vmcs
                     PROVE  \E v \in Elements(Writes) : v.field = f /\ v.value = vmcs[f]
          OBVIOUS
        <4>1. PICK j \in 1 .. 67 : Writes[j].field = f /\ Writes[j].value = vmcs[f]
          BY <3>1
        <4>2. Writes[j] \in Elements(Writes)
          BY WritesLength DEF Elements
        <4> QED BY <4>1, <4>2, Zenon
      <3>3. \A k \in Controls : Control(k) = ControlValue[k]
        <4> TAKE k \in Controls
        <4>1. ControlField[k] \in DOMAIN vmcs
          BY <3>1, CheckedFields
        <4>2. PICK v \in Elements(Writes) : v.field = ControlField[k] /\ v.value = vmcs[ControlField[k]]
          BY <3>2, <4>1
        <4> QED BY <4>1, <4>2, WrittenValues DEF Control, Field
      <3>4. \A k \in Controls : Allowed(k) /\ Requested[k] \cap cpu.may[CtlMsr][k] \subseteq Control(k)
        BY <3>3, ControlValueAllowed DEF Allowed, IInv
      <3>5. UNCHANGED <<cpu, vmcs>>
        BY <1>3 DEF writes_done
      <3> QED BY <3>4, <3>5 DEF ControlsAllowed, Allowed, Control, Field, CtlMsr, Controls
    <2> QED BY <2>2, <2>3, <2>4, <2>5 DEF IInv
  <1> QED BY <1>2, <1>3

\* A VM exit from the guest or from a refused guest state loads back the host registers of the launch.
LEMMA ExitStep ==
    ASSUME IInv, pc \in {"vmlaunch", "guest"}, NEW why \in {"hlt", "invalid_guest_state"}, VmExit(why),
           UNCHANGED <<cpu, fc, host0, root, vmcs, current, launch, wi, back, depth>>
    PROVE  IInv'
PROOF
  <1>1. /\ host'.cr0 = host.cr0 /\ host'.cr3 = host.cr3 /\ host'.cr4 = host.cr4
        /\ host'.rsp = "s_vmexit_tmp_stack" /\ host'.rip = "vmexit_bootstrap_handler"
        /\ host'.gdtr = host.gdtr /\ host'.idtr = host.idtr
        /\ host'.fs_base = host.fs_base /\ host'.gs_base = host.gs_base
    BY FilledFields DEF VmExit
  <1>2. host'.efer = host.efer
    <2>1. host'.efer = EferAfterExit
      BY DEF VmExit
    <2>2. Field(11266, "0") = host.efer /\ Field(10246, "0") = host.efer
      BY FilledFields
    <2> QED BY <2>1, <2>2 DEF EferAfterExit
  <1>3. host'.selectors = host.selectors
    <2>1. host'.selectors = [i \in 1 .. 7 |-> Field(3070 + 2 * i, "0")]
      BY DEF VmExit
    <2>2. [i \in 1 .. 7 |-> Field(3070 + 2 * i, "0")] = [i \in 1 .. 7 |-> host.selectors[i]]
      BY FilledFields
    <2>3. host.selectors = <<"es", "cs", "ss", "ds", "fs", "gs", "tr">>
      BY DEF IInv, HostKept, BootHost
    <2>4. host.selectors = [i \in 1 .. 7 |-> host.selectors[i]]
      BY <2>3
    <2> QED BY <2>1, <2>2, <2>4
  <1>4. DOMAIN host' = {"cr0", "cr3", "cr4", "rsp", "rip", "selectors", "gdtr", "idtr", "tr_base", "fs_base", "gs_base", "efer"}
    BY DEF VmExit
  <1>5. host0' = host
    BY DEF IInv, HostKept
  <1>6. HostSurvivesExit'
    BY <1>1, <1>2, <1>3, <1>4, <1>5 DEF HostSurvivesExit
  <1>7. pc' = "vmexit" /\ reason' # "none"
    BY DEF VmExit, Goto
  <1>8. TypeOK'
    BY <1>7, WritesLength, WritesLengthKept DEF IInv, TypeOK
  <1>9. CallsSound' /\ BringUp' /\ HostKept' /\ Filled' /\ cpu' \in Cpus
    BY <1>7 DEF IInv, CallsSound, BringUp, HostKept, Filled, Filling
  <1>10. ControlsAllowed'
    BY <1>7 DEF IInv, ControlsAllowed, Allowed, Control, Field, CtlMsr
  <1> QED BY <1>6, <1>8, <1>9, <1>10 DEF IInv

LEMMA GuestStep ==
    ASSUME IInv, vmlaunch \/ vcpu_guest_hlt_loop \/ vmexit_c_handler
    PROVE  IInv'
PROOF
  <1>1. CASE vmlaunch /\ pc' = "vmexit"
    BY <1>1, ExitStep DEF vmlaunch, ReadError, Goto
  <1>2. CASE vcpu_guest_hlt_loop /\ pc' = "vmexit"
    BY <1>2, ExitStep DEF vcpu_guest_hlt_loop, Goto
  <1>3. CASE vmlaunch /\ pc' # "vmexit"
    <2>1. /\ pc = "vmlaunch" /\ UNCHANGED <<cpu, fc, host, host0, root, vmcs, current, wi, depth, reason>>
          /\ \/ pc' = "guest" /\ launch' = "launched" /\ UNCHANGED back
             \/ pc' = "instruction_error" /\ back' = "idle" /\ UNCHANGED launch
      BY <1>3 DEF vmlaunch, VmExit, ReadError, Goto
    <2>2. Writes' = Writes
      BY <2>1, WritesUnchanged
    <2>3. TypeOK'
      BY <2>1, <2>2 DEF IInv, TypeOK
    <2>4. CallsSound' /\ BringUp' /\ HostKept' /\ HostSurvivesExit' /\ cpu' \in Cpus
      BY <2>1 DEF IInv, CallsSound, BringUp, HostKept, HostSurvivesExit
    <2>5. Filled'
      BY <2>1, <2>2 DEF IInv, Filled, Filling
    <2>6. ControlsAllowed'
      BY <2>1 DEF IInv, ControlsAllowed, Allowed, Control, Field, CtlMsr
    <2> QED BY <2>3, <2>4, <2>5, <2>6 DEF IInv
  <1>4. CASE (vcpu_guest_hlt_loop /\ pc' # "vmexit") \/ vmexit_c_handler
    <2>1. /\ pc' \in {"guest_halted", "exit_logged"} /\ pc \in {"guest", "vmexit"}
          /\ pc' = "guest_halted" => pc = "guest"
          /\ UNCHANGED <<cpu, fc, host, host0, root, vmcs, current, launch, wi, back, depth, reason>>
      BY <1>4 DEF vcpu_guest_hlt_loop, vmexit_c_handler, VmExit, Goto
    <2>2. Writes' = Writes
      BY <2>1, WritesUnchanged
    <2>3. TypeOK'
      BY <2>1, <2>2 DEF IInv, TypeOK
    <2>4. CallsSound' /\ BringUp' /\ HostKept' /\ HostSurvivesExit' /\ cpu' \in Cpus
      BY <2>1 DEF IInv, CallsSound, BringUp, HostKept, HostSurvivesExit
    <2>5. Filled' /\ ControlsAllowed'
      BY <2>1 DEF Filled, Filling, ControlsAllowed
    <2> QED BY <2>3, <2>4, <2>5 DEF IInv
  <1> QED BY <1>1, <1>2, <1>3, <1>4

LEMMA InvStep == IInv /\ [Next]_vars => IInv'
PROOF
  <1> SUFFICES ASSUME IInv, [Next]_vars PROVE IInv'
    OBVIOUS
  <1>1. CASE Next
    BY <1>1, BringUpStep, WriteStep, GuestStep DEF Next
  <1>2. CASE UNCHANGED vars
    <2>1. UNCHANGED <<cpu, fc, host, host0, root, vmcs, current, launch, pc, wi, back, depth, reason>> /\ Writes' = Writes
      BY <1>2, WritesUnchanged DEF vars
    <2>2. TypeOK' /\ CallsSound' /\ BringUp' /\ HostKept' /\ HostSurvivesExit' /\ cpu' \in Cpus
      BY <2>1 DEF IInv, TypeOK, CallsSound, BringUp, HostKept, HostSurvivesExit
    <2>3. Filled' /\ ControlsAllowed'
      BY <2>1 DEF IInv, Filled, Filling, ControlsAllowed, Allowed, Control, Field, CtlMsr
    <2> QED BY <2>2, <2>3 DEF IInv
  <1> QED BY <1>1, <1>2

LEMMA VmxInvariant == Spec => []IInv
PROOF
  BY InvInit, InvStep, PTL DEF Spec
-----------------------------------------------------------------------------
(* Types, with the calls of vmcs_instruction_error: none is nested once a VMCS is loaded. *)
THEOREM TypeCorrect == Spec => []TypeOK
PROOF
  <1>1. IInv => TypeOK
    BY DEF IInv
  <1> QED BY <1>1, VmxInvariant, PTL

(* vmx_init_and_enter executes VMXON with the feature control MSR locked and permitting it and
   with CR0 and CR4 within the fixed bits, on every processor. *)
THEOREM VmxonReady == Spec => []ReadyForVmxon
PROOF
  <1>1. IInv => ReadyForVmxon
    BY DEF IInv, BringUp, ReadyForVmxon
  <1> QED BY <1>1, VmxInvariant, PTL

(* vmx_enable_feature_control_outside_smx never writes a locked MSR, and VMXON is not reached where
   the MSR forbids VMX. *)
THEOREM LockIsRespected == Spec => LockRespected
PROOF
  <1>1. ASSUME IInv, [Next]_vars
        PROVE  [(fc.lock => fc' = fc) /\ (root' # root => fc.outside_smx)]_vars
    <2>1. CASE asm_vmxon
      BY <1>1, <2>1 DEF IInv, BringUp, asm_vmxon
    <2>2. CASE vmx_enable_feature_control_outside_smx
      BY <2>2 DEF vmx_enable_feature_control_outside_smx
    <2>3. CASE check_cpuid \/ vmx_adjust_cr0_cr4 \/ vmx_alloc_and_init_vmxon_region \/ vmcs_alloc \/ asm_vmclear
               \/ asm_vmptrld \/ vmcs_vmread_ok \/ vmcs_vmread_fails
      BY <2>3 DEF check_cpuid, vmx_adjust_cr0_cr4, vmx_alloc_and_init_vmxon_region, vmcs_alloc, asm_vmclear, asm_vmptrld,
                  vmcs_vmread_ok, vmcs_vmread_fails
    <2>4. CASE vmcs_vmwrite \/ writes_done \/ vmlaunch \/ vcpu_guest_hlt_loop \/ vmexit_c_handler
      BY <2>4 DEF vmcs_vmwrite, writes_done, vmlaunch, vcpu_guest_hlt_loop, vmexit_c_handler
    <2> QED BY <1>1, <2>1, <2>2, <2>3, <2>4 DEF Next, vars
  <1> QED BY <1>1, VmxInvariant, PTL DEF Spec, LockRespected

(* setup_exec_controls and setup_entry_exit_controls leave controls in the VMCS that the processor's
   capability MSRs allow, whatever it allows, and every control they ask for where it is supported. *)
THEOREM LaunchedAsAllowed == Spec => []ControlsAllowed
PROOF
  <1>1. IInv => ControlsAllowed
    BY DEF IInv
  <1> QED BY <1>1, VmxInvariant, PTL

(* A VM exit, however it comes about, restores what setup_host_state saved under the encodings of
   vmcs.h: the registers the host launched with, and the exit handler on its stack. *)
THEOREM HostRestored == Spec => []HostSurvivesExit
PROOF
  <1>1. IInv => HostSurvivesExit
    BY DEF IInv
  <1> QED BY <1>1, VmxInvariant, PTL
=============================================================================
