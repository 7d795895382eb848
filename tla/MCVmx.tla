------------------------------- MODULE MCVmx --------------------------------
(***************************************************************************)
(* Instance of Vmx: every state of the feature control MSR, with and       *)
(* without TRUE control MSRs, HLT exiting or the TRUE-only relaxation,     *)
(* without the loading of EFER on either side, and for some VMCS fields a  *)
(* processor that refuses them.                                            *)
(***************************************************************************)
EXTENDS Vmx

\* Capability MSRs: legacy reports the default1 bits as mandatory.
Caps(hlt) ==
    [m \in {"true", "legacy"} |->
        [k \in Controls |->
            CASE k = "pin"   -> {"default1", "nmi"}
              [] k = "proc"  -> {"default1"} \cup hlt
              [] k = "entry" -> {"default1", "ia32e_guest"} \cup (IF hlt = {} THEN {} ELSE {"load_efer"})
              [] k = "exit"  -> {"default1", "host_addr_space", "load_efer"}]]
Musts == [m \in {"true", "legacy"} |-> [k \in Controls |-> IF m = "legacy" THEN {"default1"} ELSE {}]]

Cpu(hlt, t, fcv, refuses) ==
    [intel |-> TRUE, vmx |-> TRUE, true_controls |-> t, fc |-> fcv,
     fixed0 |-> [r \in {"cr0", "cr4"} |-> IF r = "cr0" THEN {"pg", "ne"} ELSE {"vmxe"}],
     fixed1 |-> [r \in {"cr0", "cr4"} |-> IF r = "cr0" THEN {"pg", "ne", "wp"} ELSE {"pae", "vmxe"}],
     one |-> Musts, may |-> Caps(hlt), refuses |-> refuses]

Unlocked == [lock |-> FALSE, outside_smx |-> FALSE]
\* The encodings of a control, host TR base and EFER, guest CS base, limit and access rights, link pointer.
Fields == {16384, 27658, 11266, 26632, 18434, 18454, 10240}

MCCpus ==
    {Cpu(h, t, f, {}) : h \in {{}, {"hlt"}}, t \in BOOLEAN, f \in [lock : BOOLEAN, outside_smx : BOOLEAN]}
    \cup {Cpu({"hlt"}, TRUE, Unlocked, {f}) : f \in Fields}
    \cup {[Cpu(h, TRUE, Unlocked, {}) EXCEPT !.may["true"]["exit"] = {"default1"} \cup e] :
            h \in {{}, {"hlt"}}, e \in {{}, {"host_addr_space"}}}
    \cup {[Cpu({}, TRUE, Unlocked, {}) EXCEPT !.intel = FALSE],
          [Cpu({}, TRUE, Unlocked, {}) EXCEPT !.vmx = FALSE]}
=============================================================================
