-------------------------------- MODULE Vmx ---------------------------------
(***************************************************************************)
(* From kernelMain's call of vmx_init_and_enter to the first VM exit:      *)
(* kernel/arch/x86/vmm/vmx.c, vmcs.c, vmx_log.c and the first half of      *)
(* vcpu.c, against a processor that may lack features, run out of memory,  *)
(* fail any VMX instruction and refuse VMCS fields it does not know.       *)
(*                                                                         *)
(* Control registers and VMX controls are sets of bits.  The VMCS maps the *)
(* encodings of VmcsFields to values: the kernel writes under the ones of  *)
(* vmcs.h, the processor reads under its own.                              *)
(***************************************************************************)
EXTENDS VmcsFields, Sequences

CONSTANTS
    Cpus,          \* processors, see CpuType
    StackFrames    \* bound: calls the kernel stack has room for

Controls == {"pin", "proc", "entry", "exit"}

CpuType(c) ==
    /\ c.intel \in BOOLEAN /\ c.vmx \in BOOLEAN /\ c.true_controls \in BOOLEAN
    /\ c.fc \in [lock : BOOLEAN, outside_smx : BOOLEAN]
    /\ \A r \in {"cr0", "cr4"} : c.fixed0[r] \subseteq c.fixed1[r]
    /\ "vmxe" \in c.fixed1["cr4"]
    /\ \A m \in {"true", "legacy"}, k \in Controls : c.one[m][k] \subseteq c.may[m][k]

ASSUME VmxAssumption == StackFrames \in Nat /\ \A c \in Cpus : CpuType(c)

VARIABLES
    cpu,       \* the processor the kernel runs on
    fc,        \* IA32_FEATURE_CONTROL
    host,      \* host registers; tr_base is the base the processor uses
    host0,     \* ghost: host just before VMLAUNCH
    root,      \* in VMX operation
    vmcs,      \* fields of the VMCS region written so far, by encoding
    current,   \* the region is the current VMCS
    launch,    \* its launch state
    pc,
    wi,        \* next write of vcpu_build_vmcs_and_launch
    back,      \* where vmcs_instruction_error returns to
    depth,     \* activations of vmcs_instruction_error
    reason     \* VMCS_EXIT_REASON

vars == <<cpu, fc, host, host0, root, vmcs, current, launch, pc, wi, back, depth, reason>>

\* gdt_init and idt_init have run: the task register is in use.
BootHost ==
    [cr0 |-> {"pg"}, cr3 |-> "new_lv4", cr4 |-> {"pae"}, rsp |-> "boot_stack", rip |-> "kernelMain",
     selectors |-> <<"es", "cs", "ss", "ds", "fs", "gs", "tr">>, gdtr |-> "gdt", idtr |-> "idt", tr_base |-> "g_tss",
     fs_base |-> "fs", gs_base |-> "gs", efer |-> "lma"]

Init ==
    /\ cpu \in Cpus
    /\ fc = cpu.fc
    /\ host = BootHost /\ host0 = BootHost
    /\ root = FALSE
    /\ vmcs = <<>> /\ current = FALSE /\ launch = "none"
    /\ pc = "cpuid"
    /\ wi = 1 /\ back = "none" /\ depth = 0 /\ reason = "none"

Goto(label) == pc' = label

(* ---- vmx_init_and_enter: any -1 ends in panic ---- *)

check_cpuid ==
    /\ pc = "cpuid"
    /\ IF cpu.intel /\ cpu.vmx THEN Goto("feature_control") ELSE Goto("panic")
    /\ UNCHANGED <<cpu, fc, host, host0, root, vmcs, current, launch, wi, back, depth, reason>>

\* Mutant: writes the MSR whether it is locked or not.
Mutant_feature_control_ignores_lock ==
    /\ pc = "feature_control"
    /\ fc' = [lock |-> TRUE, outside_smx |-> TRUE]
    /\ Goto("adjust")
    /\ UNCHANGED <<cpu, host, host0, root, vmcs, current, launch, wi, back, depth, reason>>

vmx_enable_feature_control_outside_smx ==
    /\ pc = "feature_control"
    /\ fc' = IF fc.lock THEN fc ELSE [lock |-> TRUE, outside_smx |-> TRUE]
    /\ IF fc'.outside_smx THEN Goto("adjust") ELSE Goto("panic")
    /\ UNCHANGED <<cpu, host, host0, root, vmcs, current, launch, wi, back, depth, reason>>

\* Mutant: the bits that must be one are not set.
Mutant_Fix_no_fixed0(r) == host[r] \cap cpu.fixed1[r]

Fix(r) == (host[r] \cup cpu.fixed0[r]) \cap cpu.fixed1[r]

vmx_adjust_cr0_cr4 ==
    /\ pc = "adjust"
    /\ host' = [host EXCEPT !.cr0 = Fix("cr0"), !.cr4 = Fix("cr4") \cup {"vmxe"}]
    /\ Goto("vmxon_region")
    /\ UNCHANGED <<cpu, fc, host0, root, vmcs, current, launch, wi, back, depth, reason>>

vmx_alloc_and_init_vmxon_region ==
    /\ pc = "vmxon_region"
    /\ Goto("vmxon") \/ Goto("panic")
    /\ UNCHANGED <<cpu, fc, host, host0, root, vmcs, current, launch, wi, back, depth, reason>>

asm_vmxon ==
    /\ pc = "vmxon"
    /\ \/ root' = TRUE /\ Goto("vmcs_region")
       \/ UNCHANGED root /\ Goto("panic")
    /\ UNCHANGED <<cpu, fc, host, host0, vmcs, current, launch, wi, back, depth, reason>>

(* ---- vmcs_alloc_and_load: any -1 ends in panic ---- *)

vmcs_alloc ==
    /\ pc = "vmcs_region"
    /\ Goto("vmclear") \/ Goto("panic")
    /\ UNCHANGED <<cpu, fc, host, host0, root, vmcs, current, launch, wi, back, depth, reason>>

\* Mutant: the place to return to is lost.
Mutant_ReadError_lost(label) == Goto("instruction_error") /\ back' = "none"

\* Call of vmcs_instruction_error, which returns to label.
ReadError(label) == Goto("instruction_error") /\ back' = label

asm_vmclear ==
    /\ pc = "vmclear"
    /\ \/ launch' = "clear" /\ Goto("vmptrld") /\ UNCHANGED back
       \/ ReadError("panic") /\ UNCHANGED launch
    /\ UNCHANGED <<cpu, fc, host, host0, root, vmcs, current, wi, depth, reason>>

asm_vmptrld ==
    /\ pc = "vmptrld"
    /\ \/ current' = TRUE /\ Goto("write") /\ UNCHANGED back
       \/ ReadError("panic") /\ UNCHANGED current
    /\ UNCHANGED <<cpu, fc, host, host0, root, vmcs, launch, wi, depth, reason>>

(* ---- vmcs_instruction_error and vmcs_vmread call each other ---- *)

\* VMREAD of the error field works whenever there is a current VMCS.
vmcs_vmread_ok ==
    /\ pc = "instruction_error"
    /\ current
    /\ Goto(back) /\ back' = "none" /\ depth' = 0
    /\ UNCHANGED <<cpu, fc, host, host0, root, vmcs, current, launch, wi, reason>>

\* Without one VMREAD fails, and vmcs_vmread asks for the error of that failure.
vmcs_vmread_fails ==
    /\ pc = "instruction_error"
    /\ ~current
    /\ IF depth < StackFrames THEN depth' = depth + 1 /\ UNCHANGED pc
                              ELSE Goto("stack_overflow") /\ UNCHANGED depth
    /\ UNCHANGED <<cpu, fc, host, host0, root, vmcs, current, launch, wi, back, reason>>

(* ---- vcpu_build_vmcs_and_launch ---- *)

CtlMsr == IF cpu.true_controls THEN "true" ELSE "legacy"
adjust_ctrl_u32(val, k) == (val \cup cpu.one[CtlMsr][k]) \cap cpu.may[CtlMsr][k]

\* One VMWRITE: the field, its value, and whether its result is looked at.
W(f, v) == [field |-> f, value |-> v, checked |-> TRUE]
Void(f, v) == [field |-> f, value |-> v, checked |-> FALSE]
\* The same for the segments of a list, in its order.
Each(write(_, _), field(_), segments, v) == [i \in DOMAIN segments |-> write(field(segments[i]), v)]

\* The controls the setup functions ask for.
Requested == [pin |-> {}, proc |-> {"hlt"}, entry |-> {"ia32e_guest", "load_efer"}, exit |-> {"host_addr_space", "load_efer"}]

setup_exec_controls == << W(VMCS_PIN_BASED_CTLS, adjust_ctrl_u32(Requested.pin, "pin")),
                          W(VMCS_PRIMARY_PROC_CTLS, adjust_ctrl_u32(Requested.proc, "proc")) >>

HostSegments == <<1, 2, 3, 0, 4, 5, 6>>
\* Mutant: the selectors are written to the fields of their neighbours.
Mutant_HostSelectors_shifted ==
    [i \in DOMAIN HostSegments |-> W(VMCS_HOST_SELECTOR(HostSegments[i]), host.selectors[i])]

HostSelectors == [i \in DOMAIN HostSegments |-> W(VMCS_HOST_SELECTOR(HostSegments[i]), host.selectors[HostSegments[i] + 1])]

setup_host_state ==
    << W(VMCS_HOST_CR(0), host.cr0), W(VMCS_HOST_CR(1), host.cr3), W(VMCS_HOST_CR(2), host.cr4),
       W(VMCS_HOST_RSP, "s_vmexit_tmp_stack"), W(VMCS_HOST_RIP, "vmexit_bootstrap_handler") >>
    \o HostSelectors \o
    << W(VMCS_HOST_GDTR_BASE, host.gdtr), W(VMCS_HOST_IDTR_BASE, host.idtr),
       W(VMCS_HOST_SELECTOR(6), host.selectors[7]), W(VMCS_HOST_TR_BASE, "tss_base_from_gdt"),
       W(VMCS_HOST_FS_BASE, host.fs_base), W(VMCS_HOST_GS_BASE, host.gs_base), W(VMCS_HOST_TR_BASE, "0"),
       W(VMCS_HOST_IA32_EFER, host.efer) >>

setup_guest_state ==
    << W(VMCS_GUEST_CR(0), host.cr0), W(VMCS_GUEST_CR(1), host.cr3), W(VMCS_GUEST_CR(2), host.cr4) >>
    \o Each(W, VMCS_GUEST_BASE, <<1, 2, 3, 0, 4, 5, 7, 8, 9>>, "0") \o <<W(VMCS_GUEST_BASE(6), "0xDEAD00")>>
    \o Each(Void, VMCS_GUEST_LIMIT, <<1, 2, 3, 0, 4, 5>>, "max") \o Each(Void, VMCS_GUEST_LIMIT, <<7, 6, 9, 8>>, "0")
    \o <<W(VMCS_GUEST_SELECTOR(1), host.selectors[2])>> \o Each(W, VMCS_GUEST_SELECTOR, <<2, 3, 0, 4, 5, 7, 6>>, "0")
    \o <<Void(VMCS_GUEST_ACCESS_RIGHTS(1), "code64")>>
    \o Each(Void, VMCS_GUEST_ACCESS_RIGHTS, <<2, 3, 0, 4, 5>>, "data")
    \o <<Void(VMCS_GUEST_ACCESS_RIGHTS(7), "tss_busy"), Void(VMCS_GUEST_ACCESS_RIGHTS(6), "ldt"),
         W(VMCS_GUEST_RIP, "vcpu_guest_hlt_loop"), W(VMCS_GUEST_RFLAGS, "if=0"),
         W(VMCS_GUEST_IA32_EFER, host.efer), W(VMCS_GUEST_VMCS_LINK_POINTER, "none")>>

\* Mutant: EFER is not loaded on a VM exit, although the processor could.
Mutant_entry_exit_no_efer ==
    << W(VMCS_VMENTRY_CTLS, adjust_ctrl_u32(Requested.entry, "entry")),
       W(VMCS_VMEXIT_CTLS, adjust_ctrl_u32(Requested.exit \ {"load_efer"}, "exit")) >>

setup_entry_exit_controls ==
    << W(VMCS_VMENTRY_CTLS, adjust_ctrl_u32(Requested.entry, "entry")),
       W(VMCS_VMEXIT_CTLS, adjust_ctrl_u32(Requested.exit, "exit")) >>

Writes == setup_exec_controls \o setup_host_state \o setup_guest_state \o setup_entry_exit_controls

\* A failed vcpu_build_vmcs_and_launch leaves kernelMain in its hlt loop.
vmcs_vmwrite ==
    /\ pc = "write"
    /\ wi <= Len(Writes)
    /\ LET w == Writes[wi]
           takes == w.field \in Implemented \ cpu.refuses /\ ~ReadOnly(w.field) IN
        \/ /\ takes
           /\ vmcs' = [f \in DOMAIN vmcs \cup {w.field} |-> IF f = w.field THEN w.value ELSE vmcs[f]]
           /\ wi' = wi + 1
           /\ UNCHANGED <<pc, back>>
        \/ /\ ~takes
           /\ ReadError(IF w.checked THEN "idle" ELSE "write")
           /\ wi' = wi + 1
           /\ UNCHANGED vmcs
    /\ UNCHANGED <<cpu, fc, host, host0, root, current, launch, depth, reason>>

writes_done ==
    /\ pc = "write"
    /\ wi > Len(Writes)
    /\ host0' = host
    /\ Goto("vmlaunch")
    /\ UNCHANGED <<cpu, fc, host, root, vmcs, current, launch, wi, back, depth, reason>>

(* ---- the processor ---- *)

\* The processor's encodings of the controls, and what a field of the cleared region holds.
ControlField == [pin |-> 16384, proc |-> 16386, entry |-> 16402, exit |-> 16396]
Field(e, unwritten) == IF e \in DOMAIN vmcs THEN vmcs[e] ELSE unwritten
Control(k) == Field(ControlField[k], {})
Allowed(k) == cpu.one[CtlMsr][k] \subseteq Control(k) /\ Control(k) \subseteq cpu.may[CtlMsr][k]

\* Checks on controls and host state (CR0, CR3, CR4, RIP, CS, TR, EFER); a failure is VMfail.
EntryChecks ==
    /\ launch = "clear"
    /\ \A k \in Controls : Allowed(k)
    /\ "host_addr_space" \in Control("exit")
    /\ {27648, 27650, 27652, 27670, 3074, 3084, 11266} \subseteq DOMAIN vmcs
\* Checks on guest state (CR0, CR3, CR4, RFLAGS, link pointer, CS, EFER, access rights); a failure is a
\* VM exit.  Limits and bases of 0 pass, access rights of 0 (the region was cleared) do not.
GuestChecks ==
    /\ "ia32e_guest" \in Control("entry")
    /\ {26624, 26626, 26628, 26656, 10240, 2050, 10246} \cup Evens(18452, 18466) \subseteq DOMAIN vmcs

\* EFER after a VM exit: the host's field, or what is left of the guest's where the exit does not load it.
EferAfterExit ==
    CASE "load_efer" \in Control("exit")                                    -> Field(11266, "0")
      [] "load_efer" \notin Control("exit") /\ "load_efer" \in Control("entry") -> Field(10246, "0")
      [] OTHER                                                             -> host.efer

\* A VM exit loads the host state from the VMCS.
VmExit(why) ==
    /\ reason' = why
    /\ host' = [cr0 |-> Field(27648, {}), cr3 |-> Field(27650, "0"), cr4 |-> Field(27652, {}),
                rsp |-> Field(27668, "0"), rip |-> Field(27670, "0"),
                selectors |-> [i \in 1 .. 7 |-> Field(3070 + 2 * i, "0")],
                gdtr |-> Field(27660, "0"), idtr |-> Field(27662, "0"), tr_base |-> Field(27658, "0"),
                fs_base |-> Field(27654, "0"), gs_base |-> Field(27656, "0"), efer |-> EferAfterExit]
    /\ Goto("vmexit")

vmlaunch ==
    /\ pc = "vmlaunch"
    /\ \/ /\ ~EntryChecks
          /\ ReadError("idle")
          /\ UNCHANGED <<host, launch, reason>>
       \/ /\ EntryChecks /\ ~GuestChecks
          /\ VmExit("invalid_guest_state")
          /\ UNCHANGED <<launch, back>>
       \/ /\ EntryChecks /\ GuestChecks
          /\ Goto("guest")
          /\ launch' = "launched"
          /\ UNCHANGED <<host, back, reason>>
    /\ UNCHANGED <<cpu, fc, host0, root, vmcs, current, wi, depth>>

\* vcpu_guest_hlt_loop: HLT exits when the control says so, and halts otherwise.
vcpu_guest_hlt_loop ==
    /\ pc = "guest"
    /\ IF "hlt" \in Control("proc") THEN VmExit("hlt") ELSE Goto("guest_halted") /\ UNCHANGED <<host, reason>>
    /\ UNCHANGED <<cpu, fc, host0, root, vmcs, current, launch, wi, back, depth>>

\* vmexit_bootstrap_handler, vmexit_c_handler: log the reason and stop.
vmexit_c_handler ==
    /\ pc = "vmexit"
    /\ Goto("exit_logged")
    /\ UNCHANGED <<cpu, fc, host, host0, root, vmcs, current, launch, wi, back, depth, reason>>

Next ==
    \/ check_cpuid \/ vmx_enable_feature_control_outside_smx \/ vmx_adjust_cr0_cr4
    \/ vmx_alloc_and_init_vmxon_region \/ asm_vmxon
    \/ vmcs_alloc \/ asm_vmclear \/ asm_vmptrld \/ vmcs_vmread_ok \/ vmcs_vmread_fails
    \/ vmcs_vmwrite \/ writes_done \/ vmlaunch
    \/ vcpu_guest_hlt_loop \/ vmexit_c_handler

\* The kernel and the guest run on until one of them halts.
Spec == Init /\ [][Next]_vars /\ WF_vars(Next)
-----------------------------------------------------------------------------
(* Types: vmcs_instruction_error returns to one of its callers and does not call
   itself once a VMCS is loaded, and the setup functions stay within their writes. *)
TypeOK ==
    /\ fc \in [lock : BOOLEAN, outside_smx : BOOLEAN]
    /\ root \in BOOLEAN /\ current \in BOOLEAN
    /\ launch \in {"none", "clear", "launched"}
    /\ pc \in {"cpuid", "feature_control", "adjust", "vmxon_region", "vmxon", "vmcs_region", "vmclear",
               "vmptrld", "instruction_error", "write", "vmlaunch", "guest", "guest_halted", "vmexit",
               "exit_logged", "idle", "panic", "stack_overflow"}
    /\ wi \in 1 .. Len(Writes) + 1
    /\ depth \in 0 .. StackFrames
    /\ current => depth = 0

(* VMXON is executed only where it cannot fault: the feature control MSR is
   locked with VMX allowed, CR0 and CR4 hold the bits VMX fixes, VMXE is set. *)
ReadyForVmxon ==
    pc = "vmxon" =>
        /\ fc.lock /\ fc.outside_smx
        /\ \A r \in {"cr0", "cr4"} : cpu.fixed0[r] \subseteq host[r] /\ host[r] \subseteq cpu.fixed1[r]
        /\ "vmxe" \in host.cr4

(* The kernel never writes the feature control MSR once it is locked, which
   would fault, and never enters VMX operation on a processor that forbids it. *)
LockRespected ==
    [][(fc.lock => fc' = fc) /\ (root' # root => fc.outside_smx)]_vars

(* The guest is launched only with controls the processor allows, whichever pair of
   capability MSRs describes it, and with every requested control it supports: HLT exiting, IA-32e mode
   of the guest, the 64-bit host and the loading of EFER on the way in and out. *)
ControlsAllowed ==
    pc \in {"vmlaunch", "guest", "vmexit"} =>
        \A k \in Controls : Allowed(k) /\ Requested[k] \cap cpu.may[CtlMsr][k] \subseteq Control(k)

(* Every way out of the guest lands in the handler, on its own stack, with
   the control registers, descriptor tables, selectors and EFER the host had
   when it launched; CR4 with VMXE included. *)
HostSurvivesExit ==
    reason # "none" =>
        /\ host.rip = "vmexit_bootstrap_handler" /\ host.rsp = "s_vmexit_tmp_stack"
        /\ \A r \in DOMAIN host \ {"rip", "rsp", "tr_base"} : host[r] = host0[r]

\* The parts of the inductive invariant: where the call of vmcs_instruction_error returns to,
CallsSound ==
    /\ pc = "instruction_error" => back \in {"panic", "idle", "write"}
    /\ pc \notin {"instruction_error", "stack_overflow"} => depth = 0
\* what the bring-up has established when it gets to VMXON,
BringUp ==
    /\ pc \in {"adjust", "vmxon_region", "vmxon"} => fc.lock /\ fc.outside_smx
    /\ pc \in {"vmxon_region", "vmxon"} =>
        /\ \A r \in {"cr0", "cr4"} : cpu.fixed0[r] \subseteq host[r] /\ host[r] \subseteq cpu.fixed1[r]
        /\ "vmxe" \in host.cr4
\* the registers that setup_host_state saves, which nothing but the bring-up and a VM exit changes,
HostKept ==
    /\ pc \notin {"vmexit", "exit_logged"} => reason = "none"
    /\ reason = "none" => host = [BootHost EXCEPT !.cr0 = host.cr0, !.cr4 = host.cr4]
    /\ pc \in {"vmlaunch", "guest"} => host0 = host
\* and what the VMCS holds: values of the writes so far, each of the checked ones among them.
Filling == pc \in {"write", "vmlaunch", "guest"} \/ (pc = "instruction_error" /\ back = "write")
Filled ==
    /\ pc \in {"cpuid", "feature_control", "adjust", "vmxon_region", "vmxon", "vmcs_region", "vmclear", "vmptrld"} =>
        wi = 1 /\ vmcs = <<>>
    /\ Filling =>
        /\ \A f \in DOMAIN vmcs : \E j \in DOMAIN Writes : Writes[j].field = f /\ Writes[j].value = vmcs[f]
        /\ \A j \in 1 .. wi - 1 : Writes[j].checked => Writes[j].field \in DOMAIN vmcs
    /\ pc \in {"vmlaunch", "guest"} => wi = Len(Writes) + 1

IInv ==
    /\ cpu \in Cpus
    /\ TypeOK /\ CallsSound /\ BringUp /\ HostKept /\ Filled
    /\ ControlsAllowed /\ HostSurvivesExit

\* A processor that has every field and the controls a 64-bit host and guest and HLT exiting need.
Capable ==
    /\ cpu.refuses = {}
    /\ LET may == cpu.may[CtlMsr] IN
        "hlt" \in may["proc"] /\ "ia32e_guest" \in may["entry"] /\ "host_addr_space" \in may["exit"]

(* Once the VMCS is loaded on a processor able to, it is filled, the guest is launched and its
   first HLT brings it back to the exit handler: no field is written under an encoding the
   processor does not have or uses for another field, no check of the entry fails, and the machine
   does not stop inside the guest. *)
GuestComesBack == (pc = "write" /\ Capable) ~> (pc = "exit_logged" /\ reason = "hlt")
=============================================================================
