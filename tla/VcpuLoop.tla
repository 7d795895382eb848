------------------------------ MODULE VcpuLoop ------------------------------
(***************************************************************************)
(* The vCPU loop: vcpu_loop, set_host_rsp_thunk and vcpu_setup_vmexit_rip  *)
(* of vmm/vcpu.c, and asm_vmentry and asm_vmexit of vmm/vmentry_exit.c,    *)
(* instruction by instruction, on the host stack.                          *)
(*                                                                         *)
(* The stack is addressed in words: word 0 holds the return address of the *)
(* call of asm_vmentry, the words above it are vcpu_loop's frame, the ones *)
(* below it asm_vmentry's.  A register or a word holds the name of the     *)
(* value in it.  The dispatch after an exit is left out: no behaviour      *)
(* reaches it (see ReturnsToLoop).                                         *)
(***************************************************************************)
EXTENDS Integers, Sequences

CONSTANTS
    ThunkRdi,   \* what the build's set_host_rsp_thunk leaves in RDI
    FrameWords  \* words of vcpu_loop's frame that are modelled

ASSUME VcpuAssumption ==
    ThunkRdi \subseteq {"VMCS_HOST_RSP", "rsp"} /\ ThunkRdi # {} /\ FrameWords \in Nat \ {0}

CalleeSaved == {"rbx", "rbp", "r12", "r13", "r14", "r15"}
Caller == [r \in CalleeSaved |-> r]       \* vcpu_loop's own values
Words == -7 .. FrameWords

VARIABLES
    pc,      \* <<routine, instruction>>, or <<place, 0>> outside the assembly
    regs, rsp, stack,
    rdi, zf, al,
    vmcs     \* [launched, host_rsp, host_rip]

vars == <<pc, regs, rsp, stack, rdi, zf, al, vmcs>>

\* vcpu_loop keeps vcpu, which is also &vcpu->guest_regs, in RBX over the call; word 1 is
\* padding it never wrote.
Init ==
    /\ pc = <<"setup", 0>>
    /\ regs = Caller /\ rsp = 1
    /\ stack = [w \in Words |-> IF w > 1 THEN "frame" ELSE "unwritten"]
    /\ rdi = "vcpu" /\ zf = FALSE /\ al = 0
    /\ vmcs \in [launched : BOOLEAN, host_rsp : {0}, host_rip : {"vmexit_bootstrap_handler"}]

-----------------------------------------------------------------------------
\* Mutant: the slot of &guest_regs is not dropped when the entry fails.
Mutant_vmentry_no_add ==
    << <<"push", "rbp">>, <<"push", "r15">>, <<"push", "r14">>, <<"push", "r13">>, <<"push", "r12">>,
       <<"push", "rbx">>, <<"guest_regs", "rbx">>, <<"push", "rbx">>, <<"set_host_rsp", "rdi">>,
       <<"testb", "rdi">>, <<"load", "rdi">>, <<"vmresume", "zf">>, <<"vmlaunch", "zf">>, <<"mov", "al">>,
       <<"pop", "rbx">>, <<"pop", "r12">>, <<"pop", "r13">>, <<"pop", "r14">>,
       <<"pop", "r15">>, <<"pop", "rbp">>, <<"ret", "rsp">> >>

\* Mutant: the saved registers are popped in the order they were pushed.
Mutant_vmentry_pop_order ==
    << <<"push", "rbp">>, <<"push", "r15">>, <<"push", "r14">>, <<"push", "r13">>, <<"push", "r12">>,
       <<"push", "rbx">>, <<"guest_regs", "rbx">>, <<"push", "rbx">>, <<"set_host_rsp", "rdi">>,
       <<"testb", "rdi">>, <<"load", "rdi">>, <<"vmresume", "zf">>, <<"vmlaunch", "zf">>, <<"mov", "al">>,
       <<"add", "rsp">>, <<"pop", "rbp">>, <<"pop", "r15">>, <<"pop", "r14">>, <<"pop", "r13">>,
       <<"pop", "r12">>, <<"pop", "rbx">>, <<"ret", "rsp">> >>

asm_vmentry ==
    << <<"push", "rbp">>, <<"push", "r15">>, <<"push", "r14">>, <<"push", "r13">>, <<"push", "r12">>,
       <<"push", "rbx">>, <<"guest_regs", "rbx">>, <<"push", "rbx">>, <<"set_host_rsp", "rdi">>,
       <<"testb", "rdi">>, <<"load", "rdi">>, <<"vmresume", "zf">>, <<"vmlaunch", "zf">>, <<"mov", "al">>,
       <<"add", "rsp">>, <<"pop", "rbx">>, <<"pop", "r12">>, <<"pop", "r13">>, <<"pop", "r14">>,
       <<"pop", "r15">>, <<"pop", "rbp">>, <<"ret", "rsp">> >>

asm_vmexit ==
    << <<"save", "rax">>, <<"pop", "rbx">>, <<"pop", "r12">>, <<"pop", "r13">>, <<"pop", "r14">>,
       <<"pop", "r15">>, <<"pop", "rbp">>, <<"xor", "al">>, <<"ret", "rsp">> >>

Code == [asm_vmentry |-> asm_vmentry, asm_vmexit |-> asm_vmexit]
At(op) == pc[1] \in DOMAIN Code /\ Code[pc[1]][pc[2]][1] = op
Operand == Code[pc[1]][pc[2]][2]
next_instruction == pc' = <<pc[1], pc[2] + 1>>

(* ---- C: vcpu.c ---- *)

vcpu_setup_vmexit_rip ==
    /\ pc[1] = "setup"
    /\ vmcs' = [vmcs EXCEPT !.host_rip = "asm_vmexit"]
    /\ pc' = <<"vcpu_loop", 0>>
    /\ UNCHANGED <<regs, rsp, stack, rdi, zf, al>>

\* The call pushes the address to return to.
vcpu_loop ==
    /\ pc[1] = "vcpu_loop"
    /\ rsp' = rsp - 1 /\ stack' = [stack EXCEPT ![rsp - 1] = "vcpu_loop"]
    /\ pc' = <<"asm_vmentry", 1>>
    /\ UNCHANGED <<regs, rdi, zf, al, vmcs>>

\* al = 1: the instruction error is read and logged, and vcpu_loop returns -1.
vcpu_loop_fails ==
    /\ pc[1] = "returned" /\ al = 1
    /\ pc' = <<"loop_returns_minus_1", 0>>
    /\ UNCHANGED <<regs, rsp, stack, rdi, zf, al, vmcs>>

(* ---- the instructions ---- *)

push ==
    /\ At("push")
    /\ rsp' = rsp - 1 /\ stack' = [stack EXCEPT ![rsp - 1] = regs[Operand]]
    /\ next_instruction
    /\ UNCHANGED <<regs, rdi, zf, al, vmcs>>

pop ==
    /\ At("pop")
    /\ rsp' = rsp + 1 /\ regs' = [regs EXCEPT ![Operand] = stack[rsp]]
    /\ next_instruction
    /\ UNCHANGED <<stack, rdi, zf, al, vmcs>>

\* mov %rdi,%rbx; add $off_guest,%rbx
guest_regs ==
    /\ At("guest_regs")
    /\ regs' = [regs EXCEPT !.rbx = "&guest_regs"]
    /\ next_instruction
    /\ UNCHANGED <<rsp, stack, rdi, zf, al, vmcs>>

\* lea 8(%rsp),%rdi and the call: the word above the top goes into HOST_RSP.  RDI is not
\* restored: it is the argument, or the encoding the compiler put there for vmcs_vmwrite.
set_host_rsp_thunk ==
    /\ At("set_host_rsp")
    /\ vmcs' = [vmcs EXCEPT !.host_rsp = rsp + 1]
    /\ rdi' \in ThunkRdi
    /\ next_instruction
    /\ UNCHANGED <<regs, rsp, stack, zf, al>>

\* testb $1,launch_done(%rdi): a low address is not mapped; on the stack the byte is
\* whatever the frames above hold.
test_launch_done ==
    /\ At("testb")
    /\ \/ rdi = "VMCS_HOST_RSP" /\ pc' = <<"page_fault", 0>> /\ UNCHANGED zf
       \/ rdi = "rsp" /\ next_instruction /\ zf' \in BOOLEAN
    /\ UNCHANGED <<regs, rsp, stack, rdi, al, vmcs>>

\* The guest's registers, read from where RDI points.
load_guest ==
    /\ At("load")
    /\ regs' = [r \in CalleeSaved |-> "guest"]
    /\ next_instruction
    /\ UNCHANGED <<rsp, stack, rdi, zf, al, vmcs>>

enter_guest == pc' = <<"guest", 0>> /\ vmcs' = [vmcs EXCEPT !.launched = TRUE]

\* jz skips VMRESUME; a VMRESUME that fails goes on to VMLAUNCH.
vmresume ==
    /\ At("vmresume")
    /\ \/ ~zf /\ vmcs.launched /\ enter_guest
       \/ next_instruction /\ UNCHANGED vmcs
    /\ UNCHANGED <<regs, rsp, stack, rdi, zf, al>>

vmlaunch ==
    /\ At("vmlaunch")
    /\ \/ ~vmcs.launched /\ enter_guest
       \/ next_instruction /\ UNCHANGED vmcs
    /\ UNCHANGED <<regs, rsp, stack, rdi, zf, al>>

\* mov $1,%al; xor %eax,%eax
set_al ==
    /\ At("mov") \/ At("xor")
    /\ al' = IF At("mov") THEN 1 ELSE 0
    /\ next_instruction
    /\ UNCHANGED <<regs, rsp, stack, rdi, zf, vmcs>>

add_rsp ==
    /\ At("add")
    /\ rsp' = rsp + 1
    /\ next_instruction
    /\ UNCHANGED <<regs, stack, rdi, zf, al, vmcs>>

ret ==
    /\ At("ret")
    /\ pc' = <<IF stack[rsp] = "vcpu_loop" THEN "returned" ELSE "lost", 0>>
    /\ rsp' = rsp + 1
    /\ UNCHANGED <<regs, stack, rdi, zf, al, vmcs>>

(* ---- the processor: a VM exit ---- *)

vm_exit ==
    /\ pc[1] = "guest"
    /\ pc' = <<vmcs.host_rip, 1>> /\ rsp' = vmcs.host_rsp
    /\ regs' = [r \in CalleeSaved |-> "guest"]
    /\ UNCHANGED <<stack, rdi, zf, al, vmcs>>

\* push %rax; mov 8(%rsp),%rax; pop 0(%rax); add $8,%rsp, and the stores through RAX: the
\* word on top is taken for &guest_regs and dropped, the one below it is overwritten.
save_guest ==
    /\ At("save")
    /\ stack' = [stack EXCEPT ![rsp - 1] = "guest"]
    /\ rsp' = rsp + 1
    /\ next_instruction
    /\ UNCHANGED <<regs, rdi, zf, al, vmcs>>

Cpu ==
    \/ push \/ pop \/ guest_regs \/ set_host_rsp_thunk \/ test_launch_done \/ load_guest \/ vmresume
    \/ vmlaunch \/ set_al \/ add_rsp \/ ret \/ save_guest \/ vm_exit
Next == vcpu_setup_vmexit_rip \/ vcpu_loop \/ vcpu_loop_fails \/ Cpu

Spec == Init /\ [][Next]_vars /\ WF_vars(Next)
-----------------------------------------------------------------------------
(* Whatever the VMCS' state, the launch flag read and the two entry instructions' outcome, a
   failed entry comes back to vcpu_loop as a call should: its registers and its stack pointer are
   its own and its frame is untouched. *)
EntryFailureIsClean ==
    /\ pc[1] \in {"asm_vmentry", "returned", "lost"} /\ al = 1 =>
            /\ stack[0] = "vcpu_loop" /\ \A w \in 2 .. FrameWords : stack[w] = "frame"
            /\ pc[1] # "lost"
    /\ pc[1] = "returned" => regs = Caller /\ rsp = 1

\* The inductive invariant: at every instruction of asm_vmentry, where the stack pointer is, which
\* registers are on the stack and which are the caller's again,
Pushes == <<"rbp", "r15", "r14", "r13", "r12", "rbx">>
EntryRsp(i) == IF i <= 7 THEN 1 - i ELSE IF i = 8 THEN -6 ELSE IF i <= 15 THEN -7 ELSE i - 22
InEntry ==
    pc[1] = "asm_vmentry" =>
        /\ pc[2] \in 1 .. 22 /\ rsp = EntryRsp(pc[2])
        /\ stack[0] = "vcpu_loop"
        /\ \A k \in 1 .. 6 : /\ pc[2] > k => stack[-k] = Pushes[k]
                             /\ (pc[2] <= 7 \/ pc[2] >= 23 - k) => regs[Pushes[k]] = Pushes[k]
        /\ al = IF pc[2] >= 15 THEN 1 ELSE 0
        /\ pc[2] >= 10 => vmcs.host_rsp = -6
\* and on the way from the guest through asm_vmexit, that it ends at the padding word.
InExit ==
    /\ pc[1] \in {"guest", "asm_vmexit"} => al = 0 /\ vmcs.host_rsp = -6
    /\ pc[1] = "asm_vmexit" => pc[2] \in 1 .. 9 /\ rsp = IF pc[2] = 9 THEN 1 ELSE pc[2] - 7
Elsewhere ==
    /\ pc[1] \in {"setup", "vcpu_loop"} => regs = Caller /\ rsp = 1 /\ al = 0
    /\ pc[1] = "returned" => stack[0] = "vcpu_loop" /\ regs = Caller /\ rsp = 1 /\ al = 1
    /\ pc[1] = "lost" => al = 0
    /\ pc[1] # "setup" => vmcs.host_rip = "asm_vmexit"

Values == CalleeSaved \cup {"frame", "unwritten", "vcpu_loop", "guest", "&guest_regs"}
TypeOK ==
    /\ pc[1] \in {"setup", "vcpu_loop", "asm_vmentry", "guest", "asm_vmexit", "returned", "lost", "page_fault",
                  "loop_returns_minus_1"}
    /\ regs \in [CalleeSaved -> Values]
    /\ stack \in [Words -> Values]
    /\ vmcs \in [launched : BOOLEAN, host_rsp : Int, host_rip : {"vmexit_bootstrap_handler", "asm_vmexit"}]

IInv ==
    /\ TypeOK
    /\ InEntry /\ InExit /\ Elsewhere
    /\ stack[1] = "unwritten" /\ \A w \in 2 .. FrameWords : stack[w] = "frame"

(* vmentry_exit.c: asm_vmentry returns 0 after a VM exit and 1 after a failure.  The code's does
   not: RDI is clobbered before launch_done is read, and HOST_RSP is one word too high, so
   that asm_vmexit takes the word above the return address for it. *)
ReturnsToLoop == pc[1] \notin {"page_fault", "lost"}
=============================================================================
