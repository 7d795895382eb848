--------------------------- MODULE VcpuLoopProofs ---------------------------
(***************************************************************************)
(* Proofs about VcpuLoop, for a frame of vcpu_loop of any size and either  *)
(* value a build leaves in RDI: what is on the host stack, and where the   *)
(* stack pointer is, at each instruction of asm_vmentry and asm_vmexit.    *)
(***************************************************************************)
EXTENDS VcpuLoop, TLAPS

\* The instructions of asm_vmentry and asm_vmexit that move the stack pointer, and their places.
LEMMA EntryCode ==
    ASSUME NEW i \in 1 .. 22
    PROVE  /\ asm_vmentry[i][1] = "push" <=> i \in 1 .. 6 \cup {8}
           /\ i <= 6 => asm_vmentry[i][2] = Pushes[i]
           /\ i = 8 => asm_vmentry[i][2] = "rbx"
           /\ asm_vmentry[i][1] = "guest_regs" <=> i = 7
           /\ asm_vmentry[i][1] = "set_host_rsp" <=> i = 9
           /\ asm_vmentry[i][1] = "testb" <=> i = 10
           /\ asm_vmentry[i][1] = "load" <=> i = 11
           /\ asm_vmentry[i][1] = "vmresume" <=> i = 12
           /\ asm_vmentry[i][1] = "vmlaunch" <=> i = 13
           /\ asm_vmentry[i][1] = "mov" <=> i = 14
           /\ asm_vmentry[i][1] = "add" <=> i = 15
           /\ asm_vmentry[i][1] = "pop" <=> i \in 16 .. 21
           /\ i \in 16 .. 21 => asm_vmentry[i][2] = Pushes[22 - i]
           /\ asm_vmentry[i][1] = "ret" <=> i = 22
           /\ asm_vmentry[i][1] \notin {"xor", "save"}
PROOF
  BY DEF asm_vmentry, Pushes

LEMMA ExitCode ==
    ASSUME NEW i \in 1 .. 9
    PROVE  /\ asm_vmexit[i][1] = "save" <=> i = 1
           /\ asm_vmexit[i][1] = "pop" <=> i \in 2 .. 7
           /\ i \in 2 .. 7 => asm_vmexit[i][2] \in CalleeSaved
           /\ asm_vmexit[i][1] = "xor" <=> i = 8
           /\ asm_vmexit[i][1] = "ret" <=> i = 9
           /\ asm_vmexit[i][1] \notin {"push", "guest_regs", "set_host_rsp", "testb", "load", "vmresume", "vmlaunch", "mov", "add"}
PROOF
  BY DEF asm_vmexit, CalleeSaved

LEMMA CodeDomain ==
    DOMAIN Code = {"asm_vmentry", "asm_vmexit"} /\ Code["asm_vmentry"] = asm_vmentry /\ Code["asm_vmexit"] = asm_vmexit
PROOF
  BY DEF Code

\* What InEntry says of the registers, on the stack and back in place.
LEMMA SavedRegisters ==
    ASSUME IInv, pc[1] = "asm_vmentry", NEW k \in 1 .. 6
    PROVE  /\ pc[2] > k => stack[-k] = Pushes[k]
           /\ (pc[2] <= 7 \/ pc[2] >= 23 - k) => regs[Pushes[k]] = Pushes[k]
PROOF
  BY DEF IInv, InEntry

\* An instruction of the assembly is executed in one of the two routines, within it.
LEMMA InRoutine ==
    ASSUME IInv, NEW op, At(op)
    PROVE  \/ pc[1] = "asm_vmentry" /\ pc[2] \in 1 .. 22 /\ asm_vmentry[pc[2]][1] = op /\ Operand = asm_vmentry[pc[2]][2]
           \/ pc[1] = "asm_vmexit" /\ pc[2] \in 1 .. 9 /\ asm_vmexit[pc[2]][1] = op /\ Operand = asm_vmexit[pc[2]][2]
PROOF
  BY CodeDomain DEF IInv, InEntry, InExit, At, Operand

LEMMA PushesAre ==
    /\ \A k \in 1 .. 6 : Pushes[k] \in CalleeSaved /\ Caller[Pushes[k]] = Pushes[k]
    /\ \A r \in CalleeSaved : \E k \in 1 .. 6 : r = Pushes[k]
    /\ \A k, l \in 1 .. 6 : Pushes[k] = Pushes[l] => k = l
PROOF
  BY DEF Pushes, CalleeSaved, Caller

\* The word -7 .. FrameWords are there to be read and written.
LEMMA StackWords == -7 .. 1 \subseteq Words /\ FrameWords \in Nat
PROOF
  BY VcpuAssumption DEF Words

LEMMA InvInit == Init => IInv
PROOF
  <1> SUFFICES ASSUME Init PROVE IInv
    OBVIOUS
  <1>1. pc[1] = "setup"
    BY DEF Init
  <1>2. TypeOK
    <2>1. regs \in [CalleeSaved -> Values]
      BY DEF Init, Caller, CalleeSaved, Values
    <2>2. stack \in [Words -> Values]
      BY DEF Init, Values
    <2>3. vmcs \in [launched : BOOLEAN, host_rsp : Int, host_rip : {"vmexit_bootstrap_handler", "asm_vmexit"}]
      BY DEF Init
    <2> QED BY <1>1, <2>1, <2>2, <2>3 DEF TypeOK
  <1>3. stack[1] = "unwritten" /\ \A w \in 2 .. FrameWords : stack[w] = "frame"
    BY StackWords DEF Init, Words
  <1> QED BY <1>1, <1>2, <1>3 DEF Init, IInv, InEntry, InExit, Elsewhere

LEMMA LoopStep ==
    ASSUME IInv, vcpu_setup_vmexit_rip \/ vcpu_loop \/ vcpu_loop_fails
    PROVE  IInv'
PROOF
  <1>1. CASE vcpu_setup_vmexit_rip
    <2>1. pc[1] = "setup" /\ pc'[1] = "vcpu_loop" /\ UNCHANGED <<regs, rsp, stack, al>>
      BY <1>1 DEF vcpu_setup_vmexit_rip
    <2>2. vmcs' \in [launched : BOOLEAN, host_rsp : Int, host_rip : {"vmexit_bootstrap_handler", "asm_vmexit"}] /\ vmcs'.host_rip = "asm_vmexit"
      BY <1>1 DEF vcpu_setup_vmexit_rip, IInv, TypeOK
    <2> QED BY <2>1, <2>2 DEF IInv, TypeOK, InEntry, InExit, Elsewhere
  <1>2. CASE vcpu_loop
    <2>1. /\ pc[1] = "vcpu_loop" /\ pc'[1] = "asm_vmentry" /\ pc'[2] = 1 /\ rsp = 1 /\ rsp' = 0
          /\ regs = Caller /\ al = 0 /\ vmcs.host_rip = "asm_vmexit"
          /\ UNCHANGED <<regs, al, vmcs>>
      BY <1>2 DEF vcpu_loop, IInv, Elsewhere
    <2>2. stack' = [stack EXCEPT ![0] = "vcpu_loop"]
      BY <1>2, <2>1 DEF vcpu_loop
    <2>3. stack' \in [Words -> Values] /\ stack'[0] = "vcpu_loop" /\ \A w \in 1 .. FrameWords : stack'[w] = stack[w]
      BY <2>2, StackWords DEF IInv, TypeOK, Words, Values
    <2>4. InEntry'
      BY <2>1, <2>3, PushesAre DEF InEntry, EntryRsp
    <2>5. stack'[1] = "unwritten" /\ \A w \in 2 .. FrameWords : stack'[w] = "frame"
      BY <2>3, VcpuAssumption DEF IInv
    <2>6. TypeOK'
      BY <2>1, <2>3 DEF IInv, TypeOK
    <2> QED BY <2>1, <2>4, <2>5, <2>6 DEF IInv, InExit, Elsewhere
  <1>3. CASE vcpu_loop_fails
    <2>1. pc[1] = "returned" /\ pc'[1] = "loop_returns_minus_1" /\ UNCHANGED <<regs, rsp, stack, al, vmcs>>
      BY <1>3 DEF vcpu_loop_fails
    <2> QED BY <2>1 DEF IInv, TypeOK, InEntry, InExit, Elsewhere
  <1> QED BY <1>1, <1>2, <1>3

\* Saving and restoring the caller's registers.
LEMMA StackStep ==
    ASSUME IInv, push \/ pop \/ add_rsp
    PROVE  IInv'
PROOF
  <1>1. CASE push
    <2> DEFINE i == pc[2]
    <2>1. pc[1] = "asm_vmentry" /\ i \in 1 .. 6 \cup {8} /\ Operand = (IF i = 8 THEN "rbx" ELSE Pushes[i])
      BY <1>1, InRoutine, EntryCode, ExitCode DEF push
    <2>2. pc'[1] = "asm_vmentry" /\ pc'[2] = i + 1 /\ UNCHANGED <<regs, al, vmcs>>
      BY <1>1, <2>1 DEF push, next_instruction
    <2>3. rsp = EntryRsp(i) /\ rsp - 1 \in -7 .. -1 /\ rsp' = rsp - 1 /\ (i <= 6 => rsp - 1 = -i)
      BY <1>1, <2>1 DEF push, IInv, InEntry, EntryRsp
    <2>4. Operand \in CalleeSaved /\ regs[Operand] \in Values
      BY <2>1, PushesAre DEF IInv, TypeOK, CalleeSaved
    <2>5. /\ stack' \in [Words -> Values] /\ stack'[rsp - 1] = regs[Operand]
          /\ \A w \in Words : w # rsp - 1 => stack'[w] = stack[w]
      BY <1>1, <2>3, <2>4, StackWords DEF push, IInv, TypeOK
    <2>6. \A w \in 0 .. FrameWords : stack'[w] = stack[w]
      BY <2>3, <2>5, StackWords DEF Words
    <2>7. i <= 6 => regs[Operand] = Pushes[i]
      BY <2>1 DEF IInv, InEntry
    <2>8. ASSUME NEW k \in 1 .. 6, pc'[2] > k
          PROVE  stack'[-k] = Pushes[k]
      <3>1. CASE k = i
        BY <2>3, <2>5, <2>7, <3>1
      <3>2. CASE k # i
        <4>1. i > k /\ -k # rsp - 1 /\ -k \in Words
          BY <2>1, <2>2, <2>3, <2>8, <3>2, StackWords DEF EntryRsp
        <4> QED BY <2>1, <2>5, <4>1, SavedRegisters
      <3> QED BY <3>1, <3>2
    <2>9. rsp' = EntryRsp(i + 1)
      BY <2>1, <2>3 DEF EntryRsp
    <2>10. ASSUME NEW k \in 1 .. 6, pc'[2] <= 7 \/ pc'[2] >= 23 - k
           PROVE  regs[Pushes[k]] = Pushes[k]
      BY <2>1, <2>2, <2>10, SavedRegisters
    <2>11. InEntry'
      BY <2>1, <2>2, <2>6, <2>8, <2>9, <2>10, StackWords DEF IInv, InEntry
    <2>12. TypeOK'
      BY <2>2, <2>5 DEF IInv, TypeOK
    <2>13. stack'[1] = "unwritten" /\ \A w \in 2 .. FrameWords : stack'[w] = "frame"
      BY <2>6, VcpuAssumption DEF IInv
    <2> QED BY <2>1, <2>2, <2>11, <2>12, <2>13 DEF IInv, InExit, Elsewhere
  <1>2. CASE pop /\ pc[1] = "asm_vmentry"
    <2> DEFINE i == pc[2]
    <2>1. i \in 16 .. 21 /\ Operand = Pushes[22 - i]
      BY <1>2, InRoutine, EntryCode DEF pop
    <2>2. pc'[1] = "asm_vmentry" /\ pc'[2] = i + 1 /\ UNCHANGED <<stack, al, vmcs>>
      BY <1>2, <2>1 DEF pop, next_instruction
    <2>3. rsp = i - 22 /\ rsp' = rsp + 1 /\ rsp' = EntryRsp(i + 1)
      BY <1>2, <2>1 DEF pop, IInv, InEntry, EntryRsp
    <2>4. 22 - i \in 1 .. 6 /\ stack[rsp] = Pushes[22 - i]
      <3>1. 22 - i \in 1 .. 6 /\ -(22 - i) = rsp /\ i > 22 - i
        BY <2>1, <2>3
      <3> QED BY <1>2, <3>1, SavedRegisters
    <2>5. regs' = [regs EXCEPT ![Pushes[22 - i]] = Pushes[22 - i]]
      BY <1>2, <2>1, <2>4 DEF pop
    <2>6. regs' \in [CalleeSaved -> Values]
      BY <2>4, <2>5, PushesAre DEF IInv, TypeOK, Values
    <2>7. ASSUME NEW k \in 1 .. 6, pc'[2] <= 7 \/ pc'[2] >= 23 - k
          PROVE  regs'[Pushes[k]] = Pushes[k]
      <3>1. CASE k = 22 - i
        BY <2>4, <2>5, <3>1, PushesAre DEF IInv, TypeOK
      <3>2. CASE k # 22 - i
        <4>1. i >= 23 - k
          BY <2>1, <2>2, <2>7, <3>2
        <4>2. regs[Pushes[k]] = Pushes[k]
          BY <1>2, <4>1, SavedRegisters
        <4>3. Pushes[k] # Pushes[22 - i] /\ Pushes[k] \in CalleeSaved
          BY <2>4, <3>2, PushesAre
        <4> QED BY <2>5, <4>2, <4>3 DEF IInv, TypeOK
      <3> QED BY <3>1, <3>2
    <2>8. InEntry'
      BY <1>2, <2>1, <2>2, <2>3, <2>7 DEF IInv, InEntry
    <2>9. TypeOK'
      BY <2>2, <2>6 DEF IInv, TypeOK
    <2> QED BY <1>2, <2>2, <2>8, <2>9 DEF IInv, InExit, Elsewhere
  <1>3. CASE pop /\ pc[1] = "asm_vmexit"
    <2> DEFINE i == pc[2]
    <2>1. i \in 2 .. 7 /\ Operand \in CalleeSaved /\ rsp = i - 7
      BY <1>3, InRoutine, ExitCode DEF pop, IInv, InExit
    <2>2. pc'[1] = "asm_vmexit" /\ pc'[2] = i + 1 /\ rsp' = rsp + 1 /\ UNCHANGED <<stack, al, vmcs>>
      BY <1>3, <2>1 DEF pop, next_instruction
    <2>3. stack[rsp] \in Values
      BY <2>1, StackWords DEF IInv, TypeOK
    <2>4. regs' \in [CalleeSaved -> Values]
      BY <1>3, <2>1, <2>3 DEF pop, IInv, TypeOK
    <2>5. TypeOK'
      BY <2>2, <2>4 DEF IInv, TypeOK
    <2>6. InExit'
      BY <1>3, <2>1, <2>2 DEF IInv, InExit
    <2> QED BY <1>3, <2>2, <2>5, <2>6 DEF IInv, InEntry, Elsewhere
  <1>4. CASE add_rsp
    <2>1. pc[1] = "asm_vmentry" /\ pc[2] = 15
      BY <1>4, InRoutine, EntryCode, ExitCode DEF add_rsp
    <2>2. pc'[1] = "asm_vmentry" /\ pc'[2] = 16 /\ rsp' = rsp + 1 /\ UNCHANGED <<regs, stack, al, vmcs>>
      BY <1>4, <2>1 DEF add_rsp, next_instruction
    <2>3. InEntry'
      BY <2>1, <2>2 DEF IInv, InEntry, EntryRsp
    <2> QED BY <2>1, <2>2, <2>3 DEF IInv, TypeOK, InExit, Elsewhere
  <1>5. ASSUME pop
        PROVE  pc[1] \in {"asm_vmentry", "asm_vmexit"}
    BY <1>5, InRoutine DEF pop
  <1> QED BY <1>1, <1>2, <1>3, <1>4, <1>5

\* The instructions between saving the registers and entering the guest, and the failure of the entry.
LEMMA EnterStep ==
    ASSUME IInv, guest_regs \/ set_host_rsp_thunk \/ test_launch_done \/ load_guest \/ vmresume \/ vmlaunch
    PROVE  IInv'
PROOF
  <1>1. /\ pc[1] = "asm_vmentry" /\ pc[2] \in {7, 9, 10, 11, 12, 13}
        /\ guest_regs => pc[2] = 7
        /\ set_host_rsp_thunk => pc[2] = 9
        /\ test_launch_done => pc[2] = 10
        /\ load_guest => pc[2] = 11
        /\ vmresume => pc[2] = 12
        /\ vmlaunch => pc[2] = 13
    BY InRoutine, EntryCode, ExitCode DEF guest_regs, set_host_rsp_thunk, test_launch_done, load_guest, vmresume, vmlaunch
  <1>2. UNCHANGED <<rsp, stack, al>>
    BY DEF guest_regs, set_host_rsp_thunk, test_launch_done, load_guest, vmresume, vmlaunch
  <1>3. regs' \in [CalleeSaved -> Values]
    BY DEF guest_regs, set_host_rsp_thunk, test_launch_done, load_guest, vmresume, vmlaunch, IInv, TypeOK, Values
  <1>4. /\ vmcs' \in [launched : BOOLEAN, host_rsp : Int, host_rip : {"vmexit_bootstrap_handler", "asm_vmexit"}]
        /\ vmcs'.host_rip = vmcs.host_rip
        /\ pc[2] >= 9 => vmcs'.host_rsp = -6
    <2>1. CASE set_host_rsp_thunk
      <3>1. rsp = -7
        BY <1>1, <2>1 DEF IInv, InEntry, EntryRsp
      <3> QED BY <2>1, <3>1 DEF set_host_rsp_thunk, IInv, TypeOK
    <2>2. CASE guest_regs \/ test_launch_done \/ load_guest
      BY <1>1, <2>2 DEF guest_regs, test_launch_done, load_guest, IInv, TypeOK, InEntry
    <2>3. CASE vmresume \/ vmlaunch
      <3>1. UNCHANGED vmcs \/ vmcs' = [vmcs EXCEPT !.launched = TRUE]
        BY <2>3 DEF vmresume, vmlaunch, enter_guest
      <3>2. pc[2] >= 10
        BY <1>1, <2>3
      <3> QED BY <1>1, <3>1, <3>2 DEF IInv, TypeOK, InEntry
    <2> QED BY <2>1, <2>2, <2>3
  <1>5. \/ pc'[1] = "asm_vmentry" /\ pc'[2] = pc[2] + 1
        \/ pc'[1] = "page_fault"
        \/ pc'[1] = "guest" /\ pc[2] >= 9
    BY <1>1 DEF guest_regs, set_host_rsp_thunk, test_launch_done, load_guest, vmresume, vmlaunch, next_instruction, enter_guest
  <1>6. al = 0 /\ stack[0] = "vcpu_loop" /\ rsp = EntryRsp(pc[2]) /\ EntryRsp(pc[2]) = EntryRsp(pc[2] + 1)
    BY <1>1 DEF IInv, InEntry, EntryRsp
  <1>7. ASSUME pc'[1] = "asm_vmentry"
        PROVE  InEntry'
    <2>1. pc'[2] = pc[2] + 1
      BY <1>5, <1>7
    <2>2. \A k \in 1 .. 6 : pc'[2] > k => stack'[-k] = Pushes[k]
      BY <1>1, <1>2, <2>1, SavedRegisters
    <2>3. \A k \in 1 .. 6 : ~(pc'[2] <= 7 \/ pc'[2] >= 23 - k)
      BY <1>1, <2>1
    <2> QED BY <1>1, <1>2, <1>4, <1>6, <2>1, <2>2, <2>3 DEF InEntry
  <1>8. TypeOK'
    BY <1>2, <1>3, <1>4, <1>5 DEF IInv, TypeOK
  <1>9. InExit' /\ Elsewhere'
    BY <1>1, <1>2, <1>4, <1>5, <1>6 DEF IInv, InExit, Elsewhere
  <1>10. InEntry'
    BY <1>7 DEF InEntry
  <1> QED BY <1>2, <1>8, <1>9, <1>10 DEF IInv

\* asm_vmentry returns to its caller with its registers; asm_vmexit, from the padding word, does not.
LEMMA ReturnStep ==
    ASSUME IInv, set_al \/ ret \/ vm_exit \/ save_guest
    PROVE  IInv'
PROOF
  <1>1. CASE set_al /\ pc[1] = "asm_vmentry"
    <2>1. pc[2] = 14 /\ At("mov")
      BY <1>1, InRoutine, EntryCode DEF set_al
    <2>2. pc'[1] = "asm_vmentry" /\ pc'[2] = 15 /\ al' = 1 /\ UNCHANGED <<regs, rsp, stack, vmcs>>
      BY <1>1, <2>1 DEF set_al, next_instruction
    <2>3. InEntry'
      <3>1. \A k \in 1 .. 6 : stack'[-k] = Pushes[k]
        BY <1>1, <2>1, <2>2, SavedRegisters
      <3> QED BY <1>1, <2>1, <2>2, <3>1 DEF IInv, InEntry, EntryRsp
    <2> QED BY <1>1, <2>2, <2>3 DEF IInv, TypeOK, InExit, Elsewhere
  <1>2. CASE set_al /\ pc[1] = "asm_vmexit"
    <2>1. pc[2] = 8 /\ ~At("mov")
      BY <1>2, InRoutine, ExitCode DEF set_al
    <2>2. pc'[1] = "asm_vmexit" /\ pc'[2] = 9 /\ al' = 0 /\ UNCHANGED <<regs, rsp, stack, vmcs>>
      BY <1>2, <2>1 DEF set_al, next_instruction
    <2>3. InExit'
      BY <1>2, <2>1, <2>2 DEF IInv, InExit
    <2> QED BY <1>2, <2>2, <2>3 DEF IInv, TypeOK, InEntry, Elsewhere
  <1>3. CASE ret /\ pc[1] = "asm_vmentry"
    <2>1. pc[2] = 22
      BY <1>3, InRoutine, EntryCode DEF ret
    <2>2. rsp = 0 /\ al = 1 /\ stack[0] = "vcpu_loop"
      BY <1>3, <2>1 DEF IInv, InEntry, EntryRsp
    <2>3. regs = Caller
      <3>1. \A k \in 1 .. 6 : regs[Pushes[k]] = Pushes[k]
        BY <1>3, <2>1, SavedRegisters
      <3>2. \A r \in CalleeSaved : regs[r] = r
        BY <3>1, PushesAre
      <3>3. regs = [r \in CalleeSaved |-> regs[r]]
        BY DEF IInv, TypeOK
      <3> QED BY <3>2, <3>3 DEF Caller
    <2>4. pc'[1] = "returned" /\ rsp' = 1 /\ UNCHANGED <<regs, stack, al, vmcs>>
      BY <1>3, <2>2 DEF ret
    <2> QED BY <1>3, <2>2, <2>3, <2>4 DEF IInv, TypeOK, InEntry, InExit, Elsewhere
  <1>4. CASE ret /\ pc[1] = "asm_vmexit"
    <2>1. pc[2] = 9
      BY <1>4, InRoutine, ExitCode DEF ret
    <2>2. rsp = 1 /\ stack[1] = "unwritten" /\ al = 0
      BY <1>4, <2>1 DEF IInv, InExit
    <2>3. pc'[1] = "lost" /\ UNCHANGED <<regs, stack, al, vmcs>>
      BY <1>4, <2>2 DEF ret
    <2> QED BY <1>4, <2>2, <2>3 DEF IInv, TypeOK, InEntry, InExit, Elsewhere
  <1>5. CASE vm_exit
    <2>1. /\ pc[1] = "guest" /\ pc'[1] = "asm_vmexit" /\ pc'[2] = 1 /\ rsp' = -6
          /\ UNCHANGED <<stack, al, vmcs>>
      BY <1>5 DEF vm_exit, IInv, InExit, Elsewhere
    <2>2. regs' \in [CalleeSaved -> Values]
      BY <1>5 DEF vm_exit, Values
    <2>3. InExit'
      BY <2>1 DEF IInv, InExit
    <2> QED BY <2>1, <2>2, <2>3 DEF IInv, TypeOK, InEntry, Elsewhere
  <1>6. CASE save_guest
    <2>1. pc[1] = "asm_vmexit" /\ pc[2] = 1
      BY <1>6, InRoutine, EntryCode, ExitCode DEF save_guest
    <2>2. rsp = -6
      BY <2>1 DEF IInv, InExit
    <2>3. /\ pc'[1] = "asm_vmexit" /\ pc'[2] = 2 /\ rsp' = -5 /\ UNCHANGED <<regs, al, vmcs>>
          /\ stack' = [stack EXCEPT ![-7] = "guest"]
      BY <1>6, <2>1, <2>2 DEF save_guest, next_instruction
    <2>4. stack' \in [Words -> Values] /\ \A w \in 1 .. FrameWords : stack'[w] = stack[w]
      BY <2>3, StackWords DEF IInv, TypeOK, Words, Values
    <2>5. stack'[1] = "unwritten" /\ \A w \in 2 .. FrameWords : stack'[w] = "frame"
      BY <2>4, VcpuAssumption DEF IInv
    <2>6. InExit'
      BY <2>1, <2>3 DEF IInv, InExit
    <2> QED BY <2>1, <2>3, <2>4, <2>5, <2>6 DEF IInv, TypeOK, InEntry, Elsewhere
  <1>7. set_al \/ ret => pc[1] \in {"asm_vmentry", "asm_vmexit"}
    BY InRoutine DEF set_al, ret
  <1> QED BY <1>1, <1>2, <1>3, <1>4, <1>5, <1>6, <1>7

LEMMA InvStep == IInv /\ [Next]_vars => IInv'
PROOF
  <1> SUFFICES ASSUME IInv, [Next]_vars PROVE IInv'
    OBVIOUS
  <1>1. CASE Next
    BY <1>1, LoopStep, StackStep, EnterStep, ReturnStep DEF Next, Cpu
  <1>2. CASE UNCHANGED vars
    BY <1>2 DEF vars, IInv, TypeOK, InEntry, InExit, Elsewhere
  <1> QED BY <1>1, <1>2

LEMMA LoopInvariant == Spec => []IInv
PROOF
  BY InvInit, InvStep, PTL DEF Spec
-----------------------------------------------------------------------------
(* A failed VM entry is a call that returned: asm_vmentry leaves vcpu_loop its registers, its stack
   pointer and its frame, whatever the VMCS' state, the flag read and the entry instructions' outcome. *)
THEOREM FailedEntryIsClean == Spec => []EntryFailureIsClean
PROOF
  <1>1. IInv => EntryFailureIsClean
    BY DEF IInv, InEntry, InExit, Elsewhere, EntryFailureIsClean
  <1> QED BY <1>1, LoopInvariant, PTL

(* asm_vmentry never returns 0: no VM exit gets back to vcpu_loop, in any build.  HOST_RSP is one
   word too high for asm_vmexit, whose return takes the padding word above the return address. *)
THEOREM ExitNeverReturns == Spec => [](pc[1] = "returned" => al = 1)
PROOF
  <1>1. IInv => (pc[1] = "returned" => al = 1)
    BY DEF IInv, Elsewhere
  <1> QED BY <1>1, LoopInvariant, PTL
=============================================================================
