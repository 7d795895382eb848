----------------------------- MODULE Interrupts -----------------------------
(***************************************************************************)
(* Interrupts and exceptions of the kernel: gdt_init, idt.c, interrupt.c,  *)
(* isr_stubs.c and pic.c in the order kernelMain runs them, against        *)
(* devices that raise and withdraw requests at any time, exceptions, and   *)
(* drivers that use the public functions of pic.h and isr.h.               *)
(*                                                                         *)
(* The stack is an array of words that grows down; the processor's         *)
(* registers and the words are numbers.                                    *)
(***************************************************************************)
EXTENDS Integers, Sequences, SequencesExt, Pic

CONSTANTS
    Devices,      \* lines that devices drive, not the cascade
    Firmware,     \* states firmware may leave the controllers in
    Exceptions,   \* vectors of the exceptions that may happen
    Vectors,      \* vectors in use
    g_tss,        \* address of the task state segment, as a set of bits
    MaxRaises,    \* bound: requests
    MaxTraps,     \* bound: exceptions
    MaxCalls,     \* bound: drivers attached and detached
    StackTop      \* bound: words of stack

\* Vector 20, #VE, is raised in guests only: isr_stub_20 expects an error code that the
\* processor does not push.  One interrupt takes at most 28 words, its alignment included.
ASSUME InterruptsAssumption ==
    /\ Devices \subseteq (0 .. 15) \ {IRQ_CASCADE}
    /\ Vectors \subseteq 0 .. 255 /\ Exceptions \subseteq (Vectors \cap 0 .. 31) \ {20}
    /\ {MaxRaises, MaxTraps, MaxCalls, StackTop} \subseteq Nat
    /\ StackTop > 28 * (MaxTraps + 1)
    /\ g_tss \subseteq 0 .. 63

Chips == {"P", "S"}
\* Lines of a controller that devices drive; a spurious request shows on line 7.
Lines(c) == {pic_irq_delta(d) : d \in {e \in Devices : Chip(e) = c}}
Controllers == [imr : SUBSET (0 .. 7), irr : SUBSET (0 .. 7), isr : SUBSET (0 .. 7), offset : Nat, icw : {0, 2, 3, 4}]

\* Firmware leaves no initialisation half done and nothing in service, and what is
\* requested some device requests; the vectors in use include all it or pic_init chooses.
ASSUME ControllersAssumption ==
    /\ Firmware \subseteq [Chips -> Controllers]
    /\ \A f \in Firmware : \A c \in Chips :
        /\ f[c].icw = 0 /\ f[c].isr = {} /\ f[c].irr \subseteq Lines(c)
        /\ \A l \in Lines(c) \cup {7} : f[c].offset + l \in Vectors
    /\ \A l \in Lines("P") \cup {7} : PIC_PRIMARY_OFFSET + l \in Vectors
    /\ \A l \in Lines("S") \cup {7} : PIC_SECONDARY_OFFSET + l \in Vectors

VARIABLES
    pc,          \* kernelMain, or the driver call it makes
    step,        \* writes of pic_init made
    line,        \* the line a driver call is about
    work,        \* lines it still has to mask or unmask
    imr,         \* mask register as it read it
    attached,    \* lines with a driver
    gdt, idt,    \* descriptor tables, once loaded
    g_handlers,
    pic,
    cpu,         \* [regs, mem, rip, if]
    active,      \* interrupts being served, the innermost last
    halted,      \* how the kernel stopped
    raises, traps, calls

kernel == <<pc, step, line, work, imr, attached, calls>>
tables == <<gdt, idt, g_handlers>>
bounds == <<raises, traps>>
vars == <<kernel, tables, bounds, pic, cpu, active, halted>>

(* ---- registers and stack ---- *)

\* The order of intr_regs_t, and of the pops; isr_common pushes in the reverse order.
intr_regs == << "r8", "r9", "r10", "r11", "r12", "r13", "r14", "r15",
                "rdi", "rsi", "rbp", "rsp", "rbx", "rdx", "rcx", "rax" >>
Regs == Range(intr_regs)
CallerSaved == {"rax", "rcx", "rdx", "rsi", "rdi", "r8", "r9", "r10", "r11"}
Junk == 99

\* words[1] is pushed first.
Push(m, words) ==
    LET sp == m.regs["rsp"] IN
    [m EXCEPT !.regs["rsp"] = sp - Len(words),
              !.mem = [a \in DOMAIN @ |-> IF a \in sp - Len(words) .. sp - 1 THEN words[sp - a] ELSE @[a]]]
Align(m) == [m EXCEPT !.regs["rsp"] = @ - (@ % 2)]

Stub(v) == {63, 32, 31, 16, 15} \cup Shl(BitsOf(v), 4)   \* address of isr_stub_v

Init ==
    /\ pc = "gdt_init" /\ step = 0 /\ line = 0 /\ work = <<>> /\ imr = {} /\ attached = {}
    /\ gdt = <<>> /\ idt = [v \in Vectors |-> NoGate]
    /\ g_handlers = [v \in Vectors |-> "none"]
    /\ pic \in Firmware
    /\ \E top \in {StackTop - 1, StackTop} :
        cpu = [regs |-> [r \in Regs |-> IF r = "rsp" THEN top
                                        ELSE 100 + (CHOOSE i \in DOMAIN intr_regs : intr_regs[i] = r)],
               mem |-> [a \in 0 .. StackTop |-> 0], rip |-> Stub(0) \cup {20}, if |-> 0]
    /\ active = <<>> /\ halted = "no"
    /\ raises = 0 /\ traps = 0 /\ calls = 0

(* ---- kernelMain, while no interrupt is being served ---- *)

Running == active = <<>> /\ halted = "no"
At(label) == Running /\ pc = label
Goto(label) == pc' = label

\* The descriptors, LGDT, and LTR of the task state segment.
gdt_init ==
    /\ At("gdt_init")
    /\ LET tss == set_tss_desc(g_tss, BitsOf(103)) IN
        gdt' = [i \in 0 .. 4 |->
                 CASE i = KERNEL_DS_IDX -> make_data_desc
                   [] i = KERNEL_CS_IDX -> make_code64_desc
                   [] i = KERNEL_TSS_IDX -> ltr(tss.low)
                   [] i = KERNEL_TSS_IDX + 1 -> tss.high
                   [] OTHER -> {}]
    /\ Goto("handlers")
    /\ UNCHANGED <<step, line, work, imr, attached, calls, idt, g_handlers, bounds, pic, cpu, active, halted>>

\* Mutant: interrupts are enabled before the gates are filled in.
Mutant_init_sti_first ==
    \/ /\ At("handlers")
       /\ g_handlers' = [v \in Vectors |-> "default_unhandled"]
       /\ cpu' = [cpu EXCEPT !.if = 1]
       /\ Goto("gates")
       /\ UNCHANGED idt
    \/ /\ At("gates")
       /\ idt' = [v \in Vectors |-> idt_set_gate(Stub(v), sel_gdt(KERNEL_CS_IDX, 0), 14)]
       /\ Goto("boot")
       /\ UNCHANGED <<g_handlers, cpu>>

\* Handlers, LIDT of a cleared table, gates, STI.
intr_init_all_vectors ==
    \/ /\ At("handlers")
       /\ g_handlers' = [v \in Vectors |-> "default_unhandled"]
       /\ Goto("idt_init")
       /\ UNCHANGED <<idt, cpu>>
    \/ /\ At("idt_init")
       /\ idt' = [v \in Vectors |-> NoGate]
       /\ Goto("gates")
       /\ UNCHANGED <<g_handlers, cpu>>
    \/ /\ At("gates")
       /\ idt' = [v \in Vectors |-> idt_set_gate(Stub(v), sel_gdt(KERNEL_CS_IDX, 0), 14)]
       /\ Goto("sti")
       /\ UNCHANGED <<g_handlers, cpu>>
    \/ /\ At("sti")
       /\ cpu' = [cpu EXCEPT !.if = 1]
       /\ Goto("boot")
       /\ UNCHANGED <<g_handlers, idt>>

init_vectors ==
    /\ intr_init_all_vectors
    /\ UNCHANGED <<step, line, work, imr, attached, calls, gdt, bounds, pic, active, halted>>

\* Page allocator, paging and bins are set up with interrupts on; then pic_init,
\* one port write at a time.
pic_init_write ==
    /\ At("boot")
    /\ step < Len(pic_init)
    /\ pic' = outb(pic, pic_init[step + 1])
    /\ step' = step + 1
    /\ IF step' = Len(pic_init) THEN Goto("run") ELSE UNCHANGED pc
    /\ UNCHANGED <<line, work, imr, attached, calls, tables, bounds, cpu, active, halted>>

(* ---- drivers ---- *)

Vector(d) == PIC_PRIMARY_OFFSET + d

\* A driver registers its handler, then unmasks its line and the cascade line.
attach ==
    /\ At("run") /\ calls < MaxCalls
    /\ \E d \in Devices \ attached :
        /\ line' = d
        /\ g_handlers' = [g_handlers EXCEPT ![Vector(d)] = "driver"]
        /\ work' = IF pic_irq_is_primary(d) THEN <<d>> ELSE <<d, IRQ_CASCADE>>
    /\ calls' = calls + 1
    /\ Goto("clear_read")
    /\ UNCHANGED <<step, imr, attached, gdt, idt, bounds, pic, cpu, active, halted>>

\* pic_clear_mask reads the mask register,
clear_read ==
    /\ At("clear_read")
    /\ imr' = pic[Chip(Head(work))].imr
    /\ Goto("clear_write")
    /\ UNCHANGED <<step, line, work, attached, calls, tables, bounds, pic, cpu, active, halted>>

\* and writes it back.
clear_write ==
    /\ At("clear_write")
    /\ pic' = outb(pic, pic_clear_mask(Head(work), imr))
    /\ work' = Tail(work)
    /\ \/ Tail(work) = <<>> /\ Goto("run") /\ attached' = attached \cup {line}
       \/ Tail(work) # <<>> /\ Goto("clear_read") /\ UNCHANGED attached
    /\ UNCHANGED <<step, line, imr, calls, tables, bounds, cpu, active, halted>>

\* A driver that goes masks its line before it takes its handler back.
detach ==
    /\ At("run") /\ calls < MaxCalls
    /\ \E d \in attached : line' = d /\ attached' = attached \ {d}
    /\ calls' = calls + 1
    /\ Goto("set_read")
    /\ UNCHANGED <<step, work, imr, tables, bounds, pic, cpu, active, halted>>

set_read ==
    /\ At("set_read")
    /\ imr' = pic[Chip(line)].imr
    /\ Goto("set_write")
    /\ UNCHANGED <<step, line, work, attached, calls, tables, bounds, pic, cpu, active, halted>>

set_write ==
    /\ At("set_write")
    /\ pic' = outb(pic, pic_set_mask(line, imr))
    /\ Goto("unregister")
    /\ UNCHANGED <<step, line, work, imr, attached, calls, tables, bounds, cpu, active, halted>>

\* intr_register_handler of NULL brings the default back.
unregister ==
    /\ At("unregister")
    /\ g_handlers' = [g_handlers EXCEPT ![Vector(line)] = "default_unhandled"]
    /\ Goto("run")
    /\ UNCHANGED <<step, line, work, imr, attached, calls, gdt, idt, bounds, pic, cpu, active, halted>>

\* A handler for an exception, which returns to the instruction.
register_trap ==
    /\ At("run")
    /\ \E v \in Exceptions :
        /\ g_handlers[v] = "default_unhandled"
        /\ g_handlers' = [g_handlers EXCEPT ![v] = "driver"]
    /\ UNCHANGED <<kernel, gdt, idt, bounds, pic, cpu, active, halted>>

(* ---- devices and the processor ---- *)

\* The instruction boundaries the model shows: kernelMain's, and those of a C handler.
Interruptible == halted = "no" /\ (active # <<>> => Last(active).stage = "handler")

\* A request made between two boundaries shows at the next one.
raise ==
    /\ Interruptible
    /\ raises < MaxRaises /\ raises' = raises + 1
    /\ \E d \in Devices : pic' = [pic EXCEPT ![Chip(d)].irr = @ \cup {pic_irq_delta(d)}]
    /\ UNCHANGED <<kernel, tables, traps, cpu, active, halted>>

\* Vectors on which the processor itself pushes an error code for an exception.
ErrorVectors == {8, 10, 11, 12, 13, 14, 17, 21}
ErrorCode == 77
SS == sel_gdt(KERNEL_DS_IDX, 0)
CS == sel_gdt(KERNEL_CS_IDX, 0)

\* Delivery through gate v: the stack is aligned, the frame pushed, IF cleared by an
\* interrupt gate.  Without a gate into 64-bit code the machine resets.
Deliver(v, cause, irq) ==
    LET g == idt[v]
        frame == << SS, cpu.regs["rsp"], cpu.if, CS, 1 >>
                    \o IF cause = "exception" /\ v \in ErrorVectors THEN <<ErrorCode>> ELSE <<>> IN
    IF g = NoGate \/ ~IsCode64(gdt[g.selector \div 8])
    THEN halted' = "reset" /\ UNCHANGED <<cpu, active>>
    ELSE /\ cpu' = [Push(Align(cpu), frame) EXCEPT !.rip = GateTarget(g),
                                                            !.if = IF g.type = 14 THEN 0 ELSE @]
         /\ active' = Append(active, [vector |-> v, cause |-> cause, irq |-> irq, early |-> pc = "boot",
                                      was |-> [regs |-> cpu.regs, rip |-> cpu.rip, if |-> cpu.if], stage |-> "stub", todo |-> <<>>])
         /\ UNCHANGED halted

interrupt ==
    /\ Interruptible /\ cpu.if = 1
    /\ Signalled(pic) # {}
    /\ LET a == Acknowledge(pic) IN pic' = a.pic /\ Deliver(a.vector, "interrupt", a.irq)
    /\ UNCHANGED <<kernel, tables, bounds>>

\* The device withdraws its request while the processor acknowledges it.
spurious_interrupt ==
    /\ Interruptible /\ cpu.if = 1
    /\ Signalled(pic) # {}
    /\ LET a == AcknowledgeSpurious(pic) IN pic' = a.pic /\ Deliver(a.vector, "spurious", a.irq)
    /\ UNCHANGED <<kernel, tables, bounds>>

\* Until LIDT exceptions are the firmware's; from then on the kernel's table counts, cleared at first.
exception ==
    /\ Interruptible
    /\ pc \notin {"gdt_init", "handlers", "idt_init"}
    /\ traps < MaxTraps /\ traps' = traps + 1
    /\ \E v \in Exceptions : Deliver(v, "exception", 0)
    /\ UNCHANGED <<kernel, tables, raises, pic>>

(* ---- isr_stubs.c and interrupt.c ---- *)

In(stage) == active # <<>> /\ halted = "no" /\ Last(active).stage = stage
Stage(stage) == active' = [active EXCEPT ![Len(active)].stage = stage]

\* Mutant: the page fault's stub pushes a dummy error code below the real one.
Mutant_HASERR_no_page_fault == {8, 10, 11, 12, 13, 17, 20, 21}

HASERR == {8, 10, 11, 12, 13, 14, 17, 20, 21}

\* isr_stub_v, at the address the gate holds.
isr_stub ==
    /\ In("stub")
    /\ \E v \in Vectors :
        /\ cpu.rip = Stub(v)
        /\ cpu' = [Push(cpu, IF v \in HASERR THEN <<v>> ELSE <<0, v>>) EXCEPT !.if = 0]
    /\ Stage("common")
    /\ UNCHANGED <<kernel, tables, bounds, pic, halted>>

\* The pushes of isr_common; push %rsp stores the value before it.
saved(m) ==
    LET order == Reverse(intr_regs) IN
    Push(m, [i \in 1 .. 16 |-> IF order[i] = "rsp" THEN m.regs["rsp"] - (i - 1) ELSE m.regs[order[i]]])

\* push %rsp; push (%rsp); and $-16, %rsp; call.
call_aligned(m) ==
    LET sp == m.regs["rsp"]
        aligned == (sp - 2) - ((sp - 2) % 2) IN
    [m EXCEPT !.regs["rsp"] = aligned - 1,
              !.mem = [@ EXCEPT ![sp - 1] = sp, ![sp - 2] = sp, ![aligned - 1] = Junk]]

isr_common_save ==
    /\ In("common")
    /\ \E m \in {saved(cpu)} : cpu' = call_aligned([m EXCEPT !.regs["rdi"] = m.regs["rsp"]])
    /\ Stage("dispatch")
    /\ UNCHANGED <<kernel, tables, bounds, pic, halted>>

\* intr_context_t: the words from ctx up.
vector(ctx) == cpu.mem[ctx + 16]
error_code(ctx) == cpu.mem[ctx + 17]

\* default_unhandled reports and halts with interrupts off; a driver's handler for a
\* line ends the interrupt with pic_notify_eoi.
intr_dispatch_entry ==
    /\ In("dispatch")
    /\ LET v == vector(cpu.regs["rdi"]) IN
        \/ /\ g_handlers[v] = "default_unhandled"
           /\ halted' = "unhandled"
           /\ UNCHANGED active
        \/ /\ g_handlers[v] = "driver"
           /\ active' = [active EXCEPT ![Len(active)] =
                [@ EXCEPT !.stage = "handler",
                          !.todo = IF v < PIC_PRIMARY_OFFSET THEN <<>> ELSE pic_notify_eoi(v - PIC_PRIMARY_OFFSET)]]
           /\ UNCHANGED halted
    /\ UNCHANGED <<kernel, tables, bounds, pic, cpu>>

handler_eoi ==
    /\ In("handler")
    /\ Last(active).todo # <<>>
    /\ pic' = outb(pic, Head(Last(active).todo))
    /\ active' = [active EXCEPT ![Len(active)].todo = Tail(@)]
    /\ UNCHANGED <<kernel, tables, bounds, cpu, halted>>

\* A C function keeps the callee-saved registers only; its ret takes the return address.
handler_return ==
    /\ In("handler")
    /\ Last(active).todo = <<>>
    /\ cpu' = [cpu EXCEPT !.regs = [r \in Regs |-> IF r \in CallerSaved THEN Junk
                                                  ELSE IF r = "rsp" THEN @[r] + 1 ELSE @[r]]]
    /\ Stage("restore")
    /\ UNCHANGED <<kernel, tables, bounds, pic, halted>>

\* Mutant: one word too many is dropped before iretq.
Mutant_restored_add_24(m) ==
    LET sp == m.mem[m.regs["rsp"] + 1]
        index == [r \in Regs |-> CHOOSE i \in 1 .. 16 : intr_regs[i] = r] IN
    [m EXCEPT !.regs = [r \in Regs |-> IF r = "rsp" THEN sp + 19 ELSE m.mem[sp + index[r] - 1]]]

\* Mutant: rbp and rsi are popped in the order they were pushed.
Mutant_restored_swapped(m) ==
    LET sp == m.mem[m.regs["rsp"] + 1]
        index == [r \in Regs |-> IF r = "rbp" THEN 10 ELSE IF r = "rsi" THEN 11
                                 ELSE CHOOSE i \in 1 .. 16 : intr_regs[i] = r] IN
    [m EXCEPT !.regs = [r \in Regs |-> IF r = "rsp" THEN sp + 18 ELSE m.mem[sp + index[r] - 1]]]

\* mov 8(%rsp),%rsp; the pops, of which pop %rsp sets where the later ones read; add $16.
restored(m) ==
    LET sp == m.mem[m.regs["rsp"] + 1]
        k == CHOOSE i \in 1 .. 16 : intr_regs[i] = "rsp"
        sp2 == m.mem[sp + k - 1]
        index == [r \in Regs |-> CHOOSE i \in 1 .. 16 : intr_regs[i] = r] IN
    [m EXCEPT !.regs = [r \in Regs |-> IF r = "rsp" THEN sp2 + (16 - k) + 2
                                      ELSE IF index[r] < k THEN m.mem[sp + index[r] - 1]
                                      ELSE m.mem[sp2 + index[r] - k - 1]]]

\* iretq: rip, cs, rflags, rsp, ss.  What is below the stack pointer is dead: no code of
\* the kernel uses a red zone.
isr_common_restore ==
    /\ In("restore")
    /\ \E m \in {restored(cpu)} :
        LET sp == m.regs["rsp"] IN
        cpu' = [m EXCEPT !.regs["rsp"] = m.mem[sp + 3], !.if = m.mem[sp + 2],
                         !.mem = [a \in DOMAIN @ |-> IF a < m.mem[sp + 3] THEN 0 ELSE @[a]],
                         !.rip = IF m.mem[sp] = 1 THEN Last(active).was.rip ELSE {}]
    /\ active' = Front(active)
    /\ UNCHANGED <<kernel, tables, bounds, pic, halted>>

Boot == gdt_init \/ init_vectors \/ pic_init_write
Driver == attach \/ clear_read \/ clear_write \/ detach \/ set_read \/ set_write \/ unregister \/ register_trap
Service == isr_stub \/ isr_common_save \/ intr_dispatch_entry \/ handler_eoi \/ handler_return \/ isr_common_restore
Environment == raise \/ spurious_interrupt \/ exception

Next == Boot \/ Driver \/ Service \/ interrupt \/ Environment

\* The processor executes its next instruction or takes a pending interrupt; nothing
\* obliges devices, exceptions or new driver calls to happen.
Processor == Boot \/ clear_read \/ clear_write \/ set_read \/ set_write \/ unregister \/ Service \/ interrupt

Spec == Init /\ [][Next]_vars /\ WF_vars(Processor)
-----------------------------------------------------------------------------
(* Types: the stack is never left, and masks and requests are bits of a byte. *)
TypeOK ==
    /\ pc \in {"gdt_init", "handlers", "idt_init", "gates", "sti", "boot", "run", "clear_read",
               "clear_write", "set_read", "set_write", "unregister"}
    /\ cpu.regs["rsp"] \in 0 .. StackTop /\ cpu.if \in {0, 1}
    /\ \A c \in {"P", "S"} : pic[c].imr \cup pic[c].irr \cup pic[c].isr \subseteq 0 .. 7
    /\ attached \subseteq Devices
    /\ halted \in {"no", "reset", "unhandled"}

(* Every interrupt, and every exception once the gates are filled in, finds a present gate into
   the kernel's 64-bit code segment and enters the stub of its own vector.  Only an exception
   between the LIDT of the cleared table and the filling of the gates finds none and resets the machine;
   interrupts are still off then.  The TSS descriptor, busy since LTR, reads back as g_tss. *)
ReachesOwnStub ==
    /\ halted = "reset" => pc = "gates" /\ cpu.if = 0
    /\ In("stub") => cpu.rip = Stub(Last(active).vector)
    /\ gdt # <<>> => IsBusyTss(gdt[KERNEL_TSS_IDX]) /\ TssBase(gdt[KERNEL_TSS_IDX], gdt[KERNEL_TSS_IDX + 1]) = g_tss

\* An external interrupt on a vector whose stub expects an error code: possible only
\* before the controllers are remapped, and then nothing of its frame is where the stub expects it.
Misplaced(a) == a.cause # "exception" /\ a.vector \in HASERR

(* The context a handler gets is the interrupted one, but for the stack pointer: vector, error code
   (0 where there is none), return address, flags, and fifteen registers under their own names in
   intr_regs_t.  Under the name of rsp is the stack pointer of the push itself, inside the frame; the
   interrupted one is only above the context, in the word the processor pushed. *)
ContextFaithful ==
    In("dispatch") /\ ~Misplaced(Last(active)) =>
        LET a == Last(active)
            ctx == cpu.regs["rdi"] IN
        /\ vector(ctx) = a.vector
        /\ error_code(ctx) = (IF a.cause = "exception" /\ a.vector \in ErrorVectors THEN ErrorCode ELSE 0)
        /\ cpu.mem[ctx + 18] = 1 /\ cpu.mem[ctx + 19] = CS /\ cpu.mem[ctx + 20] = a.was.if
        /\ \A i \in DOMAIN intr_regs :
            cpu.mem[ctx + i - 1] = IF intr_regs[i] = "rsp" THEN ctx + i ELSE a.was.regs[intr_regs[i]]
        /\ cpu.mem[ctx + 21] = a.was.regs["rsp"]
        /\ cpu.regs["rsp"] % 2 = 1   \* the stack was 16-byte aligned before the call

(* A handler that returns resumes exactly what it interrupted, registers, flags and stack
   pointer, whatever the alignment of the stack and whatever the handler did to the
   registers it need not keep. *)
ResumesExactly ==
    [][Len(active') < Len(active) =>
        LET was == Last(active).was IN cpu'.regs = was.regs /\ cpu'.rip = was.rip /\ cpu'.if = was.if]_vars

(* default_unhandled stops the kernel for an external interrupt only if that arrived
   between STI and the end of pic_init or was spurious: no device whose driver is absent or
   leaving gets through, and none with a driver is missed by its handler. *)
UnhandledIsEarlyOrSpurious ==
    halted = "unhandled" =>
        \/ Last(active).cause \in {"exception", "spurious"}
        \/ Last(active).early

(* The end of interrupt, sent without naming a line, ends the interrupt whose handler sends
   it: outside handlers nothing is in service, on either controller. *)
InServiceIsServed ==
    \A c \in {"P", "S"} : \A l \in pic[c].isr :
        \E i \in DOMAIN active :
            /\ active[i].cause # "exception"
            /\ \/ c = Chip(active[i].irq) /\ l = pic_irq_delta(active[i].irq)
               \/ c = "P" /\ l = IRQ_CASCADE /\ ~pic_irq_is_primary(active[i].irq)

(* A request of a line with a driver is served, unless the driver leaves or the kernel
   stops: no end of interrupt is forgotten, no mask bit lost. *)
RequestsServed ==
    \A d \in Devices :
        (d \in attached /\ pic_irq_delta(d) \in pic[Chip(d)].irr)
            ~> (pic_irq_delta(d) \notin pic[Chip(d)].irr \/ d \notin attached \/ halted # "no")
-----------------------------------------------------------------------------
(* What the invariants rest on. *)

PreIdt == {"gdt_init", "handlers", "idt_init", "gates"}
Booting == PreIdt \cup {"sti", "boot"}
Calling == {"clear_read", "clear_write", "set_read", "set_write", "unregister"}
Early == {"stub", "common", "dispatch"}

Machines == [regs : [Regs -> Int], mem : [0 .. StackTop -> Int], rip : SUBSET Nat, if : {0, 1}]
Commands == [chip : Chips, port : {"cmd"}, byte : SUBSET (0 .. 15)]
Activations == [vector : Vectors, cause : {"interrupt", "spurious", "exception"}, irq : 0 .. 15, early : BOOLEAN,
                was : [regs : [Regs -> Int], rip : SUBSET Nat, if : {0, 1}],
                stage : Early \cup {"handler", "restore"}, todo : Seq(Commands)]

\* kernelMain and the tables: nothing is served before the gates are in place, and
\* while something is served kernelMain does not move.
Control ==
    /\ pc \in Booting \cup {"run"} \cup Calling /\ step \in 0 .. 10 /\ halted \in {"no", "reset", "unhandled"}
    /\ pc \in PreIdt \cup {"sti"} => step = 0 /\ cpu.if = 0
    /\ pc = "boot" => step < 10
    /\ pc \notin Booting => step = 10
    /\ pc \in PreIdt => active = <<>>
    /\ traps \in 0 .. MaxTraps /\ Len(active) <= traps + 1
    /\ attached \subseteq Devices /\ line \in 0 .. 15 /\ (pc \in Calling => line \in Devices)

Tables ==
    /\ pc = "gdt_init" <=> gdt = <<>>
    /\ gdt # <<>> => /\ IsCode64(gdt[KERNEL_CS_IDX]) /\ IsBusyTss(gdt[KERNEL_TSS_IDX])
                     /\ TssBase(gdt[KERNEL_TSS_IDX], gdt[KERNEL_TSS_IDX + 1]) = g_tss
    /\ pc \notin PreIdt => \A v \in Vectors : idt[v] = idt_set_gate(Stub(v), CS, 14)
    /\ pc = "gates" => \A v \in Vectors : idt[v] = NoGate
    /\ halted = "reset" => pc = "gates" /\ cpu.if = 0

\* Interrupts are off while one is served, so only the outermost is a device's.
Nesting ==
    /\ active \in Seq(Activations)
    /\ active # <<>> => cpu.if = 0
    /\ \A k \in DOMAIN active :
        LET a == active[k] IN
        /\ a.early <=> pc = "boot"
        /\ a.was.if = 1 => k = 1 /\ pc # "sti"
        /\ k < Len(active) => a.stage = "handler"
        /\ IF a.cause = "exception" THEN a.vector \in Exceptions /\ a.todo = <<>>
           ELSE k = 1 /\ pc \notin PreIdt \cup {"sti"} /\ (~a.early => a.vector = Vector(a.irq))
        /\ pc \in Booting => a.stage \in Early

\* Where the parts of an interrupt's frame are, and where the stack pointer is.
ErrorOf(a) == IF a.cause = "exception" /\ a.vector \in ErrorVectors THEN ErrorCode ELSE 0
Entry(a) == a.was.regs["rsp"] - (a.was.regs["rsp"] % 2)
Base(a) == Entry(a) - IF Misplaced(a) THEN 6 ELSE 7
Ctx(a) == Base(a) - 16
Bottom(a) == (Ctx(a) - 2) - ((Ctx(a) - 2) % 2) - 1
StackPointer(a) ==
    CASE a.stage = "stub" -> Entry(a) - (IF ErrorOf(a) = 0 THEN 5 ELSE 6)
      [] a.stage = "common" -> Base(a)
      [] a.stage = "restore" -> Bottom(a) + 1
      [] OTHER -> Bottom(a)

PushedByCpu(mem, a) ==
    /\ mem[Entry(a) - 2] = a.was.regs["rsp"] /\ mem[Entry(a) - 3] = a.was.if
    /\ mem[Entry(a) - 4] = CS /\ mem[Entry(a) - 5] = 1
    /\ ErrorOf(a) # 0 => mem[Entry(a) - 6] = ErrorOf(a)
PushedByStub(mem, a) == mem[Base(a)] = a.vector /\ (~Misplaced(a) => mem[Base(a) + 1] = ErrorOf(a))
PushedByCommon(mem, a) ==
    /\ \A i \in 1 .. 16 : mem[Ctx(a) + i - 1] = IF intr_regs[i] = "rsp" THEN Ctx(a) + i ELSE a.was.regs[intr_regs[i]]
    /\ mem[Ctx(a) - 1] = Ctx(a) /\ mem[Ctx(a) - 2] = Ctx(a)
Frame(mem, a) ==
    /\ PushedByCpu(mem, a)
    /\ a.stage # "stub" => PushedByStub(mem, a)
    /\ a.stage \notin {"stub", "common"} => PushedByCommon(mem, a)

Stack ==
    /\ cpu \in Machines
    /\ active = <<>> => cpu.regs["rsp"] \in {StackTop - 1, StackTop}
    /\ active # <<>> =>
        LET a == Last(active) IN
        /\ cpu.regs["rsp"] = StackPointer(a)
        /\ a.stage \in {"stub", "common"} => \A r \in Regs \ {"rsp"} : cpu.regs[r] = a.was.regs[r]
        /\ a.stage = "stub" => cpu.rip = Stub(a.vector)
        /\ a.stage = "dispatch" => cpu.regs["rdi"] = Ctx(a)
    /\ \A k \in DOMAIN active :
        LET a == active[k] IN
        /\ a.was.regs["rsp"] \in StackTop - 1 - 28 * (k - 1) .. StackTop
        /\ k > 1 => a.was.regs["rsp"] = Bottom(active[k - 1])
        /\ \A j \in 1 .. k - 1 : a.was.regs["rsp"] <= Bottom(active[j])
        /\ Frame(cpu.mem, a)

\* Each controller at each write of pic_init, and the masks: an unmasked line has a driver.
icw_P == <<0, 2, 2, 3, 3, 4, 4, 0, 0, 0, 0>>
icw_S == <<0, 0, 2, 2, 3, 3, 4, 4, 0, 0, 0>>
Masks ==
    /\ pic \in [Chips -> Controllers]
    /\ \A c \in Chips : pic[c].irr \subseteq Lines(c) /\ \A l \in Lines(c) \cup {7} : pic[c].offset + l \in Vectors
    /\ pic["P"].icw = icw_P[step + 1] /\ pic["S"].icw = icw_S[step + 1]
    /\ step >= 3 => pic["P"].offset = PIC_PRIMARY_OFFSET
    /\ step >= 4 => pic["S"].offset = PIC_SECONDARY_OFFSET
    /\ step = 9 => pic["P"].imr = 0 .. 7
    /\ g_handlers \in [Vectors -> {"none", "default_unhandled", "driver"}]
    /\ pc \in Booting => \A v \in Vectors : g_handlers[v] # "driver"
    /\ \A d \in Devices : pc \in Booting \/ pic_irq_delta(d) \in pic[Chip(d)].imr \/ g_handlers[Vector(d)] = "driver"
    /\ pc \in {"clear_read", "clear_write"} =>
        /\ g_handlers[Vector(line)] = "driver"
        /\ work \in {<<line>>, <<line, IRQ_CASCADE>>, <<IRQ_CASCADE>>}
    /\ pc = "clear_write" => imr = pic[Chip(Head(work))].imr
    /\ pc = "set_write" => imr = pic[Chip(line)].imr
    /\ pc = "unregister" => pic_irq_delta(line) \in pic[Chip(line)].imr

\* What is in service: the outermost interrupt, until its end is written.
InService(p, s) == pic["P"].isr = p /\ pic["S"].isr = s
Serving ==
    /\ active = <<>> => InService({}, {})
    /\ active # <<>> =>
        LET a == active[1]
            first == a.stage \in Early \/ (a.stage = "handler" /\ a.todo = pic_notify_eoi(a.irq)) IN
        \/ a.cause = "exception" /\ InService({}, {})
        \/ a.cause = "interrupt" /\ pic_irq_is_primary(a.irq) /\ first /\ InService({a.irq}, {})
        \/ a.cause = "interrupt" /\ ~pic_irq_is_primary(a.irq) /\ first /\ InService({IRQ_CASCADE}, {a.irq - 8})
        \/ a.cause = "spurious" /\ pic_irq_is_primary(a.irq) /\ first /\ InService({}, {})
        \/ a.cause = "spurious" /\ ~pic_irq_is_primary(a.irq) /\ first /\ InService({IRQ_CASCADE}, {})
        \/ /\ a.cause # "exception" /\ ~pic_irq_is_primary(a.irq) /\ a.stage = "handler"
           /\ a.todo = Tail(pic_notify_eoi(a.irq)) /\ InService({IRQ_CASCADE}, {})
        \/ a.cause # "exception" /\ a.stage \in {"handler", "restore"} /\ a.todo = <<>> /\ InService({}, {})
    /\ \A k \in DOMAIN active :
        active[k].cause = "interrupt" /\ ~active[k].early => g_handlers[active[k].vector] = "driver"
    /\ halted = "unhandled" => active # <<>> /\ g_handlers[Last(active).vector] = "default_unhandled"

IInv == Control /\ Tables /\ Nesting /\ Stack /\ Masks /\ Serving
=============================================================================
