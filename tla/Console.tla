------------------------------ MODULE Console -------------------------------
(***************************************************************************)
(* The kernel's console: kernel/serial.c on a 16550 UART (external), the   *)
(* log calls of log.c, the report of an unhandled interrupt                *)
(* (interrupt.c), and panic (panic.c) with its walk of the stack.  A log   *)
(* call sends its bytes one at a time and may be cut off by an interrupt   *)
(* or an exception between any two accesses of the UART.                   *)
(***************************************************************************)
EXTENDS LogText

CONSTANTS
    Messages,    \* log calls of the kernel, [level, scope, fmt]
    Oops,        \* report of default_unhandled, a message
    Stacks,      \* stacks panic may find: [rbp, frames], frames a function from mapped addresses
    AddrBits, VaBits,   \* width of an address, and of its canonical part
    TraceMax     \* frames panic prints at most, 64

ASSUME ConsoleAssumption ==
    /\ {AddrBits, VaBits, TraceMax} \subseteq Nat /\ VaBits < AddrBits
    /\ \A m \in Messages \cup {Oops} : m.level \in KLOG_DEBUG .. KLOG_ERROR

VARIABLES
    pc,        \* what runs: serial_init, the kernel, a log call, panic, the handler
    step,      \* register writes of serial_init made
    uart,      \* [lcr, divisor, thr]
    polled,    \* THRE was read as set
    todo,      \* bytes still to send
    g_level,
    if,        \* interrupts enabled
    stack,     \* what panic will walk
    due        \* ghost: text that has yet to appear on the wire, from the reference of LogText

vars == <<pc, step, uart, polled, todo, g_level, if, stack, due>>

Init ==
    /\ pc = "serial_init" /\ step = 0
    /\ uart \in [lcr : {{}, {7}}, divisor : {{}}, thr : {<<>>}]
    /\ polled = FALSE /\ todo = <<>> /\ g_level = KLOG_INFO /\ if = FALSE
    /\ stack \in Stacks
    /\ due = <<>>

(* ---- the UART ---- *)

\* Register 0 is the transmit register, or half of the divisor while bit 7 of LCR (DLAB) is set;
\* a byte written before the last one has gone replaces it.
outb(u, reg, value) ==
    IF reg = "LCR" THEN [u EXCEPT !.lcr = value]
    ELSE IF reg = "THR" /\ 7 \in u.lcr THEN [u EXCEPT !.divisor = value]
    ELSE IF reg = "THR" THEN [u EXCEPT !.thr = <<value>>]
    ELSE u

\* s starts with the end of a line as klog_vlogf sends it, "\r\n" through serial_write.
DoubledReturn(s) == IsPrefix(<<"\r", "\r", "\n">>, s)

transmit ==
    /\ uart.thr # <<>>
    /\ due' = IF due = <<>> \/ DoubledReturn(uart.thr \o todo) THEN due ELSE Tail(due)
    /\ uart' = [uart EXCEPT !.thr = <<>>]
    /\ UNCHANGED <<pc, step, polled, todo, g_level, if, stack>>

(* ---- serial.c ---- *)

\* Mutant: DLAB is left set.
Mutant_serial_init_dlab ==
    << <<"LCR", {0, 1}>>, <<"IER", {}>>, <<"FCR", {}>>, <<"LCR", {0, 1, 7}>>, <<"THR", {0}>>, <<"IER", {}>>,
       <<"MCR", {0, 1}>> >>

\* 8N1, no interrupts, no FIFO; the divisor of 115200 baud is 1; the LCR read back is 8N1.
serial_init ==
    << <<"LCR", {0, 1}>>, <<"IER", {}>>, <<"FCR", {}>>, <<"LCR", {0, 1, 7}>>, <<"THR", {0}>>, <<"IER", {}>>,
       <<"LCR", {0, 1}>>, <<"MCR", {0, 1}>> >>

serial_init_write ==
    /\ pc = "serial_init" /\ step < Len(serial_init)
    /\ uart' = outb(uart, serial_init[step + 1][1], serial_init[step + 1][2])
    /\ step' = step + 1
    /\ UNCHANGED <<pc, polled, todo, g_level, if, stack, due>>

\* Mutant: the byte is written without waiting for the transmit register.
Mutant_write_byte_no_wait ==
    /\ todo # <<>>
    /\ uart' = outb(uart, "THR", Head(todo))
    /\ todo' = Tail(todo) /\ polled' = FALSE

\* serial_write_byte_impl: read LSR until THRE is set, then write.
serial_write_byte ==
    /\ todo # <<>>
    /\ \/ ~polled /\ uart.thr = <<>> /\ polled' = TRUE /\ UNCHANGED <<uart, todo>>
       \/ /\ polled
          /\ uart' = outb(uart, "THR", Head(todo))
          /\ todo' = Tail(todo) /\ polled' = FALSE

Sending == pc \in {"log", "panic", "oops"}

send ==
    /\ Sending /\ serial_write_byte
    /\ UNCHANGED <<pc, step, g_level, if, stack, due>>

(* ---- log.c, called by kernelMain ---- *)

klog_init ==
    /\ pc = "serial_init" /\ step = Len(serial_init)
    /\ g_level' = KLOG_DEBUG
    /\ pc' = "kernel"
    /\ UNCHANGED <<step, uart, polled, todo, if, stack, due>>

\* Not called by this kernel; any caller may pass any level.
klog_set_level ==
    /\ pc = "kernel"
    /\ g_level' \in KLOG_DEBUG .. KLOG_ERROR
    /\ UNCHANGED <<pc, step, uart, polled, todo, if, stack, due>>

\* A call below g_level sends nothing.
klog_logf ==
    /\ pc = "kernel"
    /\ \E m \in Messages :
        /\ m.level >= g_level
        /\ todo' = klog_vlogf(m) /\ due' = due \o RefLine(m)
    /\ pc' = "log"
    /\ UNCHANGED <<step, uart, polled, g_level, if, stack>>

log_done ==
    /\ pc = "log" /\ todo = <<>>
    /\ pc' = "kernel"
    /\ UNCHANGED <<step, uart, polled, todo, g_level, if, stack, due>>

\* intr_init_all_vectors ends with STI.
sti ==
    /\ pc = "kernel" /\ ~if
    /\ if' = TRUE
    /\ UNCHANGED <<pc, step, uart, polled, todo, g_level, stack, due>>

(* ---- interrupt.c ---- *)

\* default_unhandled: the report, then halt.  What was interrupted never goes on.
default_unhandled ==
    /\ pc' = "oops"
    /\ todo' = klog_vlogf(Oops) /\ due' = uart.thr \o RefLine(Oops) /\ polled' = FALSE
    /\ if' = FALSE

interrupt ==
    /\ if /\ pc \in {"kernel", "log", "panic"}
    /\ default_unhandled
    /\ UNCHANGED <<step, uart, g_level, stack>>

(* ---- panic.c ---- *)

is_canonical(vaddr) == vaddr \div 2^VaBits \in {0, 2^(AddrBits - VaBits) - 1}

\* Mutant: frames are followed downwards too.
Mutant_goes_on_any(next, rbp) == TRUE

goes_on(next, rbp) == next > rbp

\* The walk from frame rbp when i lines have been printed: the return addresses, and whether
\* it reads an address that is not mapped.
trace(st) ==
    LET ends(fault) == [rips |-> <<>>, fault |-> fault]
        walk[i \in 0 .. TraceMax, rbp \in 0 .. 2^AddrBits - 1] ==
            IF i = TraceMax \/ rbp = 0 \/ rbp % 8 # 0 \/ ~is_canonical(rbp) THEN ends(FALSE)
            ELSE IF rbp \notin DOMAIN st.frames THEN ends(TRUE)
            ELSE LET f == st.frames[rbp]
                     rest == IF goes_on(f.next, rbp) THEN walk[i + 1, f.next] ELSE ends(FALSE) IN
                 IF ~is_canonical(f.rip) THEN ends(FALSE) ELSE [rest EXCEPT !.rips = <<f.rip>> \o @]
    IN walk[0, st.rbp]

Line(fmt) == [level |-> KLOG_ERROR, scope |-> <<"panic">>, fmt |-> fmt]
Text(s) == <<[k |-> "s", arg |-> <<s>>, width |-> 0, zero |-> FALSE]>>
FrameLine(i, rip) ==
    Line(<<[k |-> "d", arg |-> i - 1, width |-> 2, zero |-> TRUE], [k |-> "X", arg |-> rip, width |-> 4, zero |-> TRUE]>>)
PanicLines(addresses) ==
    <<Line(Text("VMXON failed")), Line(Text("CR2")), Line(Text("Stack Trace"))>>
        \o [i \in DOMAIN addresses |-> FrameLine(i, addresses[i])]

\* Mutant: interrupts stay enabled.
Mutant_panic_cli == UNCHANGED if

panic_cli == if' = FALSE

\* The first panic; kernelMain is the only caller, so there is no second one.
panic ==
    /\ pc = "kernel" /\ if
    /\ panic_cli
    /\ LET lines == PanicLines(trace(stack).rips) IN
        /\ todo' = FlattenSeq([i \in DOMAIN lines |-> klog_vlogf(lines[i])])
        /\ due' = due \o FlattenSeq([i \in DOMAIN lines |-> RefLine(lines[i])])
    /\ pc' = "panic"
    /\ UNCHANGED <<step, uart, polled, g_level, stack>>

\* An unmapped frame is an exception.
panic_done ==
    /\ pc = "panic" /\ todo = <<>>
    /\ IF trace(stack).fault THEN default_unhandled
       ELSE pc' = "panic_halt" /\ UNCHANGED <<todo, due, polled, if>>
    /\ UNCHANGED <<step, uart, g_level, stack>>

oops_done ==
    /\ pc = "oops" /\ todo = <<>>
    /\ pc' = "oops_halt"
    /\ UNCHANGED <<step, uart, polled, todo, g_level, if, stack, due>>

Cpu == serial_init_write \/ klog_init \/ send \/ log_done \/ panic_done \/ oops_done
Next == Cpu \/ transmit \/ klog_set_level \/ klog_logf \/ sti \/ interrupt \/ panic

\* The processor goes on with what it has begun, and the UART sends what it holds.
Spec == Init /\ [][Next]_vars /\ WF_vars(Cpu) /\ WF_vars(transmit)
-----------------------------------------------------------------------------
\* s with the ends of its lines cut to one return and a newline.
OneReturn(s) ==
    LET kept == SelectSeq([i \in DOMAIN s |-> i], LAMBDA i : ~DoubledReturn(SubSeq(s, i, Len(s)))) IN
    [j \in DOMAIN kept |-> s[kept[j]]]

(* Between them the transmit register and the bytes still to be sent hold exactly the text
   that has yet to appear: no byte is overwritten or goes to the divisor, wherever a call is cut off
   by an interrupt whose handler logs too; the scope takes its seven places; strings, null pointers and unknown
   conversions come out as the comments say; and numbers are those of positional notation, padded to their
   width as printf does.  One difference is set aside: the reference ends a line in "\r\n", as the comments
   in log.c:230 and serial.c:72 say, and the code in "\r\r\n": there, and only there, a second return is taken for none. *)
WireAsAsked == due = OneReturn(uart.thr \o todo)

\* Every frame pointer of the stack that leads up leads to a frame.
LinkedUp(st) == \A a \in DOMAIN st.frames : st.frames[a].next > a => st.frames[a].next \in DOMAIN st.frames

(* A panic and the report of an unhandled interrupt come out complete before the machine
   halts: nothing interrupts them, and no wait for the UART lasts forever.  On a stack whose frame
   pointers lead up to frames the walk stays within mapped memory and panic itself halts; on
   another one the walk may end in an exception, whose report comes out instead. *)
ReportsComplete ==
    /\ (pc = "panic" /\ LinkedUp(stack)) ~> (pc = "panic_halt" /\ due = <<>>)
    /\ pc = "panic" ~> (pc \in {"panic_halt", "oops_halt"} /\ due = <<>>)
    /\ pc = "oops" ~> (pc = "oops_halt" /\ due = <<>>)
=============================================================================
