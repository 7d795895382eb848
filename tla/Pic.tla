-------------------------------- MODULE Pic ---------------------------------
(***************************************************************************)
(* Two cascaded 8259A interrupt controllers and kernel/arch/x86/pic.c.     *)
(* The controllers (external) are the state [P |-> ..., S |-> ...]; the    *)
(* driver's functions are the sequences of port writes they make.  A byte  *)
(* is the set of its one bits.                                             *)
(***************************************************************************)
EXTENDS Integers, Sequences, FiniteSetsExt, Descriptors

PIC_PRIMARY_OFFSET == 32
PIC_SECONDARY_OFFSET == PIC_PRIMARY_OFFSET + 8
IRQ_CASCADE == 2

pic_irq_is_primary(irq) == irq < 8
Chip(irq) == IF pic_irq_is_primary(irq) THEN "P" ELSE "S"
pic_irq_delta(irq) == IF pic_irq_is_primary(irq) THEN irq ELSE irq - 8

ByteValue(byte) ==
    LET weight(b) == IF b \in byte THEN 2^b ELSE 0 IN
    weight(0) + weight(1) + weight(2) + weight(3) + weight(4) + weight(5) + weight(6) + weight(7)

(* ---- the controllers ---- *)

\* ICW1 has bit 4, OCW3 bit 3; OCW2 is an end of interrupt if its upper bits are 001
\* (non-specific: ends the interrupt of highest priority in service) or 011 (specific).
Command(c, byte) ==
    IF 4 \in byte THEN [c EXCEPT !.imr = {}, !.irr = {}, !.isr = {}, !.icw = 2]
    ELSE IF 3 \in byte THEN c
    ELSE IF byte \cap {5, 6, 7} = {5} /\ c.isr # {} THEN [c EXCEPT !.isr = @ \ {Min(@)}]
    ELSE IF byte \cap {5, 6, 7} = {5, 6} THEN [c EXCEPT !.isr = @ \ {ByteValue(byte \cap 0 .. 2)}]
    ELSE c

\* ICW2 to ICW4 follow ICW1; afterwards the data port is the mask register.
Data(c, byte) ==
    CASE c.icw = 2 -> [c EXCEPT !.offset = ByteValue(byte), !.icw = 3]
      [] c.icw = 3 -> [c EXCEPT !.icw = 4]
      [] c.icw = 4 -> [c EXCEPT !.icw = 0]
      [] OTHER -> [c EXCEPT !.imr = byte]

outb(pic, w) == [pic EXCEPT ![w.chip] = IF w.port = "cmd" THEN Command(@, w.byte) ELSE Data(@, w.byte)]

\* Requests a controller may signal: unmasked, above everything in service.
Requests(c) == {l \in c.irr \ c.imr : c.icw = 0 /\ \A s \in c.isr : l < s}
Signalled(pic) ==
    Requests(IF Requests(pic["S"]) = {} THEN pic["P"] ELSE [pic["P"] EXCEPT !.irr = @ \cup {IRQ_CASCADE}])

\* The acknowledge cycle: the line taken on each controller, the vector, the state after it.
Taken(c, l) == [c EXCEPT !.irr = @ \ {l}, !.isr = @ \cup {l}]
Acknowledge(pic) ==
    LET p == Min(Signalled(pic))
        s == Min(Requests(pic["S"])) IN
    IF p # IRQ_CASCADE
    THEN [irq |-> p, vector |-> pic["P"].offset + p, pic |-> [pic EXCEPT !["P"] = Taken(@, p)]]
    ELSE [irq |-> 8 + s, vector |-> pic["S"].offset + s,
          pic |-> [P |-> Taken(pic["P"], p), S |-> Taken(pic["S"], s)]]
\* The same when the request is withdrawn at that moment: the controller answers with its
\* line 7 and takes nothing into service.
AcknowledgeSpurious(pic) ==
    LET p == Min(Signalled(pic))
        s == Min(Requests(pic["S"])) IN
    IF p # IRQ_CASCADE
    THEN [irq |-> 7, vector |-> pic["P"].offset + 7, pic |-> [pic EXCEPT !["P"].irr = @ \ {p}]]
    ELSE [irq |-> 15, vector |-> pic["S"].offset + 7,
          pic |-> [P |-> Taken(pic["P"], p), S |-> [pic["S"] EXCEPT !.irr = @ \ {s}]]]

(* ---- pic.c ---- *)

Cmd(chip, byte) == [chip |-> chip, port |-> "cmd", byte |-> byte]
Dat(chip, byte) == [chip |-> chip, port |-> "data", byte |-> byte]

\* Mutant: the masks are left as ICW1 leaves them.
Mutant_pic_init_unmasked ==
    << Cmd("P", {4, 0}), Cmd("S", {4, 0}), Dat("P", BitsOf(PIC_PRIMARY_OFFSET)),
       Dat("S", BitsOf(PIC_SECONDARY_OFFSET)), Dat("P", {2}), Dat("S", {1}), Dat("P", {0}), Dat("S", {0}) >>

\* ICW1 with ICW4, vector offsets, cascade on line 2, 8086 mode, all lines masked.
pic_init ==
    << Cmd("P", {4, 0}), Cmd("S", {4, 0}), Dat("P", BitsOf(PIC_PRIMARY_OFFSET)),
       Dat("S", BitsOf(PIC_SECONDARY_OFFSET)), Dat("P", {2}), Dat("S", {1}), Dat("P", {0}), Dat("S", {0}),
       Dat("P", 0 .. 7), Dat("S", 0 .. 7) >>

\* Mutant: the cascade line stays in service.
Mutant_eoi_secondary_only(irq) == << Cmd(Chip(irq), {5} \cup BitsOf(pic_irq_delta(irq))) >>

\* OCW2_EOI | delta.
pic_notify_eoi(irq) ==
    << Cmd(Chip(irq), {5} \cup BitsOf(pic_irq_delta(irq))) >>
        \o IF pic_irq_is_primary(irq) THEN <<>> ELSE << Cmd("P", {5} \cup BitsOf(IRQ_CASCADE)) >>

\* The writes of pic_set_mask and pic_clear_mask, after the mask register was read as imr.
pic_set_mask(irq, imr) == Dat(Chip(irq), imr \cup {pic_irq_delta(irq)})
\* Mutant: the bit is the line's number, not its number on its controller.
Mutant_clear_mask_no_delta(irq, imr) == Dat(Chip(irq), imr \ {irq})

pic_clear_mask(irq, imr) == Dat(Chip(irq), imr \ {pic_irq_delta(irq)})
=============================================================================
