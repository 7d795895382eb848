---------------------------- MODULE MCInterrupts ----------------------------
(***************************************************************************)
(* Instance of Interrupts: the timer, the line a spurious request of the   *)
(* primary controller shows up on, and the first line of the secondary     *)
(* controller; firmware with the PC's or with EDK2's vectors, all lines    *)
(* masked or none.                                                         *)
(***************************************************************************)
EXTENDS Interrupts

MCDevices == {0, 7, 8}
MCExceptions == {3, 14}
Controller(offset, mask) == [imr |-> mask, irr |-> {}, isr |-> {}, offset |-> offset, icw |-> 0]
MCFirmware == {[P |-> Controller(8, {}), S |-> Controller(112, {})],
               [P |-> Controller(104, 0 .. 7), S |-> Controller(112, 0 .. 7)]}
MCVectors == {3, 8, 14, 15, 104, 111, 112, 119, 32, 39, 40, 47}
MC_g_tss == {63, 47, 32, 31, 24, 23, 5}
=============================================================================
