-------------------------------- MODULE Heap --------------------------------
(***************************************************************************)
(* What kernel/bin_alloc.h promises: kmalloc returns memory that satisfies *)
(* the size and the alignment asked for, or NULL; kfree takes it back.     *)
(***************************************************************************)
EXTENDS Integers

CONSTANT Requests    \* [n, align] pairs

VARIABLES
    live,   \* [addr, n, align] of every block the callers hold
    ret     \* the pointer last returned by kmalloc, 0 for NULL

vars == <<live, ret>>

Bytes(a, n) == a .. a + n - 1

Init == live = {} /\ ret = 0

kmalloc(r) ==
    \/ /\ ret' = 0
       /\ UNCHANGED live
    \/ /\ ret' > 0
       /\ \A b \in live : Bytes(ret', r.n) \cap Bytes(b.addr, b.n) = {}
       /\ r.align > 1 => ret' % r.align = 0
       /\ live' = live \cup {[addr |-> ret', n |-> r.n, align |-> r.align]}

kfree(b) ==
    /\ live' = live \ {b}
    /\ UNCHANGED ret

Next == (\E r \in Requests : kmalloc(r)) \/ (\E b \in live : kfree(b))

Spec == Init /\ [][Next]_vars
=============================================================================
