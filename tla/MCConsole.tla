----------------------------- MODULE MCConsole ------------------------------
(***************************************************************************)
(* Instance of Console: words of one byte, so that -128 is INT64_MIN; log  *)
(* calls with every conversion, padded and not (but for the fields on      *)
(* which log.c and printf differ: blanks before a sign, widths of %s and   *)
(* %c), and with scopes of every kind; stacks that end in every way the    *)
(* walk can, with the firmware's frame pointer below the kernel's, and one *)
(* that leads up to an address which is not mapped.                        *)
(***************************************************************************)
EXTENDS Console

Item(k, arg, width, zero) == [k |-> k, arg |-> arg, width |-> width, zero |-> zero]
Lit(c) == [k |-> "chr", c |-> c]
Msg(level, fmt) == [level |-> level, scope |-> <<"m", "a", "i", "n">>, fmt |-> fmt]

MCMessages == {
    Msg(KLOG_DEBUG, <<Lit("="), Item("X", 171, 4, TRUE)>>),
    Msg(KLOG_INFO, <<Item("d", -128, 6, TRUE), Item("d", -5, 0, FALSE), Item("d", 107, 2, FALSE)>>),
    Msg(KLOG_INFO, <<Item("u", 0, 0, FALSE), Item("x", 255, 5, FALSE), Item("p", 160, 0, FALSE)>>),
    Msg(KLOG_WARN, <<Item("s", <<"a", "\n">>, 0, FALSE), Item("s", <<"NULL">>, 0, FALSE), Lit("\n")>>),
    [level |-> KLOG_ERROR, scope |-> <<"v", "m", "x", "_", "i", "n", "i", "t">>,
     fmt |-> <<Item("c", "k", 0, FALSE), Item("%", 0, 0, FALSE), Item("q", 0, 0, FALSE)>>],
    [level |-> KLOG_ERROR, scope |-> <<"NULL">>, fmt |-> <<>>],
    [level |-> KLOG_ERROR, scope |-> <<"r", "e", "a", "l", "m", "e", "m">>, fmt |-> <<Lit("."), Lit("\n"), Lit("\n")>>]}

MCOops == Msg(KLOG_ERROR, <<Item("u", 39, 0, FALSE), Item("x", 0, 4, TRUE)>>)

\* kernelMain's frame at 200, the trampoline's at 216; 40 is what the firmware left in RBP.
Frame(next, rip) == [next |-> next, rip |-> rip]
MCStacks == {
    [rbp |-> 200, frames |-> (200 :> Frame(216, 240)) @@ (216 :> Frame(40, 241))],
    [rbp |-> 200, frames |-> (200 :> Frame(216, 240)) @@ (216 :> Frame(216, 241))],
    [rbp |-> 200, frames |-> (200 :> Frame(216, 240)) @@ (216 :> Frame(0, 100))],
    [rbp |-> 200, frames |-> (200 :> Frame(216, 240)) @@ (216 :> Frame(219, 241))],
    [rbp |-> 200, frames |-> (200 :> Frame(216, 240)) @@ (216 :> Frame(232, 241))],
    [rbp |-> 200, frames |-> (200 :> Frame(208, 240)) @@ (208 :> Frame(216, 241))
                             @@ (216 :> Frame(224, 242)) @@ (224 :> Frame(232, 243))]}
=============================================================================
