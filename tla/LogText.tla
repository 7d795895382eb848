------------------------------ MODULE LogText -------------------------------
(***************************************************************************)
(* What kernel/log.c sends for a log call, and what it should send.        *)
(*                                                                         *)
(* Text is a sequence of characters; a literal piece that only ever goes   *)
(* out as a whole (a level tag, "(null)") counts as one character.  A      *)
(* format is the sequence of its parsed items: [k |-> "chr", c |-> ...] or *)
(* a conversion [k, arg, width, zero] with k among c s d u x X p.          *)
(***************************************************************************)
EXTENDS Integers, Sequences, SequencesExt

CONSTANTS
    WordSize,   \* 2^64
    PtrDigits   \* hexadecimal digits of a pointer, 16

ASSUME LogTextAssumption == WordSize \in Nat \ {0} /\ PtrDigits \in Nat

KLOG_DEBUG == 0
KLOG_INFO == 1
KLOG_WARN == 2
KLOG_ERROR == 3

digits_l == <<"0", "1", "2", "3", "4", "5", "6", "7", "8", "9", "a", "b", "c", "d", "e", "f">>
digits_u == <<"0", "1", "2", "3", "4", "5", "6", "7", "8", "9", "A", "B", "C", "D", "E", "F">>

global == <<"g", "l", "o", "b", "a", "l">>

Repeat(c, n) == [i \in 1 .. n |-> c]

\* The loop that fills tmp, least significant digit first.
utoa_rev(v, base, digits) ==
    LET rev[x \in 0 .. v] ==
            <<digits[(x % base) + 1]>> \o (IF x \div base = 0 THEN <<>> ELSE rev[x \div base])
    IN rev[v]

\* Mutant: a do-while turned into a while prints nothing for 0.
Mutant_write_uint_no_zero(v, base, width, zero_pad, uppercase) ==
    LET tmp == IF v = 0 THEN <<>> ELSE utoa_rev(v, base, IF uppercase THEN digits_u ELSE digits_l)
        pad == IF width > Len(tmp) THEN width - Len(tmp) ELSE 0 IN
    Repeat(IF zero_pad THEN "0" ELSE " ", pad) \o Reverse(tmp)

write_uint_padded(v, base, width, zero_pad, uppercase) ==
    LET tmp == utoa_rev(v, base, IF uppercase THEN digits_u ELSE digits_l)
        pad == IF width > Len(tmp) THEN width - Len(tmp) ELSE 0 IN
    Repeat(IF zero_pad THEN "0" ELSE " ", pad) \o Reverse(tmp)

\* -x is taken in int64_t and converted to uint64_t.
write_int_padded(x, width, zero_pad) ==
    IF x < 0
    THEN <<"-">> \o write_uint_padded((-x) % WordSize, 10, IF width > 0 THEN width - 1 ELSE 0, zero_pad, FALSE)
    ELSE write_uint_padded(x, 10, width, zero_pad, FALSE)

\* serial_write, and the %s and literal branches of kvprintf: a newline gets a return before it.
WithReturns(s) == FlattenSeq([i \in DOMAIN s |-> IF s[i] = "\n" THEN <<"\r", "\n">> ELSE <<s[i]>>])

\* Seven characters, "-" in the eighth place if the scope is longer; "global" for a null pointer.
write_scope_field(scope) ==
    LET s == IF scope = <<"NULL">> THEN global ELSE scope
        len == IF Len(s) < 7 THEN Len(s) ELSE 7 IN
    WithReturns(SubSeq(s, 1, len) \o Repeat(" ", 7 - len) \o <<IF Len(s) > len THEN "-" ELSE " ", "|", " ">>)

\* One item of the format: a literal, or a conversion and its argument.
kvprintf_item(it) ==
    CASE it.k = "chr" -> WithReturns(<<it.c>>)
      [] it.k = "c" -> <<it.arg>>
      [] it.k = "s" -> IF it.arg = <<"NULL">> THEN <<"(null)">> ELSE WithReturns(it.arg)
      [] it.k = "d" -> write_int_padded(it.arg, it.width, it.zero)
      [] it.k = "u" -> write_uint_padded(it.arg, 10, it.width, it.zero, FALSE)
      [] it.k \in {"x", "X"} -> write_uint_padded(it.arg, 16, it.width, it.zero, it.k = "X")
      [] it.k = "p" -> <<"0x">> \o write_uint_padded(it.arg, 16, PtrDigits, TRUE, FALSE)
      [] it.k = "%" -> <<"%">>
      [] OTHER -> <<"%", it.k>>

kvprintf(fmt) == FlattenSeq([i \in DOMAIN fmt |-> kvprintf_item(fmt[i])])

Tag == <<"[DEBUG] ", "[INFO ] ", "[WARN ] ", "[ERROR] ">>

\* klog_vlogf: tag, scope, text, and "\r\n" through serial_write.
klog_vlogf(m) == <<Tag[m.level + 1]>> \o write_scope_field(m.scope) \o kvprintf(m.fmt) \o WithReturns(<<"\r", "\n">>)
-----------------------------------------------------------------------------
(* ---- the reference: positional notation, the padding of printf, and the comments of log.c ---- *)

\* Every line ends in a return and a newline (serial_write's comment).
Crlf(s) == FoldLeft(LAMBDA out, c : out \o (IF c = "\n" THEN <<"\r", "\n">> ELSE <<c>>), <<>>, s)

\* The number of digits of v, and its i-th digit from the left.
Places(v, base) == CHOOSE n \in 1 .. WordSize : v < base^n /\ (n > 1 => v >= base^(n - 1))
Numeral(v, base, digits) ==
    LET n == Places(v, base) IN [i \in 1 .. n |-> digits[((v \div base^(n - i)) % base) + 1]]

\* printf's field: blanks go in front of the sign, zeros between it and the digits.
Padded(sign, s, width, zero) ==
    LET n == Len(sign) + Len(s)
        fill == Repeat(IF zero THEN "0" ELSE " ", IF width > n THEN width - n ELSE 0) IN
    IF zero THEN sign \o fill \o s ELSE fill \o sign \o s

\* A conversion that is not supported comes out as it stands (kvprintf's comment).
RefItem(it) ==
    CASE it.k = "chr" -> Crlf(<<it.c>>)
      [] it.k = "c" -> Padded(<<>>, <<it.arg>>, it.width, FALSE)
      [] it.k = "s" -> Padded(<<>>, IF it.arg = <<"NULL">> THEN <<"(null)">> ELSE Crlf(it.arg), it.width, FALSE)
      [] it.k = "d" -> Padded(IF it.arg < 0 THEN <<"-">> ELSE <<>>,
                              Numeral(IF it.arg < 0 THEN -it.arg ELSE it.arg, 10, digits_l), it.width, it.zero)
      [] it.k = "u" -> Padded(<<>>, Numeral(it.arg, 10, digits_l), it.width, it.zero)
      [] it.k = "x" -> Padded(<<>>, Numeral(it.arg, 16, digits_l), it.width, it.zero)
      [] it.k = "X" -> Padded(<<>>, Numeral(it.arg, 16, digits_u), it.width, it.zero)
      [] it.k = "p" -> <<"0x">> \o Padded(<<>>, Numeral(it.arg, 16, digits_l), PtrDigits, TRUE)
      [] it.k = "%" -> <<"%">>
      [] OTHER -> <<"%", it.k>>

\* "xxxxxxx | ", or "xxxxxxx-| " of a longer scope (the comment on write_scope_field).
RefScope(scope) ==
    LET s == IF scope = <<"NULL">> THEN global ELSE scope IN
    [i \in 1 .. 7 |-> IF i \in DOMAIN s THEN s[i] ELSE " "] \o <<IF Len(s) > 7 THEN "-" ELSE " ", "|", " ">>

RefLine(m) ==
    <<Tag[m.level + 1]>> \o RefScope(m.scope)
        \o FoldLeft(LAMBDA out, it : out \o RefItem(it), <<>>, m.fmt) \o <<"\r", "\n">>
=============================================================================
