------------------------------- MODULE Printf -------------------------------
(***************************************************************************)
(* The part of firmware/src/printf/printf.c that the firmware's formats    *)
(* reach: %s, %d and %u with the 0 flag and a width, into a buffer of n    *)
(* bytes.  A format is the sequence of its pieces; how the format string   *)
(* is split into them is left out, as are the flags, precisions and bases  *)
(* that no format of the firmware has.                                     *)
(***************************************************************************)
EXTENDS Integers, Sequences

Digit == <<"0", "1", "2", "3", "4", "5", "6", "7", "8", "9">>

\* The loop of print_integer leaves the digits in buf, the last one first, and
\* out_rev_ puts them out backwards; 0 has one digit.  A value of 32 bits never
\* fills buf.
Digits(value) ==
    LET text[v \in Nat] == (IF v < 10 THEN "" ELSE text[v \div 10]) \o Digit[(v % 10) + 1]
    IN  text[value]

\* print_integer_finalization and out_rev_: what is missing to the width, at most
\* eight characters, is zeros or spaces in front.
Padding(missing, zeropad) == SubSeq(IF zeropad THEN "00000000" ELSE "        ", 1, missing)

print_integer(value, width, zeropad) ==
    Padding(width - Len(Digits(value)), zeropad) \o Digits(value)

\* putchar_via_gadget counts every character and stores those that fit;
\* append_termination_with_gadget ends the text, on the last byte if it is full.
Gadget(text, n) == SubSeq(text, 1, IF Len(text) < n THEN Len(text) ELSE n - 1)

\* The pieces %u and %0<width>u; %s and what stands between them is the text.
U(value) == print_integer(value, 0, FALSE)
U0(width, value) == print_integer(value, width, TRUE)

\* The pieces, one after the other.
format_string_loop(pieces) ==
    LET upto[i \in 0..Len(pieces)] == IF i = 0 THEN "" ELSE upto[i - 1] \o pieces[i]
    IN  upto[Len(pieces)]

snprintf(n, pieces) == Gadget(format_string_loop(pieces), n)
=============================================================================
