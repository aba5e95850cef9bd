------------------------------- MODULE Shifts -------------------------------
(* Numbers taken apart and put together the way the codecs do it: v >> n,   *)
(* and an accumulator that takes one digit after another.                   *)
EXTENDS Integers, Sequences

ShiftRight(v, n) ==     \* of a negative v as well
  LET shifted[i \in 0..n] == IF i = 0 THEN v ELSE shifted[i - 1] \div 2
  IN shifted[n]

(* What acc = (acc * m) + digit has made of `start' after each digit.       *)
Accumulated(m, start, digits) ==
  LET acc[i \in 0..Len(digits)] == IF i = 0 THEN start ELSE m * acc[i - 1] + digits[i]
  IN acc
Number(m, digits) == Accumulated(m, 0, digits)[Len(digits)]
=============================================================================
