------------------------------ MODULE Selection ------------------------------
(***************************************************************************)
(* What retain, filter and WHERE leave of a sequence.  Where SelectSeq     *)
(* takes a test, this takes the positions that pass it, a set the provers  *)
(* can reason about.                                                       *)
(***************************************************************************)
EXTENDS SequencesExt

\* The elements at the given positions, in their order.
Selected(s, positions) ==
  FlattenSeq([i \in DOMAIN s |-> IF i \in positions THEN <<s[i]>> ELSE <<>>])
===============================================================================
