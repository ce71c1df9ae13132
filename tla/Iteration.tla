----------------------------- MODULE Iteration -----------------------------
(***************************************************************************)
(* A loop over a sequence: what is left of a value when the elements have  *)
(* acted on it one after the other.                                        *)
(***************************************************************************)
EXTENDS Naturals, Sequences

InTurn(op(_, _), q, cs) ==
  LET after[n \in 0..Len(cs)] == IF n = 0 THEN q ELSE op(after[n - 1], cs[n])
  IN  after[Len(cs)]
=============================================================================
