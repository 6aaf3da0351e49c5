----------------------------- MODULE MCOutputs -----------------------------
(***************************************************************************)
(* Two corpora: c1 with two runs that fall into one group, and c2 whose   *)
(* roots hold no run, so main() warns and writes header-only files.  Three *)
(* invocations are enough for a whole pair, a torn rewrite of it, and a   *)
(* later run over the other corpus.                                       *)
(***************************************************************************)
EXTENDS Outputs, TLC

CONSTANTS c1, c2

MCLongRows == [c \in Corpora |-> IF c = c1 THEN 2 ELSE 0]
MCAggRows  == [c \in Corpora |-> IF c = c1 THEN 1 ELSE 0]
=============================================================================
