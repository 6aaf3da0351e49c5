------------------------------ MODULE PyValues ------------------------------
(***************************************************************************)
(* The scalar values that flow through scripts/collect_results.py and the  *)
(* best-effort conversions applied to them (safe_float, safe_int,          *)
(* median_ignore_nan).                                                     *)
(*                                                                         *)
(* Numbers are abstract naturals (a skew of 1.3 may be written 13).  Every *)
(* number, a JSON int or a float, is a record.  A NaN float carries the    *)
(* identity of its object, because dict keys and tuple comparison in       *)
(* CPython test identity before ==, so two NaN objects are the same key    *)
(* only when they are the same object.  A non-NaN float has the canonical  *)
(* id "num": equal values are equal keys.                                  *)
(***************************************************************************)
EXTENDS Integers, Sequences, FiniteSets

CONSTANTS
  Null,     \* JSON null, Python None
  Blank,    \* the empty string "" (the default every row cell starts with)
  NaNStr    \* a string that float() cannot parse to a number, or "nan"

Num(n) == [nan |-> FALSE, v |-> n, id |-> "num"]
NaNObj(id) == [nan |-> TRUE, v |-> 0, id |-> id]

(* A raw cell of a summary or of a long-table row is a sentinel or a      *)
(* number record.                                                          *)
IsNumber(x) == x \notin {Null, Blank, NaNStr} /\ ~x.nan

(* safe_float(x): None, "" and unparsable strings give a NEW nan object   *)
(* (float("nan") allocates); an exact float is returned as the same       *)
(* object; an int or a numeric string becomes a float of equal value.     *)
(* `fresh` is the identity the new NaN object gets.                       *)
SafeFloat(x, fresh) ==
  IF x \in {Null, Blank, NaNStr} THEN NaNObj(fresh) ELSE x

(* safe_int(x, default): None and "" give the default; an int is kept;   *)
(* int(float("nan")) raises ValueError, caught, so NaN gives the default.*)
SafeInt(x, default) ==
  IF IsNumber(x) THEN x.v ELSE default

(* The non-NaN numbers of a sequence of raw cells, in order.               *)
NumsOf(values) ==
  LET keep == SelectSeq(values, IsNumber)
  IN  [i \in 1..Len(keep) |-> keep[i].v]

RECURSIVE InsertSorted(_, _)
InsertSorted(x, s) ==
  IF s = <<>> \/ x <= Head(s) THEN <<x>> \o s
  ELSE <<Head(s)>> \o InsertSorted(x, Tail(s))

RECURSIVE SortNat(_)
SortNat(s) == IF s = <<>> THEN <<>> ELSE InsertSorted(Head(s), SortNat(Tail(s)))

(* Mutant of MedianIgnoreNaN: the lower middle value for an even count. *)
MedianLow(values) ==
  LET nums == SortNat(NumsOf(values))
      n    == Len(nums)
  IN  IF n = 0 THEN NaNObj("median")
      ELSE IF n % 2 = 1 THEN Num(2 * nums[(n \div 2) + 1])
      ELSE Num(2 * nums[n \div 2])

(* median_ignore_nan(values): keep the values safe_float maps to a       *)
(* non-NaN number, then statistics.median: sort, the middle element for  *)
(* an odd count, the mean of the two middle ones for an even count, NaN  *)
(* for none.  The result is returned doubled, so that a mean of two      *)
(* naturals stays a natural: [nan |-> FALSE, v |-> 2 * median].          *)
MedianIgnoreNaN(values) ==
  LET nums == SortNat(NumsOf(values))
      n    == Len(nums)
  IN  IF n = 0 THEN NaNObj("median")
      ELSE IF n % 2 = 1 THEN Num(2 * nums[(n \div 2) + 1])
      ELSE Num(nums[n \div 2] + nums[(n \div 2) + 1])
=============================================================================
