------------------------------- MODULE Render -------------------------------
(***************************************************************************)
(* The LaTeX rendering of scripts/make_plots.py: latex_escape, is_nan,     *)
(* format_cell and write_minimal_latex_table (lines 108-196).             *)
(*                                                                         *)
(* Text is a sequence of tokens: a one-character string for every LaTeX   *)
(* special and every digit, and a plain word for a run of letters that    *)
(* holds none (str.replace of a one-character key only ever touches the   *)
(* special tokens).  A column name is its "_"-separated words, so         *)
(* startswith and endswith are tests on its first and last words.  A      *)
(* table line is its sequence of cells; the " & " joins, the "\\" ends    *)
(* and the \hline rules are layout and left out.                          *)
(***************************************************************************)
EXTENDS Integers, Sequences, PyValues, TLC
LOCAL INSTANCE SequencesExt

Specials == {"\\", "&", "%", "$", "#", "_", "{", "}", "~", "^"}

(* The column name as written: its words joined by "_".                   *)
Name(col) == FlattenSeq([i \in 1..(2 * Len(col) - 1) |->
                           IF i % 2 = 1 THEN <<col[(i + 1) \div 2]>> ELSE <<"_">>])

(* Lines 112-123: the replacement dict, in its insertion order.           *)
ReplOrder ==
  << <<"\\", <<"\\", "textbackslash", "{", "}">> >>,
     <<"&", <<"\\", "&">> >>, <<"%", <<"\\", "%">> >>, <<"$", <<"\\", "$">> >>,
     <<"#", <<"\\", "#">> >>, <<"_", <<"\\", "_">> >>,
     <<"{", <<"\\", "{">> >>, <<"}", <<"\\", "}">> >>,
     <<"~", <<"\\", "textasciitilde", "{", "}">> >>,
     <<"^", <<"\\", "textasciicircum", "{", "}">> >> >>

(* str.replace(k, v) of a one-character k: every k token becomes v.      *)
Replace(t, k, v) == FlattenSeq([i \in DOMAIN t |-> IF t[i] = k THEN v ELSE <<t[i]>>])

(* Lines 108-126, latex_escape: s.replace(k, v) for every entry in turn,  *)
(* each applied to the text the ones before it produced.                 *)
LatexEscape(s) == FoldLeft(LAMBDA t, kv : Replace(t, kv[1], kv[2]), s, ReplOrder)

(* Lines 129-133, is_nan: None or a float NaN (numpy's float64 is a      *)
(* float).                                                               *)
IsNaN(x) == x.nan

(* str(int) and the digits of a fixed-point format.                       *)
RECURSIVE DigitsOf(_)
DigitsOf(n) ==
  IF n < 10 THEN <<ToString(n)>> ELSE DigitsOf(n \div 10) \o <<ToString(n % 10)>>

IntCols == {<<"h3", "res">>, <<"target", "rps">>, <<"n", "reps">>, <<"errors", "sum">>}

(* f"{x:.1f}" of a skew held in tenths, and f"{x:.3f}".                  *)
Fixed1(tenths) == DigitsOf(tenths \div 10) \o <<".", ToString(tenths % 10)>>
Fixed3(v) == DigitsOf(v) \o <<".", "0", "0", "0">>

(* Mutant of FormatCell: the skew printed as an integer column.           *)
FormatCellZipfAsInt(val, col) ==
  CASE IsNaN(val)                                  -> <<"-", "-">>
    [] col \in IntCols \cup {<<"zipf", "s">>}      -> DigitsOf(val.v)
    [] SubSeq(col, 1, 3) = <<"best", "h3", "res">> -> DigitsOf(val.v)
    [] OTHER                                       -> Fixed3(val.v)

(* Lines 136-163, format_cell, on the numbers load_csvs and write_tables *)
(* produce: float() never fails on them, so the except branches are not *)
(* taken, and int(round(float(v))) of a whole number is that number.     *)
(* The best_*_ms branch and the last one both print .3f.                 *)
FormatCell(val, col) ==
  CASE IsNaN(val)                                  -> <<"-", "-">>
    [] col \in IntCols                             -> DigitsOf(val.v)
    [] col = <<"zipf", "s">>                       -> Fixed1(val.v)
    [] SubSeq(col, 1, 3) = <<"best", "h3", "res">> -> DigitsOf(val.v)
    [] OTHER                                       -> Fixed3(val.v)

(* Lines 169-179: the columns right-aligned and given to format_cell;    *)
(* the only other column the tables have is the scenario.               *)
IsNumericLike(col) == col # <<"scenario">>

(* Lines 166-196, write_minimal_latex_table(df, columns): the alignment  *)
(* spec, the escaped header and one line per row in frame order; df[k]  *)
(* maps each column to row k's cell (row.get(c)).                        *)
TexTable(df, cols) ==
  [align  |-> [i \in DOMAIN cols |-> IF IsNumericLike(cols[i]) THEN "r" ELSE "l"],
   header |-> [i \in DOMAIN cols |-> LatexEscape(Name(cols[i]))],
   body   |-> [k \in DOMAIN df |->
                [i \in DOMAIN cols |->
                   IF IsNumericLike(cols[i]) THEN FormatCell(df[k][cols[i]], cols[i])
                   ELSE LatexEscape(<<df[k][cols[i]]>>)]]]

-----------------------------------------------------------------------------
(* What a reader of the typeset table gets back.                           *)

(* The escape a LaTeX table wants: every special character, and only it, *)
(* replaced once by the command that prints it.                          *)
EscapeRef(s) ==
  LET Esc(c) == CHOOSE kv \in ToSet(ReplOrder) : kv[1] = c
  IN  FlattenSeq([i \in DOMAIN s |-> IF s[i] \in Specials THEN Esc(s[i])[2] ELSE <<s[i]>>])

(* A decimal numeral read back: its value times 10^(digits after ".").    *)
DigitVal(d) == CHOOSE n \in 0..9 : ToString(n) = d
ReadScaled(s) ==
  LET num == SelectSeq(s, LAMBDA c : c # ".")
  IN  FoldLeft(LAMBDA acc, d : 10 * acc + DigitVal(d), 0, num)
Decimals(s) ==
  LET p == SelectInSeq(s, LAMBDA c : c = ".") IN IF p = 0 THEN 0 ELSE Len(s) - p
IsNumeral(s) == s # <<>> /\ \A i \in DOMAIN s : s[i] = "." \/ s[i] \in {ToString(n) : n \in 0..9}
=============================================================================
