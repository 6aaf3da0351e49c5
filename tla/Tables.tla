------------------------------- MODULE Tables -------------------------------
(***************************************************************************)
(* The table writer of scripts/make_plots.py: write_tables(df_agg, ...),   *)
(* run on runs_agg.csv after load_csvs has coerced its numeric columns     *)
(* (a cell that is not a number becomes NaN).                              *)
(*                                                                         *)
(* It writes three tables one after another: the 800 rps summary, the     *)
(* load-sensitivity table, and the best cache resolution per skew.  The   *)
(* last one is the data logic of the module: keep the cache rows at 800   *)
(* rps with resolution 7, 8 or 9, drop rows missing skew, throughput or   *)
(* target, keep those whose median throughput is at least 95% of the      *)
(* target, and for every skew pick, per latency metric, the row with the  *)
(* smallest median (the first one in frame order on a tie).               *)
(*                                                                         *)
(* A row is [scenario, h3_res, zipf_s, target_rps, thr, lat, errors,    *)
(* cpu] where lat maps each latency metric to its median; numbers are     *)
(* PyValues records (pandas compares NaN by value, never equal to         *)
(* anything).  p95 is computed exactly as p50 and p99 and is represented  *)
(* by them, and cpu stands for the four resource medians.  Writing a      *)
(* table is modelled by the rows it holds, in order (its .csv), and by    *)
(* the .tex that write_minimal_latex_table makes of them.                 *)
(***************************************************************************)
EXTENDS Integers, Sequences, SequencesExt, FiniteSets, PyValues, TLC, Render

CONSTANTS
  AggTables,   \* set of possible df_agg frames (sequences of rows)
  Metrics,     \* the latency metrics best_for is asked about
  Skipped      \* a table that was not written

VARIABLES
  df,          \* df_agg (input, fixed by Init)
  tpc,         \* "t1", "t2", "t3", "best", "done"
  t1, t2,      \* the 800 rps summary and the load table, or Skipped
  zs,          \* skews still to visit in the best-config loop
  bestRows,    \* the rows built so far
  t3,          \* the best-config table, or Skipped
  warned,      \* the tables skipped with a warning
  tex          \* tex[t]: the .tex file of table t, or Skipped

tVars == <<df, tpc, t1, t2, zs, bestRows, t3, warned, tex>>

(* pandas ==, <, >= on numbers: false whenever a NaN is involved.         *)
PdEq(a, n) == ~a.nan /\ a.v = n
PdIn(a, S) == ~a.nan /\ a.v \in S

(* sort_values(cols): a stable lexicographic sort, NaN after every        *)
(* number in each column.  Row positions break the remaining ties, which *)
(* is what stability gives.                                               *)
NumBefore(a, b) == (~a.nan /\ b.nan) \/ (~a.nan /\ ~b.nan /\ a.v < b.v)
NumSame(a, b) == (a.nan /\ b.nan) \/ (~a.nan /\ ~b.nan /\ a.v = b.v)
RECURSIVE LexBefore(_, _)
LexBefore(x, y) ==
  IF x = <<>> THEN FALSE
  ELSE \/ NumBefore(Head(x), Head(y))
       \/ NumSame(Head(x), Head(y)) /\ LexBefore(Tail(x), Tail(y))

ScenarioNum(s) == Num(CASE s = "baseline" -> 0 [] s = "cache" -> 1 [] OTHER -> 2)

SortRows(rows, Cols(_)) ==
  LET idx == SortSeq([i \in DOMAIN rows |-> i],
                     LAMBDA i, j : LexBefore(Cols(rows[i]) \o <<Num(i)>>,
                                             Cols(rows[j]) \o <<Num(j)>>))
  IN  [k \in DOMAIN idx |-> rows[idx[k]]]

Where(rows, P(_)) == SelectSeq(rows, P)

(* Lines 655, 673-676, 688-690 and 695-696: the row filters.              *)
Is800(r) == PdEq(r.target_rps, 800)
IsLoadRow(r) ==
  /\ PdEq(r.zipf_s, 13)
  /\ \/ r.scenario = "baseline" /\ PdEq(r.h3_res, 0)
     \/ r.scenario = "cache" /\ PdEq(r.h3_res, 8)
  /\ PdIn(r.target_rps, {600, 800, 1000})
IsCacheSource(r) == Is800(r) /\ r.scenario = "cache" /\ PdIn(r.h3_res, {7, 8, 9})
(* Mutant of Sustains: strictly more than 95% of the target.             *)
SustainsStrict(r) ==
  /\ ~r.zipf_s.nan /\ ~r.thr.nan /\ ~r.target_rps.nan
  /\ 100 * r.thr.v > 95 * r.target_rps.v
Sustains(r) ==
  /\ ~r.zipf_s.nan /\ ~r.thr.nan /\ ~r.target_rps.nan
  /\ 100 * r.thr.v >= 95 * r.target_rps.v

T3Src == Where(Where(df, IsCacheSource), Sustains)

(* Lines 707-712, best_for(metric): drop the rows whose metric is NaN;   *)
(* none left gives (None, NaN); else idxmin, the first row holding the   *)
(* smallest value.                                                       *)
BestFor(zdf, m) ==
  LET cand == Where(zdf, LAMBDA r : ~r.lat[m].nan)
      low  == CHOOSE v \in {cand[i].lat[m].v : i \in DOMAIN cand} :
                \A i \in DOMAIN cand : v <= cand[i].lat[m].v
      first == CHOOSE i \in DOMAIN cand :
                 cand[i].lat[m].v = low /\ \A j \in 1..i - 1 : cand[j].lat[m].v # low
  IN  IF cand = <<>> THEN [h3 |-> NaNObj("best"), ms |-> NaNObj("best")]
      ELSE [h3 |-> cand[first].h3_res, ms |-> Num(low)]

BestRow(z) ==
  LET zdf == Where(T3Src, LAMBDA r : PdEq(r.zipf_s, z))
  IN  [zipf_s |-> Num(z), best |-> [m \in Metrics |-> BestFor(zdf, m)]]

(* Lines 647-654, 667-672 and 733-738: the columns of the three tables,  *)
(* each name as its "_"-separated words (n_reps, a count, is left out).  *)
Cols800 == << <<"scenario">>, <<"h3", "res">>, <<"zipf", "s">>,
              <<"p50", "ms", "median">>, <<"p99", "ms", "median">>,
              <<"throughput", "rps", "median">>, <<"errors", "sum">>,
              <<"postgis", "cpu", "avg", "pct", "median">> >>
ColsLoad == << <<"scenario">>, <<"h3", "res">>, <<"target", "rps">>,
               <<"p50", "ms", "median">>, <<"p99", "ms", "median">>,
               <<"throughput", "rps", "median">>, <<"errors", "sum">>,
               <<"postgis", "cpu", "avg", "pct", "median">> >>
ColsBest == << <<"zipf", "s">>, <<"best", "h3", "res", "p50">>, <<"best", "p50", "ms">>,
               <<"best", "h3", "res", "p99">>, <<"best", "p99", "ms">> >>

(* t[cols]: the cells of a row of df_agg, and of a best-config row.      *)
AggCells(r) ==
  [c \in ToSet(Cols800) \cup ToSet(ColsLoad) |->
     CASE c = <<"scenario">> -> r.scenario [] c = <<"h3", "res">> -> r.h3_res
       [] c = <<"zipf", "s">> -> r.zipf_s  [] c = <<"target", "rps">> -> r.target_rps
       [] c[1] \in Metrics -> r.lat[c[1]] [] c[1] = "throughput" -> r.thr
       [] c[1] = "errors" -> r.errors      [] OTHER -> r.cpu]
BestCells(r) ==
  [c \in ToSet(ColsBest) |->
     CASE c = <<"zipf", "s">> -> r.zipf_s
       [] Len(c) = 4 -> r.best[c[4]].h3
       [] OTHER -> r.best[c[2]].ms]

-----------------------------------------------------------------------------
TInit ==
  /\ df \in AggTables
  /\ tpc = "t1"
  /\ t1 = Skipped /\ t2 = Skipped /\ t3 = Skipped
  /\ zs = <<>> /\ bestRows = <<>>
  /\ warned = {}
  /\ tex = [t \in {"t1", "t2", "t3"} |-> Skipped]

(* Mutant of WriteSummary800: the whole frame sorted in place of t1.      *)
WriteSummary800Unfiltered ==
  /\ tpc = "t1"
  /\ Where(df, Is800) # <<>>
  /\ t1' = SortRows(df, LAMBDA r : <<r.zipf_s, ScenarioNum(r.scenario), r.h3_res>>)
  /\ tex' = [tex EXCEPT !["t1"] = TexTable([k \in DOMAIN t1' |-> AggCells(t1'[k])], Cols800)]
  /\ tpc' = "t2"
  /\ UNCHANGED <<df, t2, zs, bestRows, t3, warned>>

(* Lines 655-665: the 800 rps rows, sorted by skew, scenario, resolution, *)
(* written as .csv and as .tex.                                            *)
WriteSummary800 ==
  /\ tpc = "t1"
  /\ Where(df, Is800) # <<>>
  /\ t1' = SortRows(Where(df, Is800),
                    LAMBDA r : <<r.zipf_s, ScenarioNum(r.scenario), r.h3_res>>)
  /\ tex' = [tex EXCEPT !["t1"] = TexTable([k \in DOMAIN t1' |-> AggCells(t1'[k])], Cols800)]
  /\ tpc' = "t2"
  /\ UNCHANGED <<df, t2, zs, bestRows, t3, warned>>

(* Lines 656-657.                                                          *)
SkipSummary800 ==
  /\ tpc = "t1"
  /\ Where(df, Is800) = <<>>
  /\ warned' = warned \cup {"t1"}
  /\ tpc' = "t2"
  /\ UNCHANGED <<df, t1, t2, zs, bestRows, t3, tex>>

(* Lines 673-686: skew 1.3, baseline r0 or cache r8, 600/800/1000 rps,   *)
(* sorted by target, scenario, resolution.                                *)
WriteLoadTable ==
  /\ tpc = "t2"
  /\ Where(df, IsLoadRow) # <<>>
  /\ t2' = SortRows(Where(df, IsLoadRow),
                    LAMBDA r : <<r.target_rps, ScenarioNum(r.scenario), r.h3_res>>)
  /\ tex' = [tex EXCEPT !["t2"] = TexTable([k \in DOMAIN t2' |-> AggCells(t2'[k])], ColsLoad)]
  /\ tpc' = "t3"
  /\ UNCHANGED <<df, t1, zs, bestRows, t3, warned>>

(* Lines 677-678.                                                          *)
SkipLoadTable ==
  /\ tpc = "t2"
  /\ Where(df, IsLoadRow) = <<>>
  /\ warned' = warned \cup {"t2"}
  /\ tpc' = "t3"
  /\ UNCHANGED <<df, t1, t2, zs, bestRows, t3, tex>>

(* Lines 688-693: no cache row at 800 rps with resolution 7, 8 or 9.     *)
SkipBestNoCache ==
  /\ tpc = "t3"
  /\ Where(df, IsCacheSource) = <<>>
  /\ warned' = warned \cup {"t3"}
  /\ tpc' = "done"
  /\ UNCHANGED <<df, t1, t2, zs, bestRows, t3, tex>>

(* Lines 695-699: none left after dropna and the 95% filter.             *)
SkipBestNoneSustain ==
  /\ tpc = "t3"
  /\ Where(df, IsCacheSource) # <<>>
  /\ T3Src = <<>>
  /\ warned' = warned \cup {"t3"}
  /\ tpc' = "done"
  /\ UNCHANGED <<df, t1, t2, zs, bestRows, t3, tex>>

(* Line 702: sorted(t3src["zipf_s"].unique()).                            *)
StartBest ==
  /\ tpc = "t3"
  /\ T3Src # <<>>
  /\ zs' = SortSeq(SetToSeq({T3Src[i].zipf_s.v : i \in DOMAIN T3Src}), <)
  /\ tpc' = "best"
  /\ UNCHANGED <<df, t1, t2, bestRows, t3, warned, tex>>

(* Lines 702-726: one row per skew.  zdf is never empty, since z was     *)
(* taken from t3src, so the `continue` at 704-705 is never taken.         *)
AppendBestRow ==
  /\ tpc = "best" /\ zs # <<>>
  /\ bestRows' = Append(bestRows, BestRow(Head(zs)))
  /\ zs' = Tail(zs)
  /\ UNCHANGED <<df, tpc, t1, t2, t3, warned, tex>>

(* Lines 728-746: every skew gave a row, so t3 is never empty here and   *)
(* the warning at 730 is never issued; sort by skew and write.           *)
WriteBestTable ==
  /\ tpc = "best" /\ zs = <<>>
  /\ t3' = SortRows(bestRows, LAMBDA r : <<r.zipf_s>>)
  /\ tex' = [tex EXCEPT !["t3"] = TexTable([k \in DOMAIN t3' |-> BestCells(t3'[k])], ColsBest)]
  /\ tpc' = "done"
  /\ UNCHANGED <<df, t1, t2, zs, bestRows, warned>>

TDone == tpc = "done" /\ UNCHANGED tVars

TNext ==
  \/ WriteSummary800 \/ SkipSummary800
  \/ WriteLoadTable \/ SkipLoadTable
  \/ SkipBestNoCache \/ SkipBestNoneSustain \/ StartBest
  \/ AppendBestRow \/ WriteBestTable
  \/ TDone

TSpec == TInit /\ [][TNext]_tVars

-----------------------------------------------------------------------------
(* A float cell of the table: a number, or the NaN best_for returns.     *)
IsNum(x) == x \in [nan : {FALSE}, v : Int, id : {"num"}] \/ x \in {NaNObj("best")}

TTypeOK ==
  /\ tpc \in {"t1", "t2", "t3", "best", "done"}
  /\ t1 = Skipped \/ \A k \in DOMAIN t1 : t1[k].target_rps = Num(800)
  /\ t2 = Skipped \/ \A k \in DOMAIN t2 : t2[k].target_rps \in {Num(600), Num(800), Num(1000)}
  /\ warned \subseteq {"t1", "t2", "t3"}
  /\ \A r \in ToSet(bestRows) \cup (IF t3 = Skipped THEN {} ELSE ToSet(t3)) :
       \A m \in Metrics : IsNum(r.best[m].h3) /\ IsNum(r.best[m].ms)

(* Which cache configurations sustain the load, stated independently of *)
(* the code's filter: at least 19/20 of the target, all three known.     *)
RefSustaining ==
  {i \in DOMAIN df :
     /\ df[i].scenario = "cache"
     /\ ~df[i].target_rps.nan /\ df[i].target_rps.v = 800
     /\ ~df[i].h3_res.nan /\ df[i].h3_res.v \in 7..9
     /\ ~df[i].zipf_s.nan /\ ~df[i].thr.nan
     /\ 20 * df[i].thr.v >= 19 * df[i].target_rps.v}

(* The best-config table (lines 688-746) has one row per skew at which   *)
(* some cache resolution sustains 800 rps, in ascending skew; for each    *)
(* latency metric it reports a sustaining resolution at that skew whose   *)
(* median is the smallest there, and NaN for both cells when none of     *)
(* them has that median; and when no configuration sustains the load    *)
(* the table is skipped with a warning.                                  *)
BestConfigMatchesReference ==
  tpc = "done" =>
    IF RefSustaining = {} THEN t3 = Skipped /\ "t3" \in warned
    ELSE
      LET Z == {df[i].zipf_s.v : i \in RefSustaining}
      IN  /\ t3 # Skipped
          /\ {r.zipf_s.v : r \in ToSet(t3)} = Z /\ Len(t3) = Cardinality(Z)
          /\ \A k \in 1..Len(t3) - 1 : t3[k].zipf_s.v < t3[k + 1].zipf_s.v
          /\ \A r \in ToSet(t3), m \in Metrics :
               LET C == {i \in RefSustaining : df[i].zipf_s.v = r.zipf_s.v /\ ~df[i].lat[m].nan}
               IN  IF C = {} THEN r.best[m].h3.nan /\ r.best[m].ms.nan
                   ELSE \E i \in C : /\ r.best[m].h3 = df[i].h3_res
                                     /\ r.best[m].ms = Num(df[i].lat[m].v)
                                     /\ \A j \in C : df[i].lat[m].v <= df[j].lat[m].v

(* A cell of a typeset table gives back its value: the scenario's name,   *)
(* "--" for NaN, otherwise a numeral whose value is the number (a skew is *)
(* held in tenths).                                                       *)
ShowsValue(cell, v, col) ==
  IF ~IsNumericLike(col) THEN cell = EscapeRef(<<v>>)
  ELSE IF v.nan THEN cell = <<"-", "-">>
  ELSE /\ IsNumeral(cell)
       /\ ReadScaled(cell) * (IF col = <<"zipf", "s">> THEN 10 ELSE 1) = v.v * 10^Decimals(cell)
Shows(file, cells, cols) ==
  /\ file.header = [i \in DOMAIN cols |-> EscapeRef(Name(cols[i]))]
  /\ DOMAIN file.body = DOMAIN cells
  /\ \A k \in DOMAIN cells, i \in DOMAIN cols :
       ShowsValue(file.body[k][i], cells[k][cols[i]], cols[i])

(* Each .tex table that write_tables writes (lines 663-665, 684-686,     *)
(* 744-746 through write_minimal_latex_table and format_cell) exists     *)
(* exactly when its .csv does and shows the same table: the column names *)
(* under the header, then one line per .csv row in the same order, each *)
(* cell reading back as that row's value, "--" exactly where it is NaN.  *)
TexShowsTables ==
  /\ (tex["t1"] = Skipped) = (t1 = Skipped)
  /\ (tex["t2"] = Skipped) = (t2 = Skipped)
  /\ (tex["t3"] = Skipped) = (t3 = Skipped)
  /\ t1 # Skipped => Shows(tex["t1"], [k \in DOMAIN t1 |-> AggCells(t1[k])], Cols800)
  /\ t2 # Skipped => Shows(tex["t2"], [k \in DOMAIN t2 |-> AggCells(t2[k])], ColsLoad)
  /\ t3 # Skipped => Shows(tex["t3"], [k \in DOMAIN t3 |-> BestCells(t3[k])], ColsBest)
=============================================================================
