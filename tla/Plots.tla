------------------------------- MODULE Plots -------------------------------
(***************************************************************************)
(* main() of scripts/make_plots.py (lines 749-773): the six plot functions *)
(* on df_agg, one after another, then write_tables (module Tables).  A     *)
(* figure is modelled by what it shows: Skipped when the code warns and    *)
(* saves nothing, else its lines, each a sequence of <<x, y>> points in    *)
(* drawing order.  Styling, labels and file names are left out.  p95 is    *)
(* plotted exactly as p50 and p99 and is represented by them; "cpu"        *)
(* (postgis_cpu_avg_pct_median) stands for the four backend columns of     *)
(* plot E, which are drawn by one loop.  Plot A's replicate scatter and    *)
(* the missed-token plot C9 read runs_long.csv (dfl); a long row is       *)
(* [scenario, h3_res, zipf_s, target_rps, missed, lat].                   *)
(***************************************************************************)
EXTENDS Tables

CONSTANTS
  LongTables,  \* set of possible df_long frames (sequences of long rows)
  Unplotted    \* a figure main() has not reached

VARIABLES
  dfl,         \* df_long (input, fixed by Init)
  ppc,         \* the plot function about to run: "A" .. "F", "tables", "aborted"
  figs         \* figs[<<plot, column>>]: Unplotted, Skipped, or its lines

mpVars == <<tVars, dfl, ppc, figs>>

(* The order of the specs list of plot D (p50, p95, p99).                *)
DMetricOrder == <<"p50", "p99">>
ASSUME ToSet(DMetricOrder) = Metrics

FigIds ==
  ({"A", "As", "B", "D"} \X Metrics)
  \cup {<<"C7", "ratio">>, <<"C8", "errors">>, <<"C9", "missed">>}
  \cup {<<"E", "cpu">>, <<"E17", "cpu">>}
  \cup ({"F"} \X (Metrics \cup {"cpu"})) \cup {<<"F22", "ratio">>}

(* A numeric cell of a row, and achieved_ratio_calc = throughput/target. *)
(* A quotient is kept exact, as the pair it divides.                     *)
Div(a, b) ==
  IF a.nan \/ b.nan THEN NaNObj("div")
  ELSE [nan |-> FALSE, v |-> <<a.v, b.v>>, id |-> "ratio"]
Col(r, c) ==
  CASE c \in Metrics -> r.lat[c]
    [] c = "ratio"   -> Div(r.thr, r.target_rps)
    [] c = "errors"  -> r.errors
    [] c = "cpu"     -> r.cpu

(* Lines 72-90: filter_config and line_configs_for_800.                  *)
IsCfg(r, c) == r.scenario = c[1] /\ PdEq(r.h3_res, c[2])
LineCfgs == {<<"baseline", 0>>, <<"cache", 7>>, <<"cache", 8>>, <<"cache", 9>>}

(* One line of plots A, C and E (lines 250-256): the config's rows with   *)
(* skew and column present, sorted by skew.  sort_values' quicksort is an *)
(* insertion sort on so few rows, hence stable.                          *)
LinePts(rows, c, col) ==
  LET sub == Where(rows, LAMBDA r : IsCfg(r, c) /\ ~r.zipf_s.nan /\ ~Col(r, col).nan)
      srt == SortRows(sub, LAMBDA r : <<r.zipf_s>>)
  IN  [k \in DOMAIN srt |-> <<srt[k].zipf_s, Col(srt[k], col)>>]

LineFigKeepEmpty(rows, col) == [c \in LineCfgs |-> LinePts(rows, c, col)]

(* An empty line is skipped; no line at all warns and saves nothing.     *)
LineFig(rows, col) ==
  LET drawn == {c \in LineCfgs : LinePts(rows, c, col) # <<>>}
  IN  IF drawn = {} THEN Skipped ELSE [c \in drawn |-> LinePts(rows, c, col)]

(* Lines 258-266: under each line drawn, the replicates of that config   *)
(* in runs_long at 800 rps that have skew and column, in row order.      *)
ScatterPts(dfL, c, m) ==
  LET sub == Where(dfL, LAMBDA r : IsCfg(r, c) /\ ~r.zipf_s.nan /\ ~r.lat[m].nan)
  IN  [k \in DOMAIN sub |-> <<sub[k].zipf_s, sub[k].lat[m]>>]
ScatterFig(fig, dfL, m) ==
  IF fig = Skipped THEN Skipped
  ELSE [c \in {c2 \in DOMAIN fig : ScatterPts(dfL, c2, m) # <<>>} |-> ScatterPts(dfL, c, m)]

(* Lines 233-278.                                                          *)
PlotLatencyVsZipf ==
  /\ ppc = "A"
  /\ LET dfA == Where(df, Is800)
         Fig(m) == IF dfA = <<>> THEN Skipped ELSE LineFig(dfA, m)
     IN  figs' = [id \in {"A", "As"} \X Metrics |->
                    IF id[1] = "A" THEN Fig(id[2])
                    ELSE ScatterFig(Fig(id[2]), Where(dfl, Is800), id[2])] @@ figs
  /\ ppc' = "B"
  /\ UNCHANGED <<tVars, dfl>>

(* Plot B (lines 280-346): per skew, x = 0, 7, 8, 9 takes the first row  *)
(* of that config (.iloc[0]) and skips the x when its value is NaN.       *)
XCfg(x) == IF x = 0 THEN <<"baseline", 0>> ELSE <<"cache", x>>
IsHResRow(r) ==
  /\ Is800(r)
  /\ \/ IsCfg(r, <<"baseline", 0>>)
     \/ r.scenario = "cache" /\ PdIn(r.h3_res, {7, 8, 9})
HResRows(zdf, x) == Where(zdf, LAMBDA r : IsCfg(r, XCfg(x)))
HResPointNoNaNCheck(zdf, x, m) == HResRows(zdf, x) # <<>>
HResPoint(zdf, x, m) ==
  HResRows(zdf, x) # <<>> /\ ~Head(HResRows(zdf, x)).lat[m].nan
HResSeries(dfB, z, m) ==
  LET zdf == Where(dfB, LAMBDA r : PdEq(r.zipf_s, z))
      xs  == SelectSeq(<<0, 7, 8, 9>>, LAMBDA x : HResPoint(zdf, x, m))
  IN  [k \in DOMAIN xs |-> <<Num(xs[k]), Head(HResRows(zdf, xs[k])).lat[m]>>]

PlotLatencyVsH3Res ==
  /\ ppc = "B"
  /\ LET dfB == Where(df, IsHResRow)
         skews  == {dfB[i].zipf_s.v : i \in {j \in DOMAIN dfB : ~dfB[j].zipf_s.nan}}
         Fig(m) == LET drawn == {z \in skews : HResSeries(dfB, z, m) # <<>>}
                   IN  IF drawn = {} THEN Skipped
                       ELSE [z \in {Num(y) : y \in drawn} |-> HResSeries(dfB, z.v, m)]
     IN  figs' = [id \in {"B"} \X Metrics |-> Fig(id[2])] @@ figs
  /\ ppc' = "C"
  /\ UNCHANGED <<tVars, dfl>>

(* median_missed_tokens_from_long (lines 93-106): groupby on scenario,   *)
(* resolution, skew and load with dropna=False, so all NaN skews form    *)
(* one group, and the median of each group's counts, NaN skipped (a     *)
(* doubled number, as PyValues' median).  A key cell compares by value.  *)
KeyCell(x) == [nan |-> x.nan, v |-> x.v]
LongKeyNoSkew(r) == <<r.scenario, KeyCell(r.h3_res), r.target_rps>>
LongKey(r) == <<r.scenario, KeyCell(r.h3_res), KeyCell(r.zipf_s), r.target_rps>>
MissedMedian(dfL, r) ==
  MedianIgnoreNaN(LET g == Where(dfL, LAMBDA q : LongKey(q) = LongKey(r))
                  IN  [k \in DOMAIN g |-> g[k].missed])

(* Lines 401-409: one point per group of the config, dropna, by skew.    *)
MissedPts(dfL, c) ==
  LET firsts == {i \in DOMAIN dfL :
                   /\ IsCfg(dfL[i], c) /\ ~dfL[i].zipf_s.nan
                   /\ ~MissedMedian(dfL, dfL[i]).nan
                   /\ \A j \in 1..i - 1 : LongKey(dfL[j]) # LongKey(dfL[i])}
      sk == SortSeq(SetToSeq(firsts), LAMBDA i, j : dfL[i].zipf_s.v < dfL[j].zipf_s.v)
  IN  [k \in DOMAIN sk |-> <<dfL[sk[k]].zipf_s, MissedMedian(dfL, dfL[sk[k]])>>]
MissedFig(dfL) ==
  LET drawn == {c \in LineCfgs : MissedPts(dfL, c) # <<>>}
  IN  IF drawn = {} THEN Skipped ELSE [c \in drawn |-> MissedPts(dfL, c)]

(* Lines 348-423: achieved ratio and errors against skew at 800 rps;     *)
(* then, unless runs_long has no 800 rps row, the missed-token medians.  *)
(* No 800 rps row in runs_agg returns before all three.                  *)
PlotThroughputAndErrors ==
  /\ ppc = "C"
  /\ LET dfC == Where(df, Is800)
         dfL == Where(dfl, Is800)
     IN  figs' = [id \in {<<"C7", "ratio">>, <<"C8", "errors">>, <<"C9", "missed">>} |->
                    CASE dfC = <<>>      -> Skipped
                      [] id[1] # "C9"    -> LineFig(dfC, id[2])
                      [] dfL = <<>>      -> Skipped
                      [] OTHER           -> MissedFig(dfL)] @@ figs
  /\ ppc' = "D"
  /\ UNCHANGED <<tVars, dfl>>

(* Plots D and E17 (lines 425-480, 527-559): the baseline at 800 rps,    *)
(* indexed by skew, inner-joined with each cache resolution on skew.     *)
(* A join yields one pair per baseline row and cache row of equal skew;  *)
(* .dropna() keeps the pairs where both values are there.                *)
SpeedBaseAnyRes(rows) ==
  Where(rows, LAMBDA r : Is800(r) /\ r.scenario = "baseline" /\ ~r.zipf_s.nan)
SpeedBase(rows) ==
  Where(rows, LAMBDA r : Is800(r) /\ IsCfg(r, <<"baseline", 0>>) /\ ~r.zipf_s.nan)
JoinPairs(base, rows, res, col) ==
  {p \in (DOMAIN base) \X (DOMAIN rows) :
     /\ Is800(rows[p[2]]) /\ IsCfg(rows[p[2]], <<"cache", res>>)
     /\ ~Col(base[p[1]], col).nan /\ ~Col(rows[p[2]], col).nan
     /\ base[p[1]].zipf_s = rows[p[2]].zipf_s}

(* Mutant of RatioAborts: a zero denominator is taken for a plain NaN.    *)
RatioAbortsRepeatOnly(base, rows, col) ==
  \E res \in {7, 8, 9} : \E p, q \in JoinPairs(base, rows, res, col) :
     p # q /\ base[p[1]].zipf_s = base[q[1]].zipf_s

(* Lines 458-466 (540-545): for some resolution, either a joined cache   *)
(* value is 0, which .replace(0, pd.NA) turns into an object column that *)
(* .astype(float) refuses with TypeError; or xs = sorted(index) keeps a  *)
(* repeated skew, and float(speed.loc[x]) of it is float() of a Series  *)
(* of two or more values, which raises TypeError.  Nothing catches it.  *)
RatioAborts(base, rows, col) ==
  \E res \in {7, 8, 9} :
     \/ \E p \in JoinPairs(base, rows, res, col) : Col(rows[p[2]], col).v = 0
     \/ \E p, q \in JoinPairs(base, rows, res, col) :
          p # q /\ base[p[1]].zipf_s = base[q[1]].zipf_s

RatioLinePts(base, rows, res, col) ==
  LET P  == JoinPairs(base, rows, res, col)
      skews == SortSeq(SetToSeq({base[p[1]].zipf_s : p \in P}), LAMBDA a, b : a.v < b.v)
      At(z) == CHOOSE p \in P : base[p[1]].zipf_s = z
  IN  [k \in DOMAIN skews |->
         <<skews[k], Div(Col(base[At(skews[k])[1]], col), Col(rows[At(skews[k])[2]], col))>>]

RatioFig(base, rows, col) ==
  LET drawn == {res \in {7, 8, 9} : JoinPairs(base, rows, res, col) # {}}
  IN  IF drawn = {} THEN Skipped
      ELSE [c \in {<<"cache", res>> : res \in drawn} |-> RatioLinePts(base, rows, c[2], col)]

(* Lines 425-480: no 800 rps row or no baseline returns with a warning;  *)
(* else one figure per metric, in order, until one raises.              *)
PlotCacheContextProxies ==
  /\ ppc = "D"
  /\ LET dfD   == Where(df, Is800)
         base  == SpeedBase(dfD)
         early == dfD = <<>> \/ base = <<>>
         bad   == {i \in DOMAIN DMetricOrder : ~early /\ RatioAborts(base, dfD, DMetricOrder[i])}
         saved == {i \in DOMAIN DMetricOrder : \A j \in bad : i < j}
     IN  /\ figs' = [id \in {"D"} \X {DMetricOrder[i] : i \in saved} |->
                       IF early THEN Skipped ELSE RatioFig(base, dfD, id[2])] @@ figs
         /\ ppc' = IF bad = {} THEN "E" ELSE "aborted"
  /\ UNCHANGED <<tVars, dfl>>

(* Lines 482-559: the backend lines, then the offload factor, whose      *)
(* baseline also drops rows without CPU; a TypeError at 541 or 545 comes *)
(* before its save_fig (558).                                            *)
PlotBackendLoad ==
  /\ ppc = "E"
  /\ LET dfE  == Where(df, Is800)
         base == Where(SpeedBase(dfE), LAMBDA r : ~r.cpu.nan)
         stop == dfE = <<>> \/ base = <<>>
         bad  == ~stop /\ RatioAborts(base, dfE, "cpu")
     IN  /\ figs' = [id \in {<<"E", "cpu">>, <<"E17", "cpu">>} |->
                       CASE dfE = <<>>   -> Skipped
                         [] id[1] = "E"  -> LineFig(dfE, "cpu")
                         [] base = <<>>  -> Skipped
                         [] bad          -> Unplotted
                         [] OTHER        -> RatioFig(base, dfE, "cpu")] @@ figs
         /\ ppc' = IF bad THEN "aborted" ELSE "F"
  /\ UNCHANGED <<tVars, dfl>>

(* Plot F (lines 561-642): skew 1.3, baseline r0 and cache r8, at the     *)
(* loads of wanted_rps, each line sorted by load.                         *)
LoadRpsNo1000 == {600, 800}
LoadRps == {600, 800, 1000}
LoadCfgs == {<<"baseline", 0>>, <<"cache", 8>>}
IsLoadCfg(r, c) == PdEq(r.zipf_s, 13) /\ IsCfg(r, c) /\ PdIn(r.target_rps, LoadRps)
LoadPts(rows, c, col) ==
  LET sub == Where(rows, LAMBDA r : IsLoadCfg(r, c) /\ ~Col(r, col).nan)
      srt == SortRows(sub, LAMBDA r : <<r.target_rps>>)
  IN  [k \in DOMAIN srt |-> <<srt[k].target_rps, Col(srt[k], col)>>]
LoadFig(rows, col) ==
  LET drawn == {c \in LoadCfgs : LoadPts(rows, c, col) # <<>>}
  IN  IF drawn = {} THEN Skipped ELSE [c \in drawn |-> LoadPts(rows, c, col)]

PlotLoadSensitivity ==
  /\ ppc = "F"
  /\ LET none == \A i \in DOMAIN df : \A c \in LoadCfgs : ~IsLoadCfg(df[i], c)
     IN  figs' = [id \in ({"F"} \X (Metrics \cup {"cpu"})) \cup {<<"F22", "ratio">>} |->
                    IF none THEN Skipped ELSE LoadFig(df, id[2])] @@ figs
  /\ ppc' = "tables"
  /\ UNCHANGED <<tVars, dfl>>

(* Line 771: write_tables, once every plot function has returned.        *)
WriteTables == ppc = "tables" /\ TNext /\ UNCHANGED <<dfl, ppc, figs>>

(* The TypeError ends the process.                                       *)
Aborted == ppc = "aborted" /\ UNCHANGED mpVars

MPInit ==
  /\ TInit
  /\ dfl \in LongTables
  /\ ppc = "A"
  /\ figs = [id \in FigIds |-> Unplotted]

MPNext ==
  \/ PlotLatencyVsZipf \/ PlotLatencyVsH3Res \/ PlotThroughputAndErrors
  \/ PlotCacheContextProxies \/ PlotBackendLoad \/ PlotLoadSensitivity
  \/ WriteTables \/ Aborted

MPSpec == MPInit /\ [][MPNext]_mpVars

-----------------------------------------------------------------------------
Drawn(f) == f \notin {Unplotted, Skipped}

PlotsTypeOK ==
  /\ ppc \in {"A", "B", "C", "D", "E", "F", "tables", "aborted"}
  /\ DOMAIN figs = FigIds
  /\ \A id \in FigIds : Drawn(figs[id]) =>
       \A l \in DOMAIN figs[id] : figs[id][l] # <<>> /\ \A k \in DOMAIN figs[id][l] :
         figs[id][l][k][1] \in [nan : {FALSE}, v : Int, id : {"num"}]

(* The points a line has at x, and the y of its (first) one.             *)
PtsAt(line, x) == {k \in DOMAIN line : line[k][1] = x}
YAt(line, x) == line[CHOOSE k \in PtsAt(line, x) : \A j \in PtsAt(line, x) : k <= j][2]
LineOf(f, c) == IF Drawn(f) /\ c \in DOMAIN f THEN f[c] ELSE <<>>

(* The quotient line of baseline over cache r that the lines of f imply: *)
(* one point per skew at which both have a point, in ascending skew.     *)
QuotientLine(f, res) ==
  LET b == LineOf(f, <<"baseline", 0>>)
      c == LineOf(f, <<"cache", res>>)
      Z == {b[k][1] : k \in DOMAIN b} \cap {c[k][1] : k \in DOMAIN c}
      sk == SortSeq(SetToSeq(Z), LAMBDA x, y : x.v < y.v)
  IN  [k \in DOMAIN sk |-> <<sk[k], Div(YAt(b, sk[k]), YAt(c, sk[k]))>>]
QuotientFig(f) ==
  LET drawn == {res \in {7, 8, 9} : QuotientLine(f, res) # <<>>}
  IN  IF drawn = {} THEN Skipped
      ELSE [c \in {<<"cache", res>> : res \in drawn} |-> QuotientLine(f, c[2])]

(* The speedup figures of plot D (set_index, inner join, dropna, ratio, *)
(* sorted(index)) and the offload factor of E17 draw, for every cache   *)
(* resolution, exactly the quotient of the baseline line by that cache  *)
(* line that plots A and E draw from the same rows; a figure with no    *)
(* quotient is skipped.                                                  *)
RatiosMatchLines ==
  \A pair \in {<<<<"D", m>>, <<"A", m>>>> : m \in Metrics} \cup {<<<<"E17", "cpu">>, <<"E", "cpu">>>>} :
    figs[pair[1]] # Unplotted => figs[pair[1]] = QuotientFig(figs[pair[2]])

(* A skew at which the baseline line and a cache line both have points,  *)
(* and the quotient there is not one number: one of the lines has two    *)
(* points at it (two runs_agg rows of the same (scenario, h3_res) and     *)
(* skew, e.g. two TTL or hot-set variants), or the cache value is 0.     *)
BadQuotientSkew(f) ==
  \E res \in {7, 8, 9} :
    LET b == LineOf(f, <<"baseline", 0>>)
        c == LineOf(f, <<"cache", res>>)
    IN  \E z \in {b[k][1] : k \in DOMAIN b} :
          /\ PtsAt(c, z) # {}
          /\ \/ Cardinality(PtsAt(b, z)) * Cardinality(PtsAt(c, z)) >= 2
             \/ \E k \in PtsAt(c, z) : c[k][2].v = 0

(* make_plots stops before write_tables (main, line 771) exactly when a  *)
(* latency line of plot A or the CPU line of plot E has a bad quotient   *)
(* skew: astype(float) (lines 459 and 541) or float(speed.loc[x]) (466   *)
(* and 545) raises TypeError.  A zero whose baseline value is missing is *)
(* dropped by dropna() before the replace and aborts nothing.            *)
AbortExactlyOnBadQuotient ==
  ppc \in {"tables", "aborted"} =>
    (ppc = "aborted" <=>
       \E id \in ({"A"} \X Metrics) \cup {<<"E", "cpu">>} : BadQuotientSkew(figs[id]))

(* Plot B's point for (skew z, resolution x) is a point that plot A's    *)
(* line of that configuration has at z: .iloc[0] never shows a value     *)
(* that plot A does not draw for that configuration and skew.            *)
HResPointsOnLines ==
  \A m \in Metrics : Drawn(figs[<<"B", m>>]) =>
    \A z \in DOMAIN figs[<<"B", m>>] :
      LET s == figs[<<"B", m>>][z]
      IN  \A k \in DOMAIN s :
               \E j \in DOMAIN LineOf(figs[<<"A", m>>], XCfg(s[k][1].v)) :
                 LineOf(figs[<<"A", m>>], XCfg(s[k][1].v))[j] = <<z, s[k][2]>>

(* The load-sensitivity figures (plot F) and the load table t2 of        *)
(* write_tables, built from the same selection by separate code, agree:  *)
(* each line of F is the t2 rows of its configuration that have the     *)
(* column, in t2's order, and F is skipped exactly when t2 has none.     *)
LoadLinesMatchLoadTable ==
  tpc = "done" =>
    \A id \in ({"F"} \X (Metrics \cup {"cpu"})) \cup {<<"F22", "ratio">>} :
      LET Pts(c) == IF t2 = Skipped THEN <<>>
                    ELSE LET s == SelectSeq(t2, LAMBDA r : IsCfg(r, c) /\ ~Col(r, id[2]).nan)
                         IN  [k \in DOMAIN s |-> <<s[k].target_rps, Col(s[k], id[2])>>]
          drawn == {c \in LoadCfgs : Pts(c) # <<>>}
      IN  figs[id] = IF drawn = {} THEN Skipped ELSE [c \in drawn |-> Pts(c)]

(* Twice the median of a non-empty sequence of naturals.                 *)
RefMedian2(vals) ==
  LET sv == SortSeq(vals, <)
      n  == Len(sv)
  IN  IF n % 2 = 1 THEN 2 * sv[(n + 1) \div 2] ELSE sv[n \div 2] + sv[n \div 2 + 1]

(* The missed-token figure (C9) has one line per line configuration and *)
(* one point per skew at which the 800 rps replicates of that           *)
(* configuration in runs_long report missed tokens, in ascending skew,  *)
(* at the median of those counts; replicates that differ only in TTL,   *)
(* hot set or invalidation are pooled.  It is skipped when there is no  *)
(* such point or when runs_agg has no 800 rps row.                      *)
MissedTokensMatchReference ==
  figs[<<"C9", "missed">>] # Unplotted =>
    LET L   == Where(dfl, LAMBDA r : Is800(r) /\ ~r.zipf_s.nan /\ ~r.missed.nan)
        Z(c) == {L[i].zipf_s.v : i \in {j \in DOMAIN L : IsCfg(L[j], c)}}
        V(c, z) == LET g == Where(L, LAMBDA r : IsCfg(r, c) /\ r.zipf_s.v = z)
                   IN  [k \in DOMAIN g |-> g[k].missed.v]
        Line(c) == LET sk == SortSeq(SetToSeq(Z(c)), <)
                   IN  [k \in DOMAIN sk |-> <<Num(sk[k]), Num(RefMedian2(V(c, sk[k])))>>]
        drawn == {c \in LineCfgs : Z(c) # {}}
    IN  figs[<<"C9", "missed">>] =
          IF drawn = {} \/ Where(df, Is800) = <<>> THEN Skipped ELSE [c \in drawn |-> Line(c)]
=============================================================================
