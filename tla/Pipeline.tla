------------------------------ MODULE Pipeline ------------------------------
(***************************************************************************)
(* main() of scripts/collect_results.py: collect_runs, write runs_long.csv,*)
(* aggregate_runs, write runs_agg.csv.  The walk of CollectRuns feeds its  *)
(* long table to Aggregate; the two CSV files are the state left on disk.  *)
(***************************************************************************)
EXTENDS CollectRuns

VARIABLES
  apc, ai, groups, ei, aggRows,   \* the aggregator (module Aggregate)
  stage,      \* the statement of main() about to run
  longCsv,    \* rows of runs_long.csv as written, or NoFile
  aggCsv      \* rows of runs_agg.csv as written, or NoFile

CONSTANT NoFile

Agg == INSTANCE Aggregate

vars == <<walkVars, apc, ai, groups, ei, aggRows, stage, longCsv, aggCsv>>

(* write_csv (lines 426-439): a float NaN cell is written as "nan", which *)
(* reads back as a string; csv writes None as "".  The identity of a NaN *)
(* does not survive.                                                     *)
CsvCell(c) ==
  CASE c = Null                              -> Blank
    [] c \notin {Blank, NaNStr} /\ c.nan    -> NaNStr
    [] OTHER                                -> c

NumericLongCols == SummaryKeys \cup {"h3_res", "zipf_s_from_folder"}

CsvLongRow(r) == [k \in DOMAIN r |-> IF k \in NumericLongCols THEN CsvCell(r[k]) ELSE r[k]]

CsvAggRow(a) ==
  [a EXCEPT !.key[3] = CsvCell(@), !.p50_median2 = CsvCell(@)]

Init ==
  /\ WalkInit
  /\ Agg!AggInit
  /\ stage = "collect"
  /\ longCsv = NoFile
  /\ aggCsv = NoFile

(* Line 513: runs_long = collect_runs(roots).                            *)
Collect ==
  /\ stage = "collect"
  /\ WalkStep
  /\ UNCHANGED <<apc, ai, groups, ei, aggRows, stage, longCsv, aggCsv>>

(* Lines 514-517: the long table is written once the walk has returned.  *)
WriteLong ==
  /\ stage = "collect" /\ pc = "done"
  /\ longCsv' = [i \in DOMAIN rows |-> CsvLongRow(rows[i])]
  /\ stage' = "aggregate"
  /\ UNCHANGED <<walkVars, apc, ai, groups, ei, aggRows, aggCsv>>

(* Line 519: runs_agg = aggregate_runs(runs_long).                       *)
Aggregate ==
  /\ stage = "aggregate"
  /\ Agg!AggStep
  /\ UNCHANGED <<fs, pc, ri, bi, pi, warned, stage, longCsv, aggCsv>>

(* Lines 520-521.                                                        *)
WriteAgg ==
  /\ stage = "aggregate" /\ apc = "done"
  /\ aggCsv' = [i \in DOMAIN aggRows |-> CsvAggRow(aggRows[i])]
  /\ stage' = "exited"
  /\ UNCHANGED <<walkVars, apc, ai, groups, ei, aggRows, longCsv>>

(* main returned 0, or the walk raised and the process died.            *)
Exited == (stage = "exited" \/ pc = "crashed") /\ UNCHANGED vars

Next == Collect \/ WriteLong \/ Aggregate \/ WriteAgg \/ Exited

Spec == Init /\ [][Next]_vars

-----------------------------------------------------------------------------
PipelineTypeOK ==
  /\ TypeOK
  /\ Agg!AggTypeOK
  /\ stage \in {"collect", "aggregate", "exited"}

(* aggregate_runs on the rows the walk really produces: one aggregated   *)
(* row per distinct key, with the count, error sum and median of exactly *)
(* the long rows of that key (Aggregate!AggMatchesReference).            *)
AggMatchesReference == Agg!AggMatchesReference

(* Spec 3: no configuration is split over two aggregated rows, here for  *)
(* rows coming from several roots and bundles (Aggregate!KeysNeverSplit).*)
KeysNeverSplit == Agg!KeysNeverSplit

(* Spec 4.6: aggregated rows come out in ascending key order, whatever   *)
(* the traversal order (Aggregate!AggSortedByKey).                        *)
AggSortedByKey == Agg!AggSortedByKey
=============================================================================
