----------------------------- MODULE CollectRuns -----------------------------
(***************************************************************************)
(* The Corpus Walker and Run Row Assembler: collect_runs(roots) in         *)
(* scripts/collect_results.py.  The directory forest is a read-only        *)
(* snapshot chosen in Init; the walk is one step per iteration of one of   *)
(* the three nested loops (roots, bundles, replication directories).       *)
(***************************************************************************)
EXTENDS Integers, Sequences, SequencesExt, FiniteSets, PyValues

CONSTANTS
  Roots,      \* the --roots paths, in command-line order
  Bundles,    \* every bundle directory name, in the order sorted() yields
  Reps,       \* every replication-candidate name, in the order sorted() yields
  RepNum,     \* parse_rep_int: Reps -> Nat \cup {None}
  Meta,       \* parse_bundle_meta per bundle name: [scenario, h3_res, zipf]
  Summaries,  \* the JSON objects a summary file may hold (non-empty dicts)
  Entries,    \* the contents a replication directory may have
  Forests,    \* the directory forests the walk may be run on
  None,       \* parse_rep_int found no rep<N>
  NoZipf,     \* the bundle name has no -zipfs<number>
  Absent,     \* a key that is not in the summary dict
  Missing,    \* a root that does not exist or is not a directory
  NotDir,     \* a directory entry that is not a directory
  BadJson,    \* load_json raised (unreadable or invalid JSON): None
  EmptyJson,  \* the summary parsed to a falsy value ({} , [], 0, "", null)
  JsonScalar  \* a truthy JSON value that is not an object, e.g. a number

(* A replication directory: which <scenario>_summary.json exists, whether *)
(* docker_stats.csv exists, and what the summary file parses to.          *)
EntryType == [summaryFor : {"baseline", "cache", "unknown", "none"},
              docker     : BOOLEAN,
              json       : {BadJson, EmptyJson, JsonScalar} \cup Summaries]

ASSUME Entries \subseteq EntryType
ASSUME \A b \in DOMAIN Meta : Meta[b].scenario \in {"baseline", "cache", "unknown"}
ASSUME \A f \in Forests : \A r \in DOMAIN Roots :
         f[r] = Missing \/
         \A b \in DOMAIN Bundles : f[r][b] = NotDir \/
            \A p \in DOMAIN Reps : f[r][b][p] \in Entries \cup {NotDir}

VARIABLES
  fs,       \* the forest: root index -> Missing or bundle index -> ...
  pc,       \* "walk", "done", or "crashed" (an exception escaped)
  ri,       \* index of the current root in Roots
  bi,       \* index of the current bundle (0: root not opened yet)
  pi,       \* index of the current rep dir (0: bundle not opened yet)
  rows,     \* the long table built so far
  warned    \* the locations a [WARN] line was printed for

walkVars == <<fs, pc, ri, bi, pi, rows, warned>>

(* The summary keys copied into the row (lines 391-404), abstracted to   *)
(* the ones later steps read.                                            *)
SummaryKeys == {"zipf_s", "target_rps", "throughput_rps",
                "achieved_to_target_ratio", "p50_ms", "errors"}

Loc == <<ri, bi, pi>>
Root == fs[ri]
Bundle == fs[ri][bi]
Entry == fs[ri][bi][pi]
Scenario == Meta[Bundles[bi]].scenario

(* parse_bundle_meta's zipf_s_from_folder: float(...) or float("nan"),   *)
(* one object per call, i.e. per visit of a bundle directory.            *)
FolderZipf(r, b) ==
  IF Meta[Bundles[b]].zipf = NoZipf THEN NaNObj(<<"meta", r, b>>)
  ELSE Num(Meta[Bundles[b]].zipf)

(* The checks of lines 367-377, in order: the warning the rep gets, or   *)
(* "ok" when its summary is usable.                                      *)
RepVerdict(e, scenario) ==
  CASE e.summaryFor # scenario     -> "no_summary"
    [] ~e.docker                   -> "no_docker"
    [] e.json \in {BadJson, EmptyJson} -> "bad_json"
    [] OTHER                       -> "ok"

(* Lines 379-412: every cell starts as "", the bundle metadata and the   *)
(* summary keys present are overlaid, then the ratio and zipf_s          *)
(* fallbacks.  The ratio is kept as an integer percentage.               *)
Cell(s, k) == IF s[k] = Absent THEN Blank ELSE s[k]

DerivedRatio(row) ==
  LET thr == SafeFloat(row.throughput_rps, <<"thr", row.loc>>)
      tgt == SafeFloat(row.target_rps, <<"tgt", row.loc>>)
  IN  IF ~tgt.nan /\ tgt.v # 0 /\ ~thr.nan
        THEN Num((100 * thr.v) \div tgt.v)
        ELSE NaNObj(<<"ratio", row.loc>>)

AssembledRow(s, r, b, p) ==
  LET base == [loc      |-> <<r, b, p>>,
               scenario |-> Meta[Bundles[b]].scenario,
               h3_res   |-> Num(Meta[Bundles[b]].h3_res),
               zipf_s_from_folder |-> FolderZipf(r, b)]
      cells == [k \in SummaryKeys |-> Cell(s, k)]
      row0 == [k \in DOMAIN base \cup SummaryKeys |->
                 IF k \in DOMAIN base THEN base[k] ELSE cells[k]]
      row1 == IF row0.achieved_to_target_ratio \in {Blank, Null}
                THEN [row0 EXCEPT !.achieved_to_target_ratio = DerivedRatio(row0)]
                ELSE row0
  IN  IF row1.zipf_s \in {Blank, Null}
        THEN [row1 EXCEPT !.zipf_s = row1.zipf_s_from_folder]
        ELSE row1

-----------------------------------------------------------------------------
WalkInit ==
  /\ fs \in Forests
  /\ pc = "walk"
  /\ ri = 1
  /\ bi = 0
  /\ pi = 0
  /\ rows = <<>>
  /\ warned = {}

AtRoot == pc = "walk" /\ ri <= Len(Roots) /\ bi = 0
AtBundle == pc = "walk" /\ bi \in 1..Len(Bundles) /\ pi = 0
AtRep == pc = "walk" /\ bi \in 1..Len(Bundles) /\ pi \in 1..Len(Reps)

(* Lines 344-346: a missing root is warned about and skipped.            *)
SkipRoot ==
  /\ AtRoot /\ Root = Missing
  /\ ri' = ri + 1
  /\ warned' = warned \cup {<<ri>>}
  /\ UNCHANGED <<fs, pc, bi, pi, rows>>

(* Lines 348-350: open the root and list its entries.                    *)
OpenRoot ==
  /\ AtRoot /\ Root # Missing
  /\ bi' = 1
  /\ UNCHANGED <<fs, pc, ri, pi, rows, warned>>

(* Lines 351-352: an entry that is not a directory is passed over.       *)
SkipBundle ==
  /\ AtBundle /\ Bundle = NotDir
  /\ bi' = bi + 1
  /\ UNCHANGED <<fs, pc, ri, pi, rows, warned>>

(* Lines 354-357: parse the bundle name, list its subdirectories.        *)
OpenBundle ==
  /\ AtBundle /\ Bundle # NotDir
  /\ pi' = 1
  /\ UNCHANGED <<fs, pc, ri, bi, rows, warned>>

(* Lines 358-361: files, and directories not named rep<N>, are skipped  *)
(* without a warning.                                                    *)
SkipRepSilently ==
  /\ AtRep
  /\ Entry = NotDir \/ RepNum[Reps[pi]] = None
  /\ pi' = pi + 1
  /\ UNCHANGED <<fs, pc, ri, bi, rows, warned>>

(* Mutant of SkipRepWarn: `break` in place of `continue`, the rest of   *)
(* the bundle's reps are dropped.                                         *)
SkipRepWarnBreak ==
  /\ AtRep
  /\ Entry # NotDir /\ RepNum[Reps[pi]] # None
  /\ RepVerdict(Entry, Scenario) # "ok"
  /\ pi' = Len(Reps) + 1
  /\ warned' = warned \cup {Loc}
  /\ UNCHANGED <<fs, pc, ri, bi, rows>>

(* Lines 363-377: a missing summary or docker_stats.csv, or an invalid  *)
(* or empty summary, skips the rep with a warning.                       *)
SkipRepWarn ==
  /\ AtRep
  /\ Entry # NotDir /\ RepNum[Reps[pi]] # None
  /\ RepVerdict(Entry, Scenario) # "ok"
  /\ pi' = pi + 1
  /\ warned' = warned \cup {Loc}
  /\ UNCHANGED <<fs, pc, ri, bi, rows>>

(* Lines 391-404 on a truthy non-dict summary: `k in summary` raises    *)
(* TypeError for a number or bool, and nothing in collect_runs or main  *)
(* catches it.                                                           *)
CrashOnSummary ==
  /\ AtRep
  /\ Entry # NotDir /\ RepNum[Reps[pi]] # None
  /\ RepVerdict(Entry, Scenario) = "ok"
  /\ Entry.json = JsonScalar
  /\ pc' = "crashed"
  /\ UNCHANGED <<fs, ri, bi, pi, rows, warned>>

(* Lines 379-421: build the row and append it.                           *)
AssembleRow ==
  /\ AtRep
  /\ Entry # NotDir /\ RepNum[Reps[pi]] # None
  /\ RepVerdict(Entry, Scenario) = "ok"
  /\ Entry.json \in Summaries
  /\ rows' = Append(rows, AssembledRow(Entry.json, ri, bi, pi))
  /\ pi' = pi + 1
  /\ UNCHANGED <<fs, pc, ri, bi, warned>>

EndBundle ==
  /\ pc = "walk" /\ bi \in 1..Len(Bundles) /\ pi = Len(Reps) + 1
  /\ bi' = bi + 1
  /\ pi' = 0
  /\ UNCHANGED <<fs, pc, ri, rows, warned>>

(* Mutant of EndRoot: the bundle cursor is not reset.                   *)
EndRootNoReset ==
  /\ pc = "walk" /\ bi = Len(Bundles) + 1
  /\ ri' = ri + 1
  /\ UNCHANGED <<fs, pc, bi, pi, rows, warned>>

EndRoot ==
  /\ pc = "walk" /\ bi = Len(Bundles) + 1
  /\ ri' = ri + 1
  /\ bi' = 0
  /\ UNCHANGED <<fs, pc, pi, rows, warned>>

(* Line 423: the loop over roots is exhausted.                           *)
FinishWalk ==
  /\ pc = "walk" /\ ri = Len(Roots) + 1
  /\ pc' = "done"
  /\ UNCHANGED <<fs, ri, bi, pi, rows, warned>>

WalkStep ==
  \/ SkipRoot \/ OpenRoot \/ SkipBundle \/ OpenBundle
  \/ SkipRepSilently \/ SkipRepWarn \/ CrashOnSummary \/ AssembleRow
  \/ EndBundle \/ EndRoot \/ FinishWalk

(* The process has exited, normally or by the uncaught exception.        *)
Halted == pc \in {"done", "crashed"} /\ UNCHANGED walkVars

WalkNext == WalkStep \/ Halted

WalkSpec == WalkInit /\ [][WalkNext]_walkVars

-----------------------------------------------------------------------------
(* The replication directories the walk must turn into rows: under an    *)
(* existing root, in a bundle directory, named rep<N>, with both files   *)
(* present and a usable summary; listed root by root in command-line     *)
(* order, bundle by bundle and rep by rep in sorted order.               *)
IsRepDir(f, r, b, p) ==
  /\ f[r] # Missing /\ f[r][b] # NotDir /\ f[r][b][p] # NotDir
  /\ RepNum[Reps[p]] # None

Usable(f, r, b, p) ==
  /\ IsRepDir(f, r, b, p)
  /\ RepVerdict(f[r][b][p], Meta[Bundles[b]].scenario) = "ok"

RefLocs(f) ==
  FlattenSeq([r \in DOMAIN Roots |->
    FlattenSeq([b \in DOMAIN Bundles |->
      SelectSeq([p \in DOMAIN Reps |-> <<r, b, p>>],
                LAMBDA l : Usable(f, l[1], l[2], l[3]))])])

RefWarned(f) ==
  {<<r>> : r \in {r2 \in DOMAIN Roots : f[r2] = Missing}} \cup
  {l \in (DOMAIN Roots) \X (DOMAIN Bundles) \X (DOMAIN Reps) :
     IsRepDir(f, l[1], l[2], l[3]) /\ ~Usable(f, l[1], l[2], l[3])}

TypeOK ==
  /\ pc \in {"walk", "done", "crashed"}
  /\ ri \in 1..Len(Roots) + 1
  /\ bi \in 0..Len(Bundles) + 1
  /\ pi \in 0..Len(Reps) + 1
  /\ \A i \in DOMAIN rows : DOMAIN rows[i] = {"loc", "scenario", "h3_res",
        "zipf_s_from_folder"} \cup SummaryKeys
  /\ warned \subseteq {<<r>> : r \in DOMAIN Roots} \cup
                       (DOMAIN Roots) \X (DOMAIN Bundles) \X (DOMAIN Reps)

(* collect_runs contract (spec 4.5): when the walk returns, the long      *)
(* table has exactly one row per usable replication, in traversal order,  *)
(* and every missing root and every rep<N> directory that was not used    *)
(* got a warning: no bad root, bundle or rep stops the rest of the walk.  *)
WalkMatchesReference ==
  pc = "done" =>
    /\ [i \in DOMAIN rows |-> rows[i].loc] = RefLocs(fs)
    /\ warned = RefWarned(fs)

(* Spec 7: a failure local to one replication never aborts the batch;    *)
(* the process always reaches the point where it writes its output.      *)
NoBatchAbort == pc # "crashed"
=============================================================================
