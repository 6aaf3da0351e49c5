------------------------------- MODULE Outputs -------------------------------
(***************************************************************************)
(* The two CSV files of scripts/collect_results.py on disk, across         *)
(* successive invocations of main() any of which may die at any point     *)
(* (killed, out of memory, an OSError of the disk, or the exception of    *)
(* collect_runs), and scripts/make_plots.py reading them between          *)
(* invocations.  write_csv opens each file with mode "w" and writes it in *)
(* place: the header, then one row at a time, then the close.  A table is *)
(* abstracted to the corpus it was collected from and its number of rows. *)
(***************************************************************************)
EXTENDS Naturals, Sequences

CONSTANTS
  Corpora,    \* input snapshots (the result roots as they are at a start)
  LongRows,   \* LongRows[c]: rows collect_runs returns for corpus c
  AggRows,    \* AggRows[c]: rows aggregate_runs returns for them
  MaxRuns,    \* bound on the invocations of main()
  Absent,     \* no file on disk
  Torn,       \* a file left open: rewritten in part
  None,       \* make_plots has not run yet
  NotFound,   \* load_csvs raised FileNotFoundError
  NoColumns   \* pandas raised EmptyDataError

ASSUME MaxRuns \in Nat

VARIABLES
  disk,       \* disk[f]: Absent, or what the file holds
  running,    \* a main() process is alive
  corpus,     \* the corpus the live (or last) process collected
  pos,        \* index in WriteOrder of the file being written
  stage,      \* the statement of main() about to run
  runs,       \* invocations so far
  lastExit,   \* how the last process ended: "return", "died" or "none"
  plotted     \* what the last make_plots run loaded, or how it failed

vars == <<disk, running, corpus, pos, stage, runs, lastExit, plotted>>

Files == {"long", "agg"}

MaxRows == LET n == {LongRows[c] : c \in Corpora} IN CHOOSE m \in n : \A k \in n : k <= m

FileRec == [corpus : Corpora, header : BOOLEAN, rows : 0..MaxRows, closed : BOOLEAN]

(* Lines 513-521: runs_long is written before aggregate_runs runs and    *)
(* runs_agg after it.                                                    *)
WriteOrderSwapped == <<"agg", "long">>
WriteOrder == <<"long", "agg">>

(* The rows each write_csv call is given: collect_runs' list for the     *)
(* long table, one aggregate per group for the other.                   *)
RowsFor(f, c) == IF f = "long" THEN LongRows[c] ELSE AggRows[c]

Writing == WriteOrder[pos]

Init ==
  /\ disk = [f \in Files |-> Absent]
  /\ running = FALSE
  /\ corpus \in Corpora
  /\ pos = 1
  /\ stage = "collect"
  /\ runs = 0
  /\ lastExit = "none"
  /\ plotted = None

(* Lines 489-512: a new process parses its arguments; the roots are read *)
(* as they are now.                                                      *)
Start ==
  /\ ~running
  /\ runs < MaxRuns
  /\ running' = TRUE
  /\ corpus' \in Corpora
  /\ stage' = "collect"
  /\ pos' = 1
  /\ runs' = runs + 1
  /\ UNCHANGED <<disk, lastExit, plotted>>

(* Lines 513-515: collect_runs returns (an empty list only warns).       *)
Collect ==
  /\ running /\ stage = "collect"
  /\ stage' = "open"
  /\ UNCHANGED <<disk, running, corpus, pos, runs, lastExit, plotted>>

(* write_csv lines 426-427: mkdir, then open(path, "w") truncates.       *)
OpenFile ==
  /\ running /\ stage = "open"
  /\ disk' = [disk EXCEPT ![Writing] =
                [corpus |-> corpus, header |-> FALSE, rows |-> 0, closed |-> FALSE]]
  /\ stage' = "rows"
  /\ UNCHANGED <<running, corpus, pos, runs, lastExit, plotted>>

(* Lines 428-429: the header row.                                        *)
WriteHeader ==
  /\ running /\ stage = "rows" /\ ~disk[Writing].header
  /\ disk' = [disk EXCEPT ![Writing].header = TRUE]
  /\ UNCHANGED <<running, corpus, pos, stage, runs, lastExit, plotted>>

WriteRowPastEnd ==
  /\ running /\ stage = "rows" /\ disk[Writing].header
  /\ disk[Writing].rows <= RowsFor(Writing, corpus)
  /\ disk' = [disk EXCEPT ![Writing].rows = @ + 1]
  /\ UNCHANGED <<running, corpus, pos, stage, runs, lastExit, plotted>>

(* Lines 430-438: one DictWriter row per element of rows.                *)
WriteRow ==
  /\ running /\ stage = "rows" /\ disk[Writing].header
  /\ disk[Writing].rows < RowsFor(Writing, corpus)
  /\ disk' = [disk EXCEPT ![Writing].rows = @ + 1]
  /\ UNCHANGED <<running, corpus, pos, stage, runs, lastExit, plotted>>

(* The with block closes the file; main() goes on to aggregate_runs and  *)
(* the second write_csv, or to its prints after the second.              *)
CloseFile ==
  /\ running /\ stage = "rows" /\ disk[Writing].header
  /\ disk[Writing].rows = RowsFor(Writing, corpus)
  /\ disk' = [disk EXCEPT ![Writing].closed = TRUE]
  /\ IF pos < Len(WriteOrder)
       THEN pos' = pos + 1 /\ stage' = "open"
       ELSE pos' = pos /\ stage' = "print"
  /\ UNCHANGED <<running, corpus, runs, lastExit, plotted>>

(* Lines 523-529: the two prints, return 0.                              *)
Return ==
  /\ running /\ stage = "print"
  /\ running' = FALSE
  /\ lastExit' = "return"
  /\ UNCHANGED <<disk, corpus, pos, stage, runs, plotted>>

(* The process dies between two statements: what write_csv had written  *)
(* stays on disk, and nothing else of main() is kept.                    *)
Crash ==
  /\ running
  /\ running' = FALSE
  /\ lastExit' = "died"
  /\ UNCHANGED <<disk, corpus, pos, stage, runs, plotted>>

(* make_plots.py load_csvs (lines 199-230), called by main at 763: a     *)
(* missing file raises FileNotFoundError, a file with not even a header *)
(* makes pandas raise EmptyDataError, any other file is read as it is.   *)
Plot ==
  /\ ~running
  /\ plotted' =
       CASE \E f \in Files : disk[f] = Absent        -> NotFound
         [] \E f \in Files : ~disk[f].header         -> NoColumns
         [] OTHER                                    -> [long |-> disk["long"], agg |-> disk["agg"]]
  /\ UNCHANGED <<disk, running, corpus, pos, stage, runs, lastExit>>

MainStep == Collect \/ OpenFile \/ WriteHeader \/ WriteRow \/ CloseFile \/ Return

Next == Start \/ MainStep \/ Crash \/ Plot

Spec == Init /\ [][Next]_vars

-----------------------------------------------------------------------------
OutTypeOK ==
  /\ disk \in [Files -> {Absent} \cup FileRec]
  /\ running \in BOOLEAN
  /\ corpus \in Corpora
  /\ pos \in 1..Len(WriteOrder)
  /\ stage \in {"collect", "open", "rows", "print"}
  /\ runs \in 0..MaxRuns
  /\ lastExit \in {"none", "return", "died"}
  /\ plotted \in {None, NotFound, NoColumns}
                   \cup [long : FileRec, agg : FileRec]

(* The files as a reader sees them: absent, torn, or one whole corpus.   *)
Seen(f) ==
  IF disk[f] = Absent THEN Absent
  ELSE IF disk[f].closed THEN disk[f].corpus ELSE Torn

Abstract == INSTANCE OutputFiles WITH long <- Seen("long"), agg <- Seen("agg")

(* main() with its writes in place implements OutputFiles: runs_agg.csv  *)
(* is only rewritten while runs_long.csv is whole, and a whole          *)
(* runs_agg.csv is the aggregate of the corpus runs_long.csv held when  *)
(* it was written -- whichever process died where.                       *)
OutputsRefineFiles == Abstract!Spec

(* Spec section 5: an intermediate failure never leaves a partially      *)
(* written output, so make_plots, reading after any number of runs,     *)
(* loads two whole tables of the same corpus (compared by content: a    *)
(* file whose close was lost but whose rows are all there counts).      *)
Whole(f, rec) == rec.rows = RowsFor(f, rec.corpus)

PlotsFromOneBatch ==
  plotted \in [long : FileRec, agg : FileRec] =>
    /\ Whole("long", plotted.long) /\ Whole("agg", plotted.agg)
    /\ plotted.long.corpus = plotted.agg.corpus
=============================================================================
