------------------------------ MODULE RowWindow ------------------------------
(***************************************************************************)
(* The Run Row Assembler handing its window to the Resource Window        *)
(* Averager (collect_results.py lines 413-419): the start and end cells of *)
(* the row, which hold whatever JSON value the summary had (or "" when it *)
(* had none), become start_iso = str(row.get("start") or "") or None, and *)
(* compute_docker_averages runs on them.  A JSON value is a timestamp     *)
(* string (a ResourceWindow timestamp), Blank (the key left out, or ""), *)
(* Garbage, or a model value in Falsy (null, 0, false) or Truthy (a      *)
(* number such as an epoch second, or true).                              *)
(***************************************************************************)
EXTENDS ResourceWindow

CONSTANTS
  Ends,       \* the <<start, end>> JSON values a summary may hold
  Falsy,      \* JSON null, 0 and false
  Truthy      \* JSON numbers other than 0, and true

VARIABLES jsonStart, jsonEnd

vars == <<rwVars, jsonStart, jsonEnd>>

WindowArgIdentity(v) == v

WindowArgStr(v) == IF v \in Falsy \cup Truthy THEN Garbage ELSE v

(* Lines 416-417: falsy cells become None (Blank), and str() of a number *)
(* or of true is a string parse_iso_dt rejects.                          *)
WindowArg(v) ==
  CASE v \in Falsy  -> Blank    \* "None", "0" or "False" never reach it
    [] v \in Truthy -> Garbage
    [] OTHER        -> v

(* Lines 413-419: the averager starts on the row's window.               *)
RowInit ==
  /\ \E w \in Ends : jsonStart = w[1] /\ jsonEnd = w[2]
  /\ RWInit
  /\ startIso = WindowArg(jsonStart) /\ endIso = WindowArg(jsonEnd)

RowNext == RWNext /\ UNCHANGED <<jsonStart, jsonEnd>>

-----------------------------------------------------------------------------
IsTs(v) == v \notin Falsy \cup Truthy \cup {Blank, Garbage}

(* The samples of a replication are windowed exactly when the summary    *)
(* gives both endpoints as timestamp strings; an endpoint that is left   *)
(* out, null, 0 or false disables the window without a word, and any    *)
(* other value (a number, true, an unparsable string) with a warning.   *)
WindowDecision ==
  wpc = "done" =>
    /\ Windowed <=> IsTs(jsonStart) /\ IsTs(jsonEnd)
    /\ ("window" \in warnings) <=>
         /\ jsonStart \notin Falsy \cup {Blank} /\ jsonEnd \notin Falsy \cup {Blank}
         /\ ~(IsTs(jsonStart) /\ IsTs(jsonEnd))

=============================================================================
