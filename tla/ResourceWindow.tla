--------------------------- MODULE ResourceWindow ---------------------------
(***************************************************************************)
(* The Resource Window Averager: compute_docker_averages(docker_csv_path,  *)
(* start_iso, end_iso) in scripts/collect_results.py, with the unit        *)
(* parsers it calls (parse_iso_dt, parse_cpu_percent, mem_to_mib,          *)
(* parse_mem_usage_to_mib).                                                *)
(*                                                                         *)
(* A timestamp string is abstracted to its shape: whole seconds of the day *)
(* `sec`, the fractional digits `frac` (a sequence of digits, possibly     *)
(* longer than six) and the suffix `tz` ("Z", an offset "+hh:mm", or       *)
(* "none"); Blank is the empty string and Garbage a string matching none   *)
(* of the accepted shapes.  A parsed datetime is [aware, us]: microseconds *)
(* since midnight, shifted to UTC when aware.                              *)
(*                                                                         *)
(* A CSV line is a record [ts, label, cpu, mem] or Corrupt, a line at      *)
(* which csv.DictReader's iteration itself raises (an undecodable byte, a *)
(* field over the csv field size limit).                                   *)
(***************************************************************************)
EXTENDS Integers, Sequences, SequencesExt, FiniteSets

CONSTANTS
  Blank,        \* "" (also what `str(row.get("start") or "") or None` gives None for)
  Garbage,      \* a non-empty string no parser accepts
  Corrupt,      \* a line at which reading the CSV raises
  NoDt,         \* start_dt / end_dt is None
  Windows,      \* set of <<start_iso, end_iso>> pairs the summary may hold
  Logs          \* set of sequences of CSV lines docker_stats.csv may hold

VARIABLES
  startIso, endIso, log,   \* the inputs (fixed by Init)
  wpc,          \* "window", "read", "done"
  startDt,      \* parsed window start, or NoDt
  endDt,        \* parsed window end, or NoDt
  si,           \* next CSV line
  cpuVals,      \* [container -> sequence of parsed cpu values]
  memVals,      \* [container -> sequence of parsed mem values]
  out,          \* the four averages
  warnings      \* the set of warnings issued: "window", "read"

rwVars == <<startIso, endIso, log, wpc, startDt, endDt, si, cpuVals, memVals, out, warnings>>

Tracked == {"postgis", "geoserver"}
NaNv == [nan |-> TRUE]
Val(n) == [nan |-> FALSE, v |-> n]

-----------------------------------------------------------------------------
(* parse_iso_dt.  "Z" is rewritten to "+00:00"; with an offset suffix the *)
(* fraction is padded with zeros or truncated to six digits, and without *)
(* one the same is done after the first "."; fromisoformat then gives an *)
(* aware or a naive datetime.  Empty and unmatched strings raise.         *)
Offset == [s \in {"Z", "+00:00", "+00:01", "-00:01"} |->
             CASE s = "+00:01" -> 60 [] s = "-00:01" -> -60 [] OTHER -> 0]

(* Mutant of Micros: the fraction padded on the left (zfill).            *)
MicrosLeftPad(digits) ==
  FoldLeft(LAMBDA acc, d : 10 * acc + d, 0,
           SubSeq(<<0, 0, 0, 0, 0, 0>> \o digits, Len(digits) + 1, Len(digits) + 6))

Micros(digits) ==
  FoldLeft(LAMBDA acc, d : 10 * acc + d, 0, SubSeq(digits \o <<0, 0, 0, 0, 0, 0>>, 1, 6))

Raises(s) == s \in {Blank, Garbage}

ParseIsoDt(s) ==
  IF s.tz = "none" THEN [aware |-> FALSE, us |-> s.sec * 1000000 + Micros(s.frac)]
  ELSE [aware |-> TRUE, us |-> (s.sec - Offset[s.tz]) * 1000000 + Micros(s.frac)]

(* datetime's < and > between a naive and an aware value raise TypeError. *)
DtCompare(a, b) ==
  IF a.aware # b.aware THEN "raise"
  ELSE IF a.us < b.us THEN "lt" ELSE IF a.us > b.us THEN "gt" ELSE "eq"

(* parse_cpu_percent: strip, drop one trailing "%", float(); NaN on any   *)
(* failure.  A raw cpu cell is [v, pct] or Blank or Garbage.               *)
ParseCpuPercent(c) == IF c \in {Blank, Garbage} THEN NaNv ELSE Val(c.v)

(* mem_to_mib on the part before "/", scaled by 2^20 so that every unit   *)
(* stays integral: a value in bytes.  Units outside the table give NaN.   *)
(* A TiB factor is 2^40, past TLC's integers: the files the models read   *)
(* hold no TiB value, so the branch is stated and never evaluated.        *)
MemUnits == {"B", "KiB", "MiB", "GiB", "TiB", "KB", "MB", "GB"}
UnitBytes(u) ==
  CASE u = "B"   -> 1
    [] u = "KiB" -> 1024
    [] u = "MiB" -> 1048576
    [] u = "GiB" -> 1073741824
    [] u = "TiB" -> 1073741824 * 1024
    [] u = "KB"  -> 1000
    [] u = "MB"  -> 1000000
    [] u = "GB"  -> 1000000000
ParseMemUsageToMiB(m) ==
  IF m \in {Blank, Garbage} \/ m.unit \notin MemUnits THEN NaNv
  ELSE Val(m.v * UnitBytes(m.unit))

(* avg(xs): the mean of the non-NaN values, NaN for none; kept as the    *)
(* exact pair [sum, n].                                                   *)
Avg(xs) ==
  LET ys == SelectSeq(xs, LAMBDA x : ~x.nan)
  IN  IF ys = <<>> THEN NaNv
      ELSE [nan |-> FALSE, sum |-> FoldLeft(LAMBDA a, x : a + x.v, 0, ys), n |-> Len(ys)]

AllNaN == [c \in Tracked |-> [cpu |-> NaNv, mem |-> NaNv]]

(* (row.get("container") or "").strip().lower(): a raw label is          *)
(* [word, upper, padded]; stripping and lower-casing leave the word.      *)
Normalize(label) == label.word

Line == log[si]
Container == Normalize(Line.label)
Windowed == startDt # NoDt /\ endDt # NoDt

-----------------------------------------------------------------------------
RWInit ==
  /\ \E w \in Windows : startIso = w[1] /\ endIso = w[2]
  /\ log \in Logs
  /\ wpc = "window"
  /\ startDt = NoDt /\ endDt = NoDt
  /\ si = 1
  /\ cpuVals = [c \in Tracked |-> <<>>]
  /\ memVals = [c \in Tracked |-> <<>>]
  /\ out = AllNaN
  /\ warnings = {}

(* Lines 222-225: both endpoints given and both parse.                    *)
SetWindow ==
  /\ wpc = "window"
  /\ startIso # Blank /\ endIso # Blank
  /\ ~Raises(startIso) /\ ~Raises(endIso)
  /\ startDt' = ParseIsoDt(startIso) /\ endDt' = ParseIsoDt(endIso)
  /\ wpc' = "read"
  /\ UNCHANGED <<startIso, endIso, log, si, cpuVals, memVals, out, warnings>>

(* Line 222: an endpoint is missing, so every line is used.               *)
NoWindow ==
  /\ wpc = "window"
  /\ startIso = Blank \/ endIso = Blank
  /\ wpc' = "read"
  /\ UNCHANGED <<startIso, endIso, log, startDt, endDt, si, cpuVals, memVals, out, warnings>>

(* Lines 222-229: an endpoint fails to parse; warn, use every line.       *)
BadWindow ==
  /\ wpc = "window"
  /\ startIso # Blank /\ endIso # Blank
  /\ Raises(startIso) \/ Raises(endIso)
  /\ warnings' = warnings \cup {"window"}
  /\ wpc' = "read"
  /\ UNCHANGED <<startIso, endIso, log, startDt, endDt, si, cpuVals, memVals, out>>

(* Lines 237 and 257-259: the reader raises while producing the line;    *)
(* warn and return every average as NaN, dropping what was collected.    *)
ReadFails ==
  /\ wpc = "read" /\ si <= Len(log)
  /\ Line = Corrupt
  /\ warnings' = warnings \cup {"read"}
  /\ out' = AllNaN
  /\ wpc' = "done"
  /\ UNCHANGED <<startIso, endIso, log, startDt, endDt, si, cpuVals, memVals>>

skipLine ==
  /\ si' = si + 1
  /\ UNCHANGED <<startIso, endIso, log, wpc, startDt, endDt, cpuVals, memVals, out, warnings>>

(* Lines 240-242: a container other than the two tracked ones.            *)
SkipUntracked ==
  /\ wpc = "read" /\ si <= Len(log) /\ Line # Corrupt
  /\ Container \notin Tracked
  /\ skipLine

(* Lines 244-247: the line's timestamp does not parse.                    *)
SkipBadTs ==
  /\ wpc = "read" /\ si <= Len(log) /\ Line # Corrupt
  /\ Container \in Tracked
  /\ Raises(Line.ts)
  /\ skipLine

(* Lines 249-251: outside [start_dt, end_dt].                             *)
SkipOutside ==
  /\ wpc = "read" /\ si <= Len(log) /\ Line # Corrupt
  /\ Container \in Tracked
  /\ ~Raises(Line.ts)
  /\ Windowed
  /\ DtCompare(ParseIsoDt(Line.ts), startDt) = "lt"
     \/ (DtCompare(ParseIsoDt(Line.ts), startDt) # "raise"
         /\ DtCompare(ParseIsoDt(Line.ts), endDt) = "gt")
  /\ skipLine

(* Lines 250 and 255-256: ts_dt < start_dt (or ts_dt > end_dt) between a *)
(* naive and an aware datetime raises TypeError, which the per-line      *)
(* except swallows: the line is dropped without a warning.               *)
SkipIncomparable ==
  /\ wpc = "read" /\ si <= Len(log) /\ Line # Corrupt
  /\ Container \in Tracked
  /\ ~Raises(Line.ts)
  /\ Windowed
  /\ DtCompare(ParseIsoDt(Line.ts), startDt) = "raise"
     \/ (DtCompare(ParseIsoDt(Line.ts), startDt) \in {"eq", "gt"}
         /\ DtCompare(ParseIsoDt(Line.ts), endDt) = "raise")
  /\ skipLine

(* Lines 253-254: the line is kept; both parsers return NaN rather than  *)
(* raise, so both lists grow.                                            *)
KeepLine ==
  /\ wpc = "read" /\ si <= Len(log) /\ Line # Corrupt
  /\ Container \in Tracked
  /\ ~Raises(Line.ts)
  /\ Windowed => DtCompare(ParseIsoDt(Line.ts), startDt) \in {"eq", "gt"}
                 /\ DtCompare(ParseIsoDt(Line.ts), endDt) \in {"lt", "eq"}
  /\ cpuVals' = [cpuVals EXCEPT ![Container] = Append(@, ParseCpuPercent(Line.cpu))]
  /\ memVals' = [memVals EXCEPT ![Container] = Append(@, ParseMemUsageToMiB(Line.mem))]
  /\ si' = si + 1
  /\ UNCHANGED <<startIso, endIso, log, wpc, startDt, endDt, out, warnings>>

(* Lines 261-269: the file is read to the end; average each list.        *)
Average ==
  /\ wpc = "read" /\ si = Len(log) + 1
  /\ out' = [c \in Tracked |-> [cpu |-> Avg(cpuVals[c]), mem |-> Avg(memVals[c])]]
  /\ wpc' = "done"
  /\ UNCHANGED <<startIso, endIso, log, startDt, endDt, si, cpuVals, memVals, warnings>>

RWDone == wpc = "done" /\ UNCHANGED rwVars

RWNext ==
  \/ SetWindow \/ NoWindow \/ BadWindow
  \/ ReadFails \/ SkipUntracked \/ SkipBadTs \/ SkipOutside \/ SkipIncomparable
  \/ KeepLine \/ Average
  \/ RWDone

RWSpec == RWInit /\ [][RWNext]_rwVars

-----------------------------------------------------------------------------
RWTypeOK ==
  /\ wpc \in {"window", "read", "done"}
  /\ si \in 1..Len(log) + 1
  /\ \A c \in Tracked : Len(cpuVals[c]) = Len(memVals[c])
  /\ \A c \in Tracked : Len(cpuVals[c]) < si
  /\ warnings \subseteq {"window", "read"}

(* The reference reading of spec 4.3: the instant a timestamp denotes    *)
(* (a string without offset read as UTC, the fraction cut to             *)
(* microseconds), the window [lo, hi] when both endpoints denote one,    *)
(* and the mean of the non-NaN values of the tracked lines whose instant  *)
(* lies in it.                                                            *)
RefMicros(digits) ==
  LET k == IF Len(digits) < 6 THEN Len(digits) ELSE 6
  IN  FoldLeft(LAMBDA a, j : a + digits[j] * 10^(6 - j), 0, [j \in 1..k |-> j])
RefOffset(tz) == IF tz = "none" THEN 0 ELSE Offset[tz]
Instant(s) == (s.sec - RefOffset(s.tz)) * 1000000 + RefMicros(s.frac)

RefKept(i, c) ==
  /\ log[i] # Corrupt
  /\ Normalize(log[i].label) = c
  /\ ~Raises(log[i].ts)
  /\ ~Raises(startIso) /\ ~Raises(endIso) =>
        Instant(startIso) <= Instant(log[i].ts) /\ Instant(log[i].ts) <= Instant(endIso)

RefMean(c, Parse(_), field) ==
  LET I == {i \in DOMAIN log : RefKept(i, c) /\ ~Parse(log[i][field]).nan}
  IN  IF I = {} THEN NaNv
      ELSE [nan |-> FALSE, sum |-> MapThenSumSet(LAMBDA i : Parse(log[i][field]).v, I),
            n |-> Cardinality(I)]

(* A malformed line is skipped like any other line the spec rejects.     *)
RefAverages ==
  [c \in Tracked |-> [cpu |-> RefMean(c, ParseCpuPercent, "cpu"),
                      mem |-> RefMean(c, ParseMemUsageToMiB, "mem")]]

(* Every line of the file can be read.                                    *)
Readable == \A i \in DOMAIN log : log[i] # Corrupt

(* The window and a tracked line's timestamp are of different kinds, one *)
(* with an offset and one without.                                        *)
MixedZones ==
  /\ ~Raises(startIso) /\ ~Raises(endIso)
  /\ \E i \in DOMAIN log :
       /\ log[i] # Corrupt /\ Normalize(log[i].label) \in Tracked /\ ~Raises(log[i].ts)
       /\ \E e \in {startIso, endIso} : (e.tz = "none") # (log[i].ts.tz = "none")

(* Spec 4.3: compute_docker_averages returns, per tracked container, the *)
(* mean of the non-NaN cpu and mem values of exactly the lines inside the *)
(* inclusive window (every line when an endpoint is missing or           *)
(* unparsable), for files whose every line can be read and whose window  *)
(* and lines agree on carrying an offset or not (the two other cases are  *)
(* MalformedRowSkipped and MixedZonesKeepSamples).                        *)
WindowAveragesMatchSpec ==
  wpc = "done" /\ Readable /\ ~MixedZones => out = RefAverages

(* Spec 4.3: a single malformed row is skipped without aborting the read, *)
(* so the averages are those of the other lines, also when the reader    *)
(* raises on one line (lines 237 and 257-259).                           *)
MalformedRowSkipped ==
  wpc = "done" /\ ~MixedZones => out = RefAverages

(* Spec 4.3 and 7: the window selects by instant, and no recoverable     *)
(* failure silently empties a valid resource profile, also when the      *)
(* summary's timestamps carry an offset and docker_stats.csv's do not.   *)
MixedZonesKeepSamples ==
  wpc = "done" /\ Readable => out = RefAverages
=============================================================================
