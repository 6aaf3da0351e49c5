# TLA+ models of the results pipeline (`scripts/collect_results.py`)

This directory holds TLA+ models of the result-collection scripts of
h3-spatial-cache, and the TLC configurations that check them. The scripts
walk a tree of benchmark outputs and build two CSV tables: one row per
replication (`runs_long.csv`) and one row per configuration
(`runs_agg.csv`). `scripts/make_plots.py` reads these tables to draw figures
and LaTeX tables.

The program is a sequential batch job. Nothing runs concurrently, nothing is
retried, and there are no messages. Its one fault is the process dying:
`main` rewrites the two CSV files in place, so a death mid-way leaves them on
disk for `make_plots.py` to read. Beyond that, what makes it hard is the
**data**:

- **The directory forest.** It decides which of many skip paths each loop
  iteration takes.
- **Python's NaN semantics.** A missing skew becomes a NaN float. A NaN is
  used as a dict key and inside tuples that are sorted.
- **The rest:** a median over cells that may be empty, and an uncaught
  exception on one malformed file.

So every model picks its input nondeterministically in `Init`, from a set of
small but adversarial forests. It then runs the code's loops step by step.
Each finished run is compared with a declarative reference.

## 1. Inventory

### Components of `collect_results.py`

| Component | Code | State / effect | Modelled in |
|---|---|---|---|
| Unit parsers | `safe_float` 32-43, `safe_int` 46-57, `median_ignore_nan` 60-66, `parse_cpu_percent` 69-76, `mem_to_mib`/`parse_mem_usage` 79-119, `parse_iso_dt` 122-149 | pure | `PyValues` (first three), `ResourceWindow` (the rest) |
| Bundle metadata extractor | `parse_bundle_meta` 162-198, `parse_rep_int` 201-205 | pure; **allocates a fresh NaN per call** | `BundleMeta` (`parse_bundle_meta`, `parse_rep_int`). `MCCollectRuns` instantiates it to compute the walk's `Meta` and `RepNum`, and `CollectRuns` allocates the fresh NaN (`FolderZipf`) |
| Resource window averager | `compute_docker_averages` 208-279 | reads `docker_stats.csv`, filters on the time window | `ResourceWindow` |
| Run row assembler | `collect_runs` 379-421 | one dict per replication | `CollectRuns` (`AssembledRow`), `RowWindow` (413-419) |
| Corpus walker | `collect_runs` 340-423 | three nested loops with `continue` skips and warnings | `CollectRuns` |
| Aggregator | `aggregate_runs` 442-486 | dict of groups, `sorted()`, per-group medians | `Aggregate` |
| Tabular writer | `write_csv` 426-439 | writes (truncating) one CSV | `Pipeline` (cell conversion), `Outputs` (open, header, rows, close) |
| Entry point | `main` 489-529 | collect, write long, aggregate, write agg | `Pipeline` (data), `Outputs` (the files across invocations and deaths) |

### `make_plots.py`

It reads the two CSVs and draws matplotlib figures and LaTeX tables. Its
`main` (749-773) runs six plot functions and then `write_tables`:

| Plot | Code | Figures |
|---|---|---|
| A | `plot_latency_vs_zipf` 233-278 | latency against skew at 800 rps, one line per configuration, with the `runs_long` replicates scattered under each line |
| B | `plot_latency_vs_h3res` 280-346 | latency against resolution, one series per skew |
| C | `plot_throughput_and_errors` 348-423 | achieved ratio, errors, and missed tokens (a median over `runs_long`) against skew |
| D | `plot_cache_context_proxies` 425-480 | speedup: baseline latency divided by cache latency, joined on skew |
| E | `plot_backend_load` 482-559 | backend CPU and memory against skew, and the CPU offload factor (a second join) |
| F | `plot_load_sensitivity` 561-642 | latency, CPU and achieved ratio against load at skew 1.3 |

`write_tables` (644-746) writes the 800 rps summary, the load-sensitivity
table, and the best cache resolution per skew (`best_for`). The plots are
modelled in `Plots` and the tables in `Tables`; `Plots` composes them in
`main`'s order. The reading of the two files (`load_csvs`, 199-230) is the
`Plot` action of `Outputs`. Each table goes to a `.csv` and, through
`write_minimal_latex_table` (166-196), `format_cell` (136-163) and
`latex_escape` (108-126), to a `.tex` file; these are modelled in `Render`.
Matplotlib styling is rendering only.

### Interactions

`main` runs four steps in order:

1. `collect_runs` produces the long rows.
2. `write_csv` writes them to `runs_long.csv`.
3. `aggregate_runs` groups them.
4. `write_csv` writes the aggregated rows to `runs_agg.csv`.

`make_plots.py` later reads both files. The aggregation key contains
`safe_float(zipf_s)`. When no skew is known, that value is the NaN object
that `parse_bundle_meta` allocated for that bundle visit, or a fresh NaN from
`safe_float`. This is why the walker and the aggregator are composed in one
model (`Pipeline`).

### Hard behaviours (the hazards of `PROJECT.json`)

- **NaN keys are matched by object identity.** A configuration with no skew
  is split into one group per bundle visit or per string cell.
- **`sorted()` over keys that contain NaN is not a total order.** The result
  depends on the order in which the walk found the groups.
- **A summary that is valid JSON but not an object raises an uncaught
  `TypeError`.** It aborts the whole batch.
- **The walker has eight skip paths.** Each must `continue` the right loop
  with the right cursor. A break, or a cursor that is not reset, silently
  drops data.
- **The median has edges.** With an even count it is the mean of the two
  middle values. With only NaN or empty values it is NaN.
- **A death during or between the two CSV writes.** `open(path, "w")`
  truncates first, so it leaves a zero-byte file, a header-only file, a
  truncated table, or a fresh long table beside a stale aggregated one.
  `make_plots` only checks that both files exist.
- **The scenario prefix test includes the hyphen.** `"cachebaseline-r9-"` is
  classified baseline, and its reps are then looked up under the wrong
  summary file name.
- **The window arguments.** A `null`, `0` or `false` endpoint in a summary
  silently disables windowing, and a numeric one disables it with a warning.
- **Naive versus aware timestamps in the resource window.** The comparison
  raises, the error is caught per sample, so every sample is dropped and the
  averages become NaN.
- **The window's edges.** The fraction is truncated to six digits, and both
  ends of the window are inclusive.
- **A join on a repeated skew in `make_plots`.** `runs_agg.csv` keeps TTL
  and hot-set variants of one resolution as separate rows. Plots D and E
  join the baseline and a cache resolution on skew alone, and
  `float(speed.loc[x])` on a repeated skew raises `TypeError`. The process
  stops before plots E/F and before any table is written.
- **A zero denominator in plots D and E17.** `.replace(0, pd.NA)` makes the
  cache column object-typed, and `.astype(float)` raises `TypeError` on
  it, with the same effect. A zero whose baseline value is missing is
  dropped by `dropna()` first.
- **A line the CSV reader cannot read.** The error escapes the per-line
  `try` and reaches the outer one, which returns all NaN and discards the
  samples already collected.
- **`.iloc[0]` in plot B.** It shows only the first of such variants, and
  drops the point when that first value is NaN.
- **The same rows, selected twice.** Plots D and A select the same rows
  with separate code.
- **Pooling in the missed-token plot.** Its median pools the variants that
  plot A and `runs_agg` keep apart.
- **A `.tex` cell chosen by column name.** `format_cell` picks its format
  from the column's name and from `is_nan`. A skew sent down the integer
  branch, or a NaN that misses `is_nan`, would print a wrong number or
  `nan`. The `.csv` beside it would still be right.

## 2. Modules

### `PyValues`: scalars and conversions

A number is a record `[nan, v, id]`:

- `v` is an abstract natural. A skew of 1.3 is written 13.
- A non-NaN float has `id = "num"`, so equal values are equal dict keys.
- A NaN carries the **identity of its object**. CPython compares dict keys
  and tuple elements by identity before `==`, so this identity is what
  matters.

The model values `Null` (JSON null / `None`), `Blank` (`""`) and `NaNStr` (a
string that does not parse as a number) are the other raw cells.

The conversions are modelled as follows:

- `SafeFloat(x, fresh)` returns the same object for a float. For `None`, `""`
  and an unparsable string it returns a new NaN whose identity is `fresh`.
- `SafeInt` is also modelled.
- `MedianIgnoreNaN` sorts the numbers and returns twice the median, so the
  mean of two naturals stays a natural.

### `CollectRuns`: the corpus walker and row assembler

**Constants.** The forest is chosen in `WalkInit` from the constant
`Forests`, which gives every root one of these:

- `Missing`, or
- a function from bundle slots to `NotDir`, or
- a function from rep slots to `NotDir`, or to an entry
  `[summaryFor, docker, json]`:
  - `summaryFor` says which `*_summary.json` exists in the rep directory.
  - `docker` says whether `docker_stats.csv` exists.
  - `json` is a summary record, `BadJson`, `EmptyJson` or `JsonScalar`.

`Roots`, `Bundles` (in `sorted()` order) and `Reps` name the slots. `Meta`
gives `parse_bundle_meta`'s scenario, resolution and skew per bundle name.
`RepNum` gives `parse_rep_int` per rep name.

**Variables.** `pc`, the three loop cursors `ri`, `bi` and `pi`, the `rows`
built so far, and the set of `warned` locations.

**Actions.** There is one action per way an iteration can end:

| Action | What it models | Lines |
|---|---|---|
| `SkipRoot` | missing root, with a warning | 344-346 |
| `OpenRoot` | | 348-350 |
| `SkipBundle` | not a directory | 351-352 |
| `OpenBundle` | | 354-357 |
| `SkipRepSilently` | not a directory, or not `rep<N>` | 359-361 |
| `SkipRepWarn` | no summary, no docker stats, or unreadable JSON, with a warning | 363-377 |
| `CrashOnSummary` | `k in summary` on a JSON scalar raises | 391-404 |
| `AssembleRow` | 379-421 | |
| `EndBundle` | end of the bundle loop | |
| `EndRoot` | end of the root loop | |
| `FinishWalk` | returns `out` | |

`AssembleRow` includes the whole row: the summary overlay, the derived
`achieved_to_target_ratio` (integer percent), and the folder-skew fallback.

The resource averages of the row come from `compute_docker_averages`, which
is modelled on its own in `ResourceWindow`. In `CollectRuns` those columns
are left out of the row.

### `Aggregate`: the aggregator

It models `aggregate_runs` on the long rows:

- `GroupRow` adds a row to the dict. A new key goes at the end, because
  Python dicts keep insertion order. A lookup compares keys with the code's
  `==`, identity for NaN.
- `SortGroups` is `sorted()` as CPython runs it on fewer than 64 items
  (`ListSort`):
  - `count_run` takes the leading run and reverses it if it is strictly
    descending.
  - Binary insertion then places each remaining item, comparing with `<`
    only.
  - `KeyLT` is Python's tuple `<`: the first index where `==` is false
    decides, and any `<` involving NaN is false.
- `EmitGroup` builds `AggRow`: the doubled `p50_ms` median, the `errors` sum
  and `n_reps`. The other median columns are computed the same way as
  `p50_ms` and are represented by it.

The key fields `ttl`, `hot` and `invalidation` are strings that compare by
value. They are left out.

### `Pipeline`: `main`

`Pipeline` composes `CollectRuns` with `Aggregate`, which it instantiates on
the walker's `rows`:

- `stage` runs collect, write-long, aggregate, write-agg, exited.
- `longCsv` and `aggCsv` are the tables as `write_csv` renders them: `None`
  becomes `""`, and a NaN float becomes the string `nan`.
- If the walk crashes, the process exits before any file is written.

### `ResourceWindow`: the resource window averager

This module models `compute_docker_averages` together with the parsers it
calls. The inputs are abstracted as follows:

- A timestamp string is its shape `[sec, frac, tz]`:
  - `sec` is the seconds of the day.
  - `frac` is the fractional digits, possibly more than six.
  - `tz` is `Z`, an offset, or `none`.
- `Blank` and `Garbage` are the empty string and an unparsable string.
- A CSV line is `[ts, label, cpu, mem]`, or `Corrupt`: a line at which the
  reader itself raises.

The parsers are modelled by what they do:

- `ParseIsoDt` pads or truncates the fraction to six digits and shifts an
  aware value to UTC.
- `DtCompare` raises between a naive and an aware value.
- `ParseMemUsageToMiB` uses the unit table of `mem_to_mib` (`UnitBytes`,
  `B` to `TiB` and `KB` to `GB`), scaled to bytes so that every unit stays
  integral. The `TiB` factor, 2^40, is past TLC's integers, so the model's
  files hold no `TiB` value.
- `Avg` keeps the exact pair (sum, count).

**Actions.**

| Action | What it models | Lines |
|---|---|---|
| `SetWindow` | both endpoints parse | 222-225 |
| `NoWindow` | an endpoint is missing | 222 |
| `BadWindow` | an endpoint is unparsable | 222-229 |
| `ReadFails` | the reader raises; all four averages are NaN | 237, 257-259 |
| `SkipUntracked` | per-line skip: container not tracked | 240-242 |
| `SkipBadTs` | per-line skip: bad timestamp | 244-247 |
| `SkipOutside` | per-line skip: outside the window | 249-251 |
| `SkipIncomparable` | the comparison raises `TypeError`, swallowed | 250, 255-256 |
| `KeepLine` | both values appended, NaN included | 253-254 |
| `Average` | `avg` of each list | 261-269 |

**Reference.** `RefAverages` reads spec 4.3 independently of the code:

- A timestamp without offset is read as UTC.
- The fraction is cut to microseconds.
- A malformed line, `Corrupt` included, is skipped like any other line the
  spec rejects.
- The reference takes the means over the set of kept lines.

Three properties compare `out` with it, each on the files where one of the
two disagreements is absent: `WindowAveragesMatchSpec` on readable files
whose window and lines agree on an offset (passes), `MalformedRowSkipped`
where they agree (violated by `Corrupt`), and `MixedZonesKeepSamples` on
readable files (violated by mixed zones).

### `Tables`: the table writer of `make_plots.py`

This module models `write_tables` on an aggregated frame. A row is
`[scenario, h3_res, zipf_s, target_rps, thr, lat, errors, cpu]`. `cpu`
stands for the four resource medians, which every table treats alike.
Writing a table sets its rows (the `.csv`) and `tex[t]`, the `.tex` file
that `Render`'s `TexTable` makes of the same rows in the same step.
`Cols800`, `ColsLoad` and `ColsBest` are the code's column lists. `n_reps`
is left out, since the model rows carry no count.

The actions follow the code:

- Each of the three tables is written, or skipped with a warning.
- `StartBest` takes `sorted(unique(zipf_s))`.
- `AppendBestRow` is one iteration of the skew loop. It calls `BestFor` per
  metric: drop the NaN values, then `idxmin`, the first row holding the
  minimum.
- `sort_values` is modelled as a stable lexicographic sort with NaN last.

Two branches of the code cannot be reached, and the model shows why in the
guards:

- The `continue` at 704-705 is never taken, because every skew comes from
  `t3src`, so `zdf` is never empty.
- The warning at 730 is never issued, because every skew gives a row, so `t3`
  is never empty.

`p95` is computed exactly as `p50` and `p99` and is represented by them.

### `Render`: the `.tex` files

The module holds `latex_escape`, `is_nan`, `format_cell` and
`write_minimal_latex_table`. Text is a sequence of tokens:

- each LaTeX special character and each digit is a one-character string;
- a run of plain letters is one word, since `str.replace` of a
  one-character key never touches it.

A column name is its `_`-separated words. `startswith("best_h3_res_")` and
`endswith("_ms")` then test its first and last words.

- `LatexEscape` folds `Replace` over `ReplOrder`, the dict in insertion
  order, as the loop of `str.replace` calls does.
- `FormatCell` follows `format_cell`'s branch order. Numbers print with
  `DigitsOf` (`str(int(...))`), `Fixed1` (`.1f` of a skew held in tenths)
  or `Fixed3` (`.3f`).
- The `except` branches are not taken: `load_csvs` and `write_tables` only
  hand `format_cell` floats.
- A line is its cells. The joins, the line ends and the `\hline` rules are
  layout.

The property `TexShowsTables` reads each `.tex` back with references that
do not use the code: `EscapeRef` escapes each special character once, and
`ReadScaled`/`Decimals` read a numeral.

**A latent defect.** `latex_escape("\\")` gives `\textbackslash\{\}`. The
braces it inserts are escaped by the later `{` and `}` entries, so LaTeX
prints `\{}`. A TLC evaluation of `LatexEscape` against `EscapeRef` shows
this. No value that reaches `latex_escape` holds a backslash: only the
fixed column names and the scenario names `baseline`, `cache` and
`unknown` do. So no run checks it, and it is not listed as a finding.

### `Plots`: `main` of `make_plots.py`

`Plots` extends `Tables`. Its inputs are `df` (an aggregated frame) and
`dfl` (a long frame), both fixed by `MPInit`. The other variables are:

- `ppc`: the plot function about to run. It goes `A` to `F`, then `tables`,
  or ends at `aborted`.
- `figs`: one entry per figure. An entry is `Unplotted` (not reached),
  `Skipped` (the code warned and saved nothing), or its lines. Each line is
  keyed by its configuration, or by its skew in plot B, and is a sequence of
  `<<x, y>>` points in drawing order.

Each plot function is one action that produces all of its figures:

- `LineFig`/`LinePts` are the shared loop of A, C and E:
  `filter_config`, then `dropna`, then `sort_values("zipf_s")`.
- `HResSeries` is plot B's `x_order` loop with `.iloc[0]`.
- `JoinPairs` is the inner join of D and E17. It holds one pair per baseline
  row and cache row of equal skew, after `.dropna()`. `RatioAborts` is the
  `TypeError` of `.astype(float)` when a joined cache value is 0, or of
  `float(speed.loc[x])` when a skew has two pairs. The figures of the
  metrics before the failing one are saved, and `ppc` becomes `aborted`.
  In E17 the error comes before `save_fig`, so the offload figure stays
  `Unplotted`.
- `MissedMedian` is `median_missed_tokens_from_long`, a groupby with
  `dropna=False`, so all NaN skews form one group.
- `WriteTables` runs `Tables`' actions once `ppc = "tables"`.

A quotient is kept exact, as the pair `<<numerator, denominator>>`.
`sort_values`' default quicksort is an insertion sort, hence stable, on
frames this small. `postgis_cpu_avg_pct_median` (`cpu`) stands for the
four backend columns of plot E, which one loop draws alike.

### `BundleMeta`: `parse_bundle_meta` and `parse_rep_int`

A bundle name is its sequence of hyphen-separated segments. A segment is a
known prefix (`tag`: `r`, `ttl`, `hot`, `inv`, `zipfs`, `cache`, `baseline`,
`cachebaseline` or none) and the rest of its text (`body`). Every pattern of
the code starts with a hyphen and captures no hyphen, so `re.search` is the
leftmost segment after a hyphen that fits (`Scan`, recursive), followed by a
hyphen when the pattern ends in one. `Capture` is what the group takes from a
body: `\d+` for the resolution, a leading decimal for the skew, any non-empty
token otherwise. `Scenario` is the `if`/`elif` chain of lines 165-174.

The reference `SpecScenario` gives a prefix of `baseline` or `cache`
precedence, as the spec says; `bundle_scenario` checks the classification
against it. The field patterns are exercised through `MCCollectRuns`, whose
walk takes its metadata from `ParseBundleMeta`.

`ParseRepInt` is `parse_rep_int`. A directory name is abstracted to a
stem, its digits and a tail. The `^rep(\d+)$` match needs the stem `rep`,
at least one digit, and an empty tail or a single final newline, which `$`
also accepts. `int()` of the digits is a fold. `MCCollectRuns` instantiates
`BundleMeta` (`BM`) to compute the walk's `Meta` and `RepNum` from the
bundle and rep names, so the walk and the parser share one definition.

### `RowWindow`: the row's window handed to the averager

`RowWindow` extends `ResourceWindow`. It adds the JSON values of the
summary's `start` and `end` (`jsonStart`, `jsonEnd`). A value is a timestamp
string, `Blank` (the key left out, or `""`), `Garbage`, or a model value in
`Falsy` (`null`, `0`, `false`) or `Truthy` (a number such as an epoch second,
or `true`). `WindowArg` is `str(v or "") or None` of lines 416-417. `RowInit`
starts the averager on those arguments.

### `Outputs` and `OutputFiles`: the files on disk across invocations

`Outputs` models successive invocations of `main` and `make_plots` reading
between them. A table is abstracted to the corpus it was collected from and
its number of rows (`LongRows[c]`, `AggRows[c]`). `disk[f]` is `Absent` or
`[corpus, header, rows, closed]`.

- `Start` begins an invocation on some corpus (the roots as they are now).
- `Collect` is `collect_runs` returning.
- `write_csv` is split into its effects on disk: `OpenFile` (truncate),
  `WriteHeader`, `WriteRow` (one per row) and `CloseFile`, which also moves
  `main` on to the next file of `WriteOrder` or to its prints.
- `Return` is the prints and `return 0`.
- `Crash` ends the live process between any two of these steps. The disk
  keeps what was written. Since a crash can happen at every step, every
  prefix that buffering could leave on disk is reached.
- `Plot` is `load_csvs`: `FileNotFoundError` for a missing file,
  `EmptyDataError` for a file without a header, and otherwise both files
  read as they are.

`OutputFiles` is the abstract specification of the two files. Each file is
`Absent`, `Torn` or a corpus. `RewriteLong` replaces the long file. The
aggregated file may be rewritten only while the long file is whole, and only
with that corpus. `Outputs` maps to it with `Seen(f)`: a closed file is its
corpus, and an open one is `Torn`. The refinement is checked as the
property `OutputsRefineFiles`.

### MC modules

`MCCollectRuns`, `MCPipeline`, `MCResourceWindow`, `MCRowWindow`,
`MCPlots`, `MCBundleMeta` and `MCOutputs` define the constants. Their
comments explain each choice.

## 3. Runs

| Run | Expect | Properties | What it shows |
|---|---|---|---|
| `collect_runs` | pass | `TypeOK`, `WalkMatchesReference` | On 28 900 forests (2 roots, each missing or with 2 bundles; each bundle a file or 3 rep slots; each rep slot a file, usable for either scenario, without docker stats, invalid JSON, or a JSON number), every walk that finishes returns exactly the usable replications in traversal order, and warns exactly about the missing roots and the rejected `rep<N>` directories. The reference is a declarative filter over the forest. |
| `collect_crash` | violation | `NoBatchAbort` | A summary that holds `5` crashes the batch (`TypeError` at line 403). The spec says a per-replication failure never aborts the batch. |
| `pipeline_aggregate` | pass | `PipelineTypeOK`, `AggMatchesReference` | On 10 201 forests whose summaries have a missing, `null`, unparsable, or numeric skew and `p50`/`errors` that are numbers, `null` or unparsable: each aggregated row has `n_reps`, `errors_sum` and the NaN-ignoring median of exactly the rows with its key. The reference median is the k-th-smallest definition. |
| `pipeline_nan_split` | violation | `KeysNeverSplit` | Two rows of one configuration without a skew end up in two aggregated rows. |
| `pipeline_nan_order` | violation | `AggSortedByKey` | Groups whose skews are 1.3, NaN and 1.0 are emitted in that order. |
| `resource_window` | pass | `WindowAveragesMatchSpec`, `WindowDecision` | Five windows are checked: valid, missing start, unparsable end, inverted, and end without offset. Against every CSV of up to three lines drawn from 11, the four averages are the means over exactly the tracked lines whose instant lies in the inclusive window. Lines with seven fraction digits are cut onto the window's edges and must be kept. A 2.10 s line must be padded on the right to stay inside. All of this holds for files the reader can read, whenever the window and the lines agree on carrying an offset. Four more summary windows have a `null`, numeric, `0` or `true` endpoint. The window is applied exactly when both endpoints are timestamp strings, and a warning is printed exactly when neither is falsy. |
| `resource_mixed` | violation | `MixedZonesKeepSamples` | Lines without an offset against a window with one are all dropped silently, with no warning. The averages become NaN. |
| `resource_corrupt` | violation | `MalformedRowSkipped` | One line the reader raises on makes every average NaN, discarding the readable lines. Spec 4.3 says a malformed row is skipped without aborting the read. |
| `plots_tables` | pass | `PlotsTypeOK`, `RatiosMatchLines`, `AbortExactlyOnBadQuotient`, `HResPointsOnLines`, `LoadLinesMatchLoadTable`, `MissedTokensMatchReference`, `TTypeOK`, `BestConfigMatchesReference`, `TexShowsTables` | `make_plots`' `main` runs on every aggregated frame of up to three rows drawn, with repetition, from 12, and on five long frames. The checks: **(1)** The speedup and offload figures are exactly the quotients of the baseline line by each cache line of plots A and E. **(2)** The process aborts, before the tables, exactly when such a quotient has a skew with two points or a zero cache value. **(3)** Every point of plot B is a point of plot A. **(4)** Plot F's lines are the load table's rows. **(5)** The missed-token plot is the per-skew median of the replicates. **(6)** The best-config table has one row per skew at which a cache resolution sustains 800 rps; for each metric it reports a sustaining resolution with the smallest median, or NaN. **(7)** Each `.tex` table exists exactly when its `.csv` does. It has the column names as its header and one line per row, in order. Every cell reads back as the row's value, with `--` exactly for NaN. |
| `outputs` | pass | `OutTypeOK`, `OutputsRefineFiles` | Over three invocations on two corpora (two rows in one group, and none), each of which may die between any two steps, the files implement `OutputFiles`: `runs_agg.csv` is only rewritten while `runs_long.csv` is whole, and then with that corpus's aggregate. |
| `outputs_torn` | violation | `PlotsFromOneBatch` | A process that dies after the header of `runs_agg.csv` leaves a whole long table beside an empty aggregated one, and `make_plots` loads the pair. The spec says intermediate failures never leave a partial output file. |
| `bundle_scenario` | violation | `ScenarioMatchesSpec` | `"cachebaseline"` is classified baseline, but the spec's prefix rule says cache. |

The seven violations are findings. These were reproduced on CPython 3.11:

- A summary that holds `5` raises `TypeError: argument of type 'int' is not
  iterable`.
- One skew-less bundle under two roots gives two aggregated rows, with
  `n_reps` 2 and 1.
- `sorted` returns skews in the order `[1.3, nan, 1.0]`.
- A docker line `2026-01-18T00:00:02` inside the window
  `00:00:01Z`-`00:00:02.5+00:00` is ignored.
- `parse_bundle_meta("cachebaseline-r9-")` and
  `parse_bundle_meta("cache9-baseline-x")` return scenario `baseline`.
- For `outputs_torn`, a process killed after `writeheader()` leaves a
  header-only `runs_agg.csv`.

`resource_corrupt` follows from the structure of lines 234-259: the
`for row in reader` that raises is outside the per-line `try`.

Two more findings come from passing runs:

- `WindowDecision` shows that a missing endpoint is never warned about,
  while spec 4.3 says it is logged.
- `AbortExactlyOnBadQuotient` shows that `make_plots` dies with `TypeError`
  whenever two `runs_agg` rows of one configuration share a skew at 800 rps
  and the baseline has that skew. Two TTL variants of one cache resolution
  are enough. A cache median of exactly 0 beside a baseline value does the
  same. The tables are then never written, while the script's docstring
  promises all plots and tables. This relies on pandas' `Series.__float__`,
  which raises for more than one element, and on `.astype(float)` refusing
  `pd.NA`. pandas is not installed here, so neither was run.

### Bounds

In `MCResourceWindow`, three lines are enough for a kept line, a skipped line
and a corrupt line in one file, in either order. The five windows cover every
branch of the window parse. The timestamps sit exactly on the window's edges
after truncation, inside it through an offset, after it, and without an
offset.

In `MCPlots`, three aggregated rows are enough for a baseline and two
variants of one cache resolution at one skew, which is the smallest abort.
They are also enough for two resolutions tying at one skew next to a row of
another skew. The twelve rows include:

- a baseline variant without `p50`, which decides plot B's `.iloc[0]`;
- a `baseline` row at resolution 9, from a name such as
  `cachebaseline-r9-`;
- a cache row at exactly 95% of the target;
- rows without skew, CPU or throughput;
- rows at 600 and 1000 rps for the load figures and table;
- a cache r7 row with a zero `p50` at skew 1.3, which aborts plot D, and
  one with a zero CPU and a zero `p99` at 1.0, where the baseline has no
  `p99`: it aborts only at the offload figure E17, after plot D's `p99`
  join has dropped the zero.

Together they reach every skip of the three tables, and they put NaN in
every kind of `.tex` column: skew, latency, throughput, errors, CPU, and
the best-config cells. The skews are 1.0 and 1.3. Real skews carry one
decimal, so `.1f` loses nothing on them; a skew with two decimals would
lose its second one. The five long frames
pool two TTL variants, hold a replicate without a count and one without a
skew, and cover the empty frame.

Two roots are the fewest that revisit the same bundle name. That revisit
creates two NaN objects for one configuration.

Two bundles and two `rep<N>` slots are enough to reach every skip at every
level, followed by a later sibling that must still be visited. This is the
case where a `break` in place of a `continue`, or a missing cursor reset,
shows. The third rep slot, `aux`, has a name that is not `rep<N>`.

In `MCPipeline`, the choices per rep slot are chosen so that:

- every pair of rows can share or differ in key;
- NaN and empty cells reach the median;
- the median sees both odd and even counts;
- three groups can meet in the order that defeats `sorted`.

In `MCOutputs`, two corpora are the fewest for a mixed pair. Corpus `c1`
has two long rows and one aggregated row, so a death can leave a truncated
table. Corpus `c2` is empty, so a header-only file is also whole. Three
invocations are enough for a whole pair, then a rewrite of it, then a later
run over the other corpus.

In `MCBundleMeta`, the 14 segments hold:

- both scenario prefixes, and a segment with both words;
- each pattern with a body that matches and one that does not;
- a skew with a trailing dot, and one with no digits;
- the empty segment of a leading or doubled hyphen.

Three segments are enough to put "cache" first and "baseline" after it,
with or without a hyphen between.

### Fairness

No run assumes fairness: every property is a safety property. `Outputs`'
`Spec` is `Init /\ [][Next]_vars`, and its refinement property
`OutputsRefineFiles` is the abstract module's safety specification.

Every behaviour is finite and ends in
`done`, `crashed` or `exited`, where the model stutters. Deadlock checking is
on everywhere: a state with no successor before the end would be a modelling
error.

## 4. What is not modelled, and the plan

Not composed:

- **`Pipeline` feeding `Plots`.** `MCPlots` draws `runs_agg.csv` from a
  set of frames instead of taking `Pipeline`'s output. Feeding it would
  take three things:
  - `Aggregate` would have to carry every plotted median. Today it keeps
    `p50` and the error sum, and the other medians are computed the same
    way.
  - The model would have to read `write_csv`'s text back through
    `pd.read_csv` and `coerce_numeric`.
  - The plots would run on the product of 10 201 forests with their walks.

  Nothing new would be shown. The split and misordered NaN-skew rows are
  already visible in `runs_agg.csv` (`pipeline_nan_split`,
  `pipeline_nan_order`). Downstream, NaN skews are dropped by every plot's
  `dropna` and shown as `--` in the 800 rps table, which `MCPlots`'
  NaN-skew row already covers.

Out of reach:

- Matplotlib styling, figure and file names, and the `print` messages,
  which are pure output. The CSV text of the `make_plots` tables
  (`to_csv`) is also left out: the model keeps a table as its rows.
- The exact float arithmetic of means and medians. Values are abstract
  naturals, because the properties compare only which rows are combined.
- String formatting of the CSV beyond `None`, `""` and `nan`.
- A row cut in the middle of a number by a death during `write_csv`. A
  table is counted in whole rows.
- `strip()` of a bundle name, and Unicode digits matched by `\d`.
- A numeric endpoint such as `20260118`, which `fromisoformat` accepts as a
  date. Every number is `Truthy` and unparsable.
