------------------------------ MODULE Aggregate ------------------------------
(***************************************************************************)
(* The Aggregator: aggregate_runs(rows) in scripts/collect_results.py.     *)
(* Three loops: group the long-table rows by their key in a dict (keys in  *)
(* first-insertion order), sort the groups by key with sorted(), and emit *)
(* one aggregated row per group.                                          *)
(*                                                                         *)
(* The key is (scenario, h3_res, zipf_s, target_rps, ttl, hot,             *)
(* invalidation); ttl, hot and invalidation are strings that compare by    *)
(* value and are left out.  The medians of p95_ms, p99_ms, throughput_rps  *)
(* and the four resource columns are computed exactly as the p50_ms one   *)
(* and are represented by it.                                              *)
(***************************************************************************)
EXTENDS Integers, Sequences, SequencesExt, FiniteSets, PyValues

VARIABLES
  rows,       \* the long table (input, not changed here)
  apc,        \* "idle", "group", "emit", "done"
  ai,         \* next row of the grouping loop
  groups,     \* the dict: sequence of [key, members] in insertion order
  ei,         \* next group of the emitting loop
  aggRows     \* the aggregated table built so far

aggVars == <<apc, ai, groups, ei, aggRows>>

(* Lines 446-454.  safe_float(zipf_s) gives a fresh NaN for a string,    *)
(* identified by the row it was computed for.                            *)
Key(i) ==
  <<rows[i].scenario,
    SafeInt(rows[i].h3_res, 0),
    SafeFloat(rows[i].zipf_s, <<"agg", i>>),
    SafeInt(rows[i].target_rps, 0)>>

(* Python's < on two key tuples: the first position where == is false   *)
(* (identity first, so a NaN equals only itself) decides; strings by     *)
(* code points, NaN is never < nor > anything.                           *)
ScenarioRank == [baseline |-> 1, cache |-> 2, unknown |-> 3]

ElemLT(i, x, y) ==
  CASE i = 1 -> ScenarioRank[x] < ScenarioRank[y]
    [] i = 3 -> ~x.nan /\ ~y.nan /\ x.v < y.v
    [] OTHER -> x < y

KeyLT(a, b) ==
  LET d == {i \in DOMAIN a : a[i] # b[i]}
  IN  d # {} /\ ElemLT(Min(d), a[Min(d)], b[Min(d)])

(* list.sort as CPython runs it on fewer than 64 items: count_run finds  *)
(* the leading run (strictly descending runs are reversed), then         *)
(* binarysort inserts every later item by binary search, comparing with  *)
(* < only.  Items are dict entries [key, members], compared by key.      *)
RECURSIVE AscRun(_, _), DescRun(_, _)
AscRun(s, k) ==
  IF k <= Len(s) /\ ~KeyLT(s[k].key, s[k-1].key) THEN AscRun(s, k + 1) ELSE k - 1
DescRun(s, k) ==
  IF k <= Len(s) /\ KeyLT(s[k].key, s[k-1].key) THEN DescRun(s, k + 1) ELSE k - 1

RECURSIVE Bisect(_, _, _, _)
Bisect(pre, x, l, r) ==
  IF l >= r THEN l
  ELSE LET p == l + ((r - l) \div 2)
       IN  IF KeyLT(x.key, pre[p + 1].key) THEN Bisect(pre, x, l, p)
           ELSE Bisect(pre, x, p + 1, r)

RECURSIVE BinaryInsertAll(_, _)
BinaryInsertAll(pre, rest) ==
  IF rest = <<>> THEN pre
  ELSE BinaryInsertAll(InsertAt(pre, Bisect(pre, Head(rest), 0, Len(pre)) + 1,
                                Head(rest)),
                       Tail(rest))

ListSort(s) ==
  IF Len(s) < 2 THEN s
  ELSE LET desc == KeyLT(s[2].key, s[1].key)
           n    == IF desc THEN DescRun(s, 3) ELSE AscRun(s, 3)
           run  == IF desc THEN Reverse(SubSeq(s, 1, n)) ELSE SubSeq(s, 1, n)
       IN  BinaryInsertAll(run, SubSeq(s, n + 1, Len(s)))

(* Lines 471-483 for one group.  Values are read with r.get(...), so a   *)
(* "" cell counts as NaN for the median and as 0 for the error sum.      *)
AggRow(g) ==
  [key         |-> g.key,
   p50_median2 |-> MedianIgnoreNaN([j \in DOMAIN g.members |-> rows[g.members[j]].p50_ms]),
   errors_sum  |-> FoldLeft(LAMBDA acc, i : acc + SafeInt(rows[i].errors, 0), 0, g.members),
   n_reps      |-> Len(g.members)]

-----------------------------------------------------------------------------
AggInit ==
  /\ apc = "idle"
  /\ ai = 1
  /\ groups = <<>>
  /\ ei = 1
  /\ aggRows = <<>>

(* aggregate_runs(rows) is called.                                       *)
StartAggregate ==
  /\ apc = "idle"
  /\ apc' = "group"
  /\ UNCHANGED <<ai, groups, ei, aggRows, rows>>

(* Mutant of GroupRow: the member index is off by one.                  *)
GroupRowOffByOne ==
  /\ apc = "group" /\ ai <= Len(rows)
  /\ LET k == Key(ai)
         j == SelectInSeq(groups, LAMBDA g : g.key = k)
     IN  groups' = IF j = 0 THEN Append(groups, [key |-> k, members |-> <<ai + 1>>])
                   ELSE [groups EXCEPT ![j].members = Append(@, ai + 1)]
  /\ ai' = ai + 1
  /\ UNCHANGED <<apc, ei, aggRows, rows>>

(* Line 455: groups[key].append(r); a new key is added at the end.       *)
GroupRow ==
  /\ apc = "group" /\ ai <= Len(rows)
  /\ LET k == Key(ai)
         j == SelectInSeq(groups, LAMBDA g : g.key = k)
     IN  groups' = IF j = 0 THEN Append(groups, [key |-> k, members |-> <<ai>>])
                   ELSE [groups EXCEPT ![j].members = Append(@, ai)]
  /\ ai' = ai + 1
  /\ UNCHANGED <<apc, ei, aggRows, rows>>

(* Line 459: sorted(groups.items(), key=lambda kv: kv[0]).               *)
SortGroups ==
  /\ apc = "group" /\ ai = Len(rows) + 1
  /\ groups' = ListSort(groups)
  /\ apc' = "emit"
  /\ UNCHANGED <<ai, ei, aggRows, rows>>

(* Lines 460-484: one aggregated row per group, in sorted order.         *)
EmitGroup ==
  /\ apc = "emit" /\ ei <= Len(groups)
  /\ aggRows' = Append(aggRows, AggRow(groups[ei]))
  /\ ei' = ei + 1
  /\ UNCHANGED <<apc, ai, groups, rows>>

(* Line 486.                                                             *)
FinishAggregate ==
  /\ apc = "emit" /\ ei = Len(groups) + 1
  /\ apc' = "done"
  /\ UNCHANGED <<ai, groups, ei, aggRows, rows>>

AggStep == StartAggregate \/ GroupRow \/ SortGroups \/ EmitGroup \/ FinishAggregate

-----------------------------------------------------------------------------
AggTypeOK ==
  /\ apc \in {"idle", "group", "emit", "done"}
  /\ ai \in 1..Len(rows) + 1
  /\ ei \in 1..Len(groups) + 1
  /\ \A j \in DOMAIN groups : groups[j].members \in Seq(DOMAIN rows)
  /\ \A j \in DOMAIN aggRows : DOMAIN aggRows[j] = {"key", "p50_median2", "errors_sum", "n_reps"}

(* The k-th smallest of the numbers the rows in G hold in column c,     *)
(* counted with multiplicity, and the median as the mean of the two     *)
(* middle ones (doubled).                                               *)
NumIdx(G, c) == {i \in G : IsNumber(rows[i][c])}
Kth(G, c, k) ==
  LET N == NumIdx(G, c)
      Cnt(P(_)) == Cardinality({i \in N : P(rows[i][c].v)})
  IN  CHOOSE v \in {rows[i][c].v : i \in N} :
        Cnt(LAMBDA x : x < v) < k /\ k <= Cnt(LAMBDA x : x <= v)
RefMedian2(G, c) ==
  LET n == Cardinality(NumIdx(G, c))
  IN  IF n = 0 THEN NaNObj("median")
      ELSE Num(Kth(G, c, (n + 1) \div 2) + Kth(G, c, (n \div 2) + 1))

(* aggregate_runs contract (spec 4.6): there is one aggregated row per   *)
(* distinct key of the long table, and each row's n_reps, errors_sum and *)
(* median are those of exactly the long rows whose key == its key, the   *)
(* median ignoring NaN and empty cells.                                  *)
AggMatchesReference ==
  apc = "done" =>
    LET keys == {Key(i) : i \in DOMAIN rows}
    IN  /\ {a.key : a \in ToSet(aggRows)} = keys
        /\ Len(aggRows) = Cardinality(keys)
        /\ \A a \in ToSet(aggRows) :
             LET G == {i \in DOMAIN rows : Key(i) = a.key}
             IN  /\ a.n_reps = Cardinality(G)
                 /\ a.errors_sum = MapThenSumSet(LAMBDA i : SafeInt(rows[i].errors, 0), G)
                 /\ a.p50_median2 = RefMedian2(G, "p50_ms")

(* Two keys name the same configuration when they agree field by field, *)
(* every NaN skew counting as the same "no skew" value.                  *)
SameConfig(a, b) ==
  \A c \in DOMAIN a :
    IF c = 3 THEN (a[3].nan /\ b[3].nan) \/ (~a[3].nan /\ ~b[3].nan /\ a[3].v = b[3].v)
    ELSE a[c] = b[c]

(* Spec 3: grouping uses normalized key values, so that no logical        *)
(* configuration is split over two aggregated rows.                      *)
KeysNeverSplit ==
  \A i, j \in DOMAIN aggRows : i # j => ~SameConfig(aggRows[i].key, aggRows[j].key)

(* Spec 4.6: groups are emitted sorted by key ascending, whatever order   *)
(* the walk produced them in: no row's key is < the key of a row before. *)
AggSortedByKey ==
  \A i, j \in DOMAIN aggRows : i < j => ~KeyLT(aggRows[j].key, aggRows[i].key)
=============================================================================
