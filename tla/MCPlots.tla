------------------------------ MODULE MCPlots ------------------------------
(***************************************************************************)
(* make_plots' main() on every runs_agg.csv of up to three rows drawn,    *)
(* with repetition, from the rows below.  A row drawn twice is two        *)
(* aggregated rows of one (scenario, h3_res, skew, load) that differ in a *)
(* column the plots ignore (ttl, hot set, invalidation).                  *)
(***************************************************************************)
EXTENDS Plots

NaNc == NaNObj("csv")

Row(sc, h3, z, tgt, thr, p50, p99, err, cpu) ==
  [scenario |-> sc, h3_res |-> Num(h3), zipf_s |-> z, target_rps |-> Num(tgt),
   thr |-> thr, lat |-> [p50 |-> p50, p99 |-> p99], errors |-> err, cpu |-> cpu]

(* Baseline r0 at skew 1.3 twice (once without p50) and at 1.0; a        *)
(* "baseline" r9 row (a name such as cachebaseline-r9-...); cache r8 at  *)
(* 1.3 sustaining 800 rps, r9 at exactly 95% of it with no CPU, r8 at    *)
(* 1.0 missing the target, and r8 with no skew; cache r8 at 600 rps and *)
(* the baseline at 1000 rps for the load plots; cache r7 with a zero p50 *)
(* at 1.3, and with a zero CPU and a zero p99 at 1.0, where the baseline *)
(* has no p99.                                                           *)
MCRows ==
  { Row("baseline", 0, Num(13),  800, Num(800), Num(8), Num(9),  Num(0), Num(40)),
    Row("baseline", 0, Num(13),  800, Num(800), NaNc,   Num(9),  Num(0), NaNc),
    Row("baseline", 0, Num(10),  800, Num(800), Num(6), NaNc,    Num(2), Num(30)),
    Row("baseline", 9, Num(13),  800, Num(800), Num(7), Num(8),  Num(0), Num(35)),
    Row("cache",    8, Num(13),  800, Num(790), Num(4), Num(6),  Num(1), Num(10)),
    Row("cache",    9, Num(13),  800, Num(760), Num(4), NaNc,    Num(0), NaNc),
    Row("cache",    8, Num(10),  800, Num(700), NaNc,   Num(5),  NaNc,   Num(20)),
    Row("cache",    8, NaNc,     800, Num(800), Num(2), Num(3),  Num(0), Num(5)),
    Row("cache",    8, Num(13),  600, Num(600), Num(3), Num(5),  Num(0), Num(8)),
    Row("baseline", 0, Num(13), 1000, Num(900), Num(9), Num(12), Num(3), Num(50)),
    Row("cache",    7, Num(13),  800, Num(800), Num(0), Num(4),  Num(0), Num(12)),
    Row("cache",    7, Num(10),  800, Num(800), Num(5), Num(0),  Num(0), Num(0)) }

MCAggTables == UNION {[1..n -> MCRows] : n \in 0..3}

LRow(sc, h3, z, tgt, missed, p50, p99) ==
  [scenario |-> sc, h3_res |-> Num(h3), zipf_s |-> z, target_rps |-> Num(tgt),
   missed |-> missed, lat |-> [p50 |-> p50, p99 |-> p99]]

(* Replicates of cache r8 at skew 1.3: two TTL variants with 4 and 1     *)
(* missed tokens, one that reported none; one without a skew; the       *)
(* baseline at 1.0; a 600 rps replicate the 800 rps plots ignore.        *)
L1 == LRow("cache",    8, Num(13), 800, Num(4), Num(4), Num(6))
L2 == LRow("cache",    8, Num(13), 800, Num(1), Num(5), NaNc)
L3 == LRow("cache",    8, Num(13), 800, NaNc,   Num(3), Num(7))
L4 == LRow("cache",    8, NaNc,    800, Num(2), Num(2), Num(3))
L5 == LRow("baseline", 0, Num(10), 800, Num(0), Num(6), Num(8))
L6 == LRow("cache",    8, Num(13), 600, Num(9), Num(3), Num(5))

MCLongTables == {<<>>, <<L1, L2, L5>>, <<L3, L4, L6>>, <<L1, L3, L2, L5>>, <<L6, L2, L4>>}
=============================================================================
