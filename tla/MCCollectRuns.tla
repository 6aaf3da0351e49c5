---------------------------- MODULE MCCollectRuns ----------------------------
(***************************************************************************)
(* Model of collect_runs on two roots, two bundle names and three         *)
(* replication-candidate names ("aux" and two rep<N>).  Every root may be *)
(* missing, every bundle may be a plain file, every rep slot may be a     *)
(* file or any of the entry kinds below.                                  *)
(***************************************************************************)
EXTENDS CollectRuns, TLC

MCRoots == <<"results/A", "results/B">>

(* sorted() order of the bundle names.  The second one parses to the     *)
(* baseline scenario, so a rep holding cache_summary.json is "missing"   *)
(* its summary there.                                                     *)
(* The names go through parse_bundle_meta and parse_rep_int as modelled  *)
(* in BundleMeta, on the same segment abstraction.                       *)
BM == INSTANCE BundleMeta WITH Names <- {}, NaN <- NoZipf, name <- <<>>, meta <- None

MCBundles == << <<BM!Seg("baseline", ""), BM!Seg("r", "0"), BM!Seg("ttl", "60")>>,
                <<BM!Seg("cache", ""), BM!Seg("r", "8"), BM!Seg("ttl", "60"),
                  BM!Seg("zipfs", "1.3")>> >>
MCMeta == [b \in ToSet(MCBundles) |->
             LET m == BM!ParseBundleMeta(b)
             IN  [scenario |-> m.scenario, h3_res |-> m.h3_res,
                  zipf |-> IF m.zipf_s_from_folder = NoZipf THEN NoZipf
                           ELSE BM!FloatTenths(m.zipf_s_from_folder)]]

(* "aux", "rep1" and "rep2", in sorted() order.                          *)
MCReps == <<BM!RepName("aux", <<>>, ""), BM!RepName("rep", <<1>>, ""),
            BM!RepName("rep", <<2>>, "")>>
MCRepNum == [n \in ToSet(MCReps) |-> BM!ParseRepInt(n)]

S1 == [zipf_s |-> Absent, target_rps |-> Num(800), throughput_rps |-> Num(760),
       achieved_to_target_ratio |-> Absent, p50_ms |-> Num(4), errors |-> Num(1)]
MCSummaries == {S1}

OkCache   == [summaryFor |-> "cache", docker |-> TRUE, json |-> S1]
OkBase    == [summaryFor |-> "baseline", docker |-> TRUE, json |-> S1]
NoDocker  == [summaryFor |-> "cache", docker |-> FALSE, json |-> S1]
Invalid   == [summaryFor |-> "baseline", docker |-> TRUE, json |-> BadJson]
Scalar    == [summaryFor |-> "cache", docker |-> TRUE, json |-> JsonScalar]

(* What each rep slot may hold: "aux" is never read past its name; the  *)
(* two rep<N> slots take their choices from slots[1] and slots[2].        *)
SlotChoices(p, slots) ==
  IF MCRepNum[MCReps[p]] = None THEN {OkCache} ELSE slots[MCRepNum[MCReps[p]]]

ForestsOf(slots) ==
  LET BundleChoices ==
        {NotDir} \cup
        {g \in [DOMAIN MCReps -> UNION {slots[i] : i \in DOMAIN slots} \cup {OkCache}] :
           \A p \in DOMAIN MCReps : g[p] \in SlotChoices(p, slots)}
      RootChoices == {Missing} \cup [DOMAIN MCBundles -> BundleChoices]
  IN  [DOMAIN MCRoots -> RootChoices]

MCEntries == {OkCache, OkBase, NoDocker, Invalid, Scalar}

(* Each rep<N> slot may be a file, hold a usable summary (for one       *)
(* scenario or the other), fail one of the checks, or hold a bare JSON    *)
(* number.                                                                *)
MCForests == ForestsOf(<<{NotDir, NoDocker, OkCache}, {Invalid, OkBase, OkCache, Scalar}>>)
=============================================================================
