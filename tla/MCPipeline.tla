----------------------------- MODULE MCPipeline -----------------------------
(***************************************************************************)
(* main() on two roots that hold the same two cache bundles, one whose    *)
(* name carries -zipfs1.3 and one without a skew, with two replications   *)
(* each.  The summaries differ in the cells aggregate_runs reads: zipf_s  *)
(* missing, null, numeric or unparsable, target_rps present or missing,   *)
(* p50_ms numeric or unparsable, errors present, null or missing.         *)
(***************************************************************************)
EXTENDS Pipeline, TLC

MCRoots == <<"results/20260118_210726Z", "results/20260119_080715Z">>
MCBundles == <<"cache-r8-ttl60-zipfs1.3", "cache-r8-ttl60-zipfsx">>
MCMeta == ("cache-r8-ttl60-zipfs1.3" :> [scenario |-> "cache", h3_res |-> 8, zipf |-> 13])
       @@ ("cache-r8-ttl60-zipfsx" :> [scenario |-> "cache", h3_res |-> 8, zipf |-> NoZipf])
MCReps == <<"rep1", "rep2">>
MCRepNum == ("rep1" :> 1) @@ ("rep2" :> 2)

SA == [zipf_s |-> Absent, target_rps |-> Num(800), throughput_rps |-> Num(760),
       achieved_to_target_ratio |-> Absent, p50_ms |-> Num(2), errors |-> Num(1)]
SB == [zipf_s |-> Null, target_rps |-> Absent, throughput_rps |-> Absent,
       achieved_to_target_ratio |-> Blank, p50_ms |-> NaNStr, errors |-> Absent]
SC == [zipf_s |-> Num(13), target_rps |-> Num(800), throughput_rps |-> Num(800),
       achieved_to_target_ratio |-> Num(100), p50_ms |-> Num(6), errors |-> Null]
SD == [zipf_s |-> NaNStr, target_rps |-> Num(800), throughput_rps |-> Num(700),
       achieved_to_target_ratio |-> Absent, p50_ms |-> Num(3), errors |-> Num(2)]
SE == [zipf_s |-> Num(10), target_rps |-> Num(800), throughput_rps |-> Num(790),
       achieved_to_target_ratio |-> Null, p50_ms |-> Num(4), errors |-> Num(0)]
MCSummaries == {SA, SB, SC, SD, SE}

Ok(s) == [summaryFor |-> "cache", docker |-> TRUE, json |-> s]
NoDockerRep == [summaryFor |-> "cache", docker |-> FALSE, json |-> SA]
MCEntries == {Ok(s) : s \in MCSummaries} \cup {NoDockerRep}

BundleChoices == {NotDir} \cup
  {g \in [DOMAIN MCReps -> MCEntries] :
     /\ g[1] \in {NoDockerRep, Ok(SA), Ok(SB)}
     /\ g[2] \in {Ok(SC), Ok(SD), Ok(SE)}}
MCForests == [DOMAIN MCRoots -> {Missing} \cup [DOMAIN MCBundles -> BundleChoices]]
=============================================================================
