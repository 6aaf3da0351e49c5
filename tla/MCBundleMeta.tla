----------------------------- MODULE MCBundleMeta -----------------------------
(***************************************************************************)
(* Every name of one to three segments drawn from the segments below:     *)
(* the two scenario prefixes, one segment holding both words, each        *)
(* pattern with a body that matches and one that does not, a skew with    *)
(* a trailing dot and one without digits, and the empty segment of a      *)
(* leading or doubled hyphen.                                             *)
(***************************************************************************)
EXTENDS BundleMeta, TLC

MCSegs ==
  { Seg("", ""), Seg("baseline", ""), Seg("cache", ""), Seg("cache", "9"),
    Seg("cachebaseline", ""), Seg("r", "9"), Seg("r", "warm"),
    Seg("ttl", "60"), Seg("ttl", ""), Seg("hot", "warm"), Seg("inv", "warm"),
    Seg("zipfs", "1.3"), Seg("zipfs", "1."), Seg("zipfs", "warm") }

MCNames == UNION {[1..k -> MCSegs] : k \in 1..3}
=============================================================================
