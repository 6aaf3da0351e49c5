------------------------------ MODULE BundleMeta ------------------------------
(***************************************************************************)
(* parse_bundle_meta of scripts/collect_results.py (lines 162-198) against *)
(* spec section 4.2.  A bundle name is abstracted to its hyphen-separated  *)
(* segments; a segment is a known prefix (tag) followed by the rest of    *)
(* its text (body).  Every pattern of the code is anchored on hyphens and  *)
(* captures no hyphen, so re.search is the leftmost segment that fits.     *)
(***************************************************************************)
EXTENDS Naturals, Sequences, FiniteSets
LOCAL INSTANCE SequencesExt

CONSTANTS
  Names,      \* the bundle names to parse: sequences of segments
  None,       \* a failed match
  NaN         \* float("nan")

VARIABLES name, meta

Seg(t, b) == [tag |-> t, body |-> b]

(* Segment bodies as the regex classes see them: \d+ matches the Digits  *)
(* bodies, and [0-9]+(?:\.[0-9]+)? takes the number at a body's start.   *)
Digits == {"0", "8", "9", "60"}
NumPrefix(b) ==
  CASE b \in Digits \/ b = "1.3" -> b
    [] b = "1."                  -> "1"
    [] OTHER                     -> None
IntOf(d) == CASE d = "0" -> 0 [] d = "8" -> 8 [] d = "9" -> 9 [] d = "60" -> 60

(* The words "baseline" and "cache" inside a segment's text.             *)
Holds(s, w) ==
  \/ s.tag = w
  \/ s.tag = "cachebaseline" /\ w \in {"cache", "baseline"}

(* Lines 165-174: the prefix "baseline-" or "cache-", then "baseline" or *)
(* "cache" anywhere, else "unknown".                                     *)
Scenario(n) ==
  IF Len(n) > 1 /\ n[1] = Seg("baseline", "") THEN "baseline"
  ELSE IF Len(n) > 1 /\ n[1] = Seg("cache", "") THEN "cache"
  ELSE IF \E i \in 1..Len(n) : Holds(n[i], "baseline") THEN "baseline"
  ELSE IF \E i \in 1..Len(n) : Holds(n[i], "cache") THEN "cache"
  ELSE "unknown"

(* The group a pattern -<t>(...) captures from one segment's body.      *)
Capture(t, b) ==
  CASE t = "r"     -> IF b \in Digits THEN b ELSE None
    [] t = "zipfs" -> NumPrefix(b)
    [] OTHER       -> IF b = "" THEN None ELSE b

RECURSIVE Scan(_, _, _, _)
(* re.search(r"-<t>(...)-?"): a hyphen must precede the segment, and one *)
(* must follow it when the pattern ends in "-" (ends).                  *)
Scan(n, t, ends, i) ==
  IF i > Len(n) THEN None
  ELSE IF /\ i > 1 /\ (~ends \/ i < Len(n))
          /\ n[i].tag = t /\ Capture(t, n[i].body) # None
       THEN Capture(t, n[i].body)
       ELSE Scan(n, t, ends, i + 1)

(* Lines 179-186: a token pattern's group, or "" when it does not match. *)
Token(n, t) == LET m == Scan(n, t, TRUE, 1) IN IF m = None THEN "" ELSE m

(* Lines 162-198.                                                        *)
ParseBundleMeta(n) ==
  LET r == Scan(n, "r", TRUE, 1)
      z == Scan(n, "zipfs", FALSE, 1)
      Tok(t) == Token(n, t)
  IN [scenario |-> Scenario(n),
      h3_res |-> IF r = None THEN 0 ELSE IntOf(r),
      ttl |-> Tok("ttl"), hot |-> Tok("hot"), invalidation |-> Tok("inv"),
      zipf_s_from_folder |-> IF z = None THEN NaN ELSE z]

(* A replication directory name: a stem, the decimal digits after it and *)
(* whatever follows them (parse_rep_int only reads the name).           *)
RepName(stem, ds, tail) == [stem |-> stem, digits |-> ds, tail |-> tail]

(* Lines 201-205, parse_rep_int: re.match(r"^rep(\d+)$") and int() of the *)
(* digits, leading zeros included; None when the name is anything else.  *)
(* "$" also matches before a final newline.                              *)
ParseRepInt(n) ==
  IF n.stem = "rep" /\ n.digits # <<>> /\ n.tail \in {"", "\n"}
  THEN FoldLeft(LAMBDA acc, d : 10 * acc + d, 0, n.digits)
  ELSE None

(* float() of a captured skew, in tenths as the tables hold skews.        *)
FloatTenths(z) ==
  CASE z = "1.3" -> 13 [] z = "1" -> 10 [] z \in Digits -> 10 * IntOf(z)

Init == name \in Names /\ meta = None

(* collect_runs line 355: meta = parse_bundle_meta(bundle_name).         *)
Parse == meta = None /\ meta' = ParseBundleMeta(name) /\ UNCHANGED name

Parsed == meta # None /\ UNCHANGED <<name, meta>>

Next == Parse \/ Parsed

-----------------------------------------------------------------------------
(* Spec section 4.2, read as written: a prefix match of "baseline" or    *)
(* "cache" wins over a match anywhere.                                   *)
SpecScenario(n) ==
  IF n[1].tag = "baseline" THEN "baseline"
  ELSE IF n[1].tag \in {"cache", "cachebaseline"} THEN "cache"
  ELSE IF \E i \in 1..Len(n) : Holds(n[i], "baseline") THEN "baseline"
  ELSE IF \E i \in 1..Len(n) : Holds(n[i], "cache") THEN "cache"
  ELSE "unknown"

(* The scenario follows the spec's precedence: a name that starts with   *)
(* "cache" is a cache bundle even when "baseline" occurs later in it.    *)
ScenarioMatchesSpec == meta # None => meta.scenario = SpecScenario(name)
=============================================================================
