----------------------------- MODULE OutputFiles -----------------------------
(***************************************************************************)
(* What runs_long.csv and runs_agg.csv promise to a reader, whatever      *)
(* happens to the process writing them: each file is absent, torn (being  *)
(* rewritten, or left so by a dead writer), or holds one whole table of   *)
(* one corpus.  The aggregate file is only ever rewritten while the long  *)
(* file holds a whole corpus, and then with the aggregate of that corpus. *)
(***************************************************************************)
CONSTANTS
  Corpora,   \* the input snapshots a batch may collect
  Absent,    \* no file on disk
  Torn       \* a file whose rewrite has started and not been closed

VARIABLES long, agg

Content == {Absent, Torn} \cup Corpora

Init == long = Absent /\ agg = Absent

(* runs_long.csv is replaced: torn first, then whole with some corpus.   *)
RewriteLong ==
  /\ \E v \in {Torn} \cup Corpora : long' = v
  /\ UNCHANGED agg

(* runs_agg.csv is replaced only while runs_long.csv is whole, and only  *)
(* ever by the aggregate of the corpus runs_long.csv holds.              *)
RewriteAgg ==
  /\ long \in Corpora
  /\ agg' \in {Torn, long}
  /\ UNCHANGED long

Spec == Init /\ [][RewriteLong \/ RewriteAgg]_<<long, agg>>
=============================================================================
