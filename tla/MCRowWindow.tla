----------------------------- MODULE MCRowWindow -----------------------------
(***************************************************************************)
(* The windows of MCResourceWindow, as the summary strings they come     *)
(* from, and summary endpoints that are not strings: null, 0, an epoch    *)
(* number and true, on every log of MCResourceWindow.                     *)
(***************************************************************************)
EXTENDS RowWindow, MCResourceWindow

CONSTANTS JNull, JZero, JEpoch, JTrue

MCEnds ==
  MCWindows \cup {<<JNull, EndB>>, <<JEpoch, EndB>>, <<StartA, JZero>>, <<JTrue, EndN>>}

MCRowWindows == {<<WindowArg(w[1]), WindowArg(w[2])>> : w \in MCEnds}

=============================================================================
