---------------------------- MODULE MCMultiNode ----------------------------
(***************************************************************************)
(* Model-checking instances of MultiNode.                                  *)
(***************************************************************************)
EXTENDS MultiNode, TLC

Settings(syncing, finality, threshold, leased, selection) ==
  [NodeIsSyncingEnabled |-> syncing, FinalityTagEnabled |-> finality,
   SyncThreshold |-> threshold, LeaseEnabled |-> leased,
   NodeSelectionMode |-> selection]

\* Everything that loops watch without block numbers; then only those.
Watching == Settings(TRUE, TRUE, 0, TRUE, "HighestHead")
Comparing == Settings(FALSE, FALSE, 1, FALSE, "PriorityLevel")
Leasing == Settings(FALSE, FALSE, 0, TRUE, "HighestHead")
Plain == Settings(FALSE, FALSE, 0, FALSE, "TotalDifficulty")

WatchingOrComparing == {Watching, Comparing}
OnlyLeasing == {Leasing}
OnlyPlain == {Plain}

SameOrder == [n \in Node |-> 1]
NodeSymmetry == Permutations(Node)
OneOf == {CHOOSE n \in Node : TRUE}
=============================================================================
