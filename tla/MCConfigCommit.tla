--------------------------- MODULE MCConfigCommit ---------------------------
EXTENDS ConfigCommit, TLC

CONSTANTS p1, p2, f1, f2, o1, o2

TwoProcs == {p1, p2}
ProcSymmetry == Permutations(TwoProcs)
TwoFiles == {f1, f2}
TwoOps == {o1, o2}

\* o1 changes both files, o2 confirms a preview and changes one of them.
Overlapping == (o1 :> {f1, f2}) @@ (o2 :> {f1})
OnePreview == {o2}

\* One operation, asked for twice.
OneOp == {o1}
BothFiles == (o1 :> {f1, f2})
=============================================================================
