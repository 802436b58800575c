---------------------------- MODULE LogUploadMC ----------------------------
(* Instances of LogUpload for TLC: model values come from the .cfg files.  *)
EXTENDS LogUpload, TLC

CONSTANTS w1, w2, p1, p2, p3

OneWorker == {w1}

TwoWorkers == {w1, w2}
TwoPids == {p1, p2}

ThreePids == {p1, p2, p3}

\* Workers are alike and so are processes; no safety property singles one out.
Symmetry == Permutations(TwoWorkers) \union Permutations(ThreePids)

=============================================================================
