--------------------------- MODULE MCDefectCorpus ---------------------------
(***************************************************************************)
(* A linked bug fix, a linked feature, a hotfix that reverts the fix, and  *)
(* a commit that reverts one from before the history there is.             *)
(***************************************************************************)
EXTENDS DefectCorpus

Commit(sha, files, refs, words, reverts) ==
    [sha |-> sha, files |-> files, refs |-> refs, words |-> words, reverts |-> reverts]

FourCommits ==
    {Commit(1, {"f"}, {11}, {"bug"}, None), Commit(2, {"f"}, {12}, {}, None),
     Commit(3, {"f", "g"}, {}, {"hotfix"}, 1), Commit(4, {"f"}, {}, {}, 9)}
=============================================================================
