---------------------------- MODULE MCHarvester ----------------------------
(***************************************************************************)
(* Instances of Harvester for TLC.                                         *)
(*                                                                         *)
(*        c1 <- c2 <- m        m merges the feature commit f into c2       *)
(*         |\        /                                                     *)
(*         | `- f <-'                                                      *)
(*         `- r                r rewrites the branch: c2, f and m are gone *)
(*                                                                         *)
(* `Linear' is c1 <- c2 <- f <- m, f rebased onto c2.  `Ordered' gives      *)
(* every commit a later author date than its ancestors; in `Rebased' f was  *)
(* authored before c2, a date that a rebase keeps.                         *)
(***************************************************************************)
EXTENDS Harvester, TLC

CONSTANTS c1, c2, f, m, r

Merged == (c1 :> {c1}) @@ (c2 :> {c1, c2}) @@ (f :> {c1, f})
             @@ (m :> {c1, c2, f, m}) @@ (r :> {c1, r})
Linear == (c1 :> {c1}) @@ (c2 :> {c1, c2}) @@ (f :> {c1, c2, f})
             @@ (m :> {c1, c2, f, m})

Ordered == (c1 :> 1) @@ (c2 :> 2) @@ (f :> 3) @@ (m :> 4)
Rebased == (c1 :> 1) @@ (c2 :> 3) @@ (f :> 2) @@ (m :> 4)
RebasedAndRewritten == Rebased @@ (r :> 3)
=============================================================================
