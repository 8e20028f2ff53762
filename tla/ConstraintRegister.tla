-------------------------- MODULE ConstraintRegister --------------------------
(***************************************************************************)
(* What the constraint store promises (docstrings of                       *)
(* src/chips/compiler/constraint_repository.py): at any moment an identity *)
(* has one active constraint or none; adding is a single step that fills   *)
(* an empty identity with a constraint never seen before; retiring is a    *)
(* single step that empties it, and what was retired stays retired.        *)
(***************************************************************************)
CONSTANTS Identities, Ids, None

VARIABLES
    active,     \* the active constraint of each identity, or None
    retired     \* the constraints that were retired

Init ==
    /\ active = [k \in Identities |-> None]
    /\ retired = {}

Add(k, i) ==
    /\ active[k] = None
    /\ i \notin retired
    /\ \A l \in Identities : active[l] # i
    /\ active' = [active EXCEPT ![k] = i]
    /\ UNCHANGED retired

Retire(k) ==
    /\ active[k] # None
    /\ retired' = retired \cup {active[k]}
    /\ active' = [active EXCEPT ![k] = None]

Next == \E k \in Identities : Retire(k) \/ \E i \in Ids : Add(k, i)

Spec == Init /\ [][Next]_<<active, retired>>
=============================================================================
