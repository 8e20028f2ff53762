------------------------------ MODULE Sorting ------------------------------
(***************************************************************************)
(* Python's list.sort, which is stable: what compares equal keeps its      *)
(* order.  Used where the compiler ranks signals and hypotheses.           *)
(***************************************************************************)
EXTENDS Integers, Sequences, FiniteSets

\* The members of S in the order in which ahead[x] are the ones before x.
Listed(S, ahead) ==
    [k \in 1 .. Cardinality(S) |-> CHOOSE x \in S : Cardinality(ahead[x]) = k - 1]

\* Python's list.sort with a key: stable.
SortedBy(s, Before(_, _)) ==
    LET earlier(j, i) == Before(s[j], s[i]) \/ (~Before(s[i], s[j]) /\ j < i)
        ahead == [i \in DOMAIN s |-> {j \in DOMAIN s : earlier(j, i)}]
        at == Listed(DOMAIN s, ahead)
    IN  [k \in DOMAIN s |-> s[at[k]]]

=============================================================================
