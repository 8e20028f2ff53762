------------------------ MODULE DerivedReplay_proofs ------------------------
(***************************************************************************)
(* What holds of the derived tables for every history, every way to cut it *)
(* into batches and transactions, and any number of rebuilds, which may    *)
(* crash, be late, or have the daemon beside them.                         *)
(***************************************************************************)
EXTENDS DerivedReplay, FiniteSetTheorems, TLAPS

-----------------------------------------------------------------------------
(* Counting commits *)

LEMMA PairOfTwo ==
    ASSUME NEW f \in Files, NEW g \in Files \ {f}
    PROVE  {f, g} \in Pairs /\ {f, g} \subseteq Files
    <1>1. Cardinality({f} \cup {g}) = 2
        <2>1. IsFiniteSet({f}) /\ Cardinality({f}) = 1 /\ g \notin {f}
            BY FS_Singleton
        <2> QED BY <2>1, FS_AddElement
    <1>2. {f} \cup {g} = {f, g}
        OBVIOUS
    <1> QED BY <1>1, <1>2 DEF Pairs

\* The counts of a set of commits are numbers that grow with the set.
LEMMA Counted ==
    ASSUME NEW S \in SUBSET Commits, NEW B \in SUBSET S, NEW p, NEW f
    PROVE  /\ Cardinality(TogetherIn(p, S)) \in Nat /\ Cardinality(TouchedIn(f, S)) \in Nat
           /\ Cardinality(TogetherIn(p, B)) \in Nat /\ Cardinality(TouchedIn(f, B)) \in Nat
           /\ Cardinality(TogetherIn(p, B)) <= Cardinality(TogetherIn(p, S))
           /\ Cardinality(TouchedIn(f, B)) <= Cardinality(TouchedIn(f, S))
           /\ Cardinality(TogetherIn(p, S)) <= Cardinality(Commits)
           /\ Cardinality(Commits) \in Nat
    <1>1. /\ TogetherIn(p, S) \in SUBSET Commits /\ TouchedIn(f, S) \in SUBSET Commits
          /\ TogetherIn(p, B) \in SUBSET TogetherIn(p, S)
          /\ TouchedIn(f, B) \in SUBSET TouchedIn(f, S)
        BY DEF TogetherIn, TouchedIn
    <1>2. IsFiniteSet(TogetherIn(p, S)) /\ IsFiniteSet(TouchedIn(f, S))
          /\ Cardinality(TogetherIn(p, S)) <= Cardinality(Commits)
        BY <1>1, ReplayAssumption, FS_Subset
    <1>3. /\ IsFiniteSet(TogetherIn(p, B)) /\ IsFiniteSet(TouchedIn(f, B))
          /\ Cardinality(TogetherIn(p, B)) <= Cardinality(TogetherIn(p, S))
          /\ Cardinality(TouchedIn(f, B)) <= Cardinality(TouchedIn(f, S))
        BY <1>1, <1>2, FS_Subset
    <1> QED BY <1>2, <1>3, ReplayAssumption, FS_CardinalityType

\* A batch of other commits adds its own counts.
LEMMA CountsAdd ==
    ASSUME NEW S \in SUBSET Commits, NEW B \in SUBSET Commits, S \cap B = {}, NEW p, NEW f
    PROVE  /\ Cardinality(TogetherIn(p, S \cup B))
                = Cardinality(TogetherIn(p, S)) + Cardinality(TogetherIn(p, B))
           /\ Cardinality(TouchedIn(f, S \cup B))
                = Cardinality(TouchedIn(f, S)) + Cardinality(TouchedIn(f, B))
    <1>1. /\ TogetherIn(p, S \cup B) = TogetherIn(p, S) \cup TogetherIn(p, B)
          /\ TogetherIn(p, S) \cap TogetherIn(p, B) = {}
          /\ TouchedIn(f, S \cup B) = TouchedIn(f, S) \cup TouchedIn(f, B)
          /\ TouchedIn(f, S) \cap TouchedIn(f, B) = {}
        BY DEF TogetherIn, TouchedIn
    <1>2. /\ TogetherIn(p, S) \in SUBSET Commits /\ TogetherIn(p, B) \in SUBSET Commits
          /\ TouchedIn(f, S) \in SUBSET Commits /\ TouchedIn(f, B) \in SUBSET Commits
        BY DEF TogetherIn, TouchedIn
    <1>3. /\ IsFiniteSet(TogetherIn(p, S)) /\ IsFiniteSet(TogetherIn(p, B))
          /\ IsFiniteSet(TouchedIn(f, S)) /\ IsFiniteSet(TouchedIn(f, B))
        BY <1>2, ReplayAssumption, FS_Subset
    <1>4. /\ Cardinality(TogetherIn(p, S)) \in Nat /\ Cardinality(TogetherIn(p, B)) \in Nat
          /\ Cardinality(TouchedIn(f, S)) \in Nat /\ Cardinality(TouchedIn(f, B)) \in Nat
        BY <1>3, FS_CardinalityType
    <1>5. Cardinality({}) = 0
        BY FS_EmptySet
    <1>6. /\ Cardinality(TogetherIn(p, S) \cup TogetherIn(p, B))
               = Cardinality(TogetherIn(p, S)) + Cardinality(TogetherIn(p, B))
                   - Cardinality(TogetherIn(p, S) \cap TogetherIn(p, B))
          /\ Cardinality(TouchedIn(f, S) \cup TouchedIn(f, B))
               = Cardinality(TouchedIn(f, S)) + Cardinality(TouchedIn(f, B))
                   - Cardinality(TouchedIn(f, S) \cap TouchedIn(f, B))
        BY <1>3, FS_Union
    <1>7. /\ Cardinality(TogetherIn(p, S) \cap TogetherIn(p, B)) = 0
          /\ Cardinality(TouchedIn(f, S) \cap TouchedIn(f, B)) = 0
        BY <1>1, <1>5
    <1>8. /\ Cardinality(TogetherIn(p, S \cup B)) = Cardinality(TogetherIn(p, S) \cup TogetherIn(p, B))
          /\ Cardinality(TouchedIn(f, S \cup B)) = Cardinality(TouchedIn(f, S) \cup TouchedIn(f, B))
        BY <1>1
    <1> QED BY <1>4, <1>6, <1>7, <1>8

LEMMA NothingCounted ==
    ASSUME NEW p, NEW f
    PROVE  /\ Cardinality(TogetherIn(p, {})) = 0
           /\ TouchedIn(f, {}) = {} /\ Cardinality(TouchedIn(f, {})) = 0
    BY FS_EmptySet DEF TogetherIn, TouchedIn

-----------------------------------------------------------------------------
(* Entropies *)

\* The entropy of a file comes from its own pairs alone,
LEMMA SpreadIsLocal ==
    ASSUME NEW f \in Files, NEW one, NEW other,
           \A g \in Files \ {f} : one[{f, g}] = other[{f, g}]
    PROVE  Spread(f, one) = Spread(f, other)
    <1> DEFINE Partners(pairs) == {g \in Files \ (Generated \cup {f}) : pairs[{f, g}] >= MinSupport}
    <1>1. Partners(one) = Partners(other)
        OBVIOUS
    <1>2. {<<g, one[{f, g}]>> : g \in Partners(one)} = {<<g, other[{f, g}]>> : g \in Partners(other)}
        BY <1>1
    <1> HIDE DEF Partners
    <1>3. \A pairs : Spread(f, pairs) =
                       IF f \in Generated \/ Cardinality(Partners(pairs)) <= 1 THEN {}
                       ELSE {<<g, pairs[{f, g}]>> : g \in Partners(pairs)}
        BY DEF Spread, Partners
    <1> QED BY <1>1, <1>2, <1>3

\* and is made of partner frequencies.
LEMMA SpreadType ==
    ASSUME NEW f \in Files, NEW pairs \in [Pairs -> Nat]
    PROVE  Spread(f, pairs) \in Entropies
    <1>1. ASSUME NEW g \in Files \ (Generated \cup {f})
          PROVE  <<g, pairs[{f, g}]>> \in Files \X Nat
        BY PairOfTwo
    <1> QED BY <1>1 DEF Spread, Entropies

-----------------------------------------------------------------------------
(* What a transaction sees and adds *)

LEMMA SeenType ==
    ASSUME TypeOK, NEW w \in Writers
    PROVE  /\ txn[w] \in Transactions /\ txn[w].commits \in SUBSET Commits
           /\ PairsSeen(w) \in [Pairs -> Nat]
           /\ \A f \in Files : /\ WrittenIn(f, w) \in SUBSET TouchedIn(f, txn[w].commits)
                               /\ Cardinality(WrittenIn(f, w)) \in Nat
                               /\ Cardinality(WrittenIn(f, w)) = 0 <=> WrittenIn(f, w) = {}
                               /\ txn[w].due = {} => WrittenIn(f, w) = TouchedIn(f, txn[w].commits)
    <1>1. txn[w] \in Transactions /\ txn[w].commits \in SUBSET Commits /\ db.pairs \in [Pairs -> Nat]
        BY DEF TypeOK, Transactions, Derived
    <1>2. \A p \in Pairs : Cardinality(TogetherIn(p, txn[w].commits)) \in Nat
        BY <1>1, Counted
    <1>3. PairsSeen(w) \in [Pairs -> Nat]
        BY <1>1, <1>2 DEF PairsSeen
    <1>4. ASSUME NEW f \in Files
          PROVE  /\ WrittenIn(f, w) \in SUBSET TouchedIn(f, txn[w].commits)
                 /\ Cardinality(WrittenIn(f, w)) \in Nat
                 /\ Cardinality(WrittenIn(f, w)) = 0 <=> WrittenIn(f, w) = {}
                 /\ txn[w].due = {} => WrittenIn(f, w) = TouchedIn(f, txn[w].commits)
        <2>1. WrittenIn(f, w) \in SUBSET TouchedIn(f, txn[w].commits)
              /\ (txn[w].due = {} => WrittenIn(f, w) = TouchedIn(f, txn[w].commits))
            BY DEF WrittenIn
        <2>2. WrittenIn(f, w) \in SUBSET Commits
            BY <1>1, <2>1 DEF TouchedIn
        <2>3. IsFiniteSet(WrittenIn(f, w))
            BY <2>2, ReplayAssumption, FS_Subset
        <2> QED BY <2>1, <2>3, FS_CardinalityType, FS_EmptySet
    <1> QED BY <1>1, <1>3, <1>4

LEMMA CommittedType ==
    ASSUME TypeOK, NEW w \in Writers
    PROVE  Committed(w) \in Derived
    <1>1. db \in Derived /\ txn[w] \in Transactions
        BY DEF TypeOK
    <1>2. [f \in Files |-> db.churn[f] + Cardinality(WrittenIn(f, w))] \in [Files -> Nat]
        BY <1>1, SeenType DEF Derived
    <1>3. [f \in Files |-> IF WrittenIn(f, w) = {} THEN db.spread[f] ELSE txn[w].spread[f]]
            \in [Files -> Entropies]
        BY <1>1 DEF Derived, Transactions
    <1>4. db.corpus \cup txn[w].commits \in SUBSET Commits
          /\ db.snapshots \cup txn[w].snapshots \in SUBSET Snapshots
        BY <1>1 DEF Derived, Transactions
    <1> QED BY <1>2, <1>3, <1>4, SeenType DEF Committed, Derived

\* What the statements of a batch make of the transaction.
LEMMA MergeMakes ==
    ASSUME TypeOK, NEW w \in Writers, NEW B \in SUBSET Commits, MergeBatch(w, B)
    PROVE  /\ txn' \in [Writers -> Transactions]
           /\ txn[w].due = {}
           /\ txn'[w].commits = txn[w].commits \cup B
           /\ txn'[w].due = {d \in B \X Files : d[2] \in Touches[d[1]]}
           /\ txn'[w].read = txn[w].read /\ txn'[w].spread = txn[w].spread
           /\ \A o \in Writers \ {w} : txn'[o] = txn[o]
    <1> DEFINE touched == {d \in B \X Files : d[2] \in Touches[d[1]]}
               more == txn[w].commits \cup B
    <1>1. txn \in [Writers -> Transactions] /\ txn[w] \in Transactions
        BY DEF TypeOK
    <1>2. txn' = [txn EXCEPT ![w].commits = more, ![w].due = touched] /\ txn[w].due = {}
        BY DEF MergeBatch
    <1>3. touched \in SUBSET (Commits \X Files) /\ more \in SUBSET Commits
        BY <1>1 DEF Transactions
    <1> HIDE DEF touched, more
    <1>4. txn'[w] = [txn[w] EXCEPT !.commits = more, !.due = touched]
          /\ \A o \in Writers \ {w} : txn'[o] = txn[o]
        BY <1>1, <1>2
    <1>5. txn'[w] = [commits |-> more, due |-> touched, read |-> txn[w].read,
                     spread |-> txn[w].spread, snapshots |-> txn[w].snapshots]
        BY <1>1, <1>4 DEF Transactions
    <1>6. txn'[w] \in Transactions
        BY <1>1, <1>3, <1>5 DEF Transactions
    <1>7. txn' \in [Writers -> Transactions]
        BY <1>1, <1>2, <1>4, <1>6
    <1> QED BY <1>2, <1>4, <1>5, <1>7 DEF touched, more

LEMMA ReadMakes ==
    ASSUME TypeOK, NEW w \in Writers, ReadEntropy(w)
    PROVE  /\ txn' \in [Writers -> Transactions]
           /\ txn'[w].commits = txn[w].commits /\ txn'[w].due = txn[w].due
           /\ txn'[w].spread = txn[w].spread
           /\ \E d \in txn[w].due : txn'[w].read = {<<d[2], Spread(d[2], PairsSeen(w))>>}
           /\ \A o \in Writers \ {w} : txn'[o] = txn[o]
    <1>1. txn \in [Writers -> Transactions]
        BY DEF TypeOK
    <1>2. PICK d \in txn[w].due :
              txn' = [txn EXCEPT ![w].read = {<<d[2], Spread(d[2], PairsSeen(w))>>}]
        BY DEF ReadEntropy
    <1>3. d[2] \in Files
        BY <1>1 DEF Transactions
    <1>4. {<<d[2], Spread(d[2], PairsSeen(w))>>} \in SUBSET (Files \X Entropies)
        BY <1>3, SeenType, SpreadType
    <1>5. txn'[w] = [txn[w] EXCEPT !.read = {<<d[2], Spread(d[2], PairsSeen(w))>>}]
          /\ \A o \in Writers \ {w} : txn'[o] = txn[o]
        BY <1>1, <1>2
    <1>6. txn'[w] \in Transactions
        BY <1>1, <1>4, <1>5 DEF Transactions
    <1>7. txn' \in [Writers -> Transactions]
        BY <1>1, <1>2, <1>5, <1>6
    <1> QED BY <1>1, <1>5, <1>7 DEF Transactions

LEMMA WriteMakes ==
    ASSUME TypeOK, NEW w \in Writers, WriteSignal(w)
    PROVE  /\ txn' \in [Writers -> Transactions]
           /\ txn'[w].commits = txn[w].commits /\ txn'[w].read = {}
           /\ \E r \in txn[w].read :
                /\ r[1] \in Files
                /\ txn'[w].due = {d \in txn[w].due : d[2] # r[1]}
                /\ txn'[w].spread = [txn[w].spread EXCEPT ![r[1]] = r[2]]
           /\ \A o \in Writers \ {w} : txn'[o] = txn[o]
    <1>1. txn \in [Writers -> Transactions]
        BY DEF TypeOK
    <1>2. PICK r \in txn[w].read :
              txn' = [txn EXCEPT
                        ![w].due = {d \in @ : d[2] # r[1]},
                        ![w].read = {},
                        ![w].spread[r[1]] = r[2],
                        ![w].snapshots = @ \cup {<<d[1], r[1], r[2]>> :
                                              d \in {e \in txn[w].due : e[2] = r[1]}}]
        BY DEF WriteSignal
    <1> DEFINE shot == {<<d[1], r[1], r[2]>> : d \in {e \in txn[w].due : e[2] = r[1]}}
    <1>3. r[1] \in Files /\ r[2] \in Entropies
        BY <1>1 DEF Transactions
    <1>4. shot \in SUBSET Snapshots
        BY <1>1, <1>3 DEF Transactions, Snapshots
    <1>5. txn'[w] = [txn[w] EXCEPT !.due = {d \in @ : d[2] # r[1]},
                                   !.read = {},
                                   !.spread[r[1]] = r[2],
                                   !.snapshots = @ \cup shot]
          /\ \A o \in Writers \ {w} : txn'[o] = txn[o]
        BY <1>1, <1>2
    <1> HIDE DEF shot
    <1>6. txn'[w] = [commits |-> txn[w].commits,
                     due |-> {d \in txn[w].due : d[2] # r[1]},
                     read |-> {},
                     spread |-> [txn[w].spread EXCEPT ![r[1]] = r[2]],
                     snapshots |-> txn[w].snapshots \cup shot]
        BY <1>1, <1>5 DEF Transactions
    <1>7. [txn[w].spread EXCEPT ![r[1]] = r[2]] \in [Files -> Entropies]
          /\ txn[w].snapshots \cup shot \in SUBSET Snapshots
        BY <1>1, <1>3, <1>4 DEF Transactions
    <1>8. txn'[w] \in Transactions
        BY <1>1, <1>6, <1>7 DEF Transactions
    <1>9. txn' \in [Writers -> Transactions]
        BY <1>1, <1>2, <1>5, <1>8
    <1> QED BY <1>3, <1>5, <1>6, <1>9

LEMMA NothingType ==
    /\ NothingDerived \in Derived /\ NothingOpen \in Transactions
    /\ NothingGone \in [corpus : SUBSET Commits, pairs : SUBSET Pairs,
                        files : SUBSET Files, snapshots : SUBSET Snapshots]
    BY DEF NothingDerived, NothingOpen, NothingGone, Derived, Transactions, Entropies

\* The end of the transaction of w.
LEMMA EndMakes ==
    ASSUME TypeOK, NEW w \in Writers, txn' = [txn EXCEPT ![w] = NothingOpen]
    PROVE  /\ txn' \in [Writers -> Transactions]
           /\ txn'[w] = NothingOpen
           /\ \A o \in Writers \ {w} : txn'[o] = txn[o]
    BY NothingType DEF TypeOK

-----------------------------------------------------------------------------
(* Types *)

LEMMA ClearedType ==
    ASSUME TypeOK, ClearCommits
    PROVE  db' \in Derived
    <1>1. db \in Derived
        BY DEF TypeOK
    <1>2. [p \in Pairs |-> IF p \in gone.pairs THEN 0 ELSE db.pairs[p]] \in [Pairs -> Nat]
          /\ [f \in Files |-> IF f \in gone.files THEN 0 ELSE db.churn[f]] \in [Files -> Nat]
          /\ [f \in Files |-> IF f \in gone.files THEN {} ELSE db.spread[f]] \in [Files -> Entropies]
        BY <1>1 DEF Derived, Entropies
    <1>3. db.corpus \ gone.corpus \in SUBSET Commits /\ db.snapshots \ gone.snapshots \in SUBSET Snapshots
        BY <1>1 DEF Derived
    <1> QED BY <1>2, <1>3 DEF ClearCommits, Derived

LEMMA DeletesType ==
    ASSUME TypeOK, \/ DeleteCorpus \/ FindPairs \/ DeletePairs
                   \/ FindSignals \/ DeleteSignals \/ DeleteSnapshots
    PROVE  /\ gone' \in [corpus : SUBSET Commits, pairs : SUBSET Pairs,
                         files : SUBSET Files, snapshots : SUBSET Snapshots]
           /\ pc \in Deleting /\ pc' \in Deleting
           /\ UNCHANGED <<truth, db, txn, todo, late, beside, sound, stale, live>>
    <1> USE DEF Delete, Deleting, TypeOK
    <1>1. CASE DeleteCorpus
        BY <1>1 DEF DeleteCorpus, Derived
    <1>2. CASE FindPairs
        BY <1>2 DEF FindPairs
    <1>3. CASE DeletePairs \/ DeleteSignals
        BY <1>3 DEF DeletePairs, DeleteSignals
    <1>4. CASE FindSignals
        BY <1>4 DEF FindSignals
    <1>5. CASE DeleteSnapshots
        BY <1>5 DEF DeleteSnapshots, Derived
    <1> QED BY <1>1, <1>2, <1>3, <1>4, <1>5

LEMMA TouchedFiles ==
    ASSUME NEW B \in SUBSET Commits
    PROVE  UNION {Touches[c] : c \in B} \in SUBSET Files
    BY ReplayAssumption

LEMMA StepType == TypeOK /\ [Next]_vars => TypeOK'
    <1> SUFFICES ASSUME TypeOK, [Next]_vars PROVE TypeOK' OBVIOUS
    <1>w. "daemon" \in Writers /\ "rebuild" \in Writers
        BY DEF Writers
    <1>t. txn["daemon"].commits \in SUBSET Commits /\ txn["daemon"] \in Transactions
          /\ txn["rebuild"] \in Transactions
        BY <1>w, SeenType
    <1>1. CASE ReadTruth
        BY <1>1 DEF ReadTruth, TypeOK, Deleting
    <1>2. CASE \/ DeleteCorpus \/ FindPairs \/ DeletePairs
               \/ FindSignals \/ DeleteSignals \/ DeleteSnapshots
        BY <1>2, DeletesType DEF TypeOK
    <1>3. CASE ClearCommits
        <2>1. db' \in Derived
            BY <1>3, ClearedType
        <2>2. UNION {Touches[c] : c \in txn["daemon"].commits} \in SUBSET Files
            BY <1>t, TouchedFiles
        <2> QED BY <1>3, <2>1, <2>2, NothingType DEF ClearCommits, TypeOK, Replaying
    <1>4. CASE ReplayCommit
        <2>1. PICK c \in todo : MergeBatch("rebuild", {c}) /\ todo' = todo \ {c}
            BY <1>4 DEF ReplayCommit
        <2>2. {c} \in SUBSET Commits
            BY <2>1 DEF TypeOK
        <2>3. txn' \in [Writers -> Transactions]
            BY <1>w, <2>1, <2>2, MergeMakes
        <2> QED BY <1>4, <2>1, <2>3 DEF ReplayCommit, TypeOK
    <1>5. CASE ReplayEnds
        BY <1>5 DEF ReplayEnds, TypeOK, Replaying
    <1>6. CASE CallerCommits
        <2>1. db' \in Derived /\ txn' \in [Writers -> Transactions]
            BY <1>6, <1>w, CommittedType, EndMakes DEF CallerCommits
        <2> QED BY <1>6, <2>1 DEF CallerCommits, TypeOK
    <1>7. CASE Crash
        <2>1. txn' \in [Writers -> Transactions]
            BY <1>7, <1>w, EndMakes DEF Crash
        <2> QED BY <1>7, <2>1, NothingType DEF Crash, TypeOK
    <1>8. CASE DaemonCommits
        <2>1. db' \in Derived /\ txn' \in [Writers -> Transactions]
            BY <1>8, <1>w, CommittedType, EndMakes DEF DaemonCommits
        <2>2. txn["daemon"].snapshots \in SUBSET Snapshots
            BY <1>t DEF Transactions
        <2>3. late' \in BOOLEAN
            BY <1>8 DEF DaemonCommits
        <2> QED BY <1>8, <1>t, <2>1, <2>2, <2>3 DEF DaemonCommits, TypeOK, rebuildVars
    <1>9. CASE DaemonRollsBack
        <2>1. txn' \in [Writers -> Transactions]
            BY <1>9, <1>w, EndMakes DEF DaemonRollsBack
        <2> QED BY <1>9, <2>1 DEF DaemonRollsBack, TypeOK, rebuildVars
    <1>10. ASSUME NEW B \in SUBSET Commits, Ingest(B) PROVE TypeOK'
        <2>1. txn' \in [Writers -> Transactions]
            BY <1>10, <1>w, MergeMakes DEF Ingest
        <2>2. beside' \in SUBSET Files
            <3>1. UNION {Touches[c] : c \in B} \in SUBSET Files
                BY TouchedFiles
            <3> QED BY <1>10, <3>1 DEF Ingest, TypeOK
        <2> QED BY <1>10, <2>1, <2>2 DEF Ingest, TypeOK, rebuildVars
    <1>11. ASSUME NEW w \in Writers, ReadEntropy(w) \/ WriteSignal(w) PROVE TypeOK'
        <2>1. txn' \in [Writers -> Transactions]
            BY <1>11, ReadMakes, WriteMakes
        <2> QED BY <1>11, <2>1 DEF ReadEntropy, WriteSignal, TypeOK, rebuildVars
    <1>12. CASE UNCHANGED vars
        BY <1>12 DEF vars, TypeOK
    <1> QED BY <1>1, <1>2, <1>3, <1>4, <1>5, <1>6, <1>7, <1>8, <1>9, <1>10, <1>11, <1>12
            DEF Next, Rebuild, Daemon

-----------------------------------------------------------------------------
(* Whose commits are whose *)

LEMMA StepTxn == TypeOK /\ TxnInv /\ [Next]_vars => TxnInv'
    <1> SUFFICES ASSUME TypeOK, TxnInv, [Next]_vars PROVE TxnInv' OBVIOUS
    <1> USE DEF Replaying
    <1> DEFINE Parts(w) == /\ \A d \in txn[w].due : d[1] \in txn[w].commits /\ d[2] \in Touches[d[1]]
                           /\ \A r \in txn[w].read : \E d \in txn[w].due : d[2] = r[1]
    <1>w. Writers = {"daemon", "rebuild"}
        BY DEF Writers
    <1>t. /\ txn["daemon"].commits \in SUBSET Commits /\ todo \in SUBSET Commits
          /\ truth \in SUBSET Commits
          /\ Parts("daemon") /\ Parts("rebuild")
        BY <1>w, SeenType DEF TypeOK, TxnInv
    <1>n. NothingOpen.commits = {} /\ NothingOpen.due = {} /\ NothingOpen.read = {}
        BY DEF NothingOpen
    <1>o. ASSUME NEW w \in Writers, txn'[w] = txn[w] PROVE Parts(w)'
        BY <1>o, <1>w, <1>t
    <1>e. ASSUME NEW w \in Writers, txn'[w] = NothingOpen PROVE Parts(w)'
        BY <1>e, <1>n
    <1>m. ASSUME NEW w \in Writers, NEW B \in SUBSET Commits, MergeBatch(w, B) PROVE Parts(w)'
        <2>1. /\ txn[w].due = {} /\ txn'[w].commits = txn[w].commits \cup B
              /\ txn'[w].due = {d \in B \X Files : d[2] \in Touches[d[1]]}
              /\ txn'[w].read = txn[w].read
            BY <1>m, MergeMakes
        <2>2. txn[w].read = {}
            BY <1>w, <1>t, <2>1
        <2> QED BY <2>1, <2>2
    <1>r. ASSUME NEW w \in Writers, ReadEntropy(w) PROVE Parts(w)'
        <2>1. /\ txn'[w].commits = txn[w].commits /\ txn'[w].due = txn[w].due
              /\ \E d \in txn[w].due : txn'[w].read = {<<d[2], Spread(d[2], PairsSeen(w))>>}
            BY <1>r, ReadMakes
        <2> QED BY <1>w, <1>t, <2>1
    <1>s. ASSUME NEW w \in Writers, WriteSignal(w) PROVE Parts(w)'
        <2>1. /\ txn'[w].commits = txn[w].commits /\ txn'[w].read = {}
              /\ \E r \in txn[w].read : txn'[w].due = {d \in txn[w].due : d[2] # r[1]}
            BY <1>s, WriteMakes
        <2> QED BY <1>w, <1>t, <2>1
    <1> HIDE DEF Parts
    <1>p. Parts("daemon")' /\ Parts("rebuild")' =>
            \A w \in Writers :
              /\ \A d \in txn'[w].due : d[1] \in txn'[w].commits /\ d[2] \in Touches[d[1]]
              /\ \A r \in txn'[w].read : \E d \in txn'[w].due : d[2] = r[1]
        BY <1>w DEF Parts
    <1>q. UNCHANGED txn => Parts("daemon")' /\ Parts("rebuild")'
        BY <1>o, <1>w
    <1>1. CASE ReadTruth
        BY <1>1, <1>n, <1>p, <1>q DEF ReadTruth, TxnInv, Replay
    <1>2. CASE \/ DeleteCorpus \/ FindPairs \/ DeletePairs
               \/ FindSignals \/ DeleteSignals \/ DeleteSnapshots
        BY <1>2, <1>p, <1>q, DeletesType DEF TxnInv, Replay, Deleting
    <1>3. CASE ClearCommits
        BY <1>3, <1>n, <1>p, <1>q DEF ClearCommits, TxnInv, Replay
    <1>4. CASE ReplayCommit
        <2>1. PICK c \in todo : MergeBatch("rebuild", {c}) /\ todo' = todo \ {c}
            BY <1>4 DEF ReplayCommit
        <2>2. {c} \in SUBSET Commits
            BY <1>t, <2>1
        <2>3. /\ txn'["rebuild"].commits = txn["rebuild"].commits \cup {c}
              /\ txn'["daemon"] = txn["daemon"]
            BY <1>w, <2>1, <2>2, MergeMakes
        <2>4. Parts("daemon")' /\ Parts("rebuild")'
            BY <1>w, <1>m, <1>o, <2>1, <2>2, <2>3
        <2> QED BY <1>4, <1>p, <2>1, <2>3, <2>4 DEF ReplayCommit, TxnInv, Replay
    <1>5. CASE ReplayEnds
        BY <1>5, <1>p, <1>q DEF ReplayEnds, TxnInv, Replay
    <1>6. CASE CallerCommits \/ Crash
        <2>1. txn'["rebuild"] = NothingOpen /\ txn'["daemon"] = txn["daemon"]
            BY <1>6, <1>w, EndMakes DEF CallerCommits, Crash
        <2>2. Parts("daemon")' /\ Parts("rebuild")'
            BY <1>w, <1>e, <1>o, <2>1
        <2>3. /\ todo' = {} /\ pc' = "idle" /\ gone' = NothingGone /\ late' = FALSE
              /\ truth' = truth
            BY <1>6 DEF CallerCommits, Crash, TxnInv
        <2> QED BY <1>n, <1>p, <2>1, <2>2, <2>3 DEF TxnInv, Replay
    <1>7. CASE DaemonCommits \/ DaemonRollsBack
        <2>1. txn'["daemon"] = NothingOpen /\ txn'["rebuild"] = txn["rebuild"]
            BY <1>7, <1>w, EndMakes DEF DaemonCommits, DaemonRollsBack
        <2>2. Parts("daemon")' /\ Parts("rebuild")'
            BY <1>w, <1>e, <1>o, <2>1
        <2>3. /\ UNCHANGED <<pc, todo, gone>> /\ truth \subseteq truth'
            BY <1>7 DEF DaemonCommits, DaemonRollsBack, rebuildVars
        <2>4. pc = "idle" => ~late'
            BY <1>7 DEF DaemonCommits, DaemonRollsBack, TxnInv, Deleting
        <2> QED BY <1>n, <1>p, <2>1, <2>2, <2>3, <2>4 DEF TxnInv, Replay
    <1>8. ASSUME NEW B \in SUBSET Commits, Ingest(B) PROVE TxnInv'
        <2>1. MergeBatch("daemon", B) /\ B \cap truth = {}
              /\ UNCHANGED <<truth, pc, todo, gone, late>>
            BY <1>8 DEF Ingest, rebuildVars
        <2>2. /\ txn'["daemon"].commits = txn["daemon"].commits \cup B
              /\ txn'["rebuild"] = txn["rebuild"]
            BY <1>w, <2>1, MergeMakes
        <2>3. Parts("daemon")' /\ Parts("rebuild")'
            BY <1>w, <1>m, <1>o, <2>1, <2>2
        <2> QED BY <1>p, <2>1, <2>2, <2>3 DEF TxnInv, Replay
    <1>9. ASSUME NEW w \in Writers, ReadEntropy(w) \/ WriteSignal(w) PROVE TxnInv'
        <2>1. /\ \A o \in Writers \ {w} : txn'[o] = txn[o]
              /\ txn'[w].commits = txn[w].commits
            BY <1>9, ReadMakes, WriteMakes
        <2>2. Parts("daemon")' /\ Parts("rebuild")'
            BY <1>9, <1>r, <1>s, <1>o, <1>w, <2>1
        <2>3. txn'["daemon"].commits = txn["daemon"].commits
              /\ txn'["rebuild"].commits = txn["rebuild"].commits
            BY <1>w, <2>1
        <2>4. UNCHANGED <<truth, pc, todo, gone, late>>
            BY <1>9 DEF ReadEntropy, WriteSignal, rebuildVars
        <2>5. txn[w].due # {}
            <3>1. ReadEntropy(w) => txn[w].due # {}
                BY DEF ReadEntropy
            <3>2. WriteSignal(w) => txn[w].read # {}
                BY DEF WriteSignal
            <3> QED BY <1>9, <1>t, <1>w, <3>1, <3>2 DEF Parts
        <2>6. w = "rebuild" => pc \in Replaying /\ pc # "replayed"
            BY <2>5, <1>n DEF TxnInv
        <2>7. pc \notin Replaying => txn'["rebuild"] = NothingOpen
            BY <1>w, <2>1, <2>6 DEF TxnInv
        <2>8. pc \in {"idle", "replayed"} => txn'["rebuild"].due = {}
            BY <1>w, <2>1, <2>6 DEF TxnInv
        <2> QED BY <1>p, <2>2, <2>3, <2>4, <2>7, <2>8 DEF TxnInv, Replay
    <1>10. CASE UNCHANGED vars
        BY <1>10, <1>p, <1>q DEF vars, TxnInv, Replay
    <1> QED BY <1>1, <1>2, <1>3, <1>4, <1>5, <1>6, <1>7, <1>8, <1>9, <1>10
            DEF Next, Rebuild, Daemon

-----------------------------------------------------------------------------
(* Counts *)

\* What is true of the counts of a set of commits is true with a batch of
\* others added on both sides.
LEMMA CountsGrow ==
    ASSUME NEW S \in SUBSET Commits, NEW B \in SUBSET Commits, S \cap B = {}
    PROVE  \A m \in Nat :
             /\ \A p \in Pairs :
                  /\ m <= Cardinality(TogetherIn(p, S)) =>
                       m + Cardinality(TogetherIn(p, B)) <= Cardinality(TogetherIn(p, S \cup B))
                  /\ m = Cardinality(TogetherIn(p, S)) =>
                       m + Cardinality(TogetherIn(p, B)) = Cardinality(TogetherIn(p, S \cup B))
             /\ \A f \in Files :
                  /\ m <= Cardinality(TouchedIn(f, S)) =>
                       m + Cardinality(TouchedIn(f, B)) <= Cardinality(TouchedIn(f, S \cup B))
                  /\ m = Cardinality(TouchedIn(f, S)) =>
                       m + Cardinality(TouchedIn(f, B)) = Cardinality(TouchedIn(f, S \cup B))
    <1> SUFFICES ASSUME NEW m \in Nat, NEW p, NEW f
                 PROVE  /\ m <= Cardinality(TogetherIn(p, S)) =>
                             m + Cardinality(TogetherIn(p, B)) <= Cardinality(TogetherIn(p, S \cup B))
                        /\ m = Cardinality(TogetherIn(p, S)) =>
                             m + Cardinality(TogetherIn(p, B)) = Cardinality(TogetherIn(p, S \cup B))
                        /\ m <= Cardinality(TouchedIn(f, S)) =>
                             m + Cardinality(TouchedIn(f, B)) <= Cardinality(TouchedIn(f, S \cup B))
                        /\ m = Cardinality(TouchedIn(f, S)) =>
                             m + Cardinality(TouchedIn(f, B)) = Cardinality(TouchedIn(f, S \cup B))
        OBVIOUS
    <1>1. /\ Cardinality(TogetherIn(p, S \cup B))
               = Cardinality(TogetherIn(p, S)) + Cardinality(TogetherIn(p, B))
          /\ Cardinality(TouchedIn(f, S \cup B))
               = Cardinality(TouchedIn(f, S)) + Cardinality(TouchedIn(f, B))
        BY CountsAdd
    <1>2. /\ Cardinality(TogetherIn(p, S)) \in Nat /\ Cardinality(TouchedIn(f, S)) \in Nat
          /\ Cardinality(TogetherIn(p, B)) \in Nat /\ Cardinality(TouchedIn(f, B)) \in Nat
        BY Counted
    <1> QED BY <1>1, <1>2

\* What a commit of w's transaction, its batches complete, makes of the tables.
LEMMA CommitMakes ==
    ASSUME TypeOK, NEW w \in Writers, db' = Committed(w), txn[w].due = {}
    PROVE  /\ db'.corpus = db.corpus \cup txn[w].commits
           /\ \A p \in Pairs : /\ db.pairs[p] \in Nat
                               /\ db'.pairs[p] = db.pairs[p]
                                    + Cardinality(TogetherIn(p, txn[w].commits))
           /\ \A f \in Files : /\ db.churn[f] \in Nat
                               /\ db'.churn[f] = db.churn[f]
                                    + Cardinality(TouchedIn(f, txn[w].commits))
                               /\ db'.spread[f] = IF TouchedIn(f, txn[w].commits) = {}
                                                  THEN db.spread[f] ELSE txn[w].spread[f]
           /\ db'.pairs = PairsSeen(w)
    <1>1. \A f \in Files : WrittenIn(f, w) = TouchedIn(f, txn[w].commits)
        BY SeenType
    <1>2. db \in Derived
        BY DEF TypeOK
    <1> QED BY <1>1, <1>2 DEF Committed, PairsSeen, Derived

\* ... and the commit of the deletes.
LEMMA ClearMakes ==
    ASSUME TypeOK, ClearCommits
    PROVE  /\ db'.corpus = db.corpus \ gone.corpus
           /\ \A p \in Pairs : db'.pairs[p] = IF p \in gone.pairs THEN 0 ELSE db.pairs[p]
           /\ \A f \in Files : /\ db'.churn[f] = IF f \in gone.files THEN 0 ELSE db.churn[f]
                               /\ db'.spread[f] = IF f \in gone.files THEN {} ELSE db.spread[f]
    BY DEF ClearCommits

\* Both commits of the tables after the deletes, and those during them, keep
\* the bounds; a commit by the daemon is one of more commits, a commit by the
\* rebuild's caller is of what it replayed.
LEMMA CommitBounded ==
    ASSUME TypeOK, NEW w \in Writers, db' = Committed(w), txn[w].due = {},
           NEW S \in SUBSET Commits, S \cap txn[w].commits = {}
    PROVE  /\ \A p \in Pairs : /\ db.pairs[p] <= Cardinality(TogetherIn(p, S)) =>
                                    db'.pairs[p] <= Cardinality(TogetherIn(p, S \cup txn[w].commits))
                               /\ db.pairs[p] = Cardinality(TogetherIn(p, S)) =>
                                    db'.pairs[p] = Cardinality(TogetherIn(p, S \cup txn[w].commits))
           /\ \A f \in Files : /\ db.churn[f] <= Cardinality(TouchedIn(f, S)) =>
                                    db'.churn[f] <= Cardinality(TouchedIn(f, S \cup txn[w].commits))
                               /\ db.churn[f] = Cardinality(TouchedIn(f, S)) =>
                                    db'.churn[f] = Cardinality(TouchedIn(f, S \cup txn[w].commits))
    <1> DEFINE B == txn[w].commits
    <1>1. B \in SUBSET Commits /\ S \cap B = {}
        BY SeenType
    <1>a. \A p \in Pairs : /\ db.pairs[p] \in Nat
                           /\ db'.pairs[p] = db.pairs[p] + Cardinality(TogetherIn(p, B))
        BY CommitMakes
    <1>b. \A f \in Files : /\ db.churn[f] \in Nat
                           /\ db'.churn[f] = db.churn[f] + Cardinality(TouchedIn(f, B))
        BY CommitMakes
    <1> HIDE DEF B
    <1>2. ASSUME NEW p \in Pairs
          PROVE  /\ db.pairs[p] <= Cardinality(TogetherIn(p, S)) =>
                      db'.pairs[p] <= Cardinality(TogetherIn(p, S \cup B))
                 /\ db.pairs[p] = Cardinality(TogetherIn(p, S)) =>
                      db'.pairs[p] = Cardinality(TogetherIn(p, S \cup B))
        <2>1. db.pairs[p] \in Nat /\ db'.pairs[p] = db.pairs[p] + Cardinality(TogetherIn(p, B))
            BY <1>a
        <2>2. /\ db.pairs[p] <= Cardinality(TogetherIn(p, S)) =>
                   db.pairs[p] + Cardinality(TogetherIn(p, B)) <= Cardinality(TogetherIn(p, S \cup B))
              /\ db.pairs[p] = Cardinality(TogetherIn(p, S)) =>
                   db.pairs[p] + Cardinality(TogetherIn(p, B)) = Cardinality(TogetherIn(p, S \cup B))
            BY <1>1, <2>1, CountsGrow, Zenon
        <2> QED BY <2>1, <2>2
    <1>3. ASSUME NEW f \in Files
          PROVE  /\ db.churn[f] <= Cardinality(TouchedIn(f, S)) =>
                      db'.churn[f] <= Cardinality(TouchedIn(f, S \cup B))
                 /\ db.churn[f] = Cardinality(TouchedIn(f, S)) =>
                      db'.churn[f] = Cardinality(TouchedIn(f, S \cup B))
        <2>1. db.churn[f] \in Nat /\ db'.churn[f] = db.churn[f] + Cardinality(TouchedIn(f, B))
            BY <1>b
        <2>2. /\ db.churn[f] <= Cardinality(TouchedIn(f, S)) =>
                   db.churn[f] + Cardinality(TouchedIn(f, B)) <= Cardinality(TouchedIn(f, S \cup B))
              /\ db.churn[f] = Cardinality(TouchedIn(f, S)) =>
                   db.churn[f] + Cardinality(TouchedIn(f, B)) = Cardinality(TouchedIn(f, S \cup B))
            BY <1>1, <2>1, CountsGrow, Zenon
        <2> QED BY <2>1, <2>2
    <1> QED BY <1>2, <1>3 DEF B

\* A row without churn has no entropy.
LEMMA CommitRows ==
    ASSUME TypeOK, NEW w \in Writers, db' = Committed(w), txn[w].due = {},
           \A f \in Files : db.churn[f] = 0 => db.spread[f] = {}
    PROVE  \A f \in Files : db'.churn[f] = 0 => db'.spread[f] = {}
    <1> SUFFICES ASSUME NEW f \in Files, db'.churn[f] = 0 PROVE db'.spread[f] = {}
        OBVIOUS
    <1>1. /\ db.churn[f] \in Nat
          /\ db'.churn[f] = db.churn[f] + Cardinality(TouchedIn(f, txn[w].commits))
          /\ db'.spread[f] = IF TouchedIn(f, txn[w].commits) = {} THEN db.spread[f] ELSE txn[w].spread[f]
        BY CommitMakes
    <1>2. /\ Cardinality(TouchedIn(f, txn[w].commits)) \in Nat
          /\ Cardinality(TouchedIn(f, txn[w].commits)) = 0 <=> TouchedIn(f, txn[w].commits) = {}
        <2>1. WrittenIn(f, w) = TouchedIn(f, txn[w].commits)
            BY SeenType
        <2> QED BY <2>1, SeenType
    <1> QED BY <1>1, <1>2

\* Short of its commit, the daemon does nothing to what is committed, nor do
\* the statements of a batch.
LEMMA QuietStep ==
    ASSUME TypeOK, TxnInv,
           \/ DaemonRollsBack \/ \E B \in SUBSET Commits : Ingest(B)
           \/ \E w \in Writers : ReadEntropy(w) \/ WriteSignal(w)
    PROVE  /\ UNCHANGED <<truth, db, pc, todo, gone, late, sound, stale>>
           /\ Replay' = Replay
    <1>w. "daemon" \in Writers /\ "rebuild" \in Writers
        BY DEF Writers
    <1>1. UNCHANGED <<truth, db, pc, todo, gone, late, sound, stale>>
        BY DEF DaemonRollsBack, Ingest, ReadEntropy, WriteSignal, rebuildVars
    <1>2. CASE DaemonRollsBack
        <2>1. txn'["rebuild"].commits = txn["rebuild"].commits
            BY <1>w, <1>2, EndMakes DEF DaemonRollsBack
        <2> QED BY <1>1, <2>1 DEF Replay
    <1>3. ASSUME NEW B \in SUBSET Commits, Ingest(B) PROVE Replay' = Replay
        <2>1. txn'["rebuild"].commits = txn["rebuild"].commits
            BY <1>w, <1>3, MergeMakes DEF Ingest
        <2> QED BY <1>1, <2>1 DEF Replay
    <1>4. ASSUME NEW w \in Writers, ReadEntropy(w) \/ WriteSignal(w) PROVE Replay' = Replay
        <2>1. txn'["rebuild"].commits = txn["rebuild"].commits
            BY <1>w, <1>4, ReadMakes, WriteMakes
        <2> QED BY <1>1, <2>1 DEF Replay
    <1> QED BY <1>1, <1>2, <1>3, <1>4

\* A replayed commit was to be replayed.
LEMMA ReplayStep ==
    ASSUME TypeOK, ReplayCommit
    PROVE  /\ Replay' = Replay
           /\ UNCHANGED <<truth, db, pc, gone, late, beside, sound, stale>>
           /\ \E c \in todo : MergeBatch("rebuild", {c}) /\ {c} \in SUBSET Commits
    <1>1. PICK c \in todo : MergeBatch("rebuild", {c}) /\ todo' = todo \ {c}
        BY DEF ReplayCommit
    <1>2. "rebuild" \in Writers /\ {c} \in SUBSET Commits
        BY <1>1 DEF TypeOK, Writers
    <1>3. txn'["rebuild"].commits = txn["rebuild"].commits \cup {c}
        BY <1>1, <1>2, MergeMakes
    <1>4. Replay' = Replay
        BY <1>1, <1>3 DEF Replay
    <1> QED BY <1>1, <1>2, <1>4 DEF ReplayCommit

LEMMA StepCounts == TypeOK /\ TxnInv /\ CountsInv /\ [Next]_vars => CountsInv'
    <1> SUFFICES ASSUME TypeOK, TxnInv, CountsInv, [Next]_vars PROVE CountsInv' OBVIOUS
    <1> USE DEF Replaying, PairsFound, SignalsFound
    <1>w. "daemon" \in Writers /\ "rebuild" \in Writers
        BY DEF Writers
    <1>t. /\ txn["daemon"].commits \in SUBSET Commits /\ txn["rebuild"].commits \in SUBSET Commits
          /\ todo \in SUBSET Commits /\ truth \in SUBSET Commits /\ db \in Derived
          /\ Replay \in SUBSET Commits /\ Replay \subseteq truth
        BY <1>w, SeenType DEF TypeOK, TxnInv, Replay
    <1>n. NothingOpen.commits = {}
        BY DEF NothingOpen
    <1>1. CASE ReadTruth
        BY <1>1 DEF ReadTruth, CountsInv, NeverOvercounted
    <1>2. CASE FindPairs
        <2>1. /\ pc' = "pairs found" /\ gone'.pairs = {p \in Pairs : db.pairs[p] > 0}
              /\ UNCHANGED <<truth, db, txn, todo>>
            BY <1>2 DEF FindPairs, Delete, TypeOK
        <2>2. ASSUME NEW p \in Pairs \ gone'.pairs
              PROVE  db.pairs[p] <= Cardinality(TogetherIn(p, truth \ Replay))
            <3>1. db.pairs[p] = 0
                <4>1. db.pairs[p] \in Nat
                    BY <1>t DEF Derived
                <4>2. ~(db.pairs[p] > 0)
                    BY <2>1
                <4> QED BY <4>1, <4>2
            <3>2. truth \ Replay \in SUBSET Commits
                BY <1>t
            <3>3. Cardinality(TogetherIn(p, truth \ Replay)) \in Nat
                BY <3>2, Counted
            <3> QED BY <3>1, <3>3
        <2> QED BY <2>1, <2>2 DEF CountsInv, NeverOvercounted, Replay
    <1>3. CASE FindSignals
        <2>1. /\ pc = "signals" /\ pc' = "signals found"
              /\ gone'.files = {f \in Files : db.churn[f] > 0} /\ gone'.pairs = gone.pairs
              /\ UNCHANGED <<truth, db, txn, todo>>
            BY <1>3 DEF FindSignals, Delete, TypeOK
        <2>2. ASSUME NEW f \in Files \ gone'.files
              PROVE  db.churn[f] <= Cardinality(TouchedIn(f, truth \ Replay))
            <3>1. db.churn[f] = 0
                <4>1. db.churn[f] \in Nat
                    BY <1>t DEF Derived
                <4>2. ~(db.churn[f] > 0)
                    BY <2>1
                <4> QED BY <4>1, <4>2
            <3>2. truth \ Replay \in SUBSET Commits
                BY <1>t
            <3>3. Cardinality(TouchedIn(f, truth \ Replay)) \in Nat
                BY <3>2, Counted
            <3> QED BY <3>1, <3>3
        <2> QED BY <2>1, <2>2 DEF CountsInv, NeverOvercounted, Replay
    <1>4. CASE DeleteCorpus \/ DeletePairs \/ DeleteSignals \/ DeleteSnapshots
        <2>1. /\ gone'.pairs = gone.pairs /\ gone'.files = gone.files
              /\ UNCHANGED <<truth, db, txn, todo>>
            BY <1>4 DEF DeleteCorpus, DeletePairs, DeleteSignals, DeleteSnapshots, Delete, TypeOK
        <2>2. (pc' \in PairsFound => pc \in PairsFound) /\ (pc' \in SignalsFound => pc \in SignalsFound)
            BY <1>4 DEF DeleteCorpus, DeletePairs, DeleteSignals, DeleteSnapshots, Delete
        <2> QED BY <2>1, <2>2 DEF CountsInv, NeverOvercounted, Replay
    <1>5. CASE ClearCommits
        <2>1. /\ pc = "commit" /\ gone' = NothingGone /\ UNCHANGED <<truth, txn, todo>>
            BY <1>5 DEF ClearCommits
        <2>2. truth \ Replay \in SUBSET Commits
            BY <1>t
        <2>3. ASSUME NEW p \in Pairs
              PROVE  /\ db'.pairs[p] <= Cardinality(TogetherIn(p, truth))
                     /\ db'.pairs[p] <= Cardinality(TogetherIn(p, truth \ Replay))
            <3>1. Cardinality(TogetherIn(p, truth)) \in Nat /\ Cardinality(TogetherIn(p, truth \ Replay)) \in Nat
                BY <1>t, <2>2, Counted
            <3>2. CASE p \in gone.pairs
                BY <1>5, <3>1, <3>2, ClearMakes
            <3>3. CASE p \notin gone.pairs
                <4>1. db'.pairs[p] = db.pairs[p]
                    BY <1>5, <3>3, ClearMakes
                <4>2. /\ db.pairs[p] <= Cardinality(TogetherIn(p, truth))
                      /\ db.pairs[p] <= Cardinality(TogetherIn(p, truth \ Replay))
                    BY <2>1, <3>3 DEF CountsInv, NeverOvercounted
                <4> QED BY <4>1, <4>2
            <3> QED BY <3>2, <3>3
        <2>4. ASSUME NEW f \in Files
              PROVE  /\ db'.churn[f] <= Cardinality(TouchedIn(f, truth))
                     /\ db'.churn[f] <= Cardinality(TouchedIn(f, truth \ Replay))
                     /\ db'.churn[f] = 0 => db'.spread[f] = {}
            <3>1. Cardinality(TouchedIn(f, truth)) \in Nat /\ Cardinality(TouchedIn(f, truth \ Replay)) \in Nat
                BY <1>t, <2>2, Counted
            <3>2. CASE f \in gone.files
                BY <1>5, <3>1, <3>2, ClearMakes
            <3>3. CASE f \notin gone.files
                <4>1. db'.churn[f] = db.churn[f] /\ db'.spread[f] = db.spread[f]
                    BY <1>5, <3>3, ClearMakes
                <4>2. /\ db.churn[f] <= Cardinality(TouchedIn(f, truth))
                      /\ db.churn[f] <= Cardinality(TouchedIn(f, truth \ Replay))
                      /\ db.churn[f] = 0 => db.spread[f] = {}
                    BY <2>1, <3>3 DEF CountsInv, NeverOvercounted
                <4> QED BY <4>1, <4>2
            <3> QED BY <3>2, <3>3
        <2>5. db'.corpus \subseteq truth
            BY <1>5, ClearMakes DEF CountsInv, NeverOvercounted
        <2> QED BY <2>1, <2>3, <2>4, <2>5 DEF CountsInv, NeverOvercounted, Replay
    <1>6. CASE ReplayCommit
        BY <1>6, ReplayStep DEF CountsInv, NeverOvercounted
    <1>7. CASE CallerCommits
        <2>1. /\ db' = Committed("rebuild") /\ txn["rebuild"].due = {} /\ todo = {}
              /\ truth' = truth /\ pc' = "idle" /\ pc \in Replaying /\ gone = NothingGone
            BY <1>7 DEF CallerCommits, TxnInv
        <2>2. Replay = txn["rebuild"].commits /\ truth \ Replay \in SUBSET Commits
              /\ (truth \ Replay) \cap txn["rebuild"].commits = {}
              /\ (truth \ Replay) \cup txn["rebuild"].commits = truth
            BY <1>t, <2>1 DEF Replay
        <2>3. /\ \A p \in Pairs : db.pairs[p] <= Cardinality(TogetherIn(p, truth \ Replay))
              /\ \A f \in Files : db.churn[f] <= Cardinality(TouchedIn(f, truth \ Replay))
            BY <2>1 DEF CountsInv, NothingGone
        <2>4. /\ \A p \in Pairs : db'.pairs[p] <= Cardinality(TogetherIn(p, truth))
              /\ \A f \in Files : db'.churn[f] <= Cardinality(TouchedIn(f, truth))
            BY <1>w, <2>1, <2>2, <2>3, CommitBounded
        <2>5. \A f \in Files : db'.churn[f] = 0 => db'.spread[f] = {}
            BY <1>w, <2>1, CommitRows DEF CountsInv
        <2>6. db'.corpus \subseteq truth
            BY <1>w, <1>t, <2>1, <2>2, CommitMakes DEF CountsInv, NeverOvercounted
        <2> QED BY <2>1, <2>4, <2>5, <2>6 DEF CountsInv, NeverOvercounted
    <1>8. CASE ReplayEnds \/ Crash
        BY <1>8 DEF ReplayEnds, Crash, CountsInv, NeverOvercounted, Replay
    <1>9. CASE DaemonCommits
        <2>1. /\ db' = Committed("daemon") /\ txn["daemon"].due = {}
              /\ truth' = truth \cup txn["daemon"].commits /\ UNCHANGED <<pc, todo, gone>>
              /\ txn'["rebuild"] = txn["rebuild"]
            BY <1>9, <1>w, EndMakes DEF DaemonCommits, rebuildVars, Writers
        <2>2. /\ truth \cap txn["daemon"].commits = {} /\ truth \ Replay \in SUBSET Commits
              /\ (truth \ Replay) \cap txn["daemon"].commits = {}
              /\ (truth \ Replay) \cup txn["daemon"].commits = truth' \ Replay'
            BY <1>t, <2>1 DEF TxnInv, Replay
        <2>3. /\ \A p \in Pairs : db'.pairs[p] <= Cardinality(TogetherIn(p, truth'))
              /\ \A f \in Files : db'.churn[f] <= Cardinality(TouchedIn(f, truth'))
            BY <1>w, <1>t, <2>1, <2>2, CommitBounded DEF CountsInv, NeverOvercounted
        <2>4. \A f \in Files : db'.churn[f] = 0 => db'.spread[f] = {}
            BY <1>w, <2>1, CommitRows DEF CountsInv
        <2>5. db'.corpus \subseteq truth'
            BY <1>w, <2>1, CommitMakes DEF CountsInv, NeverOvercounted
        <2>6. pc' \in PairsFound =>
                \A p \in Pairs \ gone'.pairs :
                    db'.pairs[p] <= Cardinality(TogetherIn(p, truth' \ Replay'))
            <3> SUFFICES ASSUME pc \in PairsFound, NEW p \in Pairs \ gone.pairs
                         PROVE  db'.pairs[p] <= Cardinality(TogetherIn(p, (truth \ Replay) \cup txn["daemon"].commits))
                BY <2>1, <2>2
            <3>1. db.pairs[p] <= Cardinality(TogetherIn(p, truth \ Replay))
                BY DEF CountsInv
            <3> QED BY <1>w, <2>1, <2>2, <3>1, CommitBounded
        <2>7. pc' \in SignalsFound =>
                \A f \in Files \ gone'.files :
                    db'.churn[f] <= Cardinality(TouchedIn(f, truth' \ Replay'))
            <3> SUFFICES ASSUME pc \in SignalsFound, NEW f \in Files \ gone.files
                         PROVE  db'.churn[f] <= Cardinality(TouchedIn(f, (truth \ Replay) \cup txn["daemon"].commits))
                BY <2>1, <2>2
            <3>1. db.churn[f] <= Cardinality(TouchedIn(f, truth \ Replay))
                BY DEF CountsInv
            <3> QED BY <1>w, <2>1, <2>2, <3>1, CommitBounded
        <2> QED BY <2>3, <2>4, <2>5, <2>6, <2>7 DEF CountsInv, NeverOvercounted
    <1>10. CASE \/ DaemonRollsBack \/ \E B \in SUBSET Commits : Ingest(B)
                \/ \E w \in Writers : ReadEntropy(w) \/ WriteSignal(w)
        BY <1>10, QuietStep DEF CountsInv, NeverOvercounted
    <1>11. CASE UNCHANGED vars
        BY <1>11 DEF vars, CountsInv, NeverOvercounted, Replay
    <1> QED BY <1>1, <1>2, <1>3, <1>4, <1>5, <1>6, <1>7, <1>8, <1>9, <1>10, <1>11
            DEF Next, Rebuild, Daemon

\* What a rebuild that is not late finds at the commit of its deletes.
LEMMA StepExact == TypeOK /\ TxnInv /\ CountsInv /\ ExactInv /\ [Next]_vars => ExactInv'
    <1> SUFFICES ASSUME TypeOK, TxnInv, CountsInv, ExactInv, [Next]_vars PROVE ExactInv' OBVIOUS
    <1> USE DEF Replaying, PairsFound, SignalsFound, Deleting
    <1>w. "daemon" \in Writers /\ "rebuild" \in Writers
        BY DEF Writers
    <1>t. /\ txn["daemon"].commits \in SUBSET Commits /\ txn["rebuild"].commits \in SUBSET Commits
          /\ todo \in SUBSET Commits /\ truth \in SUBSET Commits /\ db \in Derived
          /\ Replay \in SUBSET Commits /\ Replay \subseteq truth /\ late \in BOOLEAN
        BY <1>w, SeenType DEF TypeOK, TxnInv, Replay
    <1>z. todo = truth => truth \ Replay = {}
        BY DEF Replay
    <1>1. CASE ReadTruth
        BY <1>1 DEF ReadTruth, ExactInv, CountsExact
    <1>2. CASE DeleteCorpus
        <2>1. /\ gone'.corpus = db.corpus /\ pc = "corpus" /\ pc' = "pairs"
              /\ UNCHANGED <<truth, db, txn, todo, late, sound>>
            BY <1>2 DEF DeleteCorpus, Delete, TypeOK
        <2> QED BY <1>z, <2>1 DEF ExactInv, CountsExact, Replay
    <1>3. CASE FindPairs
        <2>1. /\ pc = "pairs" /\ pc' = "pairs found" /\ gone'.pairs = {p \in Pairs : db.pairs[p] > 0}
              /\ gone'.corpus = gone.corpus /\ UNCHANGED <<truth, db, txn, todo, late, sound>>
            BY <1>3 DEF FindPairs, Delete, TypeOK
        <2>2. ASSUME NEW p \in Pairs \ gone'.pairs, ~late
              PROVE  db.pairs[p] = Cardinality(TogetherIn(p, truth \ Replay))
            <3>1. db.pairs[p] \in Nat
                BY <1>t DEF Derived
            <3>2. ~(db.pairs[p] > 0)
                BY <2>1
            <3>3. truth \ Replay = {}
                BY <1>z, <2>1, <2>2 DEF ExactInv
            <3> QED BY <3>1, <3>2, <3>3, NothingCounted
        <2> QED BY <2>1, <2>2 DEF ExactInv, CountsExact, Replay
    <1>4. CASE FindSignals
        <2>1. /\ pc = "signals" /\ pc' = "signals found"
              /\ gone'.files = {f \in Files : db.churn[f] > 0}
              /\ gone'.pairs = gone.pairs /\ gone'.corpus = gone.corpus
              /\ UNCHANGED <<truth, db, txn, todo, late, sound>>
            BY <1>4 DEF FindSignals, Delete, TypeOK
        <2>2. ASSUME NEW f \in Files \ gone'.files, ~late
              PROVE  db.churn[f] = Cardinality(TouchedIn(f, truth \ Replay))
            <3>1. db.churn[f] \in Nat
                BY <1>t DEF Derived
            <3>2. ~(db.churn[f] > 0)
                BY <2>1
            <3>3. truth \ Replay = {}
                BY <1>z, <2>1, <2>2 DEF ExactInv
            <3> QED BY <3>1, <3>2, <3>3, NothingCounted
        <2> QED BY <2>1, <2>2 DEF ExactInv, CountsExact, Replay
    <1>5. CASE DeletePairs \/ DeleteSignals \/ DeleteSnapshots
        <2>1. /\ gone'.corpus = gone.corpus /\ gone'.pairs = gone.pairs /\ gone'.files = gone.files
              /\ UNCHANGED <<truth, db, txn, todo, late, sound>>
            BY <1>5 DEF DeletePairs, DeleteSignals, DeleteSnapshots, Delete, TypeOK
        <2>2. /\ pc' \in PairsFound /\ pc \in PairsFound
              /\ pc' \in SignalsFound => pc \in SignalsFound
              /\ pc \in Deleting \ {"corpus"}
            BY <1>5 DEF DeletePairs, DeleteSignals, DeleteSnapshots, Delete
        <2> QED BY <2>1, <2>2 DEF ExactInv, CountsExact, Replay
    <1>6. CASE ClearCommits
        <2>1. /\ pc = "commit" /\ pc' = "replay" /\ gone' = NothingGone /\ ~sound'
              /\ UNCHANGED <<truth, txn, todo, late>>
            BY <1>6 DEF ClearCommits
        <2> SUFFICES ASSUME ~late
                     PROVE  /\ db'.corpus = truth \ Replay
                            /\ \A p \in Pairs : db'.pairs[p] = Cardinality(TogetherIn(p, truth \ Replay))
                            /\ \A f \in Files : db'.churn[f] = Cardinality(TouchedIn(f, truth \ Replay))
            BY <2>1 DEF ExactInv, NothingGone, Replay
        <2>2. truth \ Replay = {}
            BY <1>z, <2>1 DEF ExactInv
        <2>3. db'.corpus = truth \ Replay
            BY <1>6, <2>1, ClearMakes DEF ExactInv
        <2>4. ASSUME NEW p \in Pairs
              PROVE  db'.pairs[p] = Cardinality(TogetherIn(p, truth \ Replay))
            <3>1. CASE p \in gone.pairs
                BY <1>6, <2>2, <3>1, ClearMakes, NothingCounted
            <3>2. CASE p \notin gone.pairs
                <4>1. db.pairs[p] = Cardinality(TogetherIn(p, truth \ Replay))
                    BY <2>1, <3>2 DEF ExactInv
                <4> QED BY <1>6, <3>2, <4>1, ClearMakes
            <3> QED BY <3>1, <3>2
        <2>5. ASSUME NEW f \in Files
              PROVE  db'.churn[f] = Cardinality(TouchedIn(f, truth \ Replay))
            <3>1. CASE f \in gone.files
                BY <1>6, <2>2, <3>1, ClearMakes, NothingCounted
            <3>2. CASE f \notin gone.files
                <4>1. db.churn[f] = Cardinality(TouchedIn(f, truth \ Replay))
                    BY <2>1, <3>2 DEF ExactInv
                <4> QED BY <1>6, <3>2, <4>1, ClearMakes
            <3> QED BY <3>1, <3>2
        <2> QED BY <2>3, <2>4, <2>5
    <1>7. CASE ReplayCommit
        BY <1>7, ReplayStep DEF ReplayCommit, ExactInv, CountsExact
    <1>8. CASE ReplayEnds
        BY <1>8 DEF ReplayEnds, ExactInv, CountsExact, Replay
    <1>9. CASE Crash
        BY <1>9 DEF Crash, ExactInv, CountsExact
    <1>10. CASE CallerCommits
        <2>1. /\ db' = Committed("rebuild") /\ txn["rebuild"].due = {} /\ todo = {}
              /\ truth' = truth /\ pc' = "idle" /\ pc = "replayed" /\ gone = NothingGone
              /\ sound' = ~late
            BY <1>10 DEF CallerCommits, TxnInv
        <2> SUFFICES ASSUME ~late
                     PROVE  /\ db'.corpus = truth
                            /\ \A p \in Pairs : db'.pairs[p] = Cardinality(TogetherIn(p, truth))
                            /\ \A f \in Files : db'.churn[f] = Cardinality(TouchedIn(f, truth))
            BY <2>1 DEF ExactInv, CountsExact
        <2>2. Replay = txn["rebuild"].commits /\ truth \ Replay \in SUBSET Commits
              /\ (truth \ Replay) \cap txn["rebuild"].commits = {}
              /\ (truth \ Replay) \cup txn["rebuild"].commits = truth
            BY <1>t, <2>1 DEF Replay
        <2>3. /\ db.corpus = truth \ Replay
              /\ \A p \in Pairs : db.pairs[p] = Cardinality(TogetherIn(p, truth \ Replay))
              /\ \A f \in Files : db.churn[f] = Cardinality(TouchedIn(f, truth \ Replay))
            BY <2>1 DEF ExactInv, NothingGone
        <2>4. /\ \A p \in Pairs : db'.pairs[p] = Cardinality(TogetherIn(p, truth))
              /\ \A f \in Files : db'.churn[f] = Cardinality(TouchedIn(f, truth))
            <3>1. ASSUME NEW p \in Pairs PROVE db'.pairs[p] = Cardinality(TogetherIn(p, truth))
                <4>1. db.pairs[p] = Cardinality(TogetherIn(p, truth \ Replay))
                    BY <2>3
                <4> QED BY <1>w, <2>1, <2>2, <4>1, CommitBounded
            <3>2. ASSUME NEW f \in Files PROVE db'.churn[f] = Cardinality(TouchedIn(f, truth))
                <4>1. db.churn[f] = Cardinality(TouchedIn(f, truth \ Replay))
                    BY <2>3
                <4> QED BY <1>w, <2>1, <2>2, <4>1, CommitBounded
            <3> QED BY <3>1, <3>2
        <2>5. db'.corpus = truth
            BY <1>w, <2>1, <2>2, <2>3, CommitMakes
        <2> QED BY <2>4, <2>5
    <1>11. CASE DaemonCommits
        <2>1. /\ db' = Committed("daemon") /\ txn["daemon"].due = {}
              /\ truth' = truth \cup txn["daemon"].commits /\ UNCHANGED <<pc, todo, gone, sound>>
              /\ txn'["rebuild"] = txn["rebuild"]
              /\ ~late' => ~late /\ pc \notin Deleting
            BY <1>11, <1>w, EndMakes DEF DaemonCommits, rebuildVars
        <2>2. /\ truth \cap txn["daemon"].commits = {} /\ truth \ Replay \in SUBSET Commits
              /\ (truth \ Replay) \cap txn["daemon"].commits = {}
              /\ (truth \ Replay) \cup txn["daemon"].commits = truth' \ Replay'
            BY <1>t, <2>1 DEF TxnInv, Replay
        <2>3. sound => CountsExact(truth)'
            <3> SUFFICES ASSUME sound PROVE CountsExact(truth)'
                OBVIOUS
            <3>1. /\ db.corpus = truth
                  /\ \A p \in Pairs : db.pairs[p] = Cardinality(TogetherIn(p, truth))
                  /\ \A f \in Files : db.churn[f] = Cardinality(TouchedIn(f, truth))
                BY DEF ExactInv, CountsExact
            <3>2. /\ \A p \in Pairs : db'.pairs[p] = Cardinality(TogetherIn(p, truth'))
                  /\ \A f \in Files : db'.churn[f] = Cardinality(TouchedIn(f, truth'))
                BY <1>w, <1>t, <2>1, <2>2, <3>1, CommitBounded
            <3>3. db'.corpus = truth'
                BY <1>w, <2>1, <3>1, CommitMakes
            <3> QED BY <3>2, <3>3 DEF CountsExact
        <2>4. ASSUME ~late', pc \in Replaying
              PROVE  /\ db'.corpus \ gone'.corpus = truth' \ Replay'
                     /\ \A p \in Pairs : db'.pairs[p] = Cardinality(TogetherIn(p, truth' \ Replay'))
                     /\ \A f \in Files : db'.churn[f] = Cardinality(TouchedIn(f, truth' \ Replay'))
            <3>1. gone.corpus = {} /\ gone.pairs = {} /\ gone.files = {}
                BY <2>4 DEF TxnInv, NothingGone
            <3>2. /\ db.corpus = truth \ Replay
                  /\ \A p \in Pairs : db.pairs[p] = Cardinality(TogetherIn(p, truth \ Replay))
                  /\ \A f \in Files : db.churn[f] = Cardinality(TouchedIn(f, truth \ Replay))
                BY <2>1, <2>4, <3>1 DEF ExactInv
            <3>3. /\ \A p \in Pairs : db'.pairs[p] = Cardinality(TogetherIn(p, truth' \ Replay'))
                  /\ \A f \in Files : db'.churn[f] = Cardinality(TouchedIn(f, truth' \ Replay'))
                <4>1. ASSUME NEW p \in Pairs
                      PROVE  db'.pairs[p] = Cardinality(TogetherIn(p, truth' \ Replay'))
                    <5>1. db.pairs[p] = Cardinality(TogetherIn(p, truth \ Replay))
                        BY <3>2
                    <5>2. db'.pairs[p] = Cardinality(TogetherIn(p, (truth \ Replay) \cup txn["daemon"].commits))
                        <6>1. /\ db' = Committed("daemon") /\ txn["daemon"].due = {}
                              /\ truth \ Replay \in SUBSET Commits
                              /\ (truth \ Replay) \cap txn["daemon"].commits = {}
                            BY <2>1, <2>2
                        <6> QED BY <1>w, <5>1, <6>1, CommitBounded
                    <5> QED BY <2>2, <5>2
                <4>2. ASSUME NEW f \in Files
                      PROVE  db'.churn[f] = Cardinality(TouchedIn(f, truth' \ Replay'))
                    <5>1. db.churn[f] = Cardinality(TouchedIn(f, truth \ Replay))
                        BY <3>2
                    <5>2. db'.churn[f] = Cardinality(TouchedIn(f, (truth \ Replay) \cup txn["daemon"].commits))
                        <6>1. /\ db' = Committed("daemon") /\ txn["daemon"].due = {}
                              /\ truth \ Replay \in SUBSET Commits
                              /\ (truth \ Replay) \cap txn["daemon"].commits = {}
                            BY <2>1, <2>2
                        <6> QED BY <1>w, <5>1, <6>1, CommitBounded
                    <5> QED BY <2>2, <5>2
                <4> QED BY <4>1, <4>2
            <3>4. db'.corpus \ gone'.corpus = truth' \ Replay'
                BY <1>w, <2>1, <2>2, <3>1, <3>2, CommitMakes
            <3> QED BY <3>3, <3>4
        <2> QED BY <2>1, <2>3, <2>4 DEF ExactInv
    <1>12. CASE \/ DaemonRollsBack \/ \E B \in SUBSET Commits : Ingest(B)
                \/ \E w \in Writers : ReadEntropy(w) \/ WriteSignal(w)
        <2>1. UNCHANGED <<truth, db, pc, todo, gone, late, sound>> /\ Replay' = Replay
            BY <1>12, QuietStep
        <2> QED BY <2>1 DEF ExactInv, CountsExact
    <1>13. CASE UNCHANGED vars
        BY <1>13 DEF vars, ExactInv, CountsExact, Replay
    <1> QED BY <1>1, <1>2, <1>3, <1>4, <1>5, <1>6, <1>7, <1>8, <1>9, <1>10, <1>11, <1>12, <1>13
            DEF Next, Rebuild, Daemon

-----------------------------------------------------------------------------
(* Entropies read, written and committed *)

\* A batch that does not touch a file leaves its pairs alone.
LEMMA UntouchedPairs ==
    ASSUME NEW f \in Files, NEW B \in SUBSET Commits, TouchedIn(f, B) = {},
           NEW g \in Files \ {f}
    PROVE  {f, g} \in Pairs /\ Cardinality(TogetherIn({f, g}, B)) = 0
    <1>1. TogetherIn({f, g}, B) = {}
        BY DEF TogetherIn, TouchedIn
    <1> QED BY <1>1, PairOfTwo, FS_EmptySet

\* What is right stays right while w does nothing and the pairs of the file stay.
LEMMA RightStays ==
    ASSUME NEW w \in Writers, NEW f \in Files, Right(w, f), txn'[w] = txn[w],
           \A g \in Files \ {f} : db'.pairs[{f, g}] = db.pairs[{f, g}]
    PROVE  Right(w, f)'
    <1>1. ASSUME NEW g \in Files \ {f} PROVE PairsSeen(w)'[{f, g}] = PairsSeen(w)[{f, g}]
        BY PairOfTwo DEF PairsSeen
    <1>2. Spread(f, PairsSeen(w)') = Spread(f, PairsSeen(w))
        BY <1>1, SpreadIsLocal
    <1>3. WrittenIn(f, w)' = WrittenIn(f, w)
        BY DEF WrittenIn
    <1> QED BY <1>2, <1>3 DEF Right

LEMMA RightWhenOver ==
    ASSUME NEW w \in Writers, NEW f \in Files, txn'[w] = NothingOpen
    PROVE  Right(w, f)'
    BY DEF Right, WrittenIn, TouchedIn, NothingOpen

\* A new batch of w is yet to write the files it touches, and leaves the pairs
\* of the others alone.
LEMMA RightMerge ==
    ASSUME TypeOK, NEW w \in Writers, NEW f \in Files, NEW B \in SUBSET Commits,
           MergeBatch(w, B), db' = db, txn[w].read = {}, Right(w, f)
    PROVE  Right(w, f)'
    <1>1. /\ txn[w].due = {} /\ txn'[w].commits = txn[w].commits \cup B
          /\ txn'[w].due = {d \in B \X Files : d[2] \in Touches[d[1]]}
          /\ txn'[w].read = {} /\ txn'[w].spread = txn[w].spread
        BY MergeMakes
    <1>2. txn[w].commits \in SUBSET Commits /\ db \in Derived
        BY SeenType DEF TypeOK
    <1>3. CASE TouchedIn(f, B) # {}
        <2>1. PICK c \in B : f \in Touches[c]
            BY <1>3 DEF TouchedIn
        <2>2. <<c, f>> \in txn'[w].due /\ <<c, f>>[2] = f
            BY <1>1, <2>1
        <2> QED BY <1>1, <2>2 DEF Right
    <1>4. CASE TouchedIn(f, B) = {}
        <2>1. TouchedIn(f, txn'[w].commits) = TouchedIn(f, txn[w].commits)
            BY <1>1, <1>4 DEF TouchedIn
        <2>2. \A c \in TouchedIn(f, txn[w].commits) : <<c, f>> \notin txn'[w].due
            BY <1>1, <1>4 DEF TouchedIn
        <2>3. WrittenIn(f, w)' = TouchedIn(f, txn[w].commits)
              /\ WrittenIn(f, w) = TouchedIn(f, txn[w].commits)
            BY <1>1, <2>1, <2>2 DEF WrittenIn
        <2>4. ASSUME NEW g \in Files \ {f} PROVE PairsSeen(w)'[{f, g}] = PairsSeen(w)[{f, g}]
            <3>1. {f, g} \in Pairs
                BY PairOfTwo
            <3>2. TogetherIn({f, g}, txn'[w].commits) = TogetherIn({f, g}, txn[w].commits)
                BY <1>1, <1>4 DEF TogetherIn, TouchedIn
            <3> QED BY <3>1, <3>2 DEF PairsSeen
        <2>5. Spread(f, PairsSeen(w)') = Spread(f, PairsSeen(w))
            BY <2>4, SpreadIsLocal
        <2> QED BY <1>1, <2>3, <2>5 DEF Right
    <1> QED BY <1>3, <1>4

LEMMA RightRead ==
    ASSUME TypeOK, NEW w \in Writers, NEW f \in Files, ReadEntropy(w), Right(w, f)
    PROVE  Right(w, f)'
    <1>1. /\ txn'[w].commits = txn[w].commits /\ txn'[w].due = txn[w].due
          /\ txn'[w].spread = txn[w].spread
          /\ \E d \in txn[w].due : txn'[w].read = {<<d[2], Spread(d[2], PairsSeen(w))>>}
          /\ db' = db
        BY ReadMakes DEF ReadEntropy
    <1>2. WrittenIn(f, w)' = WrittenIn(f, w) /\ PairsSeen(w)' = PairsSeen(w)
        BY <1>1 DEF WrittenIn, PairsSeen
    <1>3. \A r \in txn'[w].read : r[1] = f => r[2] = Spread(f, PairsSeen(w)')
        BY <1>1, <1>2
    <1>4. Spread(f, PairsSeen(w))' = Spread(f, PairsSeen(w))
        BY <1>2
    <1> QED BY <1>1, <1>2, <1>3, <1>4 DEF Right

LEMMA RightWrite ==
    ASSUME TypeOK, NEW w \in Writers, NEW f \in Files, WriteSignal(w), Right(w, f)
    PROVE  Right(w, f)'
    <1>1. PICK r \in txn[w].read : /\ r[1] \in Files
                                   /\ txn'[w].due = {d \in txn[w].due : d[2] # r[1]}
                                   /\ txn'[w].spread = [txn[w].spread EXCEPT ![r[1]] = r[2]]
        BY WriteMakes
    <1>2. /\ txn'[w].commits = txn[w].commits /\ txn'[w].read = {} /\ db' = db
          /\ txn[w].spread \in [Files -> Entropies]
        BY WriteMakes, SeenType DEF WriteSignal, Transactions
    <1>3. PairsSeen(w)' = PairsSeen(w)
        BY <1>2 DEF PairsSeen
    <1>4. Spread(f, PairsSeen(w))' = Spread(f, PairsSeen(w))
        BY <1>3
    <1>5. CASE r[1] = f
        <2>1. txn'[w].spread[f] = Spread(f, PairsSeen(w))
            BY <1>1, <1>2, <1>5 DEF Right
        <2> QED BY <1>2, <1>4, <2>1 DEF Right
    <1>6. CASE r[1] # f
        <2>1. txn'[w].spread[f] = txn[w].spread[f]
            BY <1>1, <1>2, <1>6
        <2>2. \A c : <<c, f>> \in txn'[w].due <=> <<c, f>> \in txn[w].due
            BY <1>1, <1>6
        <2>3. WrittenIn(f, w)' = WrittenIn(f, w)
            BY <1>2, <2>2 DEF WrittenIn
        <2>4. (\A d \in txn'[w].due : d[2] # f) => \A d \in txn[w].due : d[2] # f
            BY <1>1, <1>6
        <2> QED BY <1>2, <1>4, <2>1, <2>3, <2>4 DEF Right
    <1> QED BY <1>5, <1>6

\* The commit of w's transaction leaves a file it does not touch as it is, and
\* is exact for the others if w was right.
LEMMA CommitEntropies ==
    ASSUME TypeOK, NEW w \in Writers, db' = Committed(w), txn[w].due = {},
           NEW f \in Files, NEW S \in SUBSET Commits,
           Right(w, f),
           \/ EntropyExact(f, S)
           \/ TouchedIn(f, S) = {} /\ db.spread[f] = {}
    PROVE  db'.spread[f] = IF TouchedIn(f, S \cup txn[w].commits) = {} THEN {}
                           ELSE Spread(f, db'.pairs)
    <1>1. txn[w].commits \in SUBSET Commits /\ db'.pairs = PairsSeen(w)
          /\ db'.spread[f] = IF TouchedIn(f, txn[w].commits) = {} THEN db.spread[f]
                             ELSE txn[w].spread[f]
        BY SeenType, CommitMakes
    <1>2. CASE TouchedIn(f, txn[w].commits) # {}
        <2>1. WrittenIn(f, w) # {}
            BY <1>2, SeenType
        <2>2. txn[w].spread[f] = Spread(f, PairsSeen(w))
            BY <2>1 DEF Right
        <2>3. TouchedIn(f, S \cup txn[w].commits) # {}
            BY <1>2 DEF TouchedIn
        <2> QED BY <1>1, <1>2, <2>2, <2>3
    <1>3. CASE TouchedIn(f, txn[w].commits) = {}
        <2>1. TouchedIn(f, S \cup txn[w].commits) = TouchedIn(f, S)
            BY <1>3 DEF TouchedIn
        <2>2. ASSUME NEW g \in Files \ {f} PROVE db'.pairs[{f, g}] = db.pairs[{f, g}]
            <3>1. {f, g} \in Pairs /\ Cardinality(TogetherIn({f, g}, txn[w].commits)) = 0
                BY <1>1, <1>3, UntouchedPairs
            <3>2. /\ db.pairs[{f, g}] \in Nat
                  /\ db'.pairs[{f, g}] = db.pairs[{f, g}] + Cardinality(TogetherIn({f, g}, txn[w].commits))
                BY <3>1, CommitMakes
            <3> QED BY <3>1, <3>2
        <2>3. Spread(f, db'.pairs) = Spread(f, db.pairs)
            BY <2>2, SpreadIsLocal
        <2> QED BY <1>1, <1>3, <2>1, <2>3 DEF EntropyExact
    <1> QED BY <1>2, <1>3

LEMMA RightUntouched ==
    ASSUME TypeOK, TxnInv, NEW w \in Writers, NEW f \in Files,
           TouchedIn(f, txn[w].commits) = {}, txn'[w] = txn[w]
    PROVE  Right(w, f)'
    <1>1. WrittenIn(f, w)' = {}
        BY DEF WrittenIn
    <1>2. \A r \in txn[w].read : r[1] # f
        <2>1. \A d \in txn[w].due : d[1] \in txn[w].commits /\ d[2] \in Touches[d[1]]
            BY DEF TxnInv
        <2>2. \A d \in txn[w].due : d[2] # f
            BY <2>1 DEF TouchedIn
        <2> QED BY <2>2 DEF TxnInv
    <1> QED BY <1>1, <1>2 DEF Right

LEMMA StepEntropy ==
    TypeOK /\ TxnInv /\ CountsInv /\ ExactInv /\ EntropyInv /\ [Next]_vars => EntropyInv'
    <1> SUFFICES ASSUME TypeOK, TxnInv, CountsInv, ExactInv, EntropyInv, [Next]_vars
                 PROVE  EntropyInv'
        OBVIOUS
    <1> USE DEF Replaying
    <1> DEFINE First == sound => \A f \in Files \ stale : EntropyExact(f, truth) /\ Right("daemon", f)
               Second == pc \in Replaying /\ ~late =>
                             \A f \in Files \ beside :
                                 /\ TouchedIn(f, txn["daemon"].commits) = {}
                                 /\ TouchedIn(f, truth \ Replay) = {}
                                 /\ Right("rebuild", f)
    <1>w. "daemon" \in Writers /\ "rebuild" \in Writers /\ Writers = {"daemon", "rebuild"}
        BY DEF Writers
    <1>t. /\ txn["daemon"].commits \in SUBSET Commits /\ txn["rebuild"].commits \in SUBSET Commits
          /\ todo \in SUBSET Commits /\ truth \in SUBSET Commits /\ db \in Derived
          /\ Replay \in SUBSET Commits /\ Replay \subseteq truth
          /\ beside \in SUBSET Files /\ stale \in SUBSET Files
        BY <1>w, SeenType DEF TypeOK, TxnInv, Replay
    <1>i. First /\ Second
        BY DEF EntropyInv
    <1>g. First' /\ Second' => EntropyInv'
        BY DEF EntropyInv
    <1>e. UNCHANGED <<truth, db>> => \A f \in Files : EntropyExact(f, truth) => EntropyExact(f, truth)'
        BY DEF EntropyExact
    <1>r. ASSUME NEW w \in Writers, NEW f \in Files, Right(w, f), db' = db, txn'[w] = txn[w]
          PROVE  Right(w, f)'
        BY <1>r, RightStays
    <1>n. \A f \in Files : TouchedIn(f, {}) = {}
        BY DEF TouchedIn
    <1>1. CASE ReadTruth
        <2>1. UNCHANGED <<truth, db, txn, sound, stale>> /\ pc' \notin Replaying
            BY <1>1 DEF ReadTruth
        <2>2. First'
            BY <1>e, <1>i, <1>r, <1>w, <2>1
        <2> QED BY <1>g, <2>1, <2>2
    <1>2. CASE \/ DeleteCorpus \/ FindPairs \/ DeletePairs
               \/ FindSignals \/ DeleteSignals \/ DeleteSnapshots
        <2>1. UNCHANGED <<truth, db, txn, sound, stale>> /\ pc' \notin Replaying
            BY <1>2, DeletesType DEF Deleting
        <2>2. First'
            BY <1>e, <1>i, <1>r, <1>w, <2>1
        <2> QED BY <1>g, <2>1, <2>2
    <1>3. CASE ClearCommits
        <2>1. /\ pc = "commit" /\ ~sound' /\ UNCHANGED <<truth, txn, todo, late>>
              /\ beside' = UNION {Touches[c] : c \in txn["daemon"].commits}
            BY <1>3 DEF ClearCommits
        <2>2. ASSUME ~late, NEW f \in Files \ beside'
              PROVE  /\ TouchedIn(f, txn["daemon"].commits)' = {}
                     /\ TouchedIn(f, truth \ Replay)' = {}
                     /\ Right("rebuild", f)'
            <3>1. TouchedIn(f, txn["daemon"].commits) = {}
                BY <2>1, <2>2 DEF TouchedIn
            <3>2. truth \ Replay = {}
                BY <2>1, <2>2 DEF ExactInv, Deleting, Replay
            <3>3. txn'["rebuild"] = NothingOpen
                BY <2>1 DEF TxnInv
            <3> QED BY <1>n, <1>w, <2>1, <3>1, <3>2, <3>3, RightWhenOver DEF Replay
        <2> QED BY <1>g, <2>1, <2>2
    <1>4. CASE ReplayCommit
        <2>1. PICK c \in todo : MergeBatch("rebuild", {c}) /\ {c} \in SUBSET Commits
            BY <1>4, ReplayStep
        <2>2. /\ Replay' = Replay /\ UNCHANGED <<truth, db, pc, late, beside, sound, stale>>
              /\ pc = "replay"
            BY <1>4, ReplayStep DEF ReplayCommit
        <2>3. txn'["daemon"] = txn["daemon"] /\ txn["rebuild"].due = {}
            BY <1>w, <2>1, MergeMakes
        <2>4. txn["rebuild"].read = {}
            BY <1>w, <2>3 DEF TxnInv
        <2>5. First'
            BY <1>e, <1>i, <1>r, <1>w, <2>2, <2>3
        <2>6. \A f \in Files : Right("rebuild", f) => Right("rebuild", f)'
            BY <1>w, <2>1, <2>2, <2>4, RightMerge
        <2>7. Second'
            BY <1>i, <2>2, <2>3, <2>6
        <2> QED BY <1>g, <2>5, <2>7
    <1>5. CASE ReplayEnds
        <2>1. UNCHANGED <<truth, db, txn, todo, late, beside, sound, stale>> /\ pc = "replay"
            BY <1>5 DEF ReplayEnds
        <2>2. Replay' = Replay
            BY <2>1 DEF Replay
        <2>3. First'
            BY <1>e, <1>i, <1>r, <1>w, <2>1
        <2>4. Second'
            BY <1>i, <1>r, <1>w, <2>1, <2>2
        <2> QED BY <1>g, <2>3, <2>4
    <1>6. CASE CallerCommits
        <2>1. /\ db' = Committed("rebuild") /\ txn["rebuild"].due = {} /\ todo = {}
              /\ truth' = truth /\ pc' = "idle" /\ pc = "replayed" /\ gone = NothingGone
              /\ sound' = ~late /\ stale' = beside /\ txn'["daemon"] = txn["daemon"]
            BY <1>6, <1>w, EndMakes DEF CallerCommits, TxnInv
        <2>2. Replay = txn["rebuild"].commits /\ truth \ Replay \in SUBSET Commits
              /\ (truth \ Replay) \cup txn["rebuild"].commits = truth
            BY <1>t, <2>1 DEF Replay
        <2>3. ASSUME ~late, NEW f \in Files \ beside
              PROVE  EntropyExact(f, truth)' /\ Right("daemon", f)'
            <3>1. /\ TouchedIn(f, txn["daemon"].commits) = {}
                  /\ TouchedIn(f, truth \ Replay) = {}
                  /\ Right("rebuild", f)
                BY <1>i, <2>1, <2>3
            <3>2. db.churn[f] = Cardinality(TouchedIn(f, truth \ Replay))
                BY <2>1, <2>3 DEF ExactInv, SignalsFound, NothingGone
            <3>3. db.churn[f] = 0
                BY <3>1, <3>2, FS_EmptySet
            <3>4. db.spread[f] = {}
                BY <3>3 DEF CountsInv
            <3>5. db'.spread[f] = IF TouchedIn(f, (truth \ Replay) \cup txn["rebuild"].commits) = {} THEN {}
                                  ELSE Spread(f, db'.pairs)
                BY <1>w, <2>1, <2>2, <3>1, <3>4, CommitEntropies
            <3>6. EntropyExact(f, truth)'
                BY <2>1, <2>2, <3>5 DEF EntropyExact
            <3> QED BY <1>w, <2>1, <3>1, <3>6, RightUntouched
        <2> QED BY <1>g, <2>1, <2>3
    <1>7. CASE Crash
        <2>1. UNCHANGED <<truth, db, sound, stale>> /\ pc' = "idle" /\ txn'["daemon"] = txn["daemon"]
            BY <1>7, <1>w, EndMakes DEF Crash
        <2>2. First'
            BY <1>e, <1>i, <1>r, <1>w, <2>1
        <2> QED BY <1>g, <2>1, <2>2
    <1>8. CASE DaemonCommits
        <2>1. /\ db' = Committed("daemon") /\ txn["daemon"].due = {}
              /\ truth' = truth \cup txn["daemon"].commits
              /\ UNCHANGED <<pc, todo, beside, sound, stale>>
              /\ txn'["rebuild"] = txn["rebuild"] /\ txn'["daemon"] = NothingOpen
              /\ ~late' => ~late
            BY <1>8, <1>w, EndMakes DEF DaemonCommits, rebuildVars
        <2>2. (truth \ Replay) \cup txn["daemon"].commits = truth' \ Replay'
            BY <1>t, <2>1 DEF TxnInv, Replay
        <2>3. ASSUME sound, NEW f \in Files \ stale PROVE EntropyExact(f, truth)' /\ Right("daemon", f)'
            <3>1. EntropyExact(f, truth) /\ Right("daemon", f)
                BY <1>i, <2>3
            <3>2. db'.spread[f] = IF TouchedIn(f, truth \cup txn["daemon"].commits) = {} THEN {}
                                  ELSE Spread(f, db'.pairs)
                <4>1. db' = Committed("daemon") /\ txn["daemon"].due = {} /\ truth \in SUBSET Commits
                    BY <1>t, <2>1
                <4> QED BY <1>w, <3>1, <4>1, CommitEntropies
            <3>3. EntropyExact(f, truth)'
                BY <2>1, <3>2 DEF EntropyExact
            <3> QED BY <1>w, <2>1, <3>3, RightWhenOver
        <2>4. ASSUME pc \in Replaying, ~late', NEW f \in Files \ beside
              PROVE  /\ TouchedIn(f, txn["daemon"].commits)' = {}
                     /\ TouchedIn(f, truth \ Replay)' = {}
                     /\ Right("rebuild", f)'
            <3>1. /\ TouchedIn(f, txn["daemon"].commits) = {}
                  /\ TouchedIn(f, truth \ Replay) = {}
                  /\ Right("rebuild", f)
                BY <1>i, <2>1, <2>4
            <3>2. TouchedIn(f, truth' \ Replay') = {}
                <4>1. TouchedIn(f, (truth \ Replay) \cup txn["daemon"].commits) = {}
                    BY <3>1 DEF TouchedIn
                <4> QED BY <2>2, <4>1
            <3>3. TouchedIn(f, txn'["daemon"].commits) = {}
                BY <1>n, <2>1 DEF NothingOpen
            <3>4. ASSUME NEW g \in Files \ {f} PROVE db'.pairs[{f, g}] = db.pairs[{f, g}]
                <4>1. {f, g} \in Pairs /\ Cardinality(TogetherIn({f, g}, txn["daemon"].commits)) = 0
                    BY <1>t, <3>1, UntouchedPairs
                <4>2. /\ db.pairs[{f, g}] \in Nat
                      /\ db'.pairs[{f, g}] = db.pairs[{f, g}]
                           + Cardinality(TogetherIn({f, g}, txn["daemon"].commits))
                    BY <1>w, <2>1, <4>1, CommitMakes
                <4> QED BY <4>1, <4>2
            <3>5. Right("rebuild", f)'
                BY <1>w, <2>1, <3>1, <3>4, RightStays
            <3> QED BY <3>2, <3>3, <3>5
        <2> QED BY <1>g, <2>1, <2>3, <2>4
    <1>9. CASE DaemonRollsBack
        <2>1. /\ UNCHANGED <<truth, db, pc, todo, late, beside, sound, stale>>
              /\ txn'["rebuild"] = txn["rebuild"] /\ txn'["daemon"] = NothingOpen
            BY <1>9, <1>w, EndMakes DEF DaemonRollsBack, rebuildVars
        <2>2. Replay' = Replay
            BY <2>1 DEF Replay
        <2>3. First'
            BY <1>e, <1>i, <1>w, <2>1, RightWhenOver
        <2>4. \A f \in Files : TouchedIn(f, txn'["daemon"].commits) = {}
            BY <1>n, <2>1 DEF NothingOpen
        <2>5. Second'
            BY <1>i, <1>r, <1>w, <2>1, <2>2, <2>4
        <2> QED BY <1>g, <2>3, <2>5
    <1>10. ASSUME NEW B \in SUBSET Commits, Ingest(B) PROVE EntropyInv'
        <2>1. /\ MergeBatch("daemon", B) /\ UNCHANGED <<truth, db, pc, todo, late, sound, stale>>
              /\ pc \in Replaying => beside' = beside \cup UNION {Touches[c] : c \in B}
            BY <1>10 DEF Ingest, rebuildVars
        <2>2. /\ txn["daemon"].due = {} /\ txn'["rebuild"] = txn["rebuild"]
              /\ txn'["daemon"].commits = txn["daemon"].commits \cup B
            BY <1>w, <2>1, MergeMakes
        <2>3. txn["daemon"].read = {} /\ Replay' = Replay
            BY <1>w, <2>1, <2>2 DEF TxnInv, Replay
        <2>4. \A f \in Files : Right("daemon", f) => Right("daemon", f)'
            BY <1>w, <2>1, <2>3, RightMerge
        <2>5. First'
            BY <1>e, <1>i, <2>1, <2>4
        <2>6. ASSUME pc \in Replaying, ~late, NEW f \in Files \ beside'
              PROVE  /\ TouchedIn(f, txn["daemon"].commits)' = {}
                     /\ TouchedIn(f, truth \ Replay)' = {}
                     /\ Right("rebuild", f)'
            <3>1. /\ TouchedIn(f, txn["daemon"].commits) = {}
                  /\ TouchedIn(f, truth \ Replay) = {}
                  /\ Right("rebuild", f)
                BY <1>i, <2>1, <2>6
            <3>2. TouchedIn(f, B) = {}
                BY <2>1, <2>6 DEF TouchedIn
            <3>3. TouchedIn(f, txn'["daemon"].commits) = {}
                BY <2>2, <3>1, <3>2 DEF TouchedIn
            <3> QED BY <1>r, <1>w, <2>1, <2>2, <2>3, <3>1, <3>3
        <2>7. Second'
            BY <2>1, <2>6
        <2> QED BY <1>g, <2>5, <2>7
    <1>11. ASSUME NEW w \in Writers, ReadEntropy(w) \/ WriteSignal(w) PROVE EntropyInv'
        <2>1. /\ UNCHANGED <<truth, db, pc, todo, late, beside, sound, stale>>
              /\ Replay' = Replay
            BY <1>11, QuietStep DEF ReadEntropy, WriteSignal
        <2>2. /\ \A o \in Writers \ {w} : txn'[o] = txn[o]
              /\ txn'[w].commits = txn[w].commits
            BY <1>11, ReadMakes, WriteMakes
        <2>3. \A f \in Files : Right(w, f) => Right(w, f)'
            BY <1>11, RightRead, RightWrite
        <2>4. \A o \in Writers, f \in Files : Right(o, f) => Right(o, f)'
            BY <1>r, <2>1, <2>2, <2>3
        <2>5. txn'["daemon"].commits = txn["daemon"].commits
            BY <1>w, <2>2
        <2>6. First'
            BY <1>e, <1>i, <1>w, <2>1, <2>4
        <2>7. Second'
            BY <1>i, <1>w, <2>1, <2>4, <2>5
        <2> QED BY <1>g, <2>6, <2>7
    <1>12. CASE UNCHANGED vars
        <2>1. /\ UNCHANGED <<truth, db, txn, pc, todo, late, beside, sound, stale>>
              /\ Replay' = Replay
            BY <1>12 DEF vars, Replay
        <2>2. First'
            BY <1>e, <1>i, <1>r, <1>w, <2>1
        <2>3. Second'
            BY <1>i, <1>r, <1>w, <2>1
        <2> QED BY <1>g, <2>2, <2>3
    <1> QED BY <1>1, <1>2, <1>3, <1>4, <1>5, <1>6, <1>7, <1>8, <1>9, <1>10, <1>11, <1>12
            DEF Next, Rebuild, Daemon

-----------------------------------------------------------------------------
(* The theorems *)

LEMMA InitIInv == Init => IInv
    <1> SUFFICES ASSUME Init PROVE IInv OBVIOUS
    <1>1. TypeOK
        BY NothingType DEF Init, TypeOK
    <1>2. /\ NothingOpen.commits = {} /\ NothingOpen.due = {} /\ NothingOpen.read = {}
          /\ \A w \in Writers : txn[w] = NothingOpen
          /\ Replay = {} /\ truth = {}
        BY DEF Init, NothingOpen, Replay, Writers
    <1>3. TxnInv
        BY <1>2 DEF Init, TxnInv, Writers, Replaying
    <1>4. /\ \A p \in Pairs : db.pairs[p] = 0
          /\ \A f \in Files : db.churn[f] = 0 /\ db.spread[f] = {}
          /\ db.corpus = {}
        BY DEF Init, NothingDerived
    <1>5. CountsInv
        BY <1>2, <1>4, NothingCounted DEF Init, CountsInv, NeverOvercounted, PairsFound, SignalsFound, Replaying
    <1>6. ExactInv
        BY <1>2, <1>4, NothingCounted
           DEF Init, ExactInv, CountsExact, PairsFound, SignalsFound, Replaying, Deleting
    <1>7. \A f \in Files : EntropyExact(f, truth)
        BY <1>2, <1>4, NothingCounted DEF EntropyExact
    <1>8. \A f \in Files : Right("daemon", f)
        BY <1>2 DEF Right, WrittenIn, TouchedIn, Writers
    <1>9. EntropyInv
        BY <1>7, <1>8 DEF Init, EntropyInv, Replaying
    <1> QED BY <1>1, <1>3, <1>5, <1>6, <1>9 DEF IInv

\* The inductive invariant of the derived tables and their two writers.
THEOREM ReplayInvariant == Spec => []IInv
    <1>1. IInv /\ [Next]_vars => IInv'
        BY StepType, StepTxn, StepCounts, StepExact, StepEntropy DEF IInv
    <1> QED BY <1>1, InitIInv, PTL DEF Spec

\* The types of the tables and the transactions, for every history and any
\* number of rebuilds.
THEOREM TypeCorrect == Spec => []TypeOK
    <1>1. IInv => TypeOK
        BY DEF IInv
    <1> QED BY <1>1, ReplayInvariant, PTL

\* For every way to cut every history into batches and transactions, and after
\* every rebuild that is not late, corpus, pairs and churn are the function of
\* the truth table that replay commit by commit computes, and so is the entropy
\* of every file that no batch of the daemon touched beside that replay, in
\* whatever order the two writers read, waited and wrote.
THEOREM AggregatesAreExact == Spec => []AggregatesExact
    <1>1. IInv => AggregatesExact
        BY DEF IInv, ExactInv, EntropyInv, AggregatesExact
    <1> QED BY <1>1, ReplayInvariant, PTL

\* No crash of a rebuild and no race with one counts a commit twice.
THEOREM NothingCountedTwice == Spec => []NeverOvercounted
    <1>1. IInv => NeverOvercounted
        BY DEF IInv, CountsInv
    <1> QED BY <1>1, ReplayInvariant, PTL
=============================================================================
