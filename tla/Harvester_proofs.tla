--------------------------- MODULE Harvester_proofs ---------------------------
(***************************************************************************)
(* What holds of the harvester for every history of commits, every pair of *)
(* limits and any number of faults.  The argument is one inductive         *)
(* invariant, IInv of Harvester: a step of a cycle changes the open        *)
(* transaction, so what the properties say of the committed store has to   *)
(* be carried by the transaction until conn.commit().                      *)
(***************************************************************************)
EXTENDS Harvester, FiniteSetTheorems, TLAPS

USE DEF Counts, Locations, Idle

\* Merging a batch leaves every counter a counter: it grows by at most one and
\* stops at MaxCount.
LEMMA BumpCounts ==
    ASSUME NEW f \in [Commits -> Counts], NEW S
    PROVE  /\ Bump(f, S) \in [Commits -> Counts]
           /\ \A c \in Commits :
                 /\ c \in S => Bump(f, S)[c] > 0
                 /\ c \in S /\ f[c] < MaxCount => Bump(f, S)[c] = f[c] + 1
                 /\ c \in S /\ f[c] = MaxCount => Bump(f, S)[c] = MaxCount
                 /\ c \notin S => Bump(f, S)[c] = f[c]
    BY BoundAssumption DEF Bump

\* The cursor is a commit of the table, or None when the table is empty, and no
\* commit of the table has a later author date.
LEMMA NewestCommit ==
    ASSUME NEW S \in SUBSET Commits, NEW s \in Newest(S)
    PROVE  /\ s = NoSha <=> S = {}
           /\ s # NoSha => s \in S
           /\ s # NoSha => \A c \in S : AuthorDate[c] <= AuthorDate[s]
    BY CommitsAssumption DEF Newest

\* --max-count keeps a part of the range, and not nothing.
LEMMA SelectionsInRange ==
    ASSUME NEW R, NEW limit, NEW S \in Selections(R, limit)
    PROVE  /\ S \subseteq R
           /\ R # {} /\ limit # 0 => S # {}
    BY FS_EmptySet DEF Selections

-----------------------------------------------------------------------------
(* Type correctness *)

LEMMA InitType == Init => TypeOK
    <1> SUFFICES ASSUME Init PROVE TypeOK OBVIOUS
    <1>1. EmptyStore \in Store
        BY BoundAssumption DEF EmptyStore, Store
    <1>2. faults \in 0 .. MaxFaults
        BY BoundAssumption DEF Init
    <1> QED BY <1>1, <1>2 DEF Init, TypeOK

\* The ways a cycle ends keep the types.
LEMMA RaiseType ==
    ASSUME TypeOK, NEW t \in Store, NEW b \in BOOLEAN, NEW a \in SUBSET Commits,
           Raise(t, b, a), db' \in Store
    PROVE  /\ txn' \in Store /\ broken' \in BOOLEAN /\ pc' \in Locations
           /\ backfilling' \in BOOLEAN /\ since' \in Commits \cup {NoSha}
           /\ batch' \in SUBSET Commits /\ abandoned' \in SUBSET Commits
           /\ pc' \in Idle /\ since' = NoSha /\ batch' = {} /\ ~backfilling'
           /\ pc' = "down" => txn' = db' /\ ~broken'
    BY DEF Raise, Die, EndCycle, TypeOK, Store

LEMMA StepType == TypeOK /\ [Next]_vars => TypeOK'
    <1> SUFFICES ASSUME TypeOK, [Next]_vars PROVE TypeOK' OBVIOUS
    <1> USE DEF TypeOK, vars, gitVars, daemonVars, historyVars
    <1>1. ASSUME NEW c \in Commits, Push(c) PROVE TypeOK'
        BY <1>1, AncestryAssumption DEF Push
    <1>2. CASE Prune
        BY <1>2, AncestryAssumption, BoundAssumption DEF Prune, MayFail
    <1>3. CASE Start
        BY <1>3 DEF Start
    <1>4. CASE ReadCursor
        BY <1>4, NewestCommit DEF ReadCursor, Store
    <1>5. CASE ReadCursorFails
        <2>1. Raise(txn, broken, abandoned) BY <1>5 DEF ReadCursorFails
        <2> QED BY <1>5, <2>1, RaiseType DEF ReadCursorFails
    <1>6. CASE ReadLog
        <2>1. LogRange(since) \subseteq Commits
            BY <1>6, AncestryAssumption DEF ReadLog, LogWorks, LogRange
        <2>2. PICK S \in Selections(LogRange(since), Limit) : batch' = S
            BY <1>6 DEF ReadLog
        <2>3. LogRange(since) # {} /\ Limit # 0
            BY <1>6, LimitAssumption DEF ReadLog, Limit
        <2>4. batch' # {} /\ batch' \subseteq Commits
            BY <2>1, <2>2, <2>3, SelectionsInRange
        <2> QED BY <1>6, <2>1, <2>4 DEF ReadLog
    <1>7. CASE NothingNew
        BY <1>7 DEF NothingNew, EndCycle
    <1>8. CASE LogFails
        <2>1. Raise(txn, broken, abandoned) BY <1>8 DEF LogFails
        <2> QED BY <1>8, <2>1, RaiseType DEF LogFails
    <1>9. CASE AppendCommits
        BY <1>9 DEF AppendCommits, Store
    <1>10. CASE AppendRejected
        <2>1. Raise(db, TRUE, abandoned \cap db.truth) BY <1>10 DEF AppendRejected
        <2> QED BY <1>10, <2>1, RaiseType DEF AppendRejected, Store
    <1>11. CASE MergeDerived
        <2>1. Bump(txn.derived, batch) \in [Commits -> Counts]
            BY BumpCounts DEF Store
        <2> QED BY <1>11, <2>1 DEF MergeDerived, Store
    <1>12. CASE Embed
        BY <1>12 DEF Embed
    <1>13. CASE InsertMemories
        <2>1. Bump(txn.memories, batch \cap Memorable) \in [Commits -> Counts]
            BY BumpCounts DEF Store
        <2> QED BY <1>13, <2>1 DEF InsertMemories, Store
    <1>14. CASE Commit
        BY <1>14 DEF Commit, EndCycle
    <1>15. CASE Wake
        BY <1>15 DEF Wake
    <1>16. CASE EmbedFails
        <2>1. Raise(txn, broken, abandoned \cup batch) BY <1>16 DEF EmbedFails
        <2> QED BY <1>16, <2>1, RaiseType, BoundAssumption DEF EmbedFails, MayFail
    <1>17. CASE DatabaseError
        <2>1. db' \in Store BY <1>17 DEF DatabaseError
        <2>2. Raise(db', TRUE, abandoned \cap db'.truth) BY <1>17 DEF DatabaseError
        <2>3. abandoned \cap db'.truth \in SUBSET Commits
            OBVIOUS
        <2>4. faults' \in 0 .. MaxFaults
            BY <1>17, BoundAssumption DEF DatabaseError, MayFail
        <2> QED BY <1>17, <2>1, <2>2, <2>3, <2>4, RaiseType DEF DatabaseError
    <1>18. CASE Crash
        <2>1. faults' \in 0 .. MaxFaults
            BY <1>18, BoundAssumption DEF Crash, MayFail
        <2> QED BY <1>18, <2>1 DEF Crash, Die, Store
    <1>19. CASE UNCHANGED vars
        BY <1>19
    <1> QED BY <1>1, <1>2, <1>3, <1>4, <1>5, <1>6, <1>7, <1>8, <1>9, <1>10, <1>11,
               <1>12, <1>13, <1>14, <1>15, <1>16, <1>17, <1>18, <1>19
            DEF Next, Cycle

\* Every variable of the harvester keeps its type, and no cursor or batch
\* outlives its cycle, nor an open transaction its process, through every fault
\* (daemon.py:40-91).
THEOREM TypeCorrect == Spec => []TypeOK
    BY InitType, StepType, PTL DEF Spec

-----------------------------------------------------------------------------
(* The kinds of steps the invariant distinguishes *)

\* The store and the batch stay as they are.
Quiet ==
    /\ UNCHANGED <<db, txn, batch, dropped, abandoned>>
    /\ \/ pc' = pc
       \/ pc \in {"down", "sleep"} /\ pc' = "cursor"
       \/ pc = "cursor" /\ pc' = "log"
       \/ pc = "embed" /\ pc' = "insert"

\* A cycle ends with its transaction left open, as run()'s handler leaves it.
LeavesOpen ==
    /\ UNCHANGED <<db, txn>>
    /\ \/ pc \in {"cursor", "log"} /\ abandoned' = abandoned
       \/ pc = "embed" /\ abandoned' = abandoned \cup batch

\* A cycle ends with its transaction rolled back, or committed and its
\* connection lost.
LosesTransaction ==
    /\ db' = db \/ (pc = "commit" /\ db' = txn)
    /\ txn' = db'
    /\ abandoned' = abandoned \cap db'.truth

Publishes ==
    /\ pc = "commit"
    /\ db' = txn
    /\ UNCHANGED <<txn, abandoned>>

CycleEnds ==
    /\ pc' \in {"down", "sleep"}
    /\ batch' = {}
    /\ dropped' = dropped
    /\ LeavesOpen \/ LosesTransaction \/ Publishes

\* What leaves run_once by an exception ends the cycle in one of two ways.
LEMMA RaiseEnds ==
    ASSUME NEW t, NEW b, NEW a, Raise(t, b, a)
    PROVE  /\ pc' \in {"down", "sleep"}
           /\ batch' = {}
           /\ \/ txn' = t /\ abandoned' = a
              \/ txn' = db' /\ abandoned' = abandoned \cap db'.truth
    BY DEF Raise, Die, EndCycle

LEMMA StepKinds ==
    [Next]_vars => \/ Quiet \/ ReadLog \/ AppendCommits \/ MergeDerived
                   \/ InsertMemories \/ CycleEnds
    <1> SUFFICES ASSUME [Next]_vars
                 PROVE  \/ Quiet \/ ReadLog \/ AppendCommits \/ MergeDerived
                        \/ InsertMemories \/ CycleEnds
        OBVIOUS
    <1> USE DEF vars, gitVars, daemonVars, historyVars, CycleEnds
    <1>1. ASSUME NEW c \in Commits, Push(c) PROVE Quiet
        BY <1>1 DEF Push, Quiet
    <1>2. Prune \/ Start \/ ReadCursor \/ Embed \/ Wake \/ UNCHANGED vars => Quiet
        BY DEF Prune, Start, ReadCursor, Embed, Wake, Quiet
    <1>3. ReadCursorFails => CycleEnds
        BY RaiseEnds DEF ReadCursorFails, LeavesOpen, LosesTransaction
    <1>4. NothingNew => CycleEnds
        BY DEF NothingNew, EndCycle, LeavesOpen
    <1>5. LogFails => CycleEnds
        BY RaiseEnds DEF LogFails, LeavesOpen, LosesTransaction
    <1>6. AppendRejected => CycleEnds
        BY RaiseEnds DEF AppendRejected, LosesTransaction
    <1>7. EmbedFails => CycleEnds
        BY RaiseEnds DEF EmbedFails, LeavesOpen, LosesTransaction
    <1>8. Commit => CycleEnds
        BY DEF Commit, EndCycle, Publishes
    <1>9. DatabaseError => CycleEnds
        BY RaiseEnds DEF DatabaseError, LosesTransaction
    <1>10. Crash => CycleEnds
        BY DEF Crash, Die, LosesTransaction
    <1> QED BY <1>1, <1>2, <1>3, <1>4, <1>5, <1>6, <1>7, <1>8, <1>9, <1>10
            DEF Next, Cycle

-----------------------------------------------------------------------------
(* Each part of the invariant is kept by every step *)

LEMMA StepTxnExtendsDb ==
    TypeOK /\ TxnExtendsDb /\ [Next]_vars => TxnExtendsDb'
    <1> SUFFICES ASSUME TypeOK, TxnExtendsDb, [Next]_vars PROVE TxnExtendsDb'
        OBVIOUS
    <1> USE DEF TypeOK, Store, TxnExtendsDb
    <1>1. CASE Quiet
        BY <1>1 DEF Quiet
    <1>2. CASE ReadLog
        BY <1>2 DEF ReadLog
    <1>3. CASE AppendCommits
        BY <1>3 DEF AppendCommits
    <1>4. CASE MergeDerived
        BY <1>4 DEF MergeDerived
    <1>5. CASE InsertMemories
        <2>1. \A c \in Commits : txn.memories[c] <= Bump(txn.memories, batch \cap Memorable)[c]
            BY BoundAssumption DEF Bump
        <2> QED BY <1>5, <2>1, BumpCounts, BoundAssumption DEF InsertMemories
    <1>6. CASE CycleEnds
        BY <1>6, BoundAssumption
           DEF CycleEnds, LeavesOpen, LosesTransaction, Publishes
    <1> QED BY <1>1, <1>2, <1>3, <1>4, <1>5, <1>6, StepKinds

LEMMA StepCursorIsNewest ==
    TypeOK /\ CursorIsNewest /\ [Next]_vars => CursorIsNewest'
    <1> SUFFICES ASSUME TypeOK, CursorIsNewest, [Next]_vars, pc' = "log"
                 PROVE  since' \in Newest(txn'.truth)
        BY DEF CursorIsNewest, Newest
    <1> USE DEF vars, gitVars, daemonVars, historyVars
    <1>1. CASE ReadCursor
        BY <1>1 DEF ReadCursor
    <1>2. CASE UNCHANGED <<txn, since, pc>>
        BY <1>2 DEF CursorIsNewest
    <1>3. ReadCursor \/ UNCHANGED <<txn, since, pc>>
        BY DEF Next, Cycle, Push, Prune, Start, ReadCursor, ReadCursorFails, ReadLog,
               NothingNew, LogFails, AppendCommits, AppendRejected, MergeDerived,
               Embed, EmbedFails, InsertMemories, Commit, Wake, DatabaseError, Crash,
               Raise, Die, EndCycle
    <1> QED BY <1>1, <1>2, <1>3

\* The commits of a batch have their ancestors harvested, in the batch, or cut
\* off: git lists a commit's ancestors up to the cursor, and those of the cursor
\* were accounted for when it was harvested.
LEMMA StepAncestryInv ==
    TypeOK /\ CursorIsNewest /\ AncestryInv /\ [Next]_vars => AncestryInv'
    <1> SUFFICES ASSUME TypeOK, CursorIsNewest, AncestryInv, [Next]_vars
                 PROVE  AncestryInv'
        OBVIOUS
    <1> USE DEF TypeOK, Store, AncestryInv, Closed
    <1>1. CASE Quiet
        BY <1>1 DEF Quiet
    <1>2. CASE ReadLog
        <2>1. /\ dropped' = dropped \cup (LogRange(since) \ batch')
              /\ batch' \subseteq LogRange(since)
              /\ pc = "log" /\ head # NoSha
              /\ UNCHANGED <<db, txn>>
            BY <1>2, SelectionsInRange DEF ReadLog, LogWorks
        <2>2. \A c \in LogRange(since) :
                 Ancestry[c] \subseteq txn.truth \cup dropped \cup LogRange(since)
            <3>1. CASE since = NoSha
                BY <2>1, <3>1, AncestryAssumption DEF LogRange
            <3>2. CASE since # NoSha
                <4>1. since \in txn.truth
                    BY <2>1, <3>2, NewestCommit DEF CursorIsNewest
                <4> QED BY <2>1, <3>2, <4>1, AncestryAssumption DEF LogRange
            <3> QED BY <3>1, <3>2
        <2> QED BY <2>1, <2>2
    <1>3. CASE AppendCommits
        BY <1>3 DEF AppendCommits, historyVars
    <1>4. CASE MergeDerived
        <2>1. txn'.truth = txn.truth /\ db' = db /\ dropped' = dropped /\ pc' = "embed"
            BY <1>4 DEF MergeDerived, historyVars
        <2> QED BY <2>1
    <1>5. CASE InsertMemories
        <2>1. txn'.truth = txn.truth /\ db' = db /\ dropped' = dropped /\ pc' = "commit"
            BY <1>5 DEF InsertMemories, historyVars
        <2> QED BY <2>1
    <1>6. CASE CycleEnds
        <2>1. /\ pc' # "append" /\ dropped' = dropped
              /\ db'.truth \in {db.truth, txn.truth}
              /\ txn'.truth \in {db.truth, txn.truth}
            BY <1>6 DEF CycleEnds, LeavesOpen, LosesTransaction, Publishes
        <2> QED BY <2>1
    <1> QED BY <1>1, <1>2, <1>3, <1>4, <1>5, <1>6, StepKinds

LEMMA StepDerivedInv ==
    TypeOK /\ DerivedInv /\ [Next]_vars => DerivedInv'
    <1> SUFFICES ASSUME TypeOK, DerivedInv, [Next]_vars PROVE DerivedInv'
        OBVIOUS
    <1> USE BoundAssumption DEF TypeOK, Store, DerivedInv, DerivedMatchesTruth
    <1>1. CASE Quiet
        BY <1>1 DEF Quiet
    <1>2. CASE ReadLog
        <2>1. pc = "log" /\ pc' = "append" /\ UNCHANGED <<db, txn>>
            BY <1>2 DEF ReadLog
        <2> QED BY <2>1
    <1>3. CASE AppendCommits
        <2>1. /\ pc = "append" /\ pc' = "derive" /\ UNCHANGED <<db, batch>>
              /\ txn'.truth = txn.truth \cup batch
              /\ txn'.derived = txn.derived
            BY <1>3 DEF AppendCommits
        <2> QED BY <2>1
    <1>4. CASE MergeDerived
        <2>1. /\ pc = "derive" /\ pc' = "embed" /\ UNCHANGED db
              /\ txn'.truth = txn.truth
              /\ txn'.derived = Bump(txn.derived, batch)
            BY <1>4 DEF MergeDerived
        <2>2. \A c \in Commits :
                 /\ c \in batch => txn'.derived[c] > 0
                 /\ c \notin batch => txn'.derived[c] = txn.derived[c]
            BY <2>1, BumpCounts
        <2> QED BY <2>1, <2>2
    <1>5. CASE InsertMemories
        <2>1. /\ pc = "insert" /\ pc' = "commit" /\ UNCHANGED db
              /\ txn'.truth = txn.truth /\ txn'.derived = txn.derived
            BY <1>5 DEF InsertMemories
        <2> QED BY <2>1
    <1>6. CASE CycleEnds
        <2>1. pc' \in {"down", "sleep"}
            BY <1>6 DEF CycleEnds
        <2>2. CASE LeavesOpen
            BY <2>1, <2>2 DEF LeavesOpen
        <2>3. CASE LosesTransaction
            <3>1. db' = db \/ (pc = "commit" /\ db' = txn)
                BY <2>3 DEF LosesTransaction
            <3>2. DerivedMatchesTruth'
                BY <3>1
            <3> QED BY <2>1, <2>3, <3>1, <3>2 DEF LosesTransaction
        <2>4. CASE Publishes
            BY <2>1, <2>4 DEF Publishes
        <2> QED BY <1>6, <2>2, <2>3, <2>4 DEF CycleEnds
    <1> QED BY <1>1, <1>2, <1>3, <1>4, <1>5, <1>6, StepKinds

\* A commit git lists beyond the cursor although it is harvested already is not
\* an ancestor of the cursor, and not authored later.
LEMMA ListedAgain ==
    ASSUME TypeOK, CursorIsNewest, pc = "log", head # NoSha,
           NEW c \in LogRange(since), c \in txn.truth
    PROVE  Skewed(c, txn.truth)
    <1>1. since # NoSha /\ since \in txn.truth /\ AuthorDate[c] <= AuthorDate[since]
        BY NewestCommit DEF CursorIsNewest, TypeOK, Store
    <1>2. c \notin Ancestry[since]
        BY <1>1 DEF LogRange
    <1> QED BY <1>1, <1>2 DEF Skewed

LEMMA SkewedGrows ==
    ASSUME NEW S, NEW T, S \subseteq T, NEW c, Skewed(c, S)
    PROVE  Skewed(c, T)
    BY DEF Skewed

LEMMA StepRecountInv ==
    TypeOK /\ CursorIsNewest /\ DerivedInv /\ RecountInv /\ [Next]_vars
        => RecountInv'
    <1> SUFFICES ASSUME TypeOK, CursorIsNewest, DerivedInv, RecountInv, [Next]_vars
                 PROVE  RecountInv'
        OBVIOUS
    <1> USE BoundAssumption DEF TypeOK, Store
    <1>1. CASE Quiet
        <2>1. UNCHANGED <<db, txn, batch>> /\ (pc' = pc \/ pc' \notin {"append", "derive"})
            BY <1>1 DEF Quiet
        <2> QED BY <2>1 DEF RecountInv, Skewed
    <1>2. CASE ReadLog
        <2>1. /\ pc = "log" /\ pc' = "append" /\ UNCHANGED <<db, txn>> /\ head # NoSha
              /\ batch' \subseteq LogRange(since)
            BY <1>2, SelectionsInRange DEF ReadLog, LogWorks
        <2>2. \A c \in batch' \cap txn'.truth : Skewed(c, txn.truth)
            BY <2>1, ListedAgain
        <2> QED BY <2>1, <2>2 DEF RecountInv, Skewed
    <1>3. CASE AppendCommits
        <2>1. /\ pc = "append" /\ pc' = "derive" /\ UNCHANGED <<db, batch>>
              /\ txn'.truth = txn.truth \cup batch
              /\ txn'.derived = txn.derived
            BY <1>3 DEF AppendCommits
        <2>2. \A c \in Commits : Skewed(c, txn.truth) => Skewed(c, txn'.truth)
            BY <2>1, SkewedGrows
        <2>3. \A c \in batch : txn.derived[c] > 0 => Skewed(c, txn.truth)
            BY <2>1 DEF RecountInv, DerivedInv
        <2> QED BY <2>1, <2>2, <2>3 DEF RecountInv, Skewed
    <1>4. CASE MergeDerived
        <2>1. /\ pc = "derive" /\ pc' = "embed" /\ UNCHANGED db
              /\ txn'.truth = txn.truth
              /\ txn'.derived = Bump(txn.derived, batch)
            BY <1>4 DEF MergeDerived
        <2>2. ASSUME NEW c \in Commits, txn'.derived[c] > 1
              PROVE  Skewed(c, txn.truth)
            <3>1. CASE c \in batch
                <4>1. txn.derived[c] > 0
                    BY <2>1, <2>2, <3>1, BumpCounts
                <4> QED BY <2>1, <3>1, <4>1 DEF RecountInv
            <3>2. CASE c \notin batch
                <4>1. txn.derived[c] > 1
                    BY <2>1, <2>2, <3>2, BumpCounts
                <4> QED BY <4>1 DEF RecountInv
            <3> QED BY <3>1, <3>2
        <2> QED BY <2>1, <2>2 DEF RecountInv, Skewed
    <1>5. CASE InsertMemories
        <2>1. /\ pc' = "commit" /\ UNCHANGED db
              /\ txn'.truth = txn.truth /\ txn'.derived = txn.derived
            BY <1>5 DEF InsertMemories
        <2> QED BY <2>1 DEF RecountInv, Skewed
    <1>6. CASE CycleEnds
        <2>1. /\ pc' \in {"down", "sleep"}
              /\ db' \in {db, txn} /\ txn' \in {db, txn}
            BY <1>6 DEF CycleEnds, LeavesOpen, LosesTransaction, Publishes
        <2> QED BY <2>1 DEF RecountInv, Skewed
    <1> QED BY <1>1, <1>2, <1>3, <1>4, <1>5, <1>6, StepKinds

LEMMA StepMemoryInv ==
    TypeOK /\ DerivedInv /\ MemoryInv /\ [Next]_vars => MemoryInv'
    <1> SUFFICES ASSUME TypeOK, DerivedInv, MemoryInv, [Next]_vars
                 PROVE  MemoryInv'
        OBVIOUS
    <1> USE BoundAssumption DEF TypeOK, Store
    <1>1. CASE Quiet
        <2>1. /\ UNCHANGED <<db, txn, batch, abandoned>>
              /\ pc' = pc \/ (pc \notin {"derive", "embed", "insert"}
                               /\ pc' \notin {"derive", "embed", "insert"})
                          \/ (pc = "embed" /\ pc' = "insert")
            BY <1>1 DEF Quiet
        <2> QED BY <2>1 DEF MemoryInv, MemoryMissingOnlyIfAbandoned
    <1>2. CASE ReadLog
        <2>1. pc = "log" /\ pc' = "append" /\ UNCHANGED <<db, txn, abandoned>>
            BY <1>2 DEF ReadLog
        <2> QED BY <2>1 DEF MemoryInv, MemoryMissingOnlyIfAbandoned
    <1>3. CASE AppendCommits
        <2>1. /\ pc = "append" /\ pc' = "derive" /\ UNCHANGED <<db, batch, abandoned>>
              /\ txn'.truth = txn.truth \cup batch
              /\ txn'.derived = txn.derived /\ txn'.memories = txn.memories
            BY <1>3 DEF AppendCommits, historyVars
        <2> QED BY <2>1 DEF MemoryInv, MemoryMissingOnlyIfAbandoned
    <1>4. CASE MergeDerived
        <2>1. /\ pc = "derive" /\ pc' = "embed" /\ UNCHANGED <<db, batch, abandoned>>
              /\ txn'.truth = txn.truth /\ txn'.memories = txn.memories
              /\ txn'.derived = Bump(txn.derived, batch)
            BY <1>4 DEF MergeDerived, historyVars
        <2>2. \A c \in Commits :
                 /\ c \in batch => \/ txn'.memories[c] < txn'.derived[c]
                                   \/ txn'.derived[c] = MaxCount
                 /\ txn'.memories[c] <= txn'.derived[c]
            <3> TAKE c \in Commits
            <3>1. txn.memories[c] <= txn.derived[c]
                BY DEF MemoryInv
            <3>2. txn.memories[c] \in Counts /\ txn.derived[c] \in Counts
                OBVIOUS
            <3> QED BY <2>1, <3>1, <3>2, BumpCounts
        <2>3. batch \subseteq txn.truth
            BY <2>1 DEF DerivedInv
        <2> QED BY <2>1, <2>2, <2>3 DEF MemoryInv, MemoryMissingOnlyIfAbandoned
    <1>5. CASE InsertMemories
        <2>1. /\ pc = "insert" /\ pc' = "commit" /\ UNCHANGED <<db, batch, abandoned>>
              /\ txn'.truth = txn.truth /\ txn'.derived = txn.derived
              /\ txn'.memories = Bump(txn.memories, batch \cap Memorable)
            BY <1>5 DEF InsertMemories, historyVars
        <2>2. \A c \in Commits : txn'.memories[c] <= txn'.derived[c]
            <3> TAKE c \in Commits
            <3>1. /\ txn.memories[c] <= txn.derived[c]
                  /\ c \in batch => \/ txn.memories[c] < txn.derived[c]
                                    \/ txn.derived[c] = MaxCount
                BY <2>1 DEF MemoryInv
            <3>2. txn.memories[c] \in Counts /\ txn.derived[c] \in Counts
                OBVIOUS
            <3> QED BY <2>1, <3>1, <3>2, BumpCounts
        <2>3. \A c \in txn.truth \cap Memorable :
                 txn'.memories[c] = 0 => c \in abandoned
            <3> TAKE c \in txn.truth \cap Memorable
            <3>1. txn'.memories[c] = 0 => c \notin batch /\ txn.memories[c] = 0
                BY <2>1, BumpCounts
            <3> QED BY <2>1, <3>1 DEF MemoryInv
        <2> QED BY <2>1, <2>2, <2>3 DEF MemoryInv, MemoryMissingOnlyIfAbandoned
    <1>6. CASE CycleEnds
        <2>1. pc' \in {"down", "sleep"}
            BY <1>6 DEF CycleEnds
        <2>2. CASE LeavesOpen
            <3>1. /\ UNCHANGED <<db, txn>>
                  /\ \/ pc \in {"cursor", "log"} /\ abandoned' = abandoned
                     \/ pc = "embed" /\ abandoned' = abandoned \cup batch
                BY <2>2 DEF LeavesOpen
            <3> QED BY <2>1, <3>1 DEF MemoryInv, MemoryMissingOnlyIfAbandoned
        <2>3. CASE LosesTransaction
            <3>1. /\ db' = db \/ (pc = "commit" /\ db' = txn)
                  /\ txn' = db' /\ abandoned' = abandoned \cap db'.truth
                BY <2>3 DEF LosesTransaction
            <3>2. \A c \in db'.truth \cap Memorable :
                     db'.memories[c] = 0 => c \in abandoned'
                BY <3>1 DEF MemoryInv, MemoryMissingOnlyIfAbandoned
            <3>3. \A c \in Commits : db'.memories[c] <= db'.derived[c]
                BY <3>1 DEF MemoryInv
            <3> QED BY <2>1, <3>1, <3>2, <3>3 DEF MemoryInv, MemoryMissingOnlyIfAbandoned
        <2>4. CASE Publishes
            <3>1. pc = "commit" /\ db' = txn /\ UNCHANGED <<txn, abandoned>>
                BY <2>4 DEF Publishes
            <3> QED BY <2>1, <3>1 DEF MemoryInv, MemoryMissingOnlyIfAbandoned
        <2> QED BY <1>6, <2>2, <2>3, <2>4 DEF CycleEnds
    <1> QED BY <1>1, <1>2, <1>3, <1>4, <1>5, <1>6, StepKinds

-----------------------------------------------------------------------------
(* Theorems *)

LEMMA InitInv == Init => IInv
    BY InitType, BoundAssumption
    DEF Init, IInv, EmptyStore, TypeOK, Store, TxnExtendsDb, CursorIsNewest,
        AncestryInv, Closed, DerivedInv, DerivedMatchesTruth, RecountInv, MemoryInv,
        MemoryMissingOnlyIfAbandoned

\* The invariant that carries the properties through a cycle.
THEOREM Invariant == Spec => []IInv
    <1>1. IInv /\ [Next]_vars => IInv'
        BY StepType, StepTxnExtendsDb, StepCursorIsNewest, StepAncestryInv,
           StepDerivedInv, StepRecountInv, StepMemoryInv DEF IInv
    <1> QED BY InitInv, <1>1, PTL DEF Spec

\* Readers and restarts find truth and derived tables in step, at any moment of
\* any cycle (daemon.py:56-75).
THEOREM DerivedFollowsTruth == Spec => []DerivedMatchesTruth
    <1>1. IInv => DerivedMatchesTruth BY DEF IInv, DerivedInv
    <1> QED BY Invariant, <1>1, PTL

\* Only a cycle that failed at the embedder can cost a memory (daemon.py:66-87).
THEOREM MemoriesComplete == Spec => []MemoryMissingOnlyIfAbandoned
    <1>1. IInv => MemoryMissingOnlyIfAbandoned BY DEF IInv, MemoryInv
    <1> QED BY Invariant, <1>1, PTL

\* The cursor leaves gaps only where --max-count cut the list off, for every
\* commit graph, merges and rewrites included (git_reader.py:55-60).
THEOREM NoOtherGaps == Spec => []GapsOnlyFromLimit
    <1>1. IInv => GapsOnlyFromLimit
        BY DEF IInv, AncestryInv, Closed, GapsOnlyFromLimit
    <1> QED BY Invariant, <1>1, PTL

\* Without an author date out of order nothing is counted or remembered twice
\* (storage.py:303-311).
THEOREM RecountsNeedSkew == Spec => []RecountOnlyUnderSkew
    <1>1. IInv => RecountOnlyUnderSkew
        <2> SUFFICES ASSUME IInv, NEW c \in Commits,
                            db.derived[c] > 1 \/ db.memories[c] > 1
                     PROVE  Skewed(c, db.truth)
            BY DEF RecountOnlyUnderSkew, Skewed
        <2>1. /\ db.memories[c] <= db.derived[c]
              /\ db.memories[c] \in Counts /\ db.derived[c] \in Counts
            BY DEF IInv, MemoryInv, TypeOK, Store
        <2>2. db.derived[c] > 1
            BY <2>1, BoundAssumption
        <2> QED BY <2>2 DEF IInv, RecountInv
    <1> QED BY Invariant, <1>1, PTL

\* In a linear history whose author dates follow it nothing is harvested twice,
\* whatever crashes, is lost or is pushed meanwhile (storage.py:303-311,
\* known_limitations.md:227-228, where the condition on the dates is missing).
THEOREM OrderedIsHarvestedOnce ==
    ASSUME \A c, s \in Commits : AuthorDate[c] <= AuthorDate[s] => c \in Ancestry[s]
    PROVE  Spec => []HarvestedOnce
    <1>1. IInv /\ RecountOnlyUnderSkew => HarvestedOnce
        <2> SUFFICES ASSUME IInv, RecountOnlyUnderSkew, NEW c \in Commits
                     PROVE  ~(db.derived[c] > 1) /\ ~(db.memories[c] > 1)
                            /\ db.derived[c] \in Counts /\ db.memories[c] \in Counts
            BY BoundAssumption DEF HarvestedOnce
        <2>1. db.truth \subseteq Commits /\ db.derived[c] \in Counts /\ db.memories[c] \in Counts
            BY DEF IInv, TypeOK, Store
        <2> QED BY <2>1 DEF RecountOnlyUnderSkew
    <1> QED BY Invariant, RecountsNeedSkew, <1>1, PTL

\* What a reader has seen of the truth table or of the memories is there after
\* every step (storage.py:103-119, memory/repository.py:18-43).
THEOREM NothingTakenBack == Spec => PublishedStays
    <1>1. IInv /\ [Next]_vars =>
             [/\ db.truth \subseteq db'.truth
              /\ \A c \in Commits : db.memories[c] <= db'.memories[c]]_vars
        <2> SUFFICES ASSUME IInv, [Next]_vars
                     PROVE  /\ db.truth \subseteq db'.truth
                            /\ \A c \in Commits : db.memories[c] <= db'.memories[c]
            OBVIOUS
        <2>1. db' \in {db, txn}
            BY StepKinds DEF Quiet, ReadLog, AppendCommits, MergeDerived,
               InsertMemories, CycleEnds, LeavesOpen, LosesTransaction, Publishes
        <2>2. \A c \in Commits : db.memories[c] \in Counts
            BY DEF IInv, TypeOK, Store
        <2> QED BY <2>1, <2>2, BoundAssumption DEF IInv, TxnExtendsDb
    <1> QED BY Invariant, <1>1, PTL DEF Spec, PublishedStays
=============================================================================
