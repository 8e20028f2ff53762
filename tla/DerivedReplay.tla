---------------------------- MODULE DerivedReplay ----------------------------
(***************************************************************************)
(* The derived tables of the harvester (defect corpus, co-change pairs,    *)
(* file signals, snapshots) and the two writers that fill them: the        *)
(* daemon, batch by batch, and rebuild_derived_from_truth, commit by       *)
(* commit (src/chips/harvester/ingestion.py, storage.py, git_reader.py,    *)
(* signals.py).  Each writes in a transaction of its own at READ           *)
(* COMMITTED.  The upserts add to the rows that are there, so an open      *)
(* transaction is what it adds to the committed rows; it reads them with   *)
(* its own additions, and the other writer waits for a row it has          *)
(* written.  The entropy of a file is read in one statement and stored by  *)
(* the next, which may have to wait.  What a cycle of the daemon does      *)
(* besides is module Harvester, whose HarvestedOnce says when every commit *)
(* is harvested once, as it is here.                                       *)
(***************************************************************************)
EXTENDS Naturals, FiniteSets

CONSTANTS
    Commits,        \* the commits there are to harvest
    Files,          \* the paths they touch
    Touches,        \* Touches[c]: files_changed
    Date,           \* Date[c]: the order (committed_at, sha)
    Generated,      \* files classify_generated_kind knows as generated
    MaxFiles,       \* _MAX_FILES_FOR_COCHANGE (100)
    MinSupport      \* _DEFAULT_MIN_COCHANGE_SUPPORT (2)

ASSUME ReplayAssumption ==
    /\ IsFiniteSet(Commits) /\ IsFiniteSet(Files)
    /\ Touches \in [Commits -> SUBSET Files]
    /\ Date \in [Commits -> Nat]
    /\ \A c, d \in Commits : Date[c] = Date[d] => c = d
    /\ Generated \subseteq Files
    /\ MaxFiles \in Nat /\ MinSupport \in Nat \ {0}

VARIABLES
    truth,      \* cortex_git_commits as committed
    db,         \* the derived tables as committed
    txn,        \* txn[w]: what the open transaction of w adds to them
    pc,         \* what the rebuild does next, or "idle"
    todo,       \* the commits it has yet to replay
    gone,       \* the rows its deletes have found
    late,       \* history: the daemon committed between this rebuild's read
                \* of the truth table and the commit of its deletes
    beside,     \* history: the files of the daemon's batches that ran while
                \* this rebuild replayed
    sound,      \* history: no clear since the last rebuild that was not late
    stale,      \* history: the files that rebuild had beside it
    live        \* history: the snapshots the daemon wrote

vars == <<truth, db, txn, pc, todo, gone, late, beside, sound, stale, live>>
rebuildVars == <<pc, todo, gone>>

Writers == {"daemon", "rebuild"}
Pairs == {p \in SUBSET Files : Cardinality(p) = 2}

\* An entropy stands for the supported partner frequencies whose normalised
\* entropy it is, {} for 0.
Entropies == SUBSET (Files \X Nat)
Snapshots == Commits \X Files \X Entropies

\* `spread' is the column cochange_entropy.
Derived == [corpus : SUBSET Commits,
            pairs : [Pairs -> Nat],
            churn : [Files -> Nat],
            spread : [Files -> Entropies],
            snapshots : SUBSET Snapshots]

\* The commits upserted, those of them whose file signals are yet to be
\* written, the entropy read for the next one, and the ones written.
Transactions == [commits : SUBSET Commits,
                 due : SUBSET (Commits \X Files),
                 read : SUBSET (Files \X Entropies),
                 spread : [Files -> Entropies],
                 snapshots : SUBSET Snapshots]

NothingDerived == [corpus |-> {}, pairs |-> [p \in Pairs |-> 0],
                   churn |-> [f \in Files |-> 0], spread |-> [f \in Files |-> {}],
                   snapshots |-> {}]
NothingOpen == [commits |-> {}, due |-> {}, read |-> {},
                spread |-> [f \in Files |-> {}], snapshots |-> {}]
NothingGone == [corpus |-> {}, pairs |-> {}, files |-> {}, snapshots |-> {}]

Deleting == {"corpus", "pairs", "pairs found", "signals", "signals found", "snapshots", "commit"}
Replaying == {"replay", "replayed"}

TypeOK ==
    /\ truth \in SUBSET Commits
    /\ db \in Derived
    /\ txn \in [Writers -> Transactions]
    /\ pc \in {"idle"} \cup Deleting \cup Replaying
    /\ todo \in SUBSET Commits
    /\ gone \in [corpus : SUBSET Commits, pairs : SUBSET Pairs,
                 files : SUBSET Files, snapshots : SUBSET Snapshots]
    /\ late \in BOOLEAN /\ sound \in BOOLEAN
    /\ beside \in SUBSET Files /\ stale \in SUBSET Files
    /\ live \in SUBSET Snapshots

-----------------------------------------------------------------------------
(* What a transaction sees and holds *)

\* A commit that touches too many files is counted but pairs nothing.
Pairing(c) == Cardinality(Touches[c]) <= MaxFiles

TogetherIn(p, B) == {c \in B : Pairing(c) /\ p \subseteq Touches[c]}
TouchedIn(f, B) == {c \in B : f \in Touches[c]}

\* The commits of w's transaction that it has added to the churn of f.
WrittenIn(f, w) == {c \in TouchedIn(f, txn[w].commits) : <<c, f>> \notin txn[w].due}

\* Mutant of PairsSeen: files[i:] for files[i + 1:] pairs a file with itself.
SelfPairs(w) ==
    [p \in Pairs \cup {{f} : f \in Files} |->
        (IF p \in Pairs THEN db.pairs[p] ELSE 0) + Cardinality(TogetherIn(p, txn[w].commits))]

\* Mutant of PairsSeen: the entropies are read before the pairs are merged.
PairsBefore(w) ==
    [p \in Pairs |-> db.pairs[p] + Cardinality(TogetherIn(p, txn[w].commits \ {d[1] : d \in txn[w].due}))]

\* The pairs table as the transaction of w reads it.
PairsSeen(w) ==
    [p \in Pairs |-> db.pairs[p] + Cardinality(TogetherIn(p, txn[w].commits))]

\* cochange_entropy_for_file(f, partner_frequencies(f)): partners of a real
\* file that are real themselves and have support; one alone has entropy 0.
Spread(f, pairs) ==
    LET partners == {g \in Files \ (Generated \cup {f}) : pairs[{f, g}] >= MinSupport}
    IN  IF f \in Generated \/ Cardinality(partners) <= 1 THEN {}
        ELSE {<<g, pairs[{f, g}]>> : g \in partners}

\* The rows w has written, or deleted, in its open transaction.
PairHeld(w, p) ==
    \/ TogetherIn(p, txn[w].commits) # {}
    \/ w = "rebuild" /\ pc # "pairs found" /\ p \in gone.pairs
SignalHeld(w, f) ==
    \/ WrittenIn(f, w) # {}
    \/ w = "rebuild" /\ pc # "signals found" /\ f \in gone.files

\* The tables with what the transaction of w adds.
Committed(w) ==
    [corpus |-> db.corpus \cup txn[w].commits,
     pairs |-> PairsSeen(w),
     churn |-> [f \in Files |-> db.churn[f] + Cardinality(WrittenIn(f, w))],
     spread |-> [f \in Files |-> IF WrittenIn(f, w) = {} THEN db.spread[f]
                                 ELSE txn[w].spread[f]],
     snapshots |-> db.snapshots \cup txn[w].snapshots]

-----------------------------------------------------------------------------
(* The statements of a batch, the same for both writers *)

\* The corpus and every pair of the batch; waits for the pairs' rows.
MergeBatch(w, B) ==
    /\ txn[w].due = {}
    /\ \A o \in Writers \ {w}, p \in Pairs : TogetherIn(p, B) # {} => ~PairHeld(o, p)
    /\ txn' = [txn EXCEPT ![w].commits = @ \cup B,
                          ![w].due = {d \in B \X Files : d[2] \in Touches[d[1]]}]

\* partner_frequencies of the next file: one read per file and batch, the
\* files in any order.
ReadEntropy(w) ==
    /\ txn[w].read = {}
    /\ \E d \in txn[w].due :
          txn' = [txn EXCEPT ![w].read = {<<d[2], Spread(d[2], PairsSeen(w))>>}]
    /\ UNCHANGED <<truth, db, rebuildVars, late, beside, sound, stale, live>>

\* The upsert of that file, which waits for its row, and its snapshots.  The
\* upserts of further commits of the batch to the row, then w's own, are here.
WriteSignal(w) ==
    /\ \E r \in txn[w].read :
          /\ \A o \in Writers \ {w} : ~SignalHeld(o, r[1])
          /\ txn' = [txn EXCEPT
                        ![w].due = {d \in @ : d[2] # r[1]},
                        ![w].read = {},
                        ![w].spread[r[1]] = r[2],
                        ![w].snapshots = @ \cup {<<d[1], r[1], r[2]>> :
                                              d \in {e \in txn[w].due : e[2] = r[1]}}]
    /\ UNCHANGED <<truth, db, rebuildVars, late, beside, sound, stale, live>>

-----------------------------------------------------------------------------
(* The daemon *)

\* The next batch, in a new transaction or in the one a failed cycle left.
Ingest(B) ==
    /\ B # {}
    /\ B \cap (truth \cup txn["daemon"].commits) = {}
    /\ MergeBatch("daemon", B)
    /\ beside' = IF pc \in Replaying THEN beside \cup UNION {Touches[c] : c \in B} ELSE beside
    /\ UNCHANGED <<truth, db, rebuildVars, late, sound, stale, live>>

DaemonCommits ==
    /\ txn["daemon"].commits # {}
    /\ txn["daemon"].due = {}
    /\ truth' = truth \cup txn["daemon"].commits
    /\ db' = Committed("daemon")
    /\ txn' = [txn EXCEPT !["daemon"] = NothingOpen]
    /\ live' = live \cup txn["daemon"].snapshots
    /\ late' = (late \/ pc \in Deleting)
    /\ UNCHANGED <<rebuildVars, beside, sound, stale>>

\* It dies, loses its connection or is the victim of a deadlock.
DaemonRollsBack ==
    /\ txn["daemon"].commits # {}
    /\ txn' = [txn EXCEPT !["daemon"] = NothingOpen]
    /\ UNCHANGED <<truth, db, rebuildVars, late, beside, sound, stale, live>>

-----------------------------------------------------------------------------
(* rebuild_derived_from_truth *)

\* commits = self._store.truth_commits()
ReadTruth ==
    /\ pc = "idle"
    /\ todo' = truth
    /\ pc' = "corpus"
    /\ UNCHANGED <<truth, db, txn, gone, late, beside, sound, stale, live>>

\* A DELETE deletes the rows committed when it starts; those the daemon
\* inserts meanwhile it does not see.
Delete(from, to, rows) ==
    /\ pc = from
    /\ pc' = to
    /\ gone' = rows
    /\ UNCHANGED <<truth, db, txn, todo, late, beside, sound, stale, live>>

DeleteCorpus == Delete("corpus", "pairs", [gone EXCEPT !.corpus = db.corpus])

FindPairs ==
    Delete("pairs", "pairs found", [gone EXCEPT !.pairs = {p \in Pairs : db.pairs[p] > 0}])

\* It waits for those the daemon has updated.
DeletePairs ==
    /\ \A p \in gone.pairs : ~PairHeld("daemon", p)
    /\ Delete("pairs found", "signals", gone)

FindSignals ==
    Delete("signals", "signals found", [gone EXCEPT !.files = {f \in Files : db.churn[f] > 0}])

DeleteSignals ==
    /\ \A f \in gone.files : ~SignalHeld("daemon", f)
    /\ Delete("signals found", "snapshots", gone)

DeleteSnapshots == Delete("snapshots", "commit", [gone EXCEPT !.snapshots = db.snapshots])

\* Mutant of ClearCommits: the deletes are rolled back where they should be
\* committed, and the replay goes on top of what was there.
ClearNothing ==
    /\ pc = "commit"
    /\ UNCHANGED db
    /\ gone' = NothingGone
    /\ sound' = FALSE
    /\ beside' = UNION {Touches[c] : c \in txn["daemon"].commits}
    /\ pc' = "replay"
    /\ UNCHANGED <<truth, txn, todo, late, stale, live>>

\* self._conn.commit() of clear_derived_tables
ClearCommits ==
    /\ pc = "commit"
    /\ db' = [corpus |-> db.corpus \ gone.corpus,
              pairs |-> [p \in Pairs |-> IF p \in gone.pairs THEN 0 ELSE db.pairs[p]],
              churn |-> [f \in Files |-> IF f \in gone.files THEN 0 ELSE db.churn[f]],
              spread |-> [f \in Files |-> IF f \in gone.files THEN {} ELSE db.spread[f]],
              snapshots |-> db.snapshots \ gone.snapshots]
    /\ gone' = NothingGone
    /\ sound' = FALSE
    /\ beside' = UNION {Touches[c] : c \in txn["daemon"].commits}
    /\ pc' = "replay"
    /\ UNCHANGED <<truth, txn, todo, late, stale, live>>

\* One turn of the loop: ORDER BY committed_at ASC, sha ASC.
ReplayCommit ==
    /\ pc = "replay"
    /\ \E c \in todo :
          /\ \A d \in todo : Date[c] <= Date[d]
          /\ MergeBatch("rebuild", {c})
          /\ todo' = todo \ {c}
    /\ UNCHANGED <<truth, db, pc, gone, late, beside, sound, stale, live>>

ReplayEnds ==
    /\ pc = "replay"
    /\ todo = {}
    /\ txn["rebuild"].due = {}
    /\ pc' = "replayed"
    /\ UNCHANGED <<truth, db, txn, todo, gone, late, beside, sound, stale, live>>

\* The rebuild does not commit the replay; its caller does.
CallerCommits ==
    /\ pc = "replayed"
    /\ db' = Committed("rebuild")
    /\ txn' = [txn EXCEPT !["rebuild"] = NothingOpen]
    /\ sound' = ~late
    /\ stale' = beside
    /\ late' = FALSE
    /\ beside' = {}
    /\ pc' = "idle"
    /\ UNCHANGED <<truth, todo, gone, live>>

\* The process dies or a statement fails, and PostgreSQL rolls back.
Crash ==
    /\ pc # "idle"
    /\ txn' = [txn EXCEPT !["rebuild"] = NothingOpen]
    /\ todo' = {}
    /\ gone' = NothingGone
    /\ late' = FALSE
    /\ beside' = {}
    /\ pc' = "idle"
    /\ UNCHANGED <<truth, db, sound, stale, live>>

-----------------------------------------------------------------------------
Init ==
    /\ truth = {} /\ db = NothingDerived
    /\ txn = [w \in Writers |-> NothingOpen]
    /\ pc = "idle" /\ todo = {} /\ gone = NothingGone
    /\ late = FALSE /\ beside = {}
    /\ sound = TRUE /\ stale = {}
    /\ live = {}

Rebuild == \/ ReadTruth
           \/ DeleteCorpus \/ FindPairs \/ DeletePairs \/ FindSignals \/ DeleteSignals
           \/ DeleteSnapshots \/ ClearCommits
           \/ ReplayCommit \/ ReplayEnds \/ CallerCommits \/ Crash

Daemon == DaemonCommits \/ DaemonRollsBack \/ \E B \in SUBSET Commits : Ingest(B)

Next == Rebuild \/ Daemon \/ \E w \in Writers : ReadEntropy(w) \/ WriteSignal(w)

Spec == Init /\ [][Next]_vars

-----------------------------------------------------------------------------
(* Properties *)

\* What the tables should say of a set S of commits.
CountsExact(S) ==
    /\ db.corpus = S
    /\ \A p \in Pairs : db.pairs[p] = Cardinality(TogetherIn(p, S))
    /\ \A f \in Files : db.churn[f] = Cardinality(TouchedIn(f, S))

EntropyExact(f, S) ==
    db.spread[f] = IF TouchedIn(f, S) = {} THEN {} ELSE Spread(f, db.pairs)

\* However the history was cut into batches, and after every rebuild up to
\* whose clear the daemon committed nothing since the truth table was read,
\* corpus, pairs and churn are the function of the truth table that replay
\* commit by commit computes, and so is the entropy of every file that no
\* batch of the daemon touched beside the replay (ingestion.py:25-31, 44-70).
\* Such a rebuild repairs what a crashed or late one left behind.  The entropy
\* of a file both writers had at once may be stale: each reads it without the
\* other's pairs and stores it when the other has committed.
AggregatesExact ==
    sound => /\ CountsExact(truth)
             /\ \A f \in Files \ stale : EntropyExact(f, truth)

\* Races and crashes lose deltas but never count a commit twice.
NeverOvercounted ==
    /\ db.corpus \subseteq truth
    /\ \A p \in Pairs : db.pairs[p] <= Cardinality(TogetherIn(p, truth))
    /\ \A f \in Files : db.churn[f] <= Cardinality(TouchedIn(f, truth))

\* ingestion.py:46-47 says that replay "reconstructs the exact same aggregates
\* and snapshots".  So what a rebuild that nobody disturbed is about to hand
\* over holds the snapshots the daemon wrote.  But those of a batch have the
\* entropies of the batch, those of a replay the entropies of the commit.
SnapshotsExact ==
    pc = "replayed" /\ ~late /\ beside = {} =>
        db.snapshots \cup txn["rebuild"].snapshots = live

-----------------------------------------------------------------------------
(* The inductive invariant behind AggregatesExact and NeverOvercounted     *)

\* The commits of the rebuild: what it read, replayed or not.
Replay == todo \cup txn["rebuild"].commits

PairsFound == {"pairs found", "signals", "signals found", "snapshots", "commit"} \cup Replaying
SignalsFound == {"signals found", "snapshots", "commit"} \cup Replaying

\* Whose commits are whose, and what is left of a batch.
TxnInv ==
    /\ txn["daemon"].commits \cap truth = {}
    /\ Replay \subseteq truth
    /\ todo \cap txn["rebuild"].commits = {}
    /\ pc \notin Replaying => txn["rebuild"] = NothingOpen
    /\ pc \in {"idle", "replayed"} => todo = {} /\ txn["rebuild"].due = {}
    /\ pc \in {"idle"} \cup Replaying => gone = NothingGone
    /\ pc = "idle" => ~late
    /\ \A w \in Writers :
         /\ \A d \in txn[w].due : d[1] \in txn[w].commits /\ d[2] \in Touches[d[1]]
         /\ \A r \in txn[w].read : \E d \in txn[w].due : d[2] = r[1]

\* A row the deletes have not found holds no commit the rebuild will replay.
CountsInv ==
    /\ NeverOvercounted
    /\ \A f \in Files : db.churn[f] = 0 => db.spread[f] = {}
    /\ pc \in PairsFound =>
         \A p \in Pairs \ gone.pairs :
             db.pairs[p] <= Cardinality(TogetherIn(p, truth \ Replay))
    /\ pc \in SignalsFound =>
         \A f \in Files \ gone.files :
             db.churn[f] <= Cardinality(TouchedIn(f, truth \ Replay))

\* A rebuild that is not late replays all there was to count when its deletes
\* are committed, and so ends with exact counts.
ExactInv ==
    /\ sound => CountsExact(truth)
    /\ ~late =>
         /\ pc \in Deleting => todo = truth
         /\ pc \in (Deleting \ {"corpus"}) \cup Replaying =>
              db.corpus \ gone.corpus = truth \ Replay
         /\ pc \in PairsFound =>
              \A p \in Pairs \ gone.pairs :
                  db.pairs[p] = Cardinality(TogetherIn(p, truth \ Replay))
         /\ pc \in SignalsFound =>
              \A f \in Files \ gone.files :
                  db.churn[f] = Cardinality(TouchedIn(f, truth \ Replay))

\* The entropy w has written for f, or is about to write, is that of the pairs
\* w sees.
Right(w, f) ==
    /\ WrittenIn(f, w) # {} /\ (\A d \in txn[w].due : d[2] # f) =>
         txn[w].spread[f] = Spread(f, PairsSeen(w))
    /\ \A r \in txn[w].read : r[1] = f => r[2] = Spread(f, PairsSeen(w))

EntropyInv ==
    /\ sound => \A f \in Files \ stale : EntropyExact(f, truth) /\ Right("daemon", f)
    /\ pc \in Replaying /\ ~late =>
         \A f \in Files \ beside :
             /\ TouchedIn(f, txn["daemon"].commits) = {}
             /\ TouchedIn(f, truth \ Replay) = {}
             /\ Right("rebuild", f)

IInv == TypeOK /\ TxnInv /\ CountsInv /\ ExactInv /\ EntropyInv
=============================================================================
