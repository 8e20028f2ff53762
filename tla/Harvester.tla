------------------------------ MODULE Harvester ------------------------------
(***************************************************************************)
(* The harvester daemon: one process, one git clone, one PostgreSQL        *)
(* database (src/chips/harvester/daemon.py, git_reader.py, ingestion.py,   *)
(* storage.py and the entry point src/chips/ops/harvest.py).               *)
(*                                                                         *)
(* A cycle reads the newest ingested sha (the cursor), asks git for the    *)
(* commits HEAD has beyond it, appends them to the truth table, merges     *)
(* their deltas into the derived tables, embeds and inserts their memories *)
(* and commits.  All of it is one transaction of one long-lived            *)
(* connection: `txn' is what that connection sees, `db' is what everybody  *)
(* else sees and what a restart finds.                                     *)
(***************************************************************************)
EXTENDS Naturals, FiniteSets

CONSTANTS
    Commits,        \* the commits that may ever be pushed
    NoSha,          \* Python's None: no cursor, or a repository with no HEAD
    Ancestry,       \* Ancestry[c]: what `git log c' lists, c included
    AuthorDate,     \* AuthorDate[c]: the %aI date of the log format
    Memorable,      \* commits the extractor turns into a memory record
    Malformed,      \* commits whose log line PostgreSQL rejects
    PollLimit,      \* --max-count of a poll cycle (100)
    BackfillLimit,  \* --max-count of the first cycle of a process (100000)
    MaxCount,       \* counters saturate here: 0, 1, ... , "MaxCount or more"
    FaultKinds,     \* the faults that may happen
    MaxFaults       \* bound on how many of them happen

ASSUME CommitsAssumption ==
    /\ IsFiniteSet(Commits)
    /\ NoSha \notin Commits
    /\ Memorable \subseteq Commits
    /\ Malformed \subseteq Commits
ASSUME AncestryAssumption ==
    /\ Ancestry \in [Commits -> SUBSET Commits]
    /\ \A c \in Commits : c \in Ancestry[c]
    /\ \A c \in Commits : \A d \in Ancestry[c] : Ancestry[d] \subseteq Ancestry[c]
    /\ \A c, d \in Commits : c \in Ancestry[d] /\ d \in Ancestry[c] => c = d
ASSUME DateAssumption  == AuthorDate \in [Commits -> Nat]
ASSUME LimitAssumption == PollLimit \in Nat \ {0} /\ BackfillLimit \in Nat \ {0}
ASSUME BoundAssumption ==
    /\ MaxCount \in Nat /\ MaxCount >= 2
    /\ MaxFaults \in Nat
    /\ FaultKinds \subseteq {"crash", "embed", "database", "prune"}

VARIABLES
    \* the git clone
    head,           \* what HEAD points to, NoSha in an empty repository
    objects,        \* the commits the clone has
    \* PostgreSQL
    db,             \* the committed store
    txn,            \* the store as the daemon's open transaction sees it
    broken,         \* the daemon's connection or transaction is unusable
    \* the daemon process
    pc,             \* where in run_once, or "sleep", or "down"
    backfilling,    \* in the first run_once, the one main() calls
    since,          \* run_once's since_sha
    batch,          \* run_once's commits
    \* bound and history
    faults,         \* how many faults have happened
    dropped,        \* commits some --max-count has cut off
    abandoned       \* commits of a cycle that failed while the process lived

gitVars     == <<head, objects>>
daemonVars  == <<pc, backfilling, since, batch>>
historyVars == <<faults, dropped, abandoned>>
vars == <<gitVars, db, txn, broken, daemonVars, historyVars>>

Counts == 0 .. MaxCount

(***************************************************************************)
(* What the harvester writes: the truth table cortex_git_commits, how      *)
(* often a commit's deltas were merged into the derived tables (co-change  *)
(* frequencies and churn are sums of these deltas) and how many memory     *)
(* rows name the commit as their source.                                   *)
(***************************************************************************)
Store == [truth : SUBSET Commits,
          derived : [Commits -> Counts],
          memories : [Commits -> Counts]]

EmptyStore == [truth |-> {},
               derived |-> [c \in Commits |-> 0],
               memories |-> [c \in Commits |-> 0]]

Locations == {"down", "cursor", "log", "append", "derive", "embed", "insert",
              "commit", "sleep"}

Idle == {"down", "sleep"}

\* Types, and what a cycle has at hand: no cursor and no commits before it read
\* them or after it ended, and commits, one at least, from the log to its end
\* (daemon.py:48-54); a new process finds nothing open.
TypeOK ==
    /\ head \in Commits \cup {NoSha}
    /\ objects \in SUBSET Commits
    /\ db \in Store
    /\ txn \in Store
    /\ broken \in BOOLEAN
    /\ pc \in Locations
    /\ backfilling \in BOOLEAN
    /\ since \in Commits \cup {NoSha}
    /\ batch \in SUBSET Commits
    /\ faults \in 0 .. MaxFaults
    /\ dropped \in SUBSET Commits
    /\ abandoned \in SUBSET Commits
    /\ pc \in Idle \cup {"cursor"} => since = NoSha
    /\ batch = {} <=> pc \in Idle \cup {"cursor", "log"}
    /\ pc \in Idle => ~backfilling
    /\ pc = "down" => txn = db /\ ~broken

-----------------------------------------------------------------------------
(* Operators *)

Bump(f, S) == [c \in Commits |-> IF c \in S /\ f[c] < MaxCount
                                 THEN f[c] + 1 ELSE f[c]]

\* Mutant of Newest: the order of the query is ASC.
Oldest(S) ==
    IF S = {} THEN {NoSha}
    ELSE {c \in S : \A d \in S : AuthorDate[c] <= AuthorDate[d]}

\* ORDER BY committed_at DESC LIMIT 1, with no order among equal dates.
Newest(S) ==
    IF S = {} THEN {NoSha}
    ELSE {c \in S : \A d \in S : AuthorDate[d] <= AuthorDate[c]}

\* Mutants of LogRange: `git log --since=<date>', and no cursor at all.
LogRangeByDate(s) ==
    IF s = NoSha THEN Ancestry[head]
    ELSE {c \in Ancestry[head] : AuthorDate[c] > AuthorDate[s]}
LogRangeNoCursor(s) == Ancestry[head]

\* The commits of `git log since..HEAD', or of `git log' without a cursor.
LogRange(s) ==
    IF s = NoSha THEN Ancestry[head] ELSE Ancestry[head] \ Ancestry[s]

IsParent(p, c) ==
    /\ p # c
    /\ p \in Ancestry[c]
    /\ \A d \in Ancestry[c] \ {p, c} : p \notin Ancestry[d]

\* --max-count: the walk starts at HEAD and shows a commit only after one of
\* its children, so what it keeps of the range R hangs together from HEAD.
Selections(R, limit) ==
    IF Cardinality(R) <= limit THEN {R}
    ELSE {S \in SUBSET R :
            /\ Cardinality(S) = limit
            /\ \A c \in S : c = head \/ \E d \in S : IsParent(c, d)}

\* Mutant of Limit: the backfill runs with the limit of a poll.
LimitOfPoll == PollLimit

Limit == IF backfilling THEN BackfillLimit ELSE PollLimit

MayFail(kind) == kind \in FaultKinds /\ faults < MaxFaults

-----------------------------------------------------------------------------
(* Ends of a cycle *)

\* run_once returned, or raised into run()'s handler: its locals are gone.
EndCycle ==
    /\ pc' = "sleep"
    /\ backfilling' = FALSE
    /\ since' = NoSha
    /\ batch' = {}

\* The process is gone and PostgreSQL rolls its transaction back.
Die ==
    /\ pc' = "down"
    /\ backfilling' = FALSE
    /\ since' = NoSha
    /\ batch' = {}
    /\ broken' = FALSE
    /\ txn' = db'
    /\ abandoned' = abandoned \cap db'.truth

\* An exception leaves run_once.  main() lets the one of the backfill end the
\* process; run() logs it and sleeps, without a rollback.
Raise(txnAfter, brokenAfter, abandonedAfter) ==
    IF backfilling THEN Die
    ELSE /\ EndCycle
         /\ txn' = txnAfter
         /\ broken' = brokenAfter
         /\ abandoned' = abandonedAfter

-----------------------------------------------------------------------------
(* The repository's users *)

\* HEAD moves to a new commit: a push, a merge or a rewritten history.
Push(c) ==
    /\ c \notin objects
    /\ head' = c
    /\ objects' = objects \cup Ancestry[c]
    /\ UNCHANGED <<db, txn, broken, daemonVars, historyVars>>

\* The commits a rewritten history left behind are collected, or the mirror is
\* cloned afresh.
Prune ==
    /\ MayFail("prune")
    /\ head # NoSha
    /\ objects # Ancestry[head]
    /\ objects' = Ancestry[head]
    /\ faults' = faults + 1
    /\ UNCHANGED <<head, db, txn, broken, daemonVars, dropped, abandoned>>

-----------------------------------------------------------------------------
(* The daemon *)

\* The container starts: a new connection, then run_once(limit=backfill_limit).
Start ==
    /\ pc = "down"
    /\ pc' = "cursor"
    /\ backfilling' = TRUE
    /\ UNCHANGED <<gitVars, db, txn, broken, since, batch, historyVars>>

\* since_sha = self._last_ingested_sha(), read through the open transaction.
ReadCursor ==
    /\ pc = "cursor"
    /\ ~broken
    /\ since' \in Newest(txn.truth)
    /\ pc' = "log"
    /\ UNCHANGED <<gitVars, db, txn, broken, backfilling, batch, historyVars>>

\* Nothing ever rolls a failed transaction back or reopens a lost connection.
ReadCursorFails ==
    /\ pc = "cursor"
    /\ broken
    /\ UNCHANGED <<gitVars, db, faults, dropped>>
    /\ Raise(txn, broken, abandoned)

LogWorks == head # NoSha /\ since \in objects \cup {NoSha}

\* Mutant of ReadLog: the early return is missing.
ReadLogAnyway ==
    /\ pc = "log"
    /\ LogWorks
    /\ \E S \in Selections(LogRange(since), Limit) :
          /\ batch' = S
          /\ dropped' = dropped \cup (LogRange(since) \ S)
    /\ pc' = "append"
    /\ UNCHANGED <<gitVars, db, txn, broken, backfilling, since, faults, abandoned>>

\* commits_since lists commits that are not all behind the cursor.
ReadLog ==
    /\ pc = "log"
    /\ LogWorks
    /\ LogRange(since) # {}
    /\ \E S \in Selections(LogRange(since), Limit) :
          /\ batch' = S
          /\ dropped' = dropped \cup (LogRange(since) \ S)
    /\ pc' = "append"
    /\ UNCHANGED <<gitVars, db, txn, broken, backfilling, since, faults, abandoned>>

\* `if not commits: return 0': the transaction stays open.
NothingNew ==
    /\ pc = "log"
    /\ LogWorks
    /\ LogRange(since) = {}
    /\ EndCycle
    /\ UNCHANGED <<gitVars, db, txn, broken, historyVars>>

\* git exits with an error: no HEAD, or it does not know the cursor's sha.
LogFails ==
    /\ pc = "log"
    /\ ~LogWorks
    /\ UNCHANGED <<gitVars, db, faults, dropped>>
    /\ Raise(txn, broken, abandoned)

\* Mutants of AppendCommits: the table is committed at once; the table is
\* emptied first.
AppendAndCommit ==
    /\ pc = "append"
    /\ batch \cap Malformed = {}
    /\ txn' = [txn EXCEPT !.truth = @ \cup batch]
    /\ db' = txn'
    /\ pc' = "derive"
    /\ UNCHANGED <<gitVars, broken, backfilling, since, batch, historyVars>>
AppendAfterClear ==
    /\ pc = "append"
    /\ batch \cap Malformed = {}
    /\ txn' = [txn EXCEPT !.truth = batch]
    /\ pc' = "derive"
    /\ UNCHANGED <<gitVars, db, broken, backfilling, since, batch, historyVars>>

\* append_git_commits: ON CONFLICT (sha) DO NOTHING.
AppendCommits ==
    /\ pc = "append"
    /\ batch \cap Malformed = {}
    /\ txn' = [txn EXCEPT !.truth = @ \cup batch]
    /\ pc' = "derive"
    /\ UNCHANGED <<gitVars, db, broken, backfilling, since, batch, historyVars>>

\* A row PostgreSQL rejects (a `|' in the author's name shifts the fields of
\* the header, and the date does not parse) aborts the transaction.
AppendRejected ==
    /\ pc = "append"
    /\ batch \cap Malformed # {}
    /\ UNCHANGED <<gitVars, db, faults, dropped>>
    /\ Raise(db, TRUE, abandoned \cap db.truth)

\* Mutant of MergeDerived: ingestion commits before the memories are written.
MergeAndCommit ==
    /\ pc = "derive"
    /\ txn' = [txn EXCEPT !.derived = Bump(@, batch)]
    /\ db' = txn'
    /\ pc' = "embed"
    /\ UNCHANGED <<gitVars, broken, backfilling, since, batch, historyVars>>

\* _upsert_defect_corpus, _upsert_cochange_pairs and _upsert_file_signals: the
\* last two add to what is there.
MergeDerived ==
    /\ pc = "derive"
    /\ txn' = [txn EXCEPT !.derived = Bump(@, batch)]
    /\ pc' = "embed"
    /\ UNCHANGED <<gitVars, db, broken, backfilling, since, batch, historyVars>>

\* embed_batch answered every chunk.
Embed ==
    /\ pc = "embed"
    /\ pc' = "insert"
    /\ UNCHANGED <<gitVars, db, txn, broken, backfilling, since, batch, historyVars>>

\* embed_batch raised (a timeout, an HTTP error).
EmbedFails ==
    /\ pc = "embed"
    /\ MayFail("embed")
    /\ batch \cap Memorable # {}
    /\ UNCHANGED <<gitVars, db, dropped>>
    /\ Raise(txn, broken, abandoned \cup batch)
    /\ faults' = faults + 1

\* repo.insert(record) for every record: no conflict clause.
InsertMemories ==
    /\ pc = "insert"
    /\ txn' = [txn EXCEPT !.memories = Bump(@, batch \cap Memorable)]
    /\ pc' = "commit"
    /\ UNCHANGED <<gitVars, db, broken, backfilling, since, batch, historyVars>>

\* self._conn.commit() publishes all the transaction did, earlier cycles' too.
Commit ==
    /\ pc = "commit"
    /\ db' = txn
    /\ EndCycle
    /\ UNCHANGED <<gitVars, txn, broken, historyVars>>

Wake ==
    /\ pc = "sleep"
    /\ pc' = "cursor"
    /\ UNCHANGED <<gitVars, db, txn, broken, backfilling, since, batch, historyVars>>

\* A statement fails or the connection is lost; a lost COMMIT may have worked.
DatabaseError ==
    /\ pc \in {"cursor", "append", "derive", "insert", "commit"}
    /\ ~broken
    /\ MayFail("database")
    /\ db' \in IF pc = "commit" THEN {db, txn} ELSE {db}
    /\ Raise(db', TRUE, abandoned \cap db'.truth)
    /\ faults' = faults + 1
    /\ UNCHANGED <<gitVars, dropped>>

Crash ==
    /\ pc # "down"
    /\ MayFail("crash")
    /\ db' = db
    /\ Die
    /\ faults' = faults + 1
    /\ UNCHANGED <<gitVars, dropped>>

-----------------------------------------------------------------------------
Init ==
    /\ head = NoSha
    /\ objects = {}
    /\ db = EmptyStore
    /\ txn = EmptyStore
    /\ broken = FALSE
    /\ pc = "down"
    /\ backfilling = FALSE
    /\ since = NoSha
    /\ batch = {}
    /\ faults = 0
    /\ dropped = {}
    /\ abandoned = {}

Cycle ==
    \/ ReadCursor \/ ReadCursorFails
    \/ ReadLog \/ NothingNew \/ LogFails
    \/ AppendCommits \/ AppendRejected
    \/ MergeDerived
    \/ Embed
    \/ InsertMemories
    \/ Commit
    \/ Wake

Next ==
    \/ \E c \in Commits : Push(c)
    \/ Prune
    \/ Start
    \/ Cycle
    \/ EmbedFails
    \/ DatabaseError
    \/ Crash

Spec == Init /\ [][Next]_vars

\* The loop of run() always goes on, and something starts the container again.
\* Nothing obliges a user to push or a fault to happen.
FairSpec == Spec /\ WF_vars(Cycle) /\ WF_vars(Start)

-----------------------------------------------------------------------------
(* Properties *)

\* Truth and derived tables are committed together: a reader, or a restart,
\* finds a commit's deltas exactly when it finds the commit, whatever fails
\* between append_git_commits and conn.commit() (daemon.py:56-75).
DerivedMatchesTruth ==
    \A c \in Commits : c \in db.truth <=> db.derived[c] > 0

\* The only commits whose memory is missing for good are those of a cycle that
\* failed at the embedder while the process lived on: a crash, a database error
\* or a git error never costs a memory (daemon.py:66-75, 86).
MemoryMissingOnlyIfAbandoned ==
    \A c \in db.truth \cap Memorable : db.memories[c] = 0 => c \in abandoned

\* Every commit behind a harvested one is harvested or was cut off by a
\* --max-count: the cursor steps over nothing else (git_reader.py:56,
\* storage.py:306-308).
GapsOnlyFromLimit ==
    \A c \in db.truth : Ancestry[c] \subseteq db.truth \cup dropped

\* A commit is counted or remembered twice only if some harvested commit that
\* does not descend from it has an author date as late: the cursor orders by
\* date what git orders by ancestry (storage.py:306-308, git_reader.py:58).
RecountOnlyUnderSkew ==
    \A c \in Commits :
        db.derived[c] > 1 \/ db.memories[c] > 1
            => \E s \in db.truth : /\ c \notin Ancestry[s]
                                   /\ AuthorDate[c] <= AuthorDate[s]

\* docs/known_limitations.md:227-228: with one repository per database "the
\* global cursor is correct within it", so no commit is harvested twice.
HarvestedOnce ==
    \A c \in Commits : db.derived[c] <= 1 /\ db.memories[c] <= 1

\* What was published stays: no cycle, failure or restart takes back a commit
\* or a memory (storage.py:103-119, memory/repository.py:18-43).
PublishedStays ==
    [][/\ db.truth \subseteq db'.truth
       /\ \A c \in Commits : db.memories[c] <= db'.memories[c]]_vars

InHistory(c) == head # NoSha /\ c \in Ancestry[head]
Harvested(c) == c \in db.truth /\ (c \in Memorable => db.memories[c] > 0)

\* daemon.py:87: an error is logged with "will retry next cycle", so a commit
\* HEAD keeps is harvested, memory included, in the end.
EventuallyHarvested ==
    \A c \in Commits :
        InHistory(c) ~> Harvested(c) \/ ~InHistory(c)

-----------------------------------------------------------------------------
(* The inductive invariant of Harvester_proofs: what the properties above   *)
(* need to be true of the open transaction while a cycle is under way.      *)

\* The transaction holds what was committed and more.
TxnExtendsDb ==
    /\ db.truth \subseteq txn.truth
    /\ \A c \in Commits : db.memories[c] <= txn.memories[c]

\* since_sha is the cursor of the transaction that is still open.
CursorIsNewest == pc = "log" => since \in Newest(txn.truth)

Closed(S) == \A c \in S : Ancestry[c] \subseteq S \cup dropped

AncestryInv ==
    /\ Closed(db.truth)
    /\ Closed(txn.truth)
    /\ pc = "append" => Closed(txn.truth \cup batch)

Skewed(c, S) == \E s \in S : c \notin Ancestry[s] /\ AuthorDate[c] <= AuthorDate[s]

\* derive is the one step that leaves truth and derived data out of step.
DerivedInv ==
    /\ DerivedMatchesTruth
    /\ pc = "derive" => batch \subseteq txn.truth
    /\ \A c \in Commits : txn.derived[c] > 0 => c \in txn.truth
    /\ \A c \in txn.truth :
          txn.derived[c] = 0 => pc = "derive" /\ c \in batch

RecountInv ==
    /\ \A c \in Commits : db.derived[c] > 1 => Skewed(c, db.truth)
    /\ \A c \in Commits : txn.derived[c] > 1 => Skewed(c, txn.truth)
    /\ pc = "append" => \A c \in batch \cap txn.truth : Skewed(c, txn.truth)
    /\ pc = "derive" =>
          \A c \in batch : txn.derived[c] > 0 => Skewed(c, txn.truth)

MemoryInv ==
    /\ MemoryMissingOnlyIfAbandoned
    /\ pc \in {"embed", "insert"} => batch \subseteq txn.truth
    /\ \A c \in txn.truth \cap Memorable :
          txn.memories[c] = 0
              => \/ c \in abandoned
                 \/ pc \in {"derive", "embed", "insert"} /\ c \in batch
    /\ \A c \in Commits : db.memories[c] <= db.derived[c]
    /\ \A c \in Commits : txn.memories[c] <= txn.derived[c]
    /\ pc \in {"embed", "insert"} =>
          \A c \in batch : \/ txn.memories[c] < txn.derived[c]
                           \/ txn.derived[c] = MaxCount

IInv ==
    /\ TypeOK
    /\ TxnExtendsDb
    /\ CursorIsNewest
    /\ AncestryInv
    /\ DerivedInv
    /\ RecountInv
    /\ MemoryInv
=============================================================================
