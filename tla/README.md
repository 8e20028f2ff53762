# Formal models of chips

chips harvests the history of a git repository into PostgreSQL, keeps memories,
constraints and feedback there, and compiles a context brief for a coding agent
from them. This directory holds TLA+ models of the parts of it whose behaviour
depends on the order in which things happen, TLC configurations that check them
on small instances, and theorems about them that TLAPS checks for every
instance. Paths in this text are relative to the repository.

    tlc -config Harvester_safety.cfg MCHarvester     # one run
    tlapm Harvester_proofs.tla                       # the proofs of one module

`PROJECT.json` lists, for machines, what this text tells people: the components,
the runs, for every definition the lines it models, the hazards with the
properties that watch them, the theorems, the places where the code and its
documentation disagree, and for every property a mutant of the code that breaks
it. (Definitions whose comment starts with "Mutant" are those mutants; nothing
refers to them.)

## 1. Inventory

| component | state it keeps | operations | hard because | correct when |
|---|---|---|---|---|
| Harvester daemon (`harvester/daemon.py`, `ops/harvest.py`) | one open transaction; nothing else survives a cycle | `run_once`, `run`, the backfill of `main` | one transaction spans cycles; errors are swallowed without a rollback; crashes | truth, derived tables and memories agree; every commit is harvested once |
| Git reader (`git_reader.py`) | none (a clone on disk) | `commits_since` | cut-offs, rewritten history, separators inside the data | no commit is skipped or seen twice |
| Ingestion, derived tables (`ingestion.py`, `storage.py`) | `cortex_git_commits`, `cortex_cochange_pairs`, `cortex_file_signals`, snapshots, defect corpus | `ingest_commits`, `rebuild_derived_from_truth` | additive upserts; a rebuild in two transactions beside a live daemon | derived = function of truth |
| Memory store (`memory/repository.py`) | `cortex_memories` | `insert`, reads | no conflict clause | one memory per memorable commit |
| Constraint store (`compiler/constraint_repository.py`, `constraints.py`, migration 007) | `cortex_constraints` | `add`, `retire`, `for_scope` | look-then-insert from many processes, lock waits, crashes | one active constraint per identity; add is idempotent |
| Candidate queue (`constraint_candidate_repository.py`, `mcp/tools/hypotheses.py`) | `cortex_constraint_candidates` | `enqueue`, `list`, `review` | look-then-insert; a submission is many transactions; review has no guard | a rejected hypothesis is queued once; the last review stands |
| Brief outcomes (`memory/outcome_repository.py`, `mcp/tools/briefs.py`) | `cortex_brief_outcomes`, the notes in `cortex_briefs` | `record`, `record_with_ack`, `record_outcome` | retries with one idempotency key; NULL in SQL | one row per key, every answered retry gets it |
| Brief learning (`compiler/learning.py`) | `cortex_memory_feedback_scores`, a throttle per process | `maybe_recompute`, `recompute` | concurrent delete-and-insert, stale throttle | scores = function of the outcomes |
| Brief builder, decision log (`builder.py`, `decision_log_*.py`) | `cortex_briefs`, `cortex_decision_log`, probe cache | `build`, `build_and_log` | reads at different moments, two transactions, partial failure of sources | one decision per brief; the brief shows what was in force |
| Retrieval, governor, ranker, reranker (`retrieval.py`, `governor.py`, `ranker.py`, `reranker.py`) | none | pure | limits, ties, items without a score | nothing is lost or shown twice; tenants are kept apart |
| Structural walk (`structural.py`) | none | pure | cycles, several paths to one definition, a budget | all that is near is found, once |
| Findings, hard constraints, compressor, bundle (`findings.py`, `constraints.py`, `compressor.py`, `evidence_bundle.py`) | none | pure | caps, precedence, three budgets at once | the severe is shown; the prompt is as full as it may be |
| Hypothesis ranking (`hypothesis.py`) | none | pure | repeated and unknown citations, ties | score = function of sets |
| Issue references, defect corpus, predictor (`issue_refs.py`, `defect_corpus.py`, `enrichment/defect.py`) | `cortex_issue_refs`, `cortex_defect_corpus` | `harvest_issue_refs`, `label_tier_sql`, `predict` | a prediction is three reads of a corpus that a rebuild clears; queries that no test runs | what a prediction counts and names fits together; a batch never raises |
| The other analysers of the enrichment pipeline, observability, analytics | none of their own | wrappers and I/O | - | out of scope (see 7) |

The components meet in the database only. The daemon writes truth, derived
tables and memories; the MCP server opens a connection per request, runs one
tool and closes it (`mcp/modules/*.py`), so every call of the constraint store,
the outcomes or the builder is a process of its own as far as the database can
tell. The builder reads memories, signals and active constraints; learning reads
briefs and outcomes and writes the adjustments the builder reads.

## 2. Modules

| module | what it is |
|---|---|
| `Harvester` | the daemon, the clone and the database: one action per statement of `run_once` that can fail or be interrupted |
| `MCHarvester` | the commit graphs and author dates its runs use |
| `Harvester_proofs` | its theorems |
| `ConstraintRegister` | what the constraint store promises: an atomic register per identity |
| `ConstraintStore` | `add` and `retire` statement by statement for several processes, and the refinement mapping to `ConstraintRegister` |
| `ConstraintStore_proofs` | its theorems, the refinement among them |
| `DerivedReplay` | the derived tables file by file, filled by the daemon and by `rebuild_derived_from_truth` |
| `MCDerivedReplay` | the commits its runs use |
| `DerivedReplay_proofs` | its theorems |
| `BriefRetrieval` | the queries of a brief, governor, ranker, reranker, structural walk: operators over one state |
| `BriefAssembly` | findings, hard constraints, soft items, compressor, evidence bundle: operators |
| `BriefBuilder` | `build_and_log` phase by phase, beside a `ConstraintRegister` that others change |
| `MCBriefBuilder` | the worlds its run starts from |
| `BriefBuilder_proofs` | theorems about a brief, and lemmas about the operators of the three modules |
| `Sessions` | server processes that handle one call at a time, and die |
| `Hypotheses` | scoring and order of hypotheses: operators |
| `Sorting` | Python's stable `list.sort`, with which signals, items and hypotheses are ordered |
| `OutcomeLog` | what the outcome repository promises: a log with one entry per key |
| `Outcomes` | `submit_brief_feedback` with its recompute, and `record_outcome`, over `Sessions` |
| `Candidates` | `submit_hypotheses` and `review_constraint_candidate`, over `Sessions` |
| `McpWrites` | the two together, and their properties |
| `MCMcpWrites` | the calls its runs make |
| `Feedback_proofs` | theorems about the feedback half of `McpWrites`, the refinement among them |
| `Queue_proofs` | theorems about the queue half |
| `DefectCorpus` | the defect corpus with its writers, the predictor, the start of a batch of issue references |
| `MCDefectCorpus` | the commits its runs use |
| `DefectCorpus_proofs` | its theorems |
| `SetInduction` | induction over the numbers as a fact about sets; what folds, stable sorts and sums over sets compute |

### 2.1 Harvester

State. `head` and `objects` are the clone; `db` is the committed database, `txn`
the database as the daemon's open transaction sees it; `broken` says that the
transaction is aborted or the connection lost; `pc`, `backfilling`, `since`,
`batch` are the locals of `run_once` and the loop it is called from. `faults`
bounds the faults; `dropped` and `abandoned` are history variables: the commits
some `--max-count` cut off, and the commits of a cycle that failed at the
embedder while the process lived.

A store is three things: the set of commits in `cortex_git_commits`; for each
commit how often its deltas were added to the derived tables (co-change
frequencies and churn are sums of such deltas: `storage.py:216,252`); and for
each commit how many rows of `cortex_memories` have it as their source.

| action | code |
|---|---|
| `Start` | `build_daemon`, then `run_once(limit=backfill_limit)` (`ops/harvest.py:36-44`) |
| `ReadCursor`, `ReadCursorFails` | `_last_ingested_sha()` through the open transaction (`daemon.py:48`), on a usable and on an unusable one |
| `ReadLog`, `NothingNew`, `LogFails` | `commits_since` (`daemon.py:50-54`, `git_reader.py:55-60`) |
| `AppendCommits`, `AppendRejected` | `append_git_commits` (`storage.py:103-119`) |
| `MergeDerived` | the three other writes of `ingest_commits` |
| `Embed`, `EmbedFails` | `embed_batch` over the chunks (`daemon.py:66-70`) |
| `InsertMemories` | the `repo.insert` loop (`daemon.py:72-73`) |
| `Commit` | `self._conn.commit()` (`daemon.py:75`) |
| `Wake` | the end of `time.sleep` |
| `DatabaseError` | any statement fails; a lost COMMIT may have worked |
| `Crash` | the process is killed; PostgreSQL rolls back |
| `Push`, `Prune` | the environment: HEAD moves, unreachable commits are collected |

`Raise` is the one place where the two loops differ: an exception in the
backfill leaves `main` and ends the process, one in the poll loop is logged and
the loop sleeps, with the transaction as it is (`daemon.py:86-88`).

Statements of the same kind inside one transaction are one action
(`append_git_commits` is a loop of INSERTs): nobody else sees them, and an error
in the middle has the same effect as one at the start, since the transaction
only survives errors of the embedder and of git.

Assumptions about the environment, all visible in the module: something starts a
container that ended (`WF_vars(Start)`); `Push` only moves HEAD to commits the
clone does not have yet, so going back to an old commit is not modelled; the parent
edges of the graph are the transitive reduction of the ancestry.

### 2.2 ConstraintStore

State. `rows` is the table; an `inserting` row is one whose transaction is open.
`hold[c]` is the row client `c`'s transaction has written (and so locks), `pc`
and `call` are where it is and with what arguments, `result` what its last `add`
came to. `rival` is a history variable, the row an INSERT collided with.

`Insert` and `InsertCollides` are what PostgreSQL does at READ COMMITTED with
the partial unique index of migration 007: an INSERT raises if a committed
active row has its `dedup_hash`, and it waits (neither action is enabled) while
another transaction has inserted such a row or is retiring it. `Update` waits
for the row's lock and then goes by the row's `id` and tenant alone. A read
(`_find_active`) sees committed rows only. `Crash` stands for a killed process
and for a failed statement: in both the connection is closed and the
transaction rolled back (`mcp/modules/constraints.py:60-62`).

The identity of a row is `<<tenant, body>>`, where a body stands for one value
of (scope, kind, normalised text, canonical target); None and "" are one tenant
there (`constraints.py:46`), and two in the filter of `for_scope` and `retire`
(`tenant.py:32`).

`ConstraintRegister` has one register per identity: Add fills an empty one with
a fresh id, Retire empties a full one. The refinement mapping reads it off the
committed rows, so an add takes effect at its commit, and so does a retire.

### 2.3 DerivedReplay

Where `Harvester` counts deltas, this module says what they add: the shas of the
defect corpus, the frequency of each pair of files, the churn and entropy of each
file, and the snapshots. The daemon hands over commits that are not in the table
yet; section 3, `harvest_skew`, says when that is not so.

Two writers fill the tables, the daemon and the rebuild, each in a transaction of
its own at READ COMMITTED. An upsert adds to the row that is there when it gets
it, so an open transaction is represented by what it adds (`txn[w]`): the
commits it has upserted, the files whose signals are yet to be written (`due`),
the entropy it has read for the next of them (`read`), the entropies and snapshots
it has written. It reads the committed tables with its own additions
(`PairsSeen`), and its commit adds the additions to what is committed then
(`Committed`). An upsert waits while the other writer has written or deleted its
row (`PairHeld`, `SignalHeld`).

State. `truth` and `db` are committed; `pc` is the statement the rebuild is at,
`todo` the commits it has yet to replay, `gone` the rows its DELETEs have found.
History: `late` (the daemon committed between this rebuild's read of the truth
table and the commit of its deletes), `beside` (the files of the daemon's batches
that ran while this rebuild replayed), `sound` and `stale` (what is left of the two
after the last rebuild), `live` (the snapshots the daemon wrote).

| action | code |
|---|---|
| `Ingest` | the corpus and all pairs of a batch, in a new transaction or in the one a failed cycle left (`ingestion.py:17-22,36-42`) |
| `ReadEntropy` | the read of a file's partners, once per batch (`ingestion.py:61-64`, `storage.py:222`) |
| `WriteSignal` | the upsert of that file, which may wait, and its snapshots (`ingestion.py:65-77`, `storage.py:245`) |
| `DaemonCommits`, `DaemonRollsBack` | the commit of the cycle (`daemon.py:75`); its transaction is lost |
| `ReadTruth` | `truth_commits()` (`ingestion.py:26`) |
| `DeleteCorpus` ... `DeleteSnapshots` | the four DELETEs (`storage.py:141-144`); those of rows the daemon may hold are two steps, what they find and when they get it |
| `ClearCommits` | the commit of the deletes (`storage.py:145`) |
| `ReplayCommit`, `ReplayEnds` | the loop (`ingestion.py:28-31`), with `ReadEntropy` and `WriteSignal` of the rebuild |
| `CallerCommits` | nobody commits in the rebuild; its caller has to |
| `Crash` | the replay is rolled back, the deletes are not |

An entropy is represented by the partner frequencies it is computed from, after
the filters (a real file, real partners, support, more than one of them); equal
entropies of different frequencies are kept apart, which the counterexample of
`replay_snapshots` does not depend on (there one of the entropies is 0).
The pairs of a batch are one step: their upserts read nothing, and a deadlock
among them ends one of the two transactions (`DaemonRollsBack`, `Crash`).

### 2.4 BriefBuilder, BriefAssembly, BriefRetrieval

State. `world` is what a behaviour finds: memories, file signals, commits, the
definitions in the working tree, policies; it does not change. `active` and
`retired` are a `ConstraintRegister` (INSTANCE, with the rules as identities):
`ConstraintStore_proofs` proves that the real store implements it, so the builder
is checked against the register alone. `job` holds the locals of the call, one
field per assignment of `build`; `pc` its phase; `cache` the builder's probe
results; `briefs`, `decisions` the two tables. `window` is a history variable:
the constraints that were in force throughout, or at some moment of, the call.

| action | code |
|---|---|
| `Call` | `get_context_brief`: a connection and a builder, with an empty probe cache, per request (`server.py:46-51`, `modules/brief.py:68-75`) |
| `Embed`, `MemoriesStep`, `FilesStep`, `DiffsStep`, `StructuralStep` | `_embed` and the phases of `_retrieve` (`builder.py:389-468`); the governor decides after the memories |
| `Probe` | `_probe_cached` for each source (`builder.py:470-484`) |
| `Assemble` | the rest of `_rank_and_assemble`: one read of the constraints, pure otherwise |
| `RerankStep`, `CompressStep` | `_rerank`, `_compress`, with whatever the two models answer, or do not |
| `Persist`, `Decide` | the INSERT and commit of the brief; those of its decision row (`builder.py:383-384`) |
| `Return`, `Abort` | the answer; an exception or the death of the process at any phase |
| `ChangeConstraint`, `ChangeSource` | other sessions, and the outside sources |

The pure parts are operators of the same name as their function. Scores are
thousandths, divided rounding down where the code multiplies floats, which may
order two nearly equal scores differently but never changes what is kept of an
item; a text is its id and its size in characters and tokens.

### 2.5 McpWrites: Sessions, Outcomes, Candidates, Hypotheses

State. `Sessions` has `pc`, `call` (arguments and locals) and `answer` (what the
client's last call came to). `outcomes`, `candidates` are the committed rows;
`inserting`, `queuing`, `reviewing` what each open transaction has written, which
is what others wait for. `notes` is `soft_context`, `scores` the feedback scores,
`recent` the throttle of each process. History: `acked` (what callers were told),
`rival` (whether somebody else used our key during our call), `learned` (the rows
a recompute read), `verdicts` (the last committed review of each candidate).

| action | code |
|---|---|
| `Feedback`, `CheckBrief`, `FindOutcome`, `InsertOutcome`, `CommitOutcome` | `record_with_ack` (`outcome_repository.py:89-130`) |
| `Learn`, `Rescore` | `maybe_recompute`: the throttle, the fetch and the loop; DELETE, INSERTs and commit (`learning.py:22-101`) |
| `Acknowledge` | the answer of the tool |
| `RecordOutcome` | the one UPDATE of `mcp/tools/briefs.py:44-56` |
| `Submit` | `submit_hypotheses` up to its loop: it reads only its arguments, so `Ranking` is a function of them |
| `FindCandidate`, `InsertCandidate`, `CommitCandidate`, `Submitted` | the loop of `enqueue`s (`hypotheses.py:151-157`) |
| `Review`, `UpdateCandidate`, `CommitReview` | `review` (`constraint_candidate_repository.py:88-100`) |
| `Crash` | process, connection or caller dies; the open transaction is rolled back |

`recent` does not say how long ago: a recompute the throttle allows after 300
seconds and one it forbids before are both possible in the model. The columns
`learning.py:47-55` decodes are as psycopg delivers them: JSONB columns are decoded, so
`Loads` sees a list (`Fetched`), not a text.

### 2.6 DefectCorpus

State. `ingested`, `corpus` are the tables; `rebuild` is where
`rebuild_derived_from_truth` is, with the commits it read and the rows its DELETE
found; `prediction` is `DefectPredictor.predict` between its statements, with the
history variable `disturbed` (a clear was committed during it); `harvest` says how
the last batch of issue references ended.

| action | code |
|---|---|
| `Ingest` | a commit and its evidence, committed by the daemon (`storage.py:147-206`) |
| `ReadTruth`, `DeleteCorpus`, `ClearCommits`, `CallerCommits`, `RebuildDies` | the rebuild, as the corpus sees it: what it read before the clear is what it restores, what came in between is lost, and it may die with the corpus empty |
| `HarvestIssueRefs` | a batch: its first statement is rejected (`issue_refs.py:121-134,175`) |
| `PredictCount`, `PredictReverts`, `PredictMatch` | the three queries of `predict` |

`IssueColumns` are the columns of migration 013, `RefsColumns` that of the
sub-query it is joined to, and `Ambiguous` is PostgreSQL's rule for a name that
is in both.

## 3. Properties and runs

### harvest_safety (pass; 27 001 states)

Graph `Merged`: `m` merges the feature commit `f` (authored before `c2`) into
`c2`; `r` is a rewritten history with the same date as `c2`, and PostgreSQL
rejects it. Limits: 2 per poll, 3 in a backfill of at most 4 commits. Three
faults of any kind: one to leave a failed cycle behind, one to hit the cycle
that meets it, one to restart.

- `DerivedMatchesTruth`: a commit is in the truth table exactly if its deltas
  are in the derived tables, in every committed state.
- `MemoryMissingOnlyIfAbandoned`: a published memorable commit lacks its memory
  only if a cycle that had it failed at the embedder while the process lived.
- `GapsOnlyFromLimit`: the cursor steps over a commit only if a `--max-count`
  cut it off.
- `RecountOnlyUnderSkew`: counted or remembered twice only if a harvested
  commit that does not descend from it has an author date as late.
- `PublishedStays`: no step takes a published commit or memory back.

### harvest_ordered (pass; 820 states)

A linear history, dates that follow it, a poll limit of 3 below the history's 4
commits (the backfill reads at least one, so 3 is the largest backlog of a
poll), crashes but no other fault.

- `HarvestedOnce`: nothing is counted or remembered twice.
- `EventuallyHarvested`: a commit HEAD keeps is harvested, memory included.

### harvest_retry (violation: a finding)

The same with one embedder failure: `EventuallyHarvested` fails. After the
failure in a poll cycle the rows of the ingest are still in the transaction, the
next cycle reads its cursor through it, finds nothing new, and the commit's memory is
never written although the log says "will retry next cycle" (`daemon.py:87`).

### harvest_skew (violation: a finding)

No fault at all, one rebased commit: `HarvestedOnce` fails, against
`docs/known_limitations.md:227-228` ("the global cursor is correct within it").
`storage.py:307` orders by the author date, and a rebase keeps author dates. The
commit with the latest date may be an ancestor of harvested ones; those are in
`since..HEAD` at every poll.

### constraint_store (pass; 340 274 states)

Two clients, three rows, one body, callers that say a tenant, "" or nothing, one
crash. Two clients are what a race of two adds takes, the winner of which may
retire its row before the loser looks again, and what it takes to wait for each
other; three rows let an identity be filled, emptied and filled again while
another is in use; all identities with the same tenant behave alike, so one body
is enough. For more clients there are the theorems.

- `OneActivePerIdentity`: what the unique index is for.
- `RaisesOnlyIfRivalRetired`: `add` raises only if the row it lost to has been
  retired since; in particular the fallback never misses a row that is there.
- `AddedIsInForce`: the id an `add` returns is active at that moment and visible
  to the caller's own `for_scope`, except for a caller who says "" and may get
  the row of a caller who named no tenant.
- `ImplementsRegister`: the refinement.
- `CallsReturn`: every call returns. (A wait for an index entry or a row never
  starts while holding another, so a longer cycle would need the same step.)

### replay_rebuild (pass; 876 069 states)

Three commits, four files (one generated), one commit above the limit of 3 files.
`a` and `b` share the pair x-y, and `b` adds x-z and y-z: with the support set
to 1, the entropies of x, y and z change when the second is merged, so a stale
one would show. Any number of rebuilds, each of which may crash, be late or have
the daemon beside it: the model has no bound on them, since a behaviour leaves
nothing behind but the tables.

- `AggregatesExact`: corpus, frequencies and churn are the function of the truth
  table, however the history was cut into batches and transactions, and again
  after every rebuild up to whose clear the daemon committed nothing; and so are
  the entropies of the files that no batch of the daemon touched beside the
  replay.
- `NeverOvercounted`: not even a race or a crash counts a commit twice.

After a crash, or when the daemon commits between `truth_commits()` and the commit
of the deletes, deltas are missing until the next rebuild. A batch of the daemon
beside the *replay* loses no delta, but may leave stale entropies, which is why
`AggregatesExact` leaves out those files: both writers read a file's entropy before
the upsert that stores it (`ingestion.py:63`, `storage.py:245`), without the pairs
the other has not yet committed, and the last to commit stores it. It stays so
until a later batch or rebuild touches the file. Without the exception TLC refutes
the property in a few seconds.

### replay_snapshots (violation: a finding)

`SnapshotsExact` fails without race or crash, against `ingestion.py:46-47`
("reconstructs the exact same aggregates and snapshots"): the daemon takes
every entropy of a batch after the pairs of the whole batch, the replay after
the pairs of one commit.

### brief_build (pass; 67 625 states)

Six families of worlds, each varying one thing of a plain one: how confident two
or three memories are (both sides of the governor's threshold and of its minimum
count); what was found in a memory's commit (four security findings of three
ranks in every order, with a cap of 2); who owns the rows; how large the texts
are; how five definitions call each other; and two calls amid two outside events
(a constraint added or retired, a source that fails, a call that dies).

- `ShowsConstraintsInForce`: what was in force for the task throughout the call is
  a hard constraint, is in the bundle and blocks the edit it is about; what is
  shown was in force at some moment of the call.
- `OneDecisionPerBrief`: a returned brief has one decision row, no brief has two,
  only a call that died leaves one without, and the row agrees with the brief.
  (`builder.py:381` says log-count = brief-count: a crash between the two commits
  leaves a brief that no caller was given.)
- `NothingGetsLost`: each retrieved item is ranked once and ends in exactly one of
  hard constraints, prompt, and trace of the dropped.
- `PromptIsFull`: the kept items respect all three limits and no dropped one would
  have fitted; one that is too large is sent only if none fits.
- `SevereFindingsShown`: a severe finding is missing from the hard constraints only
  if the cap went to findings at least as severe.
- `WalkFindsWhatIsNear`: the walk finds exactly the definitions within the hop
  depth, by any path and through cycles, once, unless the budget ends it.
- `NoForeignRows`: a tenant's brief holds no row of another tenant.

Each of these is stated in sets, apart from the sequences and folds it is about.

What a brief does not do is reuse probe results. Limitation L6 is marked resolved by
a cache that lives 30 s (`docs/known_limitations.md:76-79`), and the comment of the
cache says that "repeated build() calls within the window reuse the last probe
result instead of re-probing" (`builder.py:65-67`). The cache is a builder's, and
both entry points of the tool make a builder for every call (`modules/brief.py:70`,
`server.py:49`): `Call` starts with an empty one, every brief is built with fresh
probes, and pays their timeouts. A test that calls `build` twice on one builder
does not see it. No property is stated about the cache.

### mcp_writes (pass; 249 953 states)

Two processes, three calls of any kind, one of which may die. The calls: feedback
with the same key from two callers, with the key on another brief, without a key,
by a tenant that may not; notes; three submissions that share hypotheses and
differ in what they reject, one of which gives two hypotheses one id; reviews that
promote, dismiss, or use a status the table refuses. The bundle holds one finding
twice, as two memories that report it make the builder do.

- `OneOutcomePerKey`: however calls with one key race, die or are repeated, all
  that return name the one stored outcome.
- `RaisesOnlyAgainstRival`: a feedback call fails for its key only if another one
  with that key ran at the same time; a retry afterwards is answered, as the
  docstring promises.
- `ImplementsLog`: the statements of all calls together implement `OutcomeLog`: an
  outcome appears at its commit, at most one per key, and none is lost or changed.
- `RejectedAreQueued`: a submission that returns has queued exactly the hypotheses
  it rejected, in their order, also when an earlier one died in its loop, and
  none is queued twice.
- `LastReviewStands`: a candidate's status is that of the last review that
  committed, and a review says it updated exactly if it could see the row.
- `ScoredBySets`: a score is that of the *set* of items cited and of constraints
  contradicted, whatever is cited twice or unknown; the ranking lists each hypothesis
  once (a bijection of places, for ids may repeat), in order of score.
- `CallsEnd`: every call returns, raises or dies.

### learning (violation: a finding)

One process, feedback and recompute, no fault: `LearnsFromFeedback` fails after
the first recompute. `learning.py:49` calls `json.loads` on lists, the TypeError
is caught, and the scores of the tenant are replaced by none, against
`docs/28_05_v1_foundation_milestone.md:91`. While that is so, the races of two
recomputations have no effect, and no property watches them.

### defect_predictions (pass; 68 702 states)

Four commits, three of them defective for the watched file: a bug fix with an
issue, a hotfix that reverts it, and a commit that reverts one from before the
history there is; the fourth has an issue but no keyword. Two commits are named
of up to three, so that the limit is met and missed. Ingestion and the rebuild,
which may lose evidence, restore it or die, go on between the three queries.

- `PredictionNamesItsCommits`: a prediction that reports a history names defective
  commits, as many as it counted or as its limit allows, unless the corpus was
  cleared under it.

### issue_batch (violation: a finding)

`NeverRaises` is what `issue_refs.py:172` says of a batch. The query of
`pending_refs` selects and orders by `ref`, which both the sub-query `refs` and
`cortex_issue_refs i` have (migration 013, line 23); PostgreSQL rejects it, and
`harvest_issue_refs` raises before it has fetched anything. The tests mock the
connection. What a batch would do next (rate limits, unreadable answers, the
counts) is not modelled, since no batch gets there.

The inductive invariants of section 5 (`IInv`, in `McpWrites` `FeedbackIInv` and
`QueueIInv`) were also checked by TLC, on the same instances, before they were
proved.

### Bounds

`MaxFaults`, `MaxCrashes` and the sizes of the sets are the only bounds on
behaviours; `MaxCount = 2` makes counters say 0, 1 or "twice or more", which is
all a property asks. `IdsLeft` keeps a row id for each insert under way: it bounds
how many adds a behaviour can have, not what an add does. `CallRetire` takes ids
that exist: with another id the UPDATE matches nothing. `DerivedReplay`
and `DefectCorpus` have no bound but the commits.

`BriefBuilder`: `world.calls` and `world.events` bound the calls and what happens
around them, `MaxConstraints` the constraint ids that are ever given out (the rules
in force at the start and one for each event); its run stops when the calls are used up. `MemoryLimit`,
`DiffLimit`, `MinItems`, `WalkBudget`, `HopDepth`, `MaxAnchors`, `FindingCap`,
`MaxItems`, `CharBudget` and `TokenBudget` are limits of the code (among them
20 items, 4000 characters, three memories for the governor), scaled down so that
each of them is met by some world and missed by another: three memories against
a limit of 3 and a minimum of 3, three commits against 2, texts of 2 to 40
characters against 50, five definitions against two anchors and two hops.

`McpWrites`: `MaxCalls` and `MaxCrashes`; its run stops when they are used up. A
race takes two calls and its observer, or the retry of a call that died, a third.
`DefectCorpus`: `PredictLimit` is a limit of the code (5), below what the four
commits offer. `MaxFiles` and `MinSupport` of `DerivedReplay` are limits of the
code too (100 and 2): the passing run has a support of 1, which makes fewer commits
enough for an entropy, the violations have the code's.

## 4. Fairness

- Harvester: `WF_vars(Cycle)`, because the loop of `run()` has no exit and every
  statement ends or fails; `WF_vars(Start)`, because the service is restarted. No
  fairness on pushes or faults. With weak fairness on the disjunction a cycle
  always goes on, since exactly one of its steps is enabled at a time.
- Constraint store: `WF_vars(Step(c))` per client: a call in progress goes on
  unless it waits. `SF_vars(Update(c))`: PostgreSQL queues the waiters of a row,
  so a retire that finds the row free again and again gets it; without that
  another client that keeps retiring the same row could starve it. No client is
  obliged to call.
- McpWrites: `WF_vars(Step(c))` per process: the operating system runs a process
  that can go on, and PostgreSQL wakes a waiter when what it waits for is gone.
  Weak fairness is enough, since a row lock or an index entry is not taken again
  infinitely often: the calls are bounded. Nobody is obliged to call.
- DerivedReplay, DefectCorpus, BriefBuilder: none; a rebuild, a prediction or a
  call may stop anywhere, and no liveness is claimed.

## 5. Theorems

All for every value of the constants that meets the ASSUMEs of the module: any
finite set of commits with a reflexive, transitive, antisymmetric ancestry, any
dates, any limits, any set of fault kinds and any number of faults; any sets of
clients, rows, bodies and tenants; any number of calls and deaths; any world of
rows, files and policies. Each is proved from an inductive invariant whose parts
are defined at the end of the component's module, with a lemma for each part.

**Harvester_proofs.** `Invariant` proves `Spec => []IInv`. The properties speak
of `db`, which only `Commit`, `DatabaseError` and nothing else change, and then
to `txn`; so `IInv` says of `txn` what the properties say of `db`, corrected for
the place of the cycle:

- `TxnExtendsDb`: the transaction holds what was committed and more.
- `DerivedInv`: truth and derived data agree in `txn` except at `derive`, for
  the commits of the batch.
- `MemoryInv`: a memory is missing in `txn` only for an abandoned commit or one
  of the batch before `insert`; and a commit's memories never outnumber its
  deltas.
- `CursorIsNewest`, `AncestryInv`: at `log` the cursor is a commit of `txn`
  and no commit of `txn` has a later date; `txn.truth` is closed under ancestry
  up to `dropped`, and so is its union with the batch at `append`. This is
  where `LogRange` and the transitivity of ancestry are used.
- `RecountInv`: a commit that is about to be counted again is skewed already:
  it is in `since..HEAD`, so not behind the cursor, and the cursor has the latest
  date.

From it follow `TypeCorrect`, `DerivedFollowsTruth`, `MemoriesComplete`,
`NoOtherGaps`, `RecountsNeedSkew` and, as an action property, `NothingTakenBack`.
`OrderedIsHarvestedOnce` turns `RecountsNeedSkew` into what the documentation
promises, under the condition on dates that it leaves out: if of any two commits the
one with the earlier (or same) author date is an ancestor of the other, nothing is
harvested twice. `harvest_ordered` is an instance, `harvest_skew` shows that the
condition is needed.

**ConstraintStore_proofs.** `Invariant` proves `Spec => []IInv` with

- `HoldInv`: a row is held by at most one transaction, which is about to
  commit, and has the status that transaction left it in;
- `UniqueIndex`: among the active rows *and the rows being inserted* no two
  have one identity. `OneActivePerIdentity` is not inductive without the second
  half: two inserting rows would both become active;
- `RivalInv`: a collided-with row keeps its identity and is active or superseded;
- `WrittenInv`: the row an open INSERT holds has its caller's tenant.

`TypeCorrect`, `OneActive` and `RaiseExplained` follow. `AddedStands` proves the
action property `AddedIsInForce`: only three statements answer with an id, two of
them after a look-up that compares identities, the third after writing the
caller's own row. `StoreImplementsRegister` proves `Spec => ImplementsRegister`:
with `UniqueIndex` the CHOOSE of the mapping is determined (`ActiveOfRows`), the
commit of an add is `Add` (`CommitAddAdds`), that of a retire is `Retire` or a
stutter (`CommitRetireRetires`), and every other step leaves the committed rows
alone (`Invisible`).

**DerivedReplay_proofs.** `ReplayInvariant` proves `Spec => []IInv`:

- `TxnInv`: whose commits are whose, and what is left of a batch;
- `CountsInv`: no row says more than the truth table, and a row the deletes have
  not found holds no commit the rebuild will replay (a rebuild whose DELETE
  missed a row of the daemon would else add to it);
- `ExactInv`: after an undisturbed read and clear, what is committed is exact for
  the commits the rebuild does not have; so what it adds makes it exact again;
- `EntropyInv`: for the files no batch of the daemon touched beside the replay, the
  entropy a transaction has read or written is that of the pairs it sees
  (`Right`). `AggregatesExact` is not inductive without it: an entropy is read one
  statement before it is stored, and stored one transaction before it shows.

The lemmas are about sums of deltas (`CountsAdd`, `CountsGrow`), about what the
commit of either writer makes of the tables (`CommitMakes`, `CommitEntropies`), and
that an entropy comes from its own file's pairs alone (`SpreadIsLocal`). Hence
`TypeCorrect`, `AggregatesAreExact` and `NothingCountedTwice`, for every history,
every way to cut it and any number of rebuilds.

**Feedback_proofs.** `FeedbackInvariant` proves `Spec => []FeedbackIInv`:

- `CallsInv`, `RowsInv`: what a call and its open transaction look like at each
  stage, and that a row which a call or an answer names is stored;
- `NoClash`: no two rows, stored *or being inserted*, have one id or one key;
- `RivalInv`: two calls of a key that are under way at the same time both know
  it, and if the look-up of a call that is about to insert would now find a
  row, a rival put it there.

`OneOutcome` and `RaiseNeedsRival` follow, and `FeedbackImplementsLog`: `CommitOutcome` is the log's record, `Acknowledge` its
answer, everything else a stutter.

**Queue_proofs.** `QueueInvariant` proves `Spec => []QueueIInv`: `NoTwins` is the
unique index, again with the open transactions; `LoopInv` says that what a submission has
queued so far and what it has still to do make up what it rejected, in order;
`RankedInv` that it goes on with the ranking of what it was given; `ReviewInv` that a
review is of a stored row that it may see. `RejectedQueued` and `ReviewStands` follow;
`TypeCorrect` covers both halves of `McpWrites`. `ScoresAreSets` adds what the ranking
is. Two sums are to be compared, one over the places where a hypothesis cites, the
other over the places of the bundle's items: the first citations lead to the first
items of their ids one to one (`CitationsLead`), so the sums are equal
(`CoverageSums`), and so are the sets of kinds (`KindsOfItems`); the constraints that
are counted are different ones (`ContradictionCounts`). The five keys of the sort
compare (`BetterOrder`), so the sorted list is a permutation with no better score
after a worse one (`RankedBest`). Assumed of a submission: its sequences are finite
sequences, weights are numbers, and the constraints of a bundle are rows of the
register, each once and of a known kind (`IsBundle`).

**DefectCorpus_proofs.** `DefectCorpusInvariant` proves `Spec => []IInv`: `CorpusInv`
(all evidence is of an ingested commit; nothing says that every ingested commit has
its evidence, which a rebuild breaks) and `PredictionInv` (the number the first
statement counted is no more than the commits the next ones can name, unless the
corpus was cleared since). `LatestOnes` says what ORDER BY with LIMIT returns for
every finite set. Hence `PredictionsHold` and `TypeCorrect`, for any set of commits,
any limit and any number of rebuilds.

**BriefBuilder_proofs.** `Invariant` proves `Spec => []IInv`:

- `CallInv`: the fields of `job` are those of its phase, and the world is one the
  migrations, the parser and the policy files allow (`IsWorld`);
- `RegisterInv`: the window follows the register;
- `RetrievedInv`, `LearnedInv`, `SignalsInv`: each field is the result of the
  query it was read with; `hard`, `allowed` and `bundle` are functions of the
  fields before them; the signals, ranked and reranked, are those of what was
  retrieved;
- `PlacedInv`: what was retrieved has one signal, and is one item or a vow among the
  hard constraints but not both; an item is kept or dropped but not both;
- `StoredInv`: a stored brief keeps all that, and has at most one decision.

The lemmas say what sorting, filtering, taking and flattening keep of a sequence
(`SortedElements`, `AtElements`, `FlattenElements`), and follow the rows through ranker,
reranker and call graph walk (`RankedRows`, `RerankRows`, `WalkRows`). Hence
`TypeCorrect`, `ConstraintsAreShown`, `DecidedOnce` and
`NothingForeign`. `SevereShown` says of the contents of a list that what a cap cuts
off has the cap's number of findings before it that are no less severe
(`SortedPlaces`, `CapKeepsWorst`); the architecture's violations have no cap, as in
`findings.py`. `PromptFull` follows the compressor's three passes over a list of any
length: `PromptIsFull` is inductive beside `SignalsInv`, and `TrimFills` proves it of
what `Trim` returns. Every state of the passes respects the limits (`KeepsRoom`), the
sums and the ids of the kept items only grow (`FillsUp`), so what has no room when its
turn comes has none in the end (`StillTooMuch`).

`NothingLost` follows each id through ranker, governor, reranker and compressor: a
permutation, a filter and a concatenation of rows with other ids keep an id at one
place (`CopiedOnce`, `JoinedOnce`, `ScoredOnce`), and so do additions to the items
(`ItemsSettled`). The reranker may answer for some of the candidates, and the rest is
then put back from the others. `PlacedInv` is what is inductive: the property speaks of
a finished brief, the invariant of each phase.

`WalkComplete` says of the breadth-first walk, over any finite call graph, what
`WithinHops` defines without a queue. Its invariant, `Walking`, is that every definition
within reach was visited or is still to be reached from the queue, which is in order of
depth, so that a definition is first visited on a shortest path; what was visited was
collected once and fits the budget. That `WalkSteps` visits are enough needs a number
that falls: the entries of the queue and the calls of definitions not visited yet,
together (`VisitsLeft`), which a visit lowers by at least one.

Assumed of the environment: the columns that are compared or added are numbers, the
sizes of texts not negative, a list is a finite sequence, and an answer of the
cross-encoder is a finite map to natural numbers; an id names a row of one table
(`OwnIds`: the primary keys of migration `001_initial_schema.py:20,52,74`, the prefixes
`find:` and `struct:` of `evidence.py:75-80` and `structural.py:247`); and of the
compressor that it may keep an item at all (`MaxItems # 0`, the code's is 20).

**SetInduction.** The provers cannot use the library's induction theorems, whose
parameter is an operator. `Induction` states it about a set of numbers, from the
theorem on well-founded relations; `Recursion` and `Unrolled` derive that a
function defined from left to right (`Known`, `At`, the walk, the folds of
`FlattenSeq`) exists and has the values its equation says. `Folding` and `Course` do the
same for a `FoldLeft`, which the community modules define by recursion over sets of
places.

The second half of the module is about data. `StableSort` puts the places of a
sequence in order, each once (`SortedPlaces`), for any comparison that is asymmetric and
negatively transitive. `Shrinking` is induction over the sets of places; with it
`Summing` shows that a sum over a set exists and does not depend on which member is
added first, `AnyOrder` and `SumComputed` that `MapThenSumSet`, which takes a CHOOSEn
member, computes it, and `SumMoved` that a bijection between places keeps it.

Every safety invariant and action property that a passing run checks is stated by a
theorem, and so are both refinements. Only model-checked are the liveness properties
(`EventuallyHarvested`, `CallsReturn`, `CallsEnd`), which are out of the prover's reach;
and the counterexamples of the violation runs.

## 6. Plan

All components of section 2 are modelled, have their inductive invariant, and their
safety properties are proved. What could be added, in order of use: the analysers of
the enrichment pipeline as stages that may fail one by one, and a daemon whose embedder
answers with fewer vectors than it was asked for (hazards without a property). When
the query of `pending_refs` is repaired, a batch of issue references with its rate
limits and unreadable answers is worth a module of its own.

## 7. Not modelled, and why

- The other analysers of the enrichment pipeline: independent wrappers around
  external tools without state; the deployed daemon does not use them
  (`ops/harvest.py:31` passes no extractor).
- Texts, embeddings, hashes: replaced by what the properties tell apart. With
  them go the matching of words in messages and tasks, the parsing of the git log
  and of source files (given as their results), `signal_breakdown` and wording.
- Reads that change nothing and that no modelled call makes (lists, health,
  contracts, co-changes), metrics, traces, the analytics export and the test
  harness.
- `record` of the outcome repository: the steps of `record_with_ack` with a
  shorter answer; only tests call it. `archive` of the memory store: nothing
  calls it.
- `load_adjustments` as a read of the scores that `Outcomes` writes: the adjustment
  of a memory is a value of the world in `BriefBuilder`. The milestone's loop from
  feedback to ranking is broken before that point (`learning` above).
- `fetch` and `store_issue_ref` of the issue harvester: no batch reaches them
  (`issue_batch` above).
- `label_tier_sql`, which nothing calls. It does not compute the tiers of
  the harvest spec (`docs/design_docs/05_07/chips-defect-corpus-harvest-spec.md:80-82`):
  T1 there asks for an issue "closed by linked PR", and no statement writes or reads
  `closed_by_pr`; T3 asks that `revert_of_sha` "resolves to a real prior commit",
  and `issue_refs.py:203` only that there is one, which may be a short sha or that
  of a commit never harvested.
- Notes: `soft_context || note` is NULL when either is, so a call without a note
  erases the earlier ones. `Outcomes.Noted` models it; nothing in the repository
  says what should happen, so no property is stated.
- Two rebuilds at once.
- Several daemons on one database: documented as unsupported
  (`docs/known_limitations.md`, L13).
