---------------------------- MODULE DefectCorpus ----------------------------
(***************************************************************************)
(* The defect corpus and what is read from it (src/chips/harvester/        *)
(* defect_corpus.py, storage.py, enrichment/defect.py, issue_refs.py).     *)
(* Ingestion and rebuild_derived_from_truth write it beside each other,    *)
(* predictions read it statement by statement, and a batch of the issue    *)
(* tracker begins with a query over it.  Shas are numbers, in the order of *)
(* their texts.                                                            *)
(***************************************************************************)
EXTENDS Integers, Sequences, FiniteSets, SequencesExt

CONSTANTS
    Commits,        \* sha, files, refs, words, and the sha it reverts or None
    Watched,        \* the files a prediction is made for
    PredictLimit,   \* commits a prediction names
    None

ASSUME CommitsAssumption == \A m \in Commits : m.sha \in Nat

ASSUME LimitAssumption == PredictLimit \in Nat

\* A reason is a text, and None is no text.
ASSUME NoneAssumption == None \notin {"no_prior_defects", "history_found"}

VARIABLES
    ingested,   \* cortex_git_commits as committed
    corpus,     \* cortex_defect_corpus as committed
    rebuild,    \* where the rebuild is, the commits it read, the rows it found
    prediction, \* DefectPredictor.predict
    harvest     \* how the last harvest_issue_refs ended

vars == <<ingested, corpus, rebuild, prediction, harvest>>

NoRebuild == [pc |-> "idle", todo |-> {}, found |-> {}]
NoPrediction ==
    [pc |-> "idle", count |-> 0, introduced |-> <<>>, matched |-> <<>>, reason |-> None,
     disturbed |-> FALSE]

Init ==
    /\ ingested = {} /\ corpus = {}
    /\ rebuild = NoRebuild /\ prediction = NoPrediction
    /\ harvest = "none"

-----------------------------------------------------------------------------
(* The corpus *)

ExtractEvidence(m) == [sha |-> m.sha, refs |-> m.refs, reverts |-> m.reverts, words |-> m.words]

HighPrecision(e) ==
    \/ e.refs # {} /\ e.words \cap {"bug", "defect"} # {}
    \/ e.reverts # None
    \/ e.words \cap {"hotfix", "incident"} # {}

\* A commit and its evidence are committed together.
Ingest(m) ==
    /\ m \notin ingested
    /\ ingested' = ingested \cup {m}
    /\ corpus' = corpus \cup {ExtractEvidence(m)}
    /\ UNCHANGED <<rebuild, prediction, harvest>>

RebuildGoesOn(from, to) ==
    /\ rebuild.pc = from
    /\ rebuild' = to
    /\ UNCHANGED <<ingested, harvest>>

\* commits = self._store.truth_commits()
ReadTruth ==
    /\ RebuildGoesOn("idle", [NoRebuild EXCEPT !.pc = "delete", !.todo = ingested])
    /\ UNCHANGED <<corpus, prediction>>

\* A DELETE finds the rows committed when it starts.
DeleteCorpus ==
    /\ RebuildGoesOn("delete", [rebuild EXCEPT !.pc = "clear", !.found = corpus])
    /\ UNCHANGED <<corpus, prediction>>

\* The commit of clear_derived_tables, perhaps under a prediction.
ClearCommits ==
    /\ RebuildGoesOn("clear", [rebuild EXCEPT !.pc = "replay", !.found = {}])
    /\ corpus' = corpus \ rebuild.found
    /\ prediction' = [prediction EXCEPT !.disturbed = @ \/ prediction.pc # "idle"]

\* The replay, which shows when the caller of the rebuild commits.  A commit
\* ingested between ReadTruth and DeleteCorpus has lost its evidence.
CallerCommits ==
    /\ RebuildGoesOn("replay", NoRebuild)
    /\ corpus' = corpus \cup {ExtractEvidence(m) : m \in rebuild.todo}
    /\ UNCHANGED prediction

\* It dies or fails; what is committed, perhaps the clear alone, stays.
RebuildDies ==
    /\ rebuild.pc # "idle"
    /\ rebuild' = NoRebuild
    /\ UNCHANGED <<ingested, corpus, prediction, harvest>>

-----------------------------------------------------------------------------
(* The batch that asks for the issues the corpus names *)

\* The columns of the two items of the FROM of pending_refs, joined by ON.
RefsColumns == {"ref"}
IssueColumns ==
    {"ref", "repo", "issue_number", "tenant_id", "state", "labels", "issue_type", "title",
     "closed_at", "closed_by_pr", "fetched_at", "fetch_status", "raw"}

\* PostgreSQL rejects a query with a name that is a column of both, whatever
\* the tables hold.
Ambiguous(name) == name \in RefsColumns \cap IssueColumns

\* SELECT DISTINCT ref is the first statement of a batch: no reference is
\* fetched and no row is stored.
HarvestIssueRefs ==
    /\ Ambiguous("ref")
    /\ harvest' = "raised"
    /\ UNCHANGED <<ingested, corpus, rebuild, prediction>>

-----------------------------------------------------------------------------
(* A prediction for the watched files *)

\* ORDER BY sha DESC and LIMIT over a set of shas.
Nth(S, i) == CHOOSE x \in S : Cardinality({y \in S : y < x}) = i - 1
UpTo(S, n) == 1 .. (IF Cardinality(S) < n THEN Cardinality(S) ELSE n)
Latest(S, n) == [i \in UpTo(S, n) |-> Nth(S, Cardinality(S) + 1 - i)]

ShasTouching(evidence) ==
    {m.sha : m \in {m \in ingested : m.files \cap Watched # {} /\ m.sha \in evidence}}
Defective == {e.sha : e \in {e \in corpus : HighPrecision(e)}}
Reverted == {e.reverts : e \in corpus}

PredictCount ==
    /\ prediction.pc = "idle"
    /\ prediction' = [NoPrediction EXCEPT !.pc = "reverts",
                                          !.count = Cardinality(ShasTouching(Defective))]
    /\ UNCHANGED <<ingested, corpus, rebuild, harvest>>

\* Mutant of PredictReverts: what is reverted is not looked up among the
\* commits.
PredictRevertsUnjoined ==
    /\ prediction.pc = "reverts"
    /\ prediction' =
         [prediction EXCEPT !.introduced = Latest(Reverted \ {None}, PredictLimit),
                            !.pc = IF prediction.count = 0 THEN "idle" ELSE "match",
                            !.reason = IF prediction.count = 0 THEN "no_prior_defects" ELSE None]
    /\ UNCHANGED <<ingested, corpus, rebuild, harvest>>

PredictReverts ==
    /\ prediction.pc = "reverts"
    /\ prediction' =
         [prediction EXCEPT !.introduced = Latest(ShasTouching(Reverted), PredictLimit),
                            !.pc = IF prediction.count = 0 THEN "idle" ELSE "match",
                            !.reason = IF prediction.count = 0 THEN "no_prior_defects" ELSE None]
    /\ UNCHANGED <<ingested, corpus, rebuild, harvest>>

\* Mutant of PredictMatch: any commit of the corpus matches.
PredictMatchAny ==
    /\ prediction.pc = "match"
    /\ prediction' = [prediction EXCEPT !.pc = "idle", !.reason = "history_found",
                        !.matched = Latest(ShasTouching({e.sha : e \in corpus}), PredictLimit)]
    /\ UNCHANGED <<ingested, corpus, rebuild, harvest>>

PredictMatch ==
    /\ prediction.pc = "match"
    /\ prediction' = [prediction EXCEPT !.pc = "idle", !.reason = "history_found",
                        !.matched = Latest(ShasTouching(Defective), PredictLimit)]
    /\ UNCHANGED <<ingested, corpus, rebuild, harvest>>

Rebuild == ReadTruth \/ DeleteCorpus \/ ClearCommits \/ CallerCommits \/ RebuildDies
Predict == PredictCount \/ PredictReverts \/ PredictMatch

Next == (\E m \in Commits : Ingest(m)) \/ Rebuild \/ Predict \/ HarvestIssueRefs

Spec == Init /\ [][Next]_vars

-----------------------------------------------------------------------------
(* Properties *)

\* What a query with ORDER BY sha DESC and LIMIT gives.
NamesCommits(shas) ==
    /\ ToSet(shas) \subseteq {m.sha : m \in ingested}
    /\ Len(shas) <= PredictLimit
    /\ \A i, j \in DOMAIN shas : i < j => shas[i] > shas[j]

\* Types: evidence is of an ingested commit, and a prediction names ingested
\* commits, the latest first and no more than its limit.
TypeOK ==
    /\ ingested \subseteq Commits
    /\ corpus \subseteq {ExtractEvidence(m) : m \in ingested}
    /\ rebuild.pc \in {"idle", "delete", "clear", "replay"}
    /\ rebuild.todo \subseteq ingested
    /\ rebuild.found \subseteq corpus
    /\ prediction.pc \in {"idle", "reverts", "match"}
    /\ NamesCommits(prediction.introduced) /\ NamesCommits(prediction.matched)
    /\ harvest \in {"none", "raised"}

\* A prediction that finds a history names defective commits, as many as its
\* first statement counted or as the limit allows, unless a rebuild cleared
\* the corpus under it (defect.py:32-85).
PredictionNamesItsCommits ==
    prediction.reason = "history_found" =>
        /\ \A i \in DOMAIN prediction.matched :
             \E m \in ingested : m.sha = prediction.matched[i] /\ HighPrecision(ExtractEvidence(m))
        /\ prediction.disturbed \/ Len(prediction.matched) >= prediction.count
                                \/ Len(prediction.matched) = PredictLimit

\* issue_refs.py:172 says of a batch: "Never raises; returns truthful counts."
NeverRaises == harvest # "raised"

-----------------------------------------------------------------------------
(* The inductive invariant behind TypeOK and PredictionNamesItsCommits     *)

CorpusInv ==
    /\ ingested \subseteq Commits /\ IsFiniteSet(ingested)
    /\ corpus \subseteq {ExtractEvidence(m) : m \in ingested}
    /\ rebuild = [pc |-> rebuild.pc, todo |-> rebuild.todo, found |-> rebuild.found]
    /\ rebuild.pc \in {"idle", "delete", "clear", "replay"}
    /\ rebuild.todo \subseteq ingested
    /\ rebuild.found \subseteq corpus
    /\ harvest \in {"none", "raised"}

\* What was counted is still there when it is named, unless the corpus was
\* cleared.
PredictionInv ==
    /\ prediction = [pc |-> prediction.pc, count |-> prediction.count,
                     introduced |-> prediction.introduced, matched |-> prediction.matched,
                     reason |-> prediction.reason, disturbed |-> prediction.disturbed]
    /\ prediction.pc \in {"idle", "reverts", "match"}
    /\ prediction.count \in Nat
    /\ prediction.disturbed \in BOOLEAN
    /\ NamesCommits(prediction.introduced) /\ NamesCommits(prediction.matched)
    /\ prediction.pc # "idle" /\ ~prediction.disturbed =>
         prediction.count <= Cardinality(ShasTouching(Defective))

IInv == CorpusInv /\ PredictionInv /\ PredictionNamesItsCommits
=============================================================================
