------------------------------ MODULE McpWrites ------------------------------
(***************************************************************************)
(* The writing tools of several MCP server processes together: feedback on *)
(* briefs (Outcomes) and the queue of constraint candidates (Candidates).  *)
(* Callers retry a call that raised or died by making it again.            *)
(***************************************************************************)
EXTENDS Outcomes, Candidates

vars == <<session, feedback, queue>>

Init == SessionInit /\ FeedbackInit /\ QueueInit

Calls(c) ==
    \/ /\ \E args \in Feedbacks : Feedback(c, args)
       /\ UNCHANGED queue
    \/ /\ \/ \E s \in Submissions : Submit(c, s)
          \/ \E tenant \in Reviewers, r \in Resolutions : Review(c, tenant, r)
       /\ UNCHANGED feedback

Step(c) ==
    \/ FeedbackStep(c) /\ UNCHANGED queue
    \/ QueueStep(c) /\ UNCHANGED feedback

Crash(c) == Die(c) /\ FeedbackRollback(c) /\ QueueRollback(c)

Notes == (\E remark \in Remarks : RecordOutcome(remark)) /\ UNCHANGED queue

Next ==
    \/ \E c \in Clients : Calls(c) \/ Step(c) \/ Crash(c)
    \/ Notes

Spec == Init /\ [][Next]_vars

\* A server process goes on with the call it handles.
FairSpec == Spec /\ \A c \in Clients : WF_vars(Step(c))

-----------------------------------------------------------------------------
(* Properties of feedback *)

\* Types of both halves; whoever has an open transaction is in a call.
TypeOK ==
    /\ \A row \in outcomes : row.id \in 1 .. issued
    /\ \A row \in candidates : row.id \in 1 .. drawn
    /\ \A row \in candidates : row.status \in Statuses
    /\ \A c \in Clients :
         /\ inserting[c] # NoRow <=> pc[c] = "commit"
         /\ queuing[c] # NoCandidate <=> pc[c] = "commitQueue"
         /\ reviewing[c] # 0 <=> pc[c] = "commitReview"
         /\ pc[c] = "idle" <=> call[c] = NoCall
    /\ DOMAIN verdicts = {row.id : row \in candidates}
    /\ calls \in 0 .. MaxCalls /\ crashes \in 0 .. MaxCrashes

\* However calls with one idempotency key race, die or are made again, all
\* that return name one outcome, and it is stored
\* (outcome_repository.py:36-45, migration 005:5-7).
OneOutcomePerKey ==
    \A a \in acked : a.key # None =>
        /\ {row \in outcomes : row.brief = a.brief /\ row.key = a.key} = {a.row}
        /\ \A b \in acked : b.brief = a.brief /\ b.key = a.key => b.row = a.row

\* A feedback call raises for its key only if another call with that key was
\* under way while it ran: a retry after the first call has ended does not
\* (outcome_repository.py:38-40).
RaisesOnlyAgainstRival ==
    \A c \in Clients :
        LET last == answer[c]
        IN  last.status = "raised" /\ last.call.tool = "feedback"
              /\ last.result = "UniqueViolation" => rival[c]

\* The calls of a key and brief, however they interleave, wait and die, are
\* the one-entry-per-key log that callers are promised: every step records an
\* entry, answers with a recorded one, or does nothing the callers can see
\* (outcome_repository.py:36-45, 102-140).
Said(field) == {f[field] : f \in Feedbacks}

Log == INSTANCE OutcomeLog WITH Ids <- Nat, Keyless <- None,
                                Briefs <- DOMAIN Briefs, Tenants <- Said("tenant"),
                                Verdicts <- Said("verdict"), Keys <- Said("key"),
                                log <- outcomes, told <- acked

ImplementsLog == Log!Spec

\* After a recompute every memory of a brief with feedback has a score, for
\* the briefs retrieve it and rank it (learning.py:34-101).
LearnsFromFeedback ==
    \A k \in TenantKeys : \A row \in learned[k] :
        {m.id : m \in ToSet(Briefs[row.brief].memories)} \subseteq DOMAIN scores[k]

-----------------------------------------------------------------------------
(* Properties of the queue *)

\* The ids a submission returns are those of stored candidates for exactly
\* the hypotheses it rejected, in their order, also when earlier submissions
\* died half way, and no hypothesis of a brief is queued twice
\* (hypotheses.py:109-157, constraint_candidate_repository.py:22-57).
RejectedAreQueued ==
    /\ \A x, y \in candidates :
         x.brief = y.brief /\ x.hypothesis = y.hypothesis => x.id = y.id
    /\ \A c \in Clients : answer[c].status = "ok" /\ answer[c].call.tool = "submit" =>
         LET args == answer[c].call
             wanted == Known(args.rejected, IdsIn(args.hypotheses))
         IN  /\ Len(args.queued) = Len(wanted)
             /\ \A i \in DOMAIN wanted : \E row \in candidates :
                  /\ row.id = args.queued[i]
                  /\ row.brief = args.bundle.id
                  /\ row.hypothesis = wanted[i]

\* What a candidate's review came to is what the last review that committed
\* decided, submitting the hypothesis again does not reopen it, and a review
\* that says it updated the candidate named its tenant or none
\* (constraint_candidate_repository.py:80-100).
LastReviewStands ==
    /\ \A row \in candidates :
         [status |-> row.status, promoted |-> row.promoted] = verdicts[row.id]
    /\ \A c \in Clients : answer[c].status = "ok" /\ answer[c].call.tool = "review" =>
         \A row \in candidates : row.id = answer[c].call.id =>
            (answer[c].result <=> answer[c].call.tenant \in {None, row.tenant})

\* What a hypothesis cites: the places of the bundle's items, one for each id.
CitedItems(h, b) ==
    {i \in DOMAIN Items(b) :
       /\ Contains(h.cited, Items(b)[i].id)
       /\ \A j \in 1 .. i - 1 : Items(b)[j].id # Items(b)[i].id}

\* What it contradicts: it says so, or it touches what the constraint is about.
BrokenConstraints(h, b) ==
    {x \in ToSet(b.constraints) :
       /\ x.rule # "known_issue"
       /\ x.id \in h.declared \/ x.path \in h.paths \/ x.symbol \in h.symbols}

SetScore(h, b) ==
    MapThenSumSet(LAMBDA i : Items(b)[i].weight, CitedItems(h, b))
      - 2000 * Cardinality(BrokenConstraints(h, b))
      + IF CitedItems(h, b) = {} THEN 0
        ELSE 250 * (Cardinality({Items(b)[i].kind : i \in CitedItems(h, b)}) - 1)

\* Each hypothesis is listed once, with its score, and no better one after it.
BestFirst(ranked, hypotheses, b) ==
    \E at \in Bijection(DOMAIN ranked, DOMAIN hypotheses) :
        /\ \A i \in DOMAIN at :
             /\ ranked[i].id = hypotheses[at[i]].id
             /\ ranked[i].score = SetScore(hypotheses[at[i]], b)
        /\ \A i, j \in DOMAIN at :
             SetScore(hypotheses[at[i]], b) > SetScore(hypotheses[at[j]], b) => i < j

\* A hypothesis is scored by the sets of what it cites and contradicts: citing
\* twice, or citing what the bundle does not hold, does not pay, and the
\* ranking lists every hypothesis, best first (hypothesis.py:8-13, 55-164).
ScoredBySets ==
    \A c \in Clients : pc[c] \in {"enqueue", "queue"} =>
        BestFirst(call[c].ranked, call[c].hypotheses, call[c].bundle)

-----------------------------------------------------------------------------
(* The inductive invariants that the proofs need *)

FeedbackStages == {"brief", "find", "insert", "commit", "learn", "rescore", "return"}
SubmitStages == {"enqueue", "queue", "commitQueue"}
ReviewStages == {"update", "commitReview"}

\* The arguments and locals of a call at a stage, by its tool.
Shape(stage, args) ==
    /\ stage \in {"idle"} \cup FeedbackStages \cup SubmitStages \cup ReviewStages
    /\ stage = "idle" => args = NoCall
    /\ stage \in FeedbackStages =>
         /\ args.tool = "feedback"
         /\ DOMAIN args = {"tool", "brief", "verdict", "key", "tenant", "row", "rows", "aggregates"}
         /\ \E f \in Feedbacks : /\ f.brief = args.brief /\ f.verdict = args.verdict
                                /\ f.key = args.key /\ f.tenant = args.tenant
    /\ stage \in SubmitStages =>
         /\ args.tool = "submit"
         /\ DOMAIN args = {"tool", "bundle", "hypotheses", "rejected", "tenant",
                           "ranked", "queued", "todo"}
    /\ stage \in ReviewStages =>
         /\ args = [tool |-> "review", id |-> args.id, tenant |-> args.tenant,
                    resolution |-> args.resolution]
         /\ args.resolution \in Resolutions

\* A client is somewhere in one of the three tools, with that tool's call.
CallsInv ==
    /\ DOMAIN pc = Clients /\ DOMAIN call = Clients /\ DOMAIN answer = Clients
    /\ DOMAIN inserting = Clients /\ DOMAIN rival = Clients
    /\ DOMAIN queuing = Clients /\ DOMAIN reviewing = Clients
    /\ \A c \in Clients : Shape(pc[c], call[c])

\* What a row says is what some caller said of a stored brief.
Rows == [id : 1 .. issued, brief : DOMAIN Briefs, tenant : Said("tenant"),
         verdict : Said("verdict"), key : Said("key")]

\* An open transaction's row is its client's, and a row that a call or an
\* answer names is in the table.
RowsInv ==
    /\ issued \in Nat
    /\ outcomes \subseteq Rows
    /\ \A c \in Clients :
         /\ inserting[c] # NoRow <=> pc[c] = "commit"
         /\ pc[c] = "commit" => inserting[c] = call[c].row /\ inserting[c] \in Rows
         /\ pc[c] \in FeedbackStages \ {"brief"} => call[c].brief \in DOMAIN Briefs
         /\ pc[c] \in {"learn", "rescore", "return"} => call[c].row \in outcomes
         /\ pc[c] \in {"commit", "learn", "rescore", "return"} =>
              call[c].row.brief = call[c].brief /\ call[c].row.key = call[c].key
    /\ \A a \in acked : a = [brief |-> a.row.brief, key |-> a.row.key, row |-> a.row]
                         /\ a.row \in outcomes

\* Two rows the primary key or the unique index would not let stand together.
Clash(x, y) == x.id = y.id \/ SameKey(x, y)
Inserters == {c \in Clients : pc[c] = "commit"}

\* The indices see to it for rows that are stored and rows being inserted.
NoClash ==
    /\ \A x, y \in outcomes : Clash(x, y) => x = y
    /\ \A c \in Inserters : \A x \in outcomes : ~Clash(x, inserting[c])
    /\ \A c, d \in Inserters : Clash(inserting[c], inserting[d]) => c = d

\* Calls with one key know of each other while both are under way, and a row
\* the look-up did not find is such a rival's.
RivalInv ==
    /\ \A c \in Clients : \A d \in Clients \ {c} :
         pc[c] \in FeedbackStages /\ pc[d] \in FeedbackStages /\ SameKey(call[d], call[c])
            => rival[c]
    /\ \A c \in Clients : pc[c] = "insert" /\ Keyed(outcomes, call[c]) # {} => rival[c]
    /\ RaisesOnlyAgainstRival

FeedbackIInv == CallsInv /\ RowsInv /\ NoClash /\ RivalInv

\* A candidate row, and whose row an open transaction has written.
Candidate(row) ==
    /\ row = [id |-> row.id, brief |-> row.brief, hypothesis |-> row.hypothesis,
              target |-> row.target, tenant |-> row.tenant,
              status |-> row.status, promoted |-> row.promoted]
    /\ row.id \in 1 .. drawn /\ row.status \in Statuses

CandidatesInv ==
    /\ drawn \in Nat
    /\ \A row \in candidates : Candidate(row)
    /\ \A c \in Clients :
         /\ queuing[c] # NoCandidate <=> pc[c] = "commitQueue"
         /\ pc[c] = "commitQueue" =>
              /\ Candidate(queuing[c]) /\ SameSource(queuing[c], c)
              /\ [status |-> queuing[c].status, promoted |-> queuing[c].promoted] = Unreviewed
         /\ reviewing[c] # 0 <=> pc[c] = "commitReview"
         /\ pc[c] = "commitReview" =>
              reviewing[c] = call[c].id /\ call[c].resolution.status \in Statuses
    /\ DOMAIN verdicts = {row.id : row \in candidates}

\* Two rows the primary key or the unique index would not let stand together.
Twins(x, y) == x.id = y.id \/ (x.brief = y.brief /\ x.hypothesis = y.hypothesis)
Queuers == {c \in Clients : pc[c] = "commitQueue"}

NoTwins ==
    /\ \A x, y \in candidates : Twins(x, y) => x = y
    /\ \A c \in Queuers : \A x \in candidates : ~Twins(x, queuing[c])
    /\ \A c, d \in Queuers : Twins(queuing[c], queuing[d]) => c = d

\* A submission has queued a first part of what it rejected, and the rest is
\* still to do.
Queued(args) ==
    LET wanted == Known(args.rejected, IdsIn(args.hypotheses))
        done == Len(args.queued)
    IN  /\ args.queued \in Seq(Nat) /\ args.todo \in Seq(ToSet(args.todo))
        /\ wanted \in Seq(ToSet(wanted)) /\ Len(wanted) = done + Len(args.todo)
        /\ \A i \in 1 .. Len(args.todo) : args.todo[i].hypothesis = wanted[done + i]
        /\ \A i \in 1 .. done : \E row \in candidates :
             row.id = args.queued[i] /\ row.brief = args.bundle.id /\ row.hypothesis = wanted[i]

LoopInv ==
    \A c \in Clients : pc[c] \in SubmitStages =>
        Queued(call[c]) /\ (pc[c] # "enqueue" => call[c].todo # <<>>)

\* What a submission goes on with is what it was given, and its ranking.
RankedInv ==
    \A c \in Clients : pc[c] \in SubmitStages =>
        \E s \in Submissions :
            /\ call[c].bundle = s.bundle /\ call[c].hypotheses = s.hypotheses
            /\ call[c].ranked = RankHypotheses(s.hypotheses, s.bundle)

\* A review is of a stored candidate, which it may see once it has updated it.
ReviewInv ==
    \A c \in Clients :
        /\ pc[c] \in ReviewStages => \E row \in candidates : row.id = call[c].id
        /\ pc[c] = "commitReview" =>
             \A row \in candidates : row.id = call[c].id => Visible(row, call[c].tenant)
        /\ answer[c].status = "ok" /\ answer[c].call.tool = "review" =>
             \E row \in candidates : row.id = answer[c].call.id

QueueIInv ==
    /\ CandidatesInv /\ NoTwins /\ LoopInv /\ RankedInv /\ ReviewInv
    /\ LastReviewStands /\ RejectedAreQueued

-----------------------------------------------------------------------------
(* Both *)

\* Waiting for an index or a row never closes a cycle: every call ends.
CallsEnd == \A c \in Clients : pc[c] # "idle" ~> pc[c] = "idle"

=============================================================================
