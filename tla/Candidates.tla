----------------------------- MODULE Candidates -----------------------------
(***************************************************************************)
(* submit_hypotheses and review_constraint_candidate over                  *)
(* ConstraintCandidateRepository                                           *)
(* (src/chips/compiler/constraint_candidate_repository.py,                 *)
(* mcp/tools/hypotheses.py, migration 012).  A submission ranks its        *)
(* hypotheses and then enqueues the rejected ones one after the other,     *)
(* each in a transaction of its own.                                       *)
(***************************************************************************)
EXTENDS Sessions, Hypotheses

CONSTANTS
    Submissions,    \* what callers submit: bundle, hypotheses, rejected ids
    Reviewers,      \* the tenants reviewers name, None among them
    Resolutions     \* what reviewers decide: status and promoted constraint

\* What a brief hands out, and a caller hands back: constraints are rows of the
\* register, each once and of a kind it knows (evidence_bundle.py:65-116,
\* migration 007:41); the two kinds of items have weights.
IsBundle(b) ==
    /\ {b.constraints, b.evidence} \subseteq Seq(ToSet(Items(b)))
    /\ \A x \in ToSet(Items(b)) : x.weight \in Int
    /\ \A i, j \in DOMAIN b.constraints : b.constraints[i] = b.constraints[j] => i = j
    /\ \A x \in ToSet(b.constraints) : x.rule \in HardKinds \cup {"known_issue"}

\* A hypothesis cites any ids, any number of times; so may its own id repeat.
IsHypothesis(h) == h.id \in Int /\ h.cited \in Seq(ToSet(h.cited))

ASSUME QueueAssumption ==
    /\ \A s \in Submissions :
         /\ s.rejected \in Seq(ToSet(s.rejected))
         /\ s.hypotheses \in Seq(ToSet(s.hypotheses)) /\ \A h \in ToSet(s.hypotheses) : IsHypothesis(h)
         /\ IsBundle(s.bundle)
    /\ \A r \in Resolutions : r = [status |-> r.status, promoted |-> r.promoted]

VARIABLES
    candidates,     \* cortex_constraint_candidates: the committed rows
    queuing,        \* the candidate each open transaction has inserted
    reviewing,      \* the candidate each open transaction has updated, or 0
    drawn,          \* how many candidate ids were drawn
    verdicts        \* history: what the last committed review of each said

queue == <<candidates, queuing, reviewing, drawn, verdicts>>

Statuses == {"pending", "promoted", "dismissed"}
NoCandidate == [id |-> 0]
Unreviewed == [status |-> "pending", promoted |-> None]

QueueInit ==
    /\ candidates = {}
    /\ queuing = [c \in Clients |-> NoCandidate]
    /\ reviewing = [c \in Clients |-> 0]
    /\ drawn = 0
    /\ verdicts = << >>

-----------------------------------------------------------------------------
(* submit_hypotheses *)

\* Ranking reads only what the call was given.
Ranking ==
    [s \in Submissions |->
       [tool |-> "submit", bundle |-> s.bundle, hypotheses |-> s.hypotheses,
        rejected |-> s.rejected, tenant |-> s.tenant,
        ranked |-> RankHypotheses(s.hypotheses, s.bundle), queued |-> <<>>,
        todo |-> RejectedOnes(s.hypotheses, s.rejected)]]

Submit(c, s) ==
    /\ Begin(c, "enqueue", Ranking[s])
    /\ UNCHANGED queue

SameSource(row, c) ==
    row # NoCandidate /\ row.brief = call[c].bundle.id
      /\ row.hypothesis = Head(call[c].todo).hypothesis

\* The loop goes on with the id it got.
Enqueued(c, id) ==
    [call[c] EXCEPT !.todo = Tail(@), !.queued = Append(@, id)]

\* Mutant of FindCandidate: a hypothesis of another brief will do.
FindAnyBrief(c) ==
    /\ pc[c] = "enqueue"
    /\ call[c].todo # <<>>
    /\ LET found == {row \in candidates : row.hypothesis = Head(call[c].todo).hypothesis}
       IN  IF found = {} THEN Goto(c, "queue")
           ELSE \E row \in found : Go(c, "enqueue", Enqueued(c, row.id))
    /\ UNCHANGED queue

FindCandidate(c) ==
    /\ pc[c] = "enqueue"
    /\ call[c].todo # <<>>
    /\ LET found == {row \in candidates : SameSource(row, c)}
       IN  IF found = {} THEN Goto(c, "queue")
           ELSE \E row \in found : Go(c, "enqueue", Enqueued(c, row.id))
    /\ UNCHANGED queue

NewCandidate(c) ==
    [id |-> drawn + 1, brief |-> call[c].bundle.id, hypothesis |-> Head(call[c].todo).hypothesis,
     target |-> Head(call[c].todo).target, tenant |-> call[c].tenant,
     status |-> "pending", promoted |-> None]

InsertCandidate(c) ==
    /\ pc[c] = "queue"
    /\ \A d \in Clients \ {c} : ~SameSource(queuing[d], c)
    /\ IF \E row \in candidates : SameSource(row, c)
       THEN End(c, "raised", "UniqueViolation") /\ UNCHANGED <<queuing, drawn>>
       ELSE /\ drawn' = drawn + 1
            /\ queuing' = [queuing EXCEPT ![c] = NewCandidate(c)]
            /\ Goto(c, "commitQueue")
    /\ UNCHANGED <<candidates, reviewing, verdicts>>

CommitCandidate(c) ==
    /\ pc[c] = "commitQueue"
    /\ candidates' = candidates \cup {queuing[c]}
    /\ queuing' = [queuing EXCEPT ![c] = NoCandidate]
    /\ verdicts' = [id \in DOMAIN verdicts \cup {queuing[c].id} |->
                     IF id = queuing[c].id THEN Unreviewed ELSE verdicts[id]]
    /\ Go(c, "enqueue", Enqueued(c, queuing[c].id))
    /\ UNCHANGED <<reviewing, drawn>>

Submitted(c) ==
    /\ pc[c] = "enqueue"
    /\ call[c].todo = <<>>
    /\ End(c, "ok", None)
    /\ UNCHANGED queue

-----------------------------------------------------------------------------
(* review_constraint_candidate.  A reviewer takes an id from what          *)
(* get_constraint_candidates lists, in any status; the candidate may be    *)
(* reviewed by another meanwhile, and the reviewer may name another tenant.*)

Visible(row, tenant) == tenant = None \/ row.tenant = tenant

Review(c, tenant, resolution) ==
    /\ \E row \in candidates :
         Begin(c, "update", [tool |-> "review", id |-> row.id, tenant |-> tenant,
                             resolution |-> resolution])
    /\ UNCHANGED queue

\* The UPDATE finds no row of another tenant, waits for a row that another
\* review has updated, and is refused a status the table does not know.
UpdateCandidate(c) ==
    /\ pc[c] = "update"
    /\ \E row \in candidates :
         /\ row.id = call[c].id
         /\ IF ~Visible(row, call[c].tenant)
            THEN End(c, "ok", FALSE) /\ UNCHANGED reviewing
            ELSE /\ \A d \in Clients : reviewing[d] # row.id
                 /\ IF call[c].resolution.status \in Statuses
                    THEN Goto(c, "commitReview") /\ reviewing' = [reviewing EXCEPT ![c] = row.id]
                    ELSE End(c, "raised", "CheckViolation") /\ UNCHANGED reviewing
    /\ UNCHANGED <<candidates, queuing, drawn, verdicts>>

Resolved(row, r) == [row EXCEPT !.status = r.status, !.promoted = r.promoted]

\* Mutant of CommitReview: every candidate of the hypothesis is reviewed.
CommitReviewOfAll(c) ==
    /\ pc[c] = "commitReview"
    /\ LET of(id) == CHOOSE row \in candidates : row.id = id
       IN  candidates' = {IF row.hypothesis = of(reviewing[c]).hypothesis
                          THEN Resolved(row, call[c].resolution) ELSE row : row \in candidates}
    /\ verdicts' = [verdicts EXCEPT ![reviewing[c]] = call[c].resolution]
    /\ reviewing' = [reviewing EXCEPT ![c] = 0]
    /\ End(c, "ok", TRUE)
    /\ UNCHANGED <<queuing, drawn>>

CommitReview(c) ==
    /\ pc[c] = "commitReview"
    /\ candidates' = {IF row.id = reviewing[c] THEN Resolved(row, call[c].resolution)
                      ELSE row : row \in candidates}
    /\ verdicts' = [verdicts EXCEPT ![reviewing[c]] = call[c].resolution]
    /\ reviewing' = [reviewing EXCEPT ![c] = 0]
    /\ End(c, "ok", TRUE)
    /\ UNCHANGED <<queuing, drawn>>

QueueStep(c) ==
    \/ FindCandidate(c) \/ InsertCandidate(c) \/ CommitCandidate(c) \/ Submitted(c)
    \/ UpdateCandidate(c) \/ CommitReview(c)

\* Mutant of QueueRollback: the transaction stays open.
QueueLeftOpen(c) == UNCHANGED queue

\* The rollback of an open transaction.
QueueRollback(c) ==
    /\ queuing' = [queuing EXCEPT ![c] = NoCandidate]
    /\ reviewing' = [reviewing EXCEPT ![c] = 0]
    /\ UNCHANGED <<candidates, drawn, verdicts>>

=============================================================================
