------------------------------ MODULE Outcomes ------------------------------
(***************************************************************************)
(* submit_brief_feedback: BriefOutcomeRepository.record_with_ack and       *)
(* BriefLearningService.maybe_recompute on one connection, and the older   *)
(* record_outcome (src/chips/memory/outcome_repository.py,                 *)
(* compiler/learning.py, mcp/modules/feedback.py, mcp/tools/briefs.py).    *)
(* The partial unique index on (brief, key) makes an INSERT raise on a     *)
(* committed row and wait for one that is being inserted.                  *)
(***************************************************************************)
EXTENDS Sessions, FiniteSetsExt, TLC

CONSTANTS
    Briefs,         \* the stored briefs: tenant, retrieved memories
    Feedbacks,      \* what callers submit: brief, verdict, key, tenant
    Remarks         \* what record_outcome is told: brief and note

ASSUME FeedbackAssumption ==
    \A f \in Feedbacks : f = [brief |-> f.brief, verdict |-> f.verdict, key |-> f.key,
                             tenant |-> f.tenant]

VARIABLES
    outcomes,   \* cortex_brief_outcomes: the committed rows
    inserting,  \* the outcome each open transaction has inserted
    notes,      \* soft_context of each brief, None for NULL
    scores,     \* cortex_memory_feedback_scores, by tenant key
    recent,     \* _last_recompute_by_tenant of each process
    issued,     \* how many outcome ids were drawn
    acked,      \* history: the feedback calls that returned
    rival,      \* history: who held a key of ours during our call
    learned     \* history: the rows each tenant's last recompute read

feedback == <<outcomes, inserting, notes, scores, recent, issued, acked, rival, learned>>

NoRow == [id |-> 0]
TenantKey(tenant) == IF tenant = None THEN "" ELSE tenant
TenantKeys == {TenantKey(f.tenant) : f \in Feedbacks}

FeedbackInit ==
    /\ outcomes = {}
    /\ inserting = [c \in Clients |-> NoRow]
    /\ notes = [b \in DOMAIN Briefs |-> None]
    /\ scores = [k \in TenantKeys |-> << >>]
    /\ recent = [c \in Clients |-> {}]
    /\ issued = 0
    /\ acked = {}
    /\ rival = [c \in Clients |-> FALSE]
    /\ learned = [k \in TenantKeys |-> {}]

-----------------------------------------------------------------------------
(* record_with_ack *)

SameKey(row, args) == row.key # None /\ row.key = args.key /\ row.brief = args.brief

Keyed(rows, args) == {row \in rows : SameKey(row, args)}

\* Another call with this brief and key is under way.
HasRival(c, args) ==
    args.key # None /\ \E d \in Clients \ {c} :
        /\ pc[d] # "idle" /\ call[d].tool = "feedback"
        /\ call[d].key = args.key /\ call[d].brief = args.brief

FeedbackCall(args) ==
    [tool |-> "feedback", brief |-> args.brief, verdict |-> args.verdict, key |-> args.key,
     tenant |-> args.tenant, row |-> NoRow, rows |-> {}, aggregates |-> << >>]

Feedback(c, args) ==
    /\ Begin(c, "brief", FeedbackCall(args))
    /\ rival' = [d \in Clients |-> IF d = c THEN HasRival(c, args)
                                   ELSE rival[d] \/ (pc[d] # "idle" /\ call[d].tool = "feedback"
                                                     /\ SameKey(call[d], args))]
    /\ UNCHANGED <<outcomes, inserting, notes, scores, recent, issued, acked, learned>>

Foreign(args) ==
    LET owner == Briefs[args.brief].tenant
    IN  owner # None /\ args.tenant # None /\ owner # args.tenant

\* The brief is unknown, or another tenant's: ValueError.
CheckBrief(c) ==
    /\ pc[c] = "brief"
    /\ IF call[c].brief \notin DOMAIN Briefs \/ Foreign(call[c])
       THEN End(c, "raised", "ValueError")
       ELSE Goto(c, IF call[c].key = None THEN "insert" ELSE "find")
    /\ UNCHANGED feedback

\* Mutant of FindOutcome: nothing is looked up.
FindNothing(c) ==
    /\ pc[c] = "find"
    /\ Goto(c, "insert")
    /\ UNCHANGED feedback

FindOutcome(c) ==
    /\ pc[c] = "find"
    /\ LET found == Keyed(outcomes, call[c])
       IN  IF found = {} THEN Goto(c, "insert")
           ELSE \E row \in found : Go(c, "learn", [call[c] EXCEPT !.row = row])
    /\ UNCHANGED feedback

NewRow(c) ==
    [id |-> issued + 1, brief |-> call[c].brief, tenant |-> call[c].tenant,
     verdict |-> call[c].verdict, key |-> call[c].key]

Waits(c) == \E d \in Clients \ {c} : inserting[d] # NoRow /\ SameKey(inserting[d], call[c])

\* Mutant of InsertOutcome: no unique index.
InsertUnindexed(c) ==
    /\ pc[c] = "insert"
    /\ issued' = issued + 1
    /\ inserting' = [inserting EXCEPT ![c] = NewRow(c)]
    /\ Go(c, "commit", [call[c] EXCEPT !.row = NewRow(c)])
    /\ UNCHANGED <<outcomes, notes, scores, recent, acked, rival, learned>>

InsertOutcome(c) ==
    /\ pc[c] = "insert"
    /\ ~Waits(c)
    /\ IF Keyed(outcomes, call[c]) # {}
       THEN End(c, "raised", "UniqueViolation") /\ UNCHANGED <<inserting, issued>>
       ELSE /\ issued' = issued + 1
            /\ inserting' = [inserting EXCEPT ![c] = NewRow(c)]
            /\ Go(c, "commit", [call[c] EXCEPT !.row = NewRow(c)])
    /\ UNCHANGED <<outcomes, notes, scores, recent, acked, rival, learned>>

\* Mutant of CommitOutcome: the new outcome takes the place of the old ones.
CommitReplacing(c) ==
    /\ pc[c] = "commit"
    /\ outcomes' = {row \in outcomes : row.brief # call[c].brief} \cup {inserting[c]}
    /\ inserting' = [inserting EXCEPT ![c] = NoRow]
    /\ Goto(c, "learn")
    /\ UNCHANGED <<notes, scores, recent, issued, acked, rival, learned>>

CommitOutcome(c) ==
    /\ pc[c] = "commit"
    /\ outcomes' = outcomes \cup {inserting[c]}
    /\ inserting' = [inserting EXCEPT ![c] = NoRow]
    /\ Goto(c, "learn")
    /\ UNCHANGED <<notes, scores, recent, issued, acked, rival, learned>>

-----------------------------------------------------------------------------
(* maybe_recompute *)

\* psycopg decodes a JSONB column: the code is given a list.
Fetched(json) == [type |-> "list", value |-> json]

\* json.loads raises TypeError on a list, and the except clause makes it [].
Loads(column) == IF column.type = "text" THEN column.value ELSE <<>>

Weight == [accepted |-> 5, rejected |-> -10, ignored |-> 0]

LearningRows(tenant) ==
    {row \in outcomes : tenant = None \/ Briefs[row.brief].tenant = tenant}

Memories(row) == Loads(Fetched(Briefs[row.brief].memories))

\* Thousandths, within half a point.
Aggregates(rows) ==
    LET touched == UNION {{m.id : m \in ToSet(Memories(row))} : row \in rows}
        part(row, id) == FoldLeft(LAMBDA sum, m : IF m.id # id THEN sum
                                    ELSE sum + (Weight[row.verdict] * Max({m.score, 100})) \div 100,
                                  0, Memories(row))
    IN  [id \in touched |-> Max({-500, Min({500, MapThenSumSet(LAMBDA row : part(row, id), rows)})})]

\* Recently done by this process: the recompute is left out.  `recent' does
\* not say for how long, so the 300 seconds may have passed.
Learn(c) ==
    /\ pc[c] = "learn"
    /\ \/ TenantKey(call[c].tenant) \in recent[c] /\ Goto(c, "return")
       \/ LET rows == LearningRows(call[c].tenant)
          IN  Go(c, "rescore", [call[c] EXCEPT !.rows = rows, !.aggregates = Aggregates(rows)])
    /\ UNCHANGED feedback

\* DELETE, INSERT and commit: nobody sees the table in between.
Rescore(c) ==
    /\ pc[c] = "rescore"
    /\ LET key == TenantKey(call[c].tenant)
       IN  /\ scores' = [scores EXCEPT ![key] = call[c].aggregates]
           /\ recent' = [recent EXCEPT ![c] = @ \cup {key}]
           /\ learned' = [learned EXCEPT ![key] = call[c].rows]
    /\ Goto(c, "return")
    /\ UNCHANGED <<outcomes, inserting, notes, issued, acked, rival>>

Acknowledge(c) ==
    /\ pc[c] = "return"
    /\ acked' = acked \cup {[brief |-> call[c].brief, key |-> call[c].key, row |-> call[c].row]}
    /\ End(c, "ok", None)
    /\ UNCHANGED <<outcomes, inserting, notes, scores, recent, issued, rival, learned>>

FeedbackStep(c) ==
    \/ CheckBrief(c) \/ FindOutcome(c) \/ InsertOutcome(c) \/ CommitOutcome(c)
    \/ Learn(c) \/ Rescore(c) \/ Acknowledge(c)

\* Mutant of FeedbackRollback: the transaction stays open.
FeedbackLeftOpen(c) == UNCHANGED feedback

\* The rollback of an open transaction.
FeedbackRollback(c) ==
    /\ inserting' = [inserting EXCEPT ![c] = NoRow]
    /\ UNCHANGED <<outcomes, notes, scores, recent, issued, acked, rival, learned>>

-----------------------------------------------------------------------------
(* record_outcome: one UPDATE, which keeps the text it finds and appends   *)
(* the note; in SQL text appended to NULL, or NULL to text, is NULL, and   *)
(* COALESCE then falls back to the note alone                              *)

Noted(text, note) ==
    IF note = None THEN None
    ELSE IF text = None THEN <<note>> ELSE Append(text, note)

RecordOutcome(remark) ==
    /\ calls < MaxCalls
    /\ calls' = calls + 1
    /\ notes' = [notes EXCEPT ![remark.brief] = Noted(@, remark.note)]
    /\ UNCHANGED <<pc, call, answer, crashes>>
    /\ UNCHANGED <<outcomes, inserting, scores, recent, issued, acked, rival, learned>>

=============================================================================
