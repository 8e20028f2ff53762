--------------------------- MODULE Feedback_proofs ---------------------------
(***************************************************************************)
(* What holds of feedback on briefs for any number of server processes,    *)
(* callers' reports, calls and deaths.                                     *)
(***************************************************************************)
EXTENDS McpWrites, TLAPS

-----------------------------------------------------------------------------
(* Where the clients are *)

LEMMA InitCalls == Init => CallsInv
    BY DEF Init, SessionInit, FeedbackInit, QueueInit, CallsInv, Shape,
           FeedbackStages, SubmitStages, ReviewStages

\* One client moves, to a stage its call is fit for.
LEMMA MoveCalls ==
    ASSUME CallsInv, NEW c \in Clients, NEW stage, NEW args,
           pc' = [pc EXCEPT ![c] = stage], call' = [call EXCEPT ![c] = args],
           Shape(stage, args)
    PROVE  /\ DOMAIN pc' = Clients /\ DOMAIN call' = Clients
           /\ \A d \in Clients : Shape(pc'[d], call'[d])
    BY DEF CallsInv

LEMMA StepCalls == CallsInv /\ [Next]_vars => CallsInv'
    <1> SUFFICES ASSUME CallsInv, [Next]_vars PROVE CallsInv' OBVIOUS
    <1> USE DEF FeedbackStages, SubmitStages, ReviewStages
    <1>1. ASSUME NEW c \in Clients, NEW args \in Feedbacks, Feedback(c, args), UNCHANGED queue
          PROVE  CallsInv'
        <2>1. Shape("brief", FeedbackCall(args))
            BY DEF Shape, FeedbackCall
        <2> QED BY <1>1, <2>1, MoveCalls DEF Feedback, Begin, CallsInv, queue
    <1>2. ASSUME NEW c \in Clients, NEW s \in Submissions, Submit(c, s), UNCHANGED feedback
          PROVE  CallsInv'
        <2>1. Shape("enqueue", Ranking[s])
            BY DEF Shape, Ranking
        <2> QED BY <1>2, <2>1, MoveCalls DEF Submit, Begin, CallsInv, queue, feedback
    <1>3. ASSUME NEW c \in Clients, NEW tenant \in Reviewers, NEW r \in Resolutions,
                 Review(c, tenant, r), UNCHANGED feedback
          PROVE  CallsInv'
        <2>1. PICK row \in candidates :
                 Begin(c, "update", [tool |-> "review", id |-> row.id, tenant |-> tenant,
                                     resolution |-> r])
            BY <1>3 DEF Review
        <2> DEFINE args == [tool |-> "review", id |-> row.id, tenant |-> tenant, resolution |-> r]
        <2>2. Shape("update", args)
            BY DEF Shape
        <2> HIDE DEF args
        <2>3. Begin(c, "update", args)
            BY <2>1 DEF args
        <2> QED BY <1>3, <2>2, <2>3, MoveCalls DEF Review, Begin, CallsInv, queue, feedback
    <1>4. ASSUME NEW c \in Clients, FeedbackStep(c), UNCHANGED queue PROVE CallsInv'
        <2> USE DEF Shape, CallsInv, queue, feedback
        <2>1. CASE CheckBrief(c)
            BY <1>4, <2>1 DEF CheckBrief, End, Goto
        <2>2. CASE FindOutcome(c)
            BY <1>4, <2>2 DEF FindOutcome, Go, Goto
        <2>3. CASE InsertOutcome(c)
            BY <1>4, <2>3 DEF InsertOutcome, Go, End
        <2>4. CASE CommitOutcome(c)
            BY <1>4, <2>4 DEF CommitOutcome, Goto
        <2>5. CASE Learn(c)
            <3>1. pc[c] = "learn" /\ UNCHANGED feedback
                BY <2>5 DEF Learn
            <3>2. CASE Goto(c, "return")
                BY <1>4, <3>1, <3>2 DEF Goto
            <3>3. ASSUME NEW rows, NEW aggregates,
                         Go(c, "rescore", [call[c] EXCEPT !.rows = rows, !.aggregates = aggregates])
                  PROVE  CallsInv'
                BY <1>4, <3>1, <3>3 DEF Go
            <3> QED BY <2>5, <3>2, <3>3 DEF Learn
        <2>6. CASE Rescore(c)
            BY <1>4, <2>6 DEF Rescore, Goto
        <2>7. CASE Acknowledge(c)
            BY <1>4, <2>7 DEF Acknowledge, End
        <2> QED BY <1>4, <2>1, <2>2, <2>3, <2>4, <2>5, <2>6, <2>7 DEF FeedbackStep
    <1>5. ASSUME NEW c \in Clients, QueueStep(c), UNCHANGED feedback PROVE CallsInv'
        <2> USE DEF Shape, CallsInv, queue, feedback
        <2>1. CASE FindCandidate(c)
            <3>1. pc[c] = "enqueue" /\ UNCHANGED queue
                BY <2>1 DEF FindCandidate
            <3>2. CASE Goto(c, "queue")
                BY <1>5, <3>1, <3>2 DEF Goto
            <3>3. ASSUME NEW row \in candidates, Go(c, "enqueue", Enqueued(c, row.id))
                  PROVE  CallsInv'
                BY <1>5, <3>1, <3>3 DEF Go, Enqueued
            <3> QED BY <2>1, <3>2, <3>3 DEF FindCandidate
        <2>2. CASE InsertCandidate(c)
            BY <1>5, <2>2 DEF InsertCandidate, Goto, End
        <2>3. CASE CommitCandidate(c)
            BY <1>5, <2>3 DEF CommitCandidate, Go, Enqueued
        <2>4. CASE Submitted(c)
            BY <1>5, <2>4 DEF Submitted, End
        <2>5. CASE UpdateCandidate(c)
            <3>1. DOMAIN reviewing' = Clients /\ pc[c] = "update" /\ UNCHANGED queuing
                BY <2>5 DEF UpdateCandidate
            <3>2. CASE Goto(c, "commitReview")
                BY <1>5, <3>1, <3>2 DEF Goto
            <3>3. ASSUME NEW status, NEW result, End(c, status, result) PROVE CallsInv'
                BY <1>5, <3>1, <3>3 DEF End
            <3> QED BY <2>5, <3>2, <3>3 DEF UpdateCandidate
        <2>6. CASE CommitReview(c)
            BY <1>5, <2>6 DEF CommitReview, End
        <2> QED BY <1>5, <2>1, <2>2, <2>3, <2>4, <2>5, <2>6 DEF QueueStep
    <1>6. ASSUME NEW c \in Clients, Crash(c) PROVE CallsInv'
        BY <1>6 DEF Crash, Die, FeedbackRollback, QueueRollback, CallsInv, Shape
    <1>7. CASE Notes \/ UNCHANGED vars
        BY <1>7 DEF Notes, RecordOutcome, vars, session, feedback, queue, CallsInv
    <1> QED BY <1>1, <1>2, <1>3, <1>4, <1>5, <1>6, <1>7 DEF Next, Calls, Step
-----------------------------------------------------------------------------
(* What a step on the queue leaves alone *)

Elsewhere(c) ==
    /\ UNCHANGED feedback
    /\ pc[c] \notin FeedbackStages /\ pc'[c] \notin FeedbackStages
    /\ \A d \in Clients \ {c} : pc'[d] = pc[d] /\ call'[d] = call[d] /\ answer'[d] = answer[d]
    /\ answer'[c] \in {NoAnswer, answer[c]} \/ answer'[c].call.tool # "feedback"

LEMMA QueueElsewhere ==
    ASSUME CallsInv, NEW c \in Clients, UNCHANGED feedback,
           \/ \E s \in Submissions : Submit(c, s)
           \/ \E tenant \in Reviewers, r \in Resolutions : Review(c, tenant, r)
           \/ QueueStep(c)
    PROVE  Elsewhere(c)
    <1> USE DEF CallsInv, Elsewhere, FeedbackStages, SubmitStages, ReviewStages
    <1>1. CASE \E s \in Submissions : Submit(c, s)
        BY <1>1 DEF Submit, Begin
    <1>2. CASE \E tenant \in Reviewers, r \in Resolutions : Review(c, tenant, r)
        BY <1>2 DEF Review, Begin
    <1>3. CASE QueueStep(c)
        <2>1. pc[c] \in SubmitStages \cup ReviewStages
            BY <1>3 DEF QueueStep, FindCandidate, InsertCandidate, CommitCandidate, Submitted,
                        UpdateCandidate, CommitReview
        <2>2. call[c].tool \in {"submit", "review"}
            BY <2>1 DEF Shape
        <2>3. \/ \E stage \in SubmitStages \cup ReviewStages :
                   Goto(c, stage) \/ \E locals : Go(c, stage, locals)
              \/ \E status, result : End(c, status, result)
            BY <1>3 DEF QueueStep, FindCandidate, InsertCandidate, CommitCandidate, Submitted,
                        UpdateCandidate, CommitReview
        <2> QED BY <2>1, <2>2, <2>3 DEF Goto, Go, End
    <1> QED BY <1>1, <1>2, <1>3

-----------------------------------------------------------------------------
(* Rows *)

LEMMA InitRows == Init => RowsInv
    BY DEF Init, SessionInit, FeedbackInit, RowsInv, FeedbackStages

\* A new row takes the next id, and says what its call says.
LEMMA StepRows == CallsInv /\ RowsInv /\ [Next]_vars => RowsInv'
    <1> SUFFICES ASSUME CallsInv, RowsInv, [Next]_vars PROVE RowsInv' OBVIOUS
    <1> USE DEF RowsInv, CallsInv, FeedbackStages
    <1>1. ASSUME NEW c \in Clients, NEW args \in Feedbacks, Feedback(c, args)
          PROVE  RowsInv'
        BY <1>1 DEF Feedback, Begin, Rows
    <1>2. ASSUME NEW c \in Clients, Elsewhere(c) PROVE RowsInv'
        BY <1>2 DEF Elsewhere, feedback, Rows
    <1>3. ASSUME NEW c \in Clients, CheckBrief(c) PROVE RowsInv'
        BY <1>3 DEF CheckBrief, End, Goto, feedback, Rows
    <1>4. ASSUME NEW c \in Clients, FindOutcome(c) PROVE RowsInv'
        BY <1>4 DEF FindOutcome, Go, Goto, Keyed, SameKey, feedback, Rows, Shape
    <1>5. ASSUME NEW c \in Clients, InsertOutcome(c) PROVE RowsInv'
        BY <1>5 DEF InsertOutcome, Go, End, NewRow, Rows, NoRow, Said, Shape
    <1>6. ASSUME NEW c \in Clients, CommitOutcome(c) PROVE RowsInv'
        BY <1>6 DEF CommitOutcome, Goto, Rows
    <1>7. ASSUME NEW c \in Clients, Learn(c) PROVE RowsInv'
        <2>1. pc[c] = "learn" /\ UNCHANGED feedback
            BY <1>7 DEF Learn
        <2>2. CASE Goto(c, "return")
            BY <2>1, <2>2 DEF Goto, feedback, Rows
        <2>3. ASSUME NEW rows, NEW aggregates,
                     Go(c, "rescore", [call[c] EXCEPT !.rows = rows, !.aggregates = aggregates])
              PROVE  RowsInv'
            BY <2>1, <2>3 DEF Go, feedback, Rows, Shape
        <2> QED BY <1>7, <2>2, <2>3 DEF Learn
    <1>8. ASSUME NEW c \in Clients, Rescore(c) PROVE RowsInv'
        BY <1>8 DEF Rescore, Goto, Rows
    <1>9. ASSUME NEW c \in Clients, Acknowledge(c) PROVE RowsInv'
        BY <1>9 DEF Acknowledge, End, Rows
    <1>10. ASSUME NEW c \in Clients, Crash(c) PROVE RowsInv'
        BY <1>10 DEF Crash, Die, FeedbackRollback, Rows
    <1>11. CASE Notes \/ UNCHANGED vars
        BY <1>11 DEF Notes, RecordOutcome, vars, session, feedback, Rows
    <1> QED BY <1>1, <1>2, <1>3, <1>4, <1>5, <1>6, <1>7, <1>8, <1>9, <1>10, <1>11, QueueElsewhere
            DEF Next, Calls, Step, FeedbackStep

-----------------------------------------------------------------------------
(* The indices *)

LEMMA InitNoClash == Init => NoClash
    BY DEF Init, SessionInit, FeedbackInit, NoClash, Inserters

\* Only InsertOutcome brings in a row: the sequence gives it an id of its own,
\* and the index a key of its own.
LEMMA StepNoClash == CallsInv /\ RowsInv /\ NoClash /\ [Next]_vars => NoClash'
    <1> SUFFICES ASSUME CallsInv, RowsInv, NoClash, [Next]_vars PROVE NoClash' OBVIOUS
    <1> USE DEF CallsInv, NoClash, Inserters, FeedbackStages
    <1>1. ASSUME NEW c \in Clients, InsertOutcome(c) PROVE NoClash'
        <2>1. CASE UNCHANGED <<outcomes, inserting>> /\ pc' = [pc EXCEPT ![c] = "idle"]
            BY <2>1
        <2>2. CASE inserting' = [inserting EXCEPT ![c] = NewRow(c)] /\ ~Waits(c)
                   /\ Keyed(outcomes, call[c]) = {} /\ pc' = [pc EXCEPT ![c] = "commit"]
            <3>1. UNCHANGED outcomes
                BY <1>1 DEF InsertOutcome
            <3>2. \A x \in outcomes : ~Clash(x, NewRow(c))
                BY <2>2 DEF RowsInv, Rows, Clash, NewRow, Keyed, SameKey
            <3>3. \A d \in Inserters \ {c} : /\ ~Clash(inserting[d], NewRow(c))
                                            /\ ~Clash(NewRow(c), inserting[d])
                BY <2>2 DEF RowsInv, Rows, Clash, NewRow, Waits, SameKey
            <3> QED BY <2>2, <3>1, <3>2, <3>3
        <2> QED BY <1>1, <2>1, <2>2 DEF InsertOutcome, End, Go
    <1>2. ASSUME NEW c \in Clients, CommitOutcome(c) PROVE NoClash'
        <2>1. /\ pc[c] = "commit" /\ outcomes' = outcomes \cup {inserting[c]}
              /\ pc' = [pc EXCEPT ![c] = "learn"] /\ inserting' = [inserting EXCEPT ![c] = NoRow]
            BY <1>2 DEF CommitOutcome, Goto
        <2>2. \A x \in outcomes : ~Clash(inserting[c], x)
            BY <2>1 DEF Clash, SameKey
        <2>3. \A d \in Inserters \ {c} : ~Clash(inserting[c], inserting[d])
            BY <2>1
        <2> QED BY <2>1, <2>2, <2>3
    <1>3. ASSUME NEW c \in Clients, Crash(c) PROVE NoClash'
        BY <1>3 DEF Crash, Die, FeedbackRollback
    <1>4. ASSUME NEW c \in Clients, Elsewhere(c) PROVE NoClash'
        BY <1>4 DEF Elsewhere, feedback
    <1>5. ASSUME NEW c \in Clients,
                 \/ \E args \in Feedbacks : Feedback(c, args)
                 \/ CheckBrief(c) \/ FindOutcome(c) \/ Learn(c) \/ Rescore(c) \/ Acknowledge(c)
          PROVE  NoClash'
        <2>1. UNCHANGED <<outcomes, inserting>>
            BY <1>5 DEF Feedback, CheckBrief, FindOutcome, Learn, Rescore, Acknowledge, feedback
        <2>2. \E stage \in FeedbackStages \cup {"idle"} :
                 stage # "commit" /\ pc' = [pc EXCEPT ![c] = stage]
            BY <1>5 DEF Feedback, CheckBrief, FindOutcome, Learn, Rescore, Acknowledge,
                        Begin, End, Go, Goto
        <2> QED BY <2>1, <2>2
    <1>6. CASE Notes \/ UNCHANGED vars
        BY <1>6 DEF Notes, RecordOutcome, vars, session, feedback
    <1> QED BY <1>1, <1>2, <1>3, <1>4, <1>5, <1>6, QueueElsewhere
            DEF Next, Calls, Step, FeedbackStep

-----------------------------------------------------------------------------
(* Rivals *)

LEMMA InitRival == Init => RivalInv
    BY DEF Init, SessionInit, FeedbackInit, RivalInv, RaisesOnlyAgainstRival, NoAnswer,
           FeedbackStages

\* What a call sees of the others' calls it was told when it began, or when
\* they did; and who commits a row of its key is one of them.
LEMMA StepRival == CallsInv /\ RowsInv /\ RivalInv /\ [Next]_vars => RivalInv'
    <1> SUFFICES ASSUME CallsInv, RowsInv, RivalInv, [Next]_vars PROVE RivalInv' OBVIOUS
    <1> USE DEF CallsInv, RivalInv, RaisesOnlyAgainstRival, FeedbackStages
    <1>1. ASSUME NEW c \in Clients, NEW args \in Feedbacks, Feedback(c, args)
          PROVE  RivalInv'
        <2>1. /\ pc' = [pc EXCEPT ![c] = "brief"] /\ call' = [call EXCEPT ![c] = FeedbackCall(args)]
              /\ answer' = [answer EXCEPT ![c] = NoAnswer] /\ UNCHANGED outcomes
            BY <1>1 DEF Feedback, Begin
        <2>2. rival' = [d \in Clients |-> IF d = c THEN HasRival(c, args)
                                         ELSE rival[d] \/ (pc[d] # "idle" /\ call[d].tool = "feedback"
                                                           /\ SameKey(call[d], args))]
            BY <1>1 DEF Feedback
        <2>3. \A d \in Clients \ {c} :
                 pc[d] \in FeedbackStages /\ SameKey(call[d], FeedbackCall(args)) => rival'[c]
            BY <2>2 DEF HasRival, SameKey, FeedbackCall, Shape
        <2>4. \A d \in Clients \ {c} :
                 pc[d] \in FeedbackStages /\ SameKey(FeedbackCall(args), call[d]) => rival'[d]
            BY <2>2 DEF SameKey, FeedbackCall, Shape
        <2>5. \A d \in Clients \ {c} : rival[d] => rival'[d]
            BY <2>2
        <2> QED BY <2>1, <2>3, <2>4, <2>5 DEF NoAnswer
    <1>2. ASSUME NEW c \in Clients, Elsewhere(c) PROVE RivalInv'
        BY <1>2 DEF Elsewhere, feedback, NoAnswer
    <1>3. ASSUME NEW c \in Clients, CheckBrief(c) PROVE RivalInv'
        BY <1>3 DEF CheckBrief, End, Goto, feedback, Keyed, SameKey
    <1>4. ASSUME NEW c \in Clients, FindOutcome(c) PROVE RivalInv'
        BY <1>4 DEF FindOutcome, Go, Goto, feedback, SameKey, Shape
    <1>5. ASSUME NEW c \in Clients, InsertOutcome(c) PROVE RivalInv'
        BY <1>5 DEF InsertOutcome, Go, End, SameKey, Shape
    <1>6. ASSUME NEW c \in Clients, CommitOutcome(c) PROVE RivalInv'
        <2>1. /\ pc[c] = "commit" /\ pc' = [pc EXCEPT ![c] = "learn"]
              /\ outcomes' = outcomes \cup {inserting[c]} /\ UNCHANGED <<call, answer, rival>>
            BY <1>6 DEF CommitOutcome, Goto
        <2>2. inserting[c].brief = call[c].brief /\ inserting[c].key = call[c].key
            BY <2>1 DEF RowsInv
        <2>3. ASSUME NEW d \in Clients \ {c}, pc[d] = "insert", Keyed(outcomes', call[d]) # {}
              PROVE  rival[d]
            BY <2>1, <2>2, <2>3 DEF Keyed, SameKey
        <2> QED BY <2>1, <2>3
    <1>7. ASSUME NEW c \in Clients, Learn(c) PROVE RivalInv'
        <2>1. pc[c] = "learn" /\ UNCHANGED feedback
            BY <1>7 DEF Learn
        <2>2. CASE Goto(c, "return")
            BY <2>1, <2>2 DEF Goto, feedback
        <2>3. ASSUME NEW rows, NEW aggregates,
                     Go(c, "rescore", [call[c] EXCEPT !.rows = rows, !.aggregates = aggregates])
              PROVE  RivalInv'
            BY <2>1, <2>3 DEF Go, feedback, Shape, SameKey
        <2> QED BY <1>7, <2>2, <2>3 DEF Learn
    <1>8. ASSUME NEW c \in Clients, Rescore(c) PROVE RivalInv'
        BY <1>8 DEF Rescore, Goto
    <1>9. ASSUME NEW c \in Clients, Acknowledge(c) PROVE RivalInv'
        BY <1>9 DEF Acknowledge, End
    <1>10. ASSUME NEW c \in Clients, Crash(c) PROVE RivalInv'
        BY <1>10 DEF Crash, Die, FeedbackRollback
    <1>11. CASE Notes \/ UNCHANGED vars
        BY <1>11 DEF Notes, RecordOutcome, vars, session, feedback
    <1> QED BY <1>1, <1>2, <1>3, <1>4, <1>5, <1>6, <1>7, <1>8, <1>9, <1>10, <1>11, QueueElsewhere
            DEF Next, Calls, Step, FeedbackStep

-----------------------------------------------------------------------------
(* The theorems *)

\* What is checked as an invariant for a few calls is inductive.
THEOREM FeedbackInvariant == Spec => []FeedbackIInv
    <1>1. Init => FeedbackIInv
        BY InitCalls, InitRows, InitNoClash, InitRival DEF FeedbackIInv
    <1>2. FeedbackIInv /\ [Next]_vars => FeedbackIInv'
        BY StepCalls, StepRows, StepNoClash, StepRival DEF FeedbackIInv
    <1> QED BY <1>1, <1>2, PTL DEF Spec

\* All calls with one idempotency key that return name one stored outcome
\* (outcome_repository.py:36-45).
THEOREM OneOutcome == Spec => []OneOutcomePerKey
    <1>1. RowsInv /\ NoClash => OneOutcomePerKey
        BY DEF RowsInv, NoClash, Clash, SameKey, OneOutcomePerKey
    <1> QED BY <1>1, FeedbackInvariant, PTL DEF FeedbackIInv

\* A call raises for its key only against a call that was under way
\* (outcome_repository.py:38-40).
THEOREM RaiseNeedsRival == Spec => []RaisesOnlyAgainstRival
    <1>1. FeedbackIInv => RaisesOnlyAgainstRival
        BY DEF FeedbackIInv, RivalInv
    <1> QED BY <1>1, FeedbackInvariant, PTL

-----------------------------------------------------------------------------
(* The log *)

LEMMA InitLog == Init => Log!Init
    BY DEF Init, FeedbackInit, Log!Init

\* CommitOutcome records, Acknowledge tells, and nothing else shows.
LEMMA StepLog == FeedbackIInv /\ [Next]_vars => [Log!Next]_<<outcomes, acked>>
    <1> SUFFICES ASSUME FeedbackIInv, [Next]_vars PROVE [Log!Next]_<<outcomes, acked>> OBVIOUS
    <1>1. ASSUME NEW c \in Clients, CommitOutcome(c) PROVE Log!Next
        <2> DEFINE row == inserting[c]
        <2>1. outcomes' = outcomes \cup {row} /\ UNCHANGED acked /\ c \in Inserters
            BY <1>1 DEF CommitOutcome, Inserters
        <2>2. row \in [id : Nat, brief : DOMAIN Briefs, tenant : Said("tenant"),
                       verdict : Said("verdict"), key : Said("key")]
            BY <2>1 DEF Inserters, FeedbackIInv, RowsInv, Rows
        <2>3. \A old \in outcomes : ~Clash(old, row)
            BY <2>1 DEF FeedbackIInv, NoClash
        <2> HIDE DEF row
        <2>4. Log!Record(row)
            BY <2>1, <2>2, <2>3 DEF Log!Record, Clash, SameKey
        <2> QED BY <2>1, <2>4 DEF Log!Next
    <1>2. ASSUME NEW c \in Clients, Acknowledge(c) PROVE Log!Next
        <2> DEFINE row == call[c].row
        <2>1. row \in outcomes /\ row.brief = call[c].brief /\ row.key = call[c].key
            BY <1>2 DEF Acknowledge, FeedbackIInv, RowsInv
        <2>2. /\ acked' = acked \cup {[brief |-> row.brief, key |-> row.key, row |-> row]}
              /\ UNCHANGED outcomes
            BY <1>2, <2>1 DEF Acknowledge
        <2> HIDE DEF row
        <2> QED BY <2>1, <2>2 DEF Log!Next, Log!Tell
    <1>3. CASE UNCHANGED <<outcomes, acked>>
        BY <1>3
    <1>4. ASSUME NEW c \in Clients, Calls(c) \/ Step(c) \/ Crash(c),
                 ~CommitOutcome(c), ~Acknowledge(c)
          PROVE  UNCHANGED <<outcomes, acked>>
        BY <1>4 DEF Calls, Step, Crash, feedback, Feedback, FeedbackStep, FeedbackRollback,
                    CheckBrief, FindOutcome, InsertOutcome, Learn, Rescore
    <1>5. ASSUME NEW remark \in Remarks, RecordOutcome(remark)
          PROVE  UNCHANGED <<outcomes, acked>>
        BY <1>5 DEF RecordOutcome
    <1> QED BY <1>1, <1>2, <1>3, <1>4, <1>5 DEF Next, Notes, vars, feedback

\* The statements of feedback calls, however they interleave, implement the
\* log with one entry for each key of a brief (outcome_repository.py:36-45,
\* 102-140).
THEOREM FeedbackImplementsLog == Spec => ImplementsLog
    BY InitLog, StepLog, FeedbackInvariant, PTL DEF Spec, ImplementsLog, Log!Spec

=============================================================================
