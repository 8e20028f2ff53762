---------------------------- MODULE Queue_proofs ----------------------------
(***************************************************************************)
(* What holds of the queue of constraint candidates for any number of      *)
(* server processes, submissions, reviews, calls and deaths.               *)
(***************************************************************************)
EXTENDS Feedback_proofs, SetInduction

-----------------------------------------------------------------------------
(* What a step on feedback leaves alone *)

Aside(c) ==
    /\ UNCHANGED queue
    /\ pc[c] \notin SubmitStages \cup ReviewStages
    /\ pc'[c] \notin SubmitStages \cup ReviewStages
    /\ \A d \in Clients \ {c} : pc'[d] = pc[d] /\ call'[d] = call[d] /\ answer'[d] = answer[d]
    /\ answer'[c] \in {NoAnswer, answer[c]} \/ answer'[c].call.tool = "feedback"

LEMMA FeedbackAside ==
    ASSUME CallsInv, NEW c \in Clients, UNCHANGED queue,
           (\E args \in Feedbacks : Feedback(c, args)) \/ FeedbackStep(c)
    PROVE  Aside(c)
    <1> USE DEF CallsInv, Aside, FeedbackStages, SubmitStages, ReviewStages
    <1>1. CASE \E args \in Feedbacks : Feedback(c, args)
        BY <1>1 DEF Feedback, Begin
    <1>2. CASE FeedbackStep(c)
        <2>1. pc[c] \in FeedbackStages
            BY <1>2 DEF FeedbackStep, CheckBrief, FindOutcome, InsertOutcome, CommitOutcome,
                        Learn, Rescore, Acknowledge
        <2>2. call[c].tool = "feedback"
            BY <2>1 DEF Shape
        <2>3. \/ \E stage \in FeedbackStages : Goto(c, stage) \/ \E locals : Go(c, stage, locals)
              \/ \E status, result : End(c, status, result)
            BY <1>2 DEF FeedbackStep, CheckBrief, FindOutcome, InsertOutcome, CommitOutcome,
                        Learn, Rescore, Acknowledge
        <2> QED BY <2>1, <2>2, <2>3 DEF Goto, Go, End
    <1> QED BY <1>1, <1>2

-----------------------------------------------------------------------------
(* Candidate rows *)

LEMMA InitCandidates == Init => CandidatesInv
    BY DEF Init, SessionInit, QueueInit, CandidatesInv

\* A review writes two fields of the row.
LEMMA ResolvedRow ==
    ASSUME NEW row, NEW r, Candidate(row)
    PROVE  Resolved(row, r) = [id |-> row.id, brief |-> row.brief, hypothesis |-> row.hypothesis,
                               target |-> row.target, tenant |-> row.tenant,
                               status |-> r.status, promoted |-> r.promoted]
    <1>1. DOMAIN row = {"id", "brief", "hypothesis", "target", "tenant", "status", "promoted"}
        BY DEF Candidate
    <1> DEFINE new == Resolved(row, r)
    <1>2. /\ DOMAIN new = DOMAIN row /\ new = [x \in DOMAIN new |-> new[x]]
          /\ new.id = row.id /\ new.brief = row.brief /\ new.hypothesis = row.hypothesis
          /\ new.target = row.target /\ new.tenant = row.tenant
          /\ new.status = r.status /\ new.promoted = r.promoted
        BY <1>1 DEF Resolved
    <1> HIDE DEF new
    <1>3. new = [id |-> new.id, brief |-> new.brief, hypothesis |-> new.hypothesis,
                 target |-> new.target, tenant |-> new.tenant,
                 status |-> new.status, promoted |-> new.promoted]
        BY <1>1, <1>2
    <1> QED BY <1>2, <1>3 DEF new

LEMMA StepCandidates == CallsInv /\ CandidatesInv /\ [Next]_vars => CandidatesInv'
    <1> SUFFICES ASSUME CallsInv, CandidatesInv, [Next]_vars PROVE CandidatesInv' OBVIOUS
    <1> USE DEF CallsInv, CandidatesInv, SubmitStages, ReviewStages
    <1>1. ASSUME NEW c \in Clients, Aside(c) PROVE CandidatesInv'
        BY <1>1 DEF Aside, queue, Candidate, SameSource
    <1>2. ASSUME NEW c \in Clients, NEW s \in Submissions, Submit(c, s) PROVE CandidatesInv'
        BY <1>2 DEF Submit, Begin, queue, Candidate, SameSource
    <1>3. ASSUME NEW c \in Clients, NEW tenant \in Reviewers, NEW r \in Resolutions,
                 Review(c, tenant, r)
          PROVE  CandidatesInv'
        BY <1>3 DEF Review, Begin, queue, Candidate, SameSource
    <1>4. ASSUME NEW c \in Clients, FindCandidate(c) PROVE CandidatesInv'
        <2>1. pc[c] = "enqueue" /\ UNCHANGED queue
            BY <1>4 DEF FindCandidate
        <2>2. \/ Goto(c, "queue") \/ \E row \in candidates : Go(c, "enqueue", Enqueued(c, row.id))
            BY <1>4 DEF FindCandidate
        <2> QED BY <2>1, <2>2 DEF Goto, Go, queue, Candidate, SameSource
    <1>5. ASSUME NEW c \in Clients, InsertCandidate(c) PROVE CandidatesInv'
        <2>1. pc[c] = "queue" /\ UNCHANGED <<candidates, reviewing, verdicts>>
            BY <1>5 DEF InsertCandidate
        <2>2. CASE End(c, "raised", "UniqueViolation") /\ UNCHANGED <<queuing, drawn>>
            BY <2>1, <2>2 DEF End, Candidate, SameSource
        <2>3. CASE /\ drawn' = drawn + 1 /\ queuing' = [queuing EXCEPT ![c] = NewCandidate(c)]
                   /\ Goto(c, "commitQueue")
            <3>0. PICK new : new = NewCandidate(c)
                OBVIOUS
            <3>1. queuing'[c] = new /\ new # NoCandidate
                BY <2>3, <3>0 DEF NewCandidate, NoCandidate
            <3>2. Candidate(new)' /\ SameSource(new, c)'
                BY <2>3, <3>0, <3>1 DEF Candidate, SameSource, Goto, Statuses, NewCandidate
            <3>3. [status |-> new.status, promoted |-> new.promoted] = Unreviewed
                BY <3>0 DEF Unreviewed, NewCandidate
            <3>4. \A row : Candidate(row) => Candidate(row)'
                BY <2>3 DEF Candidate
            <3> QED BY <2>1, <2>3, <3>1, <3>2, <3>3, <3>4 DEF Goto, SameSource
        <2> QED BY <1>5, <2>2, <2>3 DEF InsertCandidate
    <1>6. ASSUME NEW c \in Clients, CommitCandidate(c) PROVE CandidatesInv'
        BY <1>6 DEF CommitCandidate, Go, Candidate, SameSource
    <1>7. ASSUME NEW c \in Clients, Submitted(c) PROVE CandidatesInv'
        BY <1>7 DEF Submitted, End, queue, Candidate, SameSource
    <1>8. ASSUME NEW c \in Clients, UpdateCandidate(c) PROVE CandidatesInv'
        BY <1>8 DEF UpdateCandidate, Goto, End, Candidate, SameSource
    <1>9. ASSUME NEW c \in Clients, CommitReview(c) PROVE CandidatesInv'
        <2>1. /\ pc[c] = "commitReview" /\ UNCHANGED <<queuing, drawn>>
              /\ reviewing' = [reviewing EXCEPT ![c] = 0] /\ End(c, "ok", TRUE)
              /\ DOMAIN verdicts' = DOMAIN verdicts
            BY <1>9 DEF CommitReview
        <2>2. candidates' = {IF row.id = reviewing[c] THEN Resolved(row, call[c].resolution)
                             ELSE row : row \in candidates}
            BY <1>9 DEF CommitReview
        <2>3. \A row \in candidates : /\ Candidate(Resolved(row, call[c].resolution))
                                     /\ Resolved(row, call[c].resolution).id = row.id
            <3> TAKE row \in candidates
            <3>1. call[c].resolution.status \in Statuses
                BY <2>1
            <3>2. Resolved(row, call[c].resolution) =
                     [id |-> row.id, brief |-> row.brief, hypothesis |-> row.hypothesis,
                      target |-> row.target, tenant |-> row.tenant,
                      status |-> call[c].resolution.status,
                      promoted |-> call[c].resolution.promoted]
                BY ResolvedRow
            <3> QED BY <3>1, <3>2 DEF Candidate
        <2>4. {row.id : row \in candidates'} = {row.id : row \in candidates}
            BY <2>2, <2>3
        <2>5. \A row \in candidates' : Candidate(row)'
            BY <2>1, <2>2, <2>3 DEF Candidate
        <2> QED BY <2>1, <2>4, <2>5 DEF End, Candidate, SameSource
    <1>10. ASSUME NEW c \in Clients, Crash(c) PROVE CandidatesInv'
        BY <1>10 DEF Crash, Die, QueueRollback, Candidate, SameSource
    <1>11. CASE Notes \/ UNCHANGED vars
        BY <1>11 DEF Notes, RecordOutcome, vars, session, queue, Candidate, SameSource
    <1> QED BY <1>1, <1>2, <1>3, <1>4, <1>5, <1>6, <1>7, <1>8, <1>9, <1>10, <1>11, FeedbackAside
            DEF Next, Calls, Step, QueueStep

-----------------------------------------------------------------------------
(* What becomes of the stored rows *)

SameRow(x, y) == /\ x.id = y.id /\ x.brief = y.brief
                 /\ x.hypothesis = y.hypothesis /\ x.tenant = y.tenant

\* A review changes neither the number of rows nor what they are rows of.
LEMMA ReviewedRows ==
    ASSUME CandidatesInv, NEW c \in Clients, CommitReview(c)
    PROVE  \E After \in [candidates -> candidates'] :
              /\ candidates' = {After[row] : row \in candidates}
              /\ \A row \in candidates :
                   /\ SameRow(After[row], row)
                   /\ row.id # reviewing[c] => After[row] = row
                   /\ row.id = reviewing[c] =>
                        After[row].status = call[c].resolution.status
                          /\ After[row].promoted = call[c].resolution.promoted
    <1> DEFINE After == [row \in candidates |->
                           IF row.id = reviewing[c] THEN Resolved(row, call[c].resolution) ELSE row]
    <1>1. candidates' = {After[row] : row \in candidates}
        BY DEF CommitReview
    <1>2. After \in [candidates -> candidates']
        BY <1>1
    <1>3. ASSUME NEW row \in candidates
          PROVE  /\ SameRow(After[row], row)
                 /\ row.id # reviewing[c] => After[row] = row
                 /\ row.id = reviewing[c] =>
                      After[row].status = call[c].resolution.status
                        /\ After[row].promoted = call[c].resolution.promoted
        BY ResolvedRow DEF CandidatesInv, SameRow
    <1> HIDE DEF After
    <1> QED BY <1>1, <1>2, <1>3

\* No step but a commit of a submission or of a review touches the table.
LEMMA OthersKeepRows ==
    ASSUME NEW c \in Clients, Calls(c) \/ Step(c) \/ Crash(c),
           ~CommitCandidate(c), ~CommitReview(c)
    PROVE  UNCHANGED <<candidates, verdicts>>
    BY DEF Calls, Step, Crash, queue, Submit, Review, QueueStep, FindCandidate, InsertCandidate,
           Submitted, UpdateCandidate, QueueRollback

\* A stored row stays, and a new one is what its transaction wrote.
LEMMA RowsStay ==
    ASSUME CandidatesInv, [Next]_vars
    PROVE  /\ \A row \in candidates : \E now \in candidates' : SameRow(now, row)
           /\ \A now \in candidates' : \/ \E row \in candidates : SameRow(now, row)
                                       \/ \E c \in Queuers : now = queuing[c]
    <1>1. ASSUME NEW c \in Clients, CommitReview(c)
          PROVE  /\ \A row \in candidates : \E now \in candidates' : SameRow(now, row)
                 /\ \A now \in candidates' : \E row \in candidates : SameRow(now, row)
        BY <1>1, ReviewedRows
    <1>2. ASSUME NEW c \in Clients, CommitCandidate(c)
          PROVE  c \in Queuers /\ candidates' = candidates \cup {queuing[c]}
        BY <1>2 DEF CommitCandidate, Queuers
    <1>3. CASE UNCHANGED candidates
        BY <1>3 DEF SameRow
    <1>4. Notes \/ UNCHANGED vars => UNCHANGED candidates
        BY DEF Notes, vars, queue
    <1> QED BY <1>1, <1>2, <1>3, <1>4, OthersKeepRows DEF Next, SameRow

-----------------------------------------------------------------------------
(* The indices *)

LEMMA InitNoTwins == Init => NoTwins
    BY DEF Init, SessionInit, QueueInit, NoTwins, Queuers

LEMMA StepNoTwins == CallsInv /\ CandidatesInv /\ NoTwins /\ [Next]_vars => NoTwins'
    <1> SUFFICES ASSUME CallsInv, CandidatesInv, NoTwins, [Next]_vars PROVE NoTwins' OBVIOUS
    <1> USE DEF CallsInv, NoTwins, Queuers, SubmitStages, ReviewStages
    <1>1. ASSUME NEW c \in Clients, InsertCandidate(c) PROVE NoTwins'
        <2>1. pc[c] = "queue" /\ UNCHANGED candidates
            BY <1>1 DEF InsertCandidate
        <2>2. CASE pc' = [pc EXCEPT ![c] = "idle"] /\ UNCHANGED queuing
            BY <2>1, <2>2
        <2>3. CASE /\ pc' = [pc EXCEPT ![c] = "commitQueue"]
                   /\ queuing' = [queuing EXCEPT ![c] = NewCandidate(c)]
                   /\ \A row \in candidates : ~SameSource(row, c)
            <3>1. PICK new : new = NewCandidate(c)
                OBVIOUS
            <3>2. ASSUME NEW x \in candidates PROVE ~Twins(x, new)
                BY <2>3, <3>1 DEF CandidatesInv, Candidate, NewCandidate, Twins, SameSource, NoCandidate
            <3>3. ASSUME NEW d \in Clients \ {c}, pc[d] = "commitQueue"
                  PROVE  ~Twins(queuing[d], new) /\ ~Twins(new, queuing[d])
                BY <1>1, <3>1, <3>3
                   DEF InsertCandidate, CandidatesInv, Candidate, NewCandidate, Twins, SameSource
            <3> QED BY <2>1, <2>3, <3>1, <3>2, <3>3
        <2> QED BY <1>1, <2>2, <2>3 DEF InsertCandidate, End, Goto
    <1>2. ASSUME NEW c \in Clients, CommitCandidate(c) PROVE NoTwins'
        <2>1. /\ pc[c] = "commitQueue" /\ candidates' = candidates \cup {queuing[c]}
              /\ pc' = [pc EXCEPT ![c] = "enqueue"] /\ queuing' = [queuing EXCEPT ![c] = NoCandidate]
            BY <1>2 DEF CommitCandidate, Go
        <2>2. \A x \in candidates : ~Twins(queuing[c], x)
            BY <2>1 DEF Twins
        <2>3. \A d \in Queuers \ {c} : ~Twins(queuing[c], queuing[d])
            BY <2>1
        <2> QED BY <2>1, <2>2, <2>3
    <1>3. ASSUME NEW c \in Clients, CommitReview(c) PROVE NoTwins'
        <2>1. PICK After \in [candidates -> candidates'] :
                 /\ candidates' = {After[row] : row \in candidates}
                 /\ \A row \in candidates : SameRow(After[row], row)
            BY <1>3, ReviewedRows
        <2>2. /\ pc[c] = "commitReview" /\ pc' = [pc EXCEPT ![c] = "idle"] /\ UNCHANGED queuing
            BY <1>3 DEF CommitReview, End
        <2>3. ASSUME NEW x \in candidates, NEW y
              PROVE  /\ Twins(After[x], y) <=> Twins(x, y)
                     /\ Twins(y, After[x]) <=> Twins(y, x)
            BY <2>1 DEF SameRow, Twins
        <2> QED BY <2>1, <2>2, <2>3
    <1>4. ASSUME NEW c \in Clients, Crash(c) PROVE NoTwins'
        BY <1>4 DEF Crash, Die, QueueRollback
    <1>5. ASSUME NEW c \in Clients, Aside(c) PROVE NoTwins'
        BY <1>5 DEF Aside, queue
    <1>6. ASSUME NEW c \in Clients,
                 \/ \E s \in Submissions : Submit(c, s)
                 \/ \E tenant \in Reviewers, r \in Resolutions : Review(c, tenant, r)
                 \/ FindCandidate(c) \/ Submitted(c) \/ UpdateCandidate(c)
          PROVE  NoTwins'
        <2>1. UNCHANGED <<candidates, queuing>>
            BY <1>6 DEF Submit, Review, FindCandidate, Submitted, UpdateCandidate, queue
        <2>2. \E stage \in SubmitStages \cup ReviewStages \cup {"idle"} :
                 stage # "commitQueue" /\ pc' = [pc EXCEPT ![c] = stage]
            BY <1>6 DEF Submit, Review, FindCandidate, Submitted, UpdateCandidate,
                        Begin, End, Go, Goto
        <2> QED BY <2>1, <2>2
    <1>7. CASE Notes \/ UNCHANGED vars
        BY <1>7 DEF Notes, RecordOutcome, vars, session, queue
    <1> QED BY <1>1, <1>2, <1>3, <1>4, <1>5, <1>6, <1>7, FeedbackAside
            DEF Next, Calls, Step, QueueStep

-----------------------------------------------------------------------------
(* The loop of a submission *)

\* Known is a function defined by recursion: a first induction gives its
\* values up to any place, so that the equation that defines it has a
\* solution, a second one says what the chosen solution is.
LEMMA KnownIsSeq ==
    ASSUME NEW X, NEW ids \in Seq(X), NEW S
    PROVE  Known(ids, S) \in Seq(X)
    <1> DEFINE n == Len(ids)
               next(prev, i) == IF ids[i] \in S THEN Append(prev, ids[i]) ELSE prev
               Steps(f, k) == \A i \in 0 .. k : f[i] = IF i = 0 THEN <<>> ELSE next(f[i - 1], i)
               Can(k) == k > n \/ \E f \in [0 .. k -> Seq(X)] : Steps(f, k)
               Reach == {k \in Nat : Can(k)}
    <1>0. n \in Nat /\ \A i \in 1 .. n : ids[i] \in X
        OBVIOUS
    <1>1. \A s \in Seq(X), i \in 1 .. n : next(s, i) \in Seq(X)
        BY <1>0
    <1>2. 0 \in Reach
        <2> DEFINE f == [i \in 0 .. 0 |-> <<>>]
        <2>1. f \in [0 .. 0 -> Seq(X)] /\ Steps(f, 0)
            OBVIOUS
        <2> QED BY <2>1
    <1>3. ASSUME NEW k \in Reach PROVE k + 1 \in Reach
        <2>1. ASSUME k + 1 > n PROVE Can(k + 1)
            BY <2>1
        <2>2. ASSUME k + 1 <= n PROVE Can(k + 1)
            <3>1. PICK f \in [0 .. k -> Seq(X)] : Steps(f, k)
                BY <1>0, <2>2
            <3> DEFINE g == [i \in 0 .. k + 1 |-> IF i = k + 1 THEN next(f[k], k + 1) ELSE f[i]]
            <3>2. next(f[k], k + 1) \in Seq(X)
                BY <1>0, <1>1, <2>2
            <3> HIDE DEF next
            <3>3. g \in [0 .. k + 1 -> Seq(X)]
                BY <3>2
            <3>4. Steps(g, k + 1)
                <4> TAKE i \in 0 .. k + 1
                <4>1. CASE i = k + 1
                    BY <4>1
                <4>2. CASE i \in 0 .. k
                    BY <3>1, <4>2
                <4> QED BY <4>1, <4>2
            <3> HIDE DEF Steps, g
            <3>5. \E h \in [0 .. k + 1 -> Seq(X)] : Steps(h, k + 1)
                BY <3>3, <3>4
            <3> QED BY <3>5
        <2> HIDE DEF Can, n
        <2> QED BY <1>0, <2>1, <2>2
    <1>4. Reach = Nat
        BY <1>2, <1>3, Induction
    <1>5. PICK f \in [0 .. n -> Seq(X)] : Steps(f, n)
        BY <1>0, <1>4
    <1> DEFINE Rhs(g) == [i \in 0 .. n |-> IF i = 0 THEN <<>>
                            ELSE IF ids[i] \in S THEN Append(g[i - 1], ids[i]) ELSE g[i - 1]]
               upTo == CHOOSE g : g = Rhs(g)
    <1>6. f = Rhs(f)
        BY <1>0, <1>5
    <1>7. upTo = Rhs(upTo)
        BY <1>6
    <1>8. Known(ids, S) = upTo[n]
        BY DEF Known
    <1> DEFINE Good == {k \in Nat : k > n \/ upTo[k] \in Seq(X)}
    <1> HIDE DEF upTo
    <1>9. 0 \in Good
        BY <1>0, <1>7
    <1>10. ASSUME NEW k \in Good PROVE k + 1 \in Good
        <2>1. CASE k + 1 > n
            BY <2>1
        <2>2. CASE k + 1 <= n
            <3>1. upTo[k] \in Seq(X) /\ k + 1 \in 1 .. n
                BY <1>0, <2>2
            <3>2. upTo[k + 1] = next(upTo[k], k + 1)
                <4>1. upTo[k + 1] = Rhs(upTo)[k + 1]
                    BY <1>7
                <4>2. k + 1 # 0 /\ (k + 1) - 1 = k /\ k + 1 \in 0 .. n
                    BY <3>1
                <4>3. Rhs(upTo)[k + 1] = next(upTo[k], k + 1)
                    BY <4>2
                <4> QED BY <4>1, <4>3
            <3> HIDE DEF next
            <3> QED BY <1>1, <3>1, <3>2
        <2> QED BY <1>0, <2>1, <2>2
    <1>11. Good = Nat
        BY <1>9, <1>10, Induction
    <1> QED BY <1>0, <1>8, <1>11

\* What a submission begins with.
LEMMA RankingQueued ==
    ASSUME NEW s \in Submissions
    PROVE  Queued(Ranking[s])
    <1> DEFINE known == Known(s.rejected, IdsIn(s.hypotheses))
               todo == RejectedOnes(s.hypotheses, s.rejected)
    <1>1. known \in Seq(ToSet(s.rejected))
        BY KnownIsSeq, QueueAssumption
    <1>2. known \in Seq(ToSet(known)) /\ DOMAIN known = 1 .. Len(known) /\ Len(known) \in Nat
        BY <1>1 DEF ToSet
    <1>3. /\ DOMAIN todo = DOMAIN known
          /\ todo = [i \in DOMAIN todo |-> todo[i]]
          /\ \A i \in DOMAIN known : todo[i].hypothesis = known[i]
        BY DEF RejectedOnes
    <1> HIDE DEF known, todo
    <1>4. todo \in [1 .. Len(known) -> ToSet(todo)]
        BY <1>2, <1>3 DEF ToSet
    <1>5. todo \in Seq(ToSet(todo)) /\ Len(todo) = Len(known)
        BY <1>2, <1>4, IsASeq, LenProperties
    <1>6. /\ Ranking[s].rejected = s.rejected /\ Ranking[s].hypotheses = s.hypotheses
          /\ Ranking[s].queued = <<>> /\ Ranking[s].todo = todo
        BY DEF Ranking, todo
    <1> QED BY <1>2, <1>3, <1>5, <1>6 DEF Queued, known

\* What the table keeps, a submission keeps.
LEMMA QueuedStays ==
    ASSUME CandidatesInv, [Next]_vars, NEW args, Queued(args)
    PROVE  Queued(args)'
    <1> DEFINE wanted == Known(args.rejected, IdsIn(args.hypotheses))
    <1>1. ASSUME NEW i \in 1 .. Len(args.queued)
          PROVE  \E row \in candidates' : row.id = args.queued[i] /\ row.brief = args.bundle.id
                                           /\ row.hypothesis = wanted[i]
        <2>1. PICK row \in candidates : row.id = args.queued[i] /\ row.brief = args.bundle.id
                                         /\ row.hypothesis = wanted[i]
            BY DEF Queued
        <2>2. PICK now \in candidates' : SameRow(now, row)
            BY RowsStay
        <2> QED BY <2>1, <2>2 DEF SameRow
    <1> QED BY <1>1 DEF Queued

\* The loop goes on with the id of a row that is now in the table.
LEMMA QueuedGrows ==
    ASSUME NEW args, Queued(args)', args.todo # <<>>, NEW row \in candidates', row.id \in Nat,
           row.brief = args.bundle.id, row.hypothesis = Head(args.todo).hypothesis,
           {"todo", "queued", "bundle", "rejected", "hypotheses"} \subseteq DOMAIN args
    PROVE  Queued([args EXCEPT !.todo = Tail(@), !.queued = Append(@, row.id)])'
    <1> DEFINE new == [args EXCEPT !.todo = Tail(@), !.queued = Append(@, row.id)]
               wanted == Known(args.rejected, IdsIn(args.hypotheses))
    <1>1. /\ new.todo = Tail(args.todo) /\ new.queued = Append(args.queued, row.id)
          /\ new.bundle = args.bundle /\ new.rejected = args.rejected
          /\ new.hypotheses = args.hypotheses
        OBVIOUS
    <1> HIDE DEF new
    <1>2. /\ args.queued \in Seq(Nat) /\ args.todo \in Seq(ToSet(args.todo))
          /\ wanted \in Seq(ToSet(wanted)) /\ Len(wanted) = Len(args.queued) + Len(args.todo)
          /\ \A i \in 1 .. Len(args.todo) : args.todo[i].hypothesis = wanted[Len(args.queued) + i]
          /\ \A i \in 1 .. Len(args.queued) : \E x \in candidates' :
               x.id = args.queued[i] /\ x.brief = args.bundle.id /\ x.hypothesis = wanted[i]
        BY DEF Queued
    <1> HIDE DEF wanted
    <1>3. /\ new.queued \in Seq(Nat) /\ Len(new.queued) = Len(args.queued) + 1
          /\ \A i \in 1 .. Len(args.queued) : new.queued[i] = args.queued[i]
          /\ new.queued[Len(args.queued) + 1] = row.id
        BY <1>1, <1>2, AppendProperties
    <1>4. /\ new.todo \in Seq(ToSet(args.todo)) /\ Len(new.todo) = Len(args.todo) - 1
          /\ \A i \in 1 .. Len(new.todo) : new.todo[i] = args.todo[i + 1]
        BY <1>1, <1>2, HeadTailProperties
    <1>5. new.todo \in Seq(ToSet(new.todo))
        BY <1>4, OwnElements
    <1>6. row.hypothesis = wanted[Len(args.queued) + 1]
        BY <1>2
    <1>7. \A i \in 1 .. Len(new.queued) : \E x \in candidates' :
             x.id = new.queued[i] /\ x.brief = new.bundle.id /\ x.hypothesis = wanted[i]
        <2> TAKE i \in 1 .. Len(new.queued)
        <2>1. CASE i = Len(args.queued) + 1
            BY <1>1, <1>3, <1>6, <2>1
        <2>2. CASE i \in 1 .. Len(args.queued)
            BY <1>1, <1>2, <1>3, <2>2
        <2> QED BY <1>2, <1>3, <2>1, <2>2
    <1>8. \A i \in 1 .. Len(new.todo) : new.todo[i].hypothesis = wanted[Len(new.queued) + i]
        <2> TAKE i \in 1 .. Len(new.todo)
        <2>1. i + 1 \in 1 .. Len(args.todo) /\ Len(new.queued) + i = Len(args.queued) + (i + 1)
            BY <1>2, <1>3, <1>4
        <2> QED BY <1>2, <1>4, <2>1
    <1>9. Len(wanted) = Len(new.queued) + Len(new.todo)
        BY <1>2, <1>3, <1>4
    <1>10. Queued(new)'
        BY <1>1, <1>2, <1>3, <1>5, <1>7, <1>8, <1>9 DEF Queued, wanted
    <1> QED BY <1>10 DEF new

LEMMA InitLoop == Init => LoopInv
    BY DEF Init, SessionInit, LoopInv, SubmitStages

LEMMA StepLoop == CallsInv /\ CandidatesInv /\ LoopInv /\ [Next]_vars => LoopInv'
    <1> SUFFICES ASSUME CallsInv, CandidatesInv, LoopInv, [Next]_vars PROVE LoopInv' OBVIOUS
    <1> USE DEF CallsInv, SubmitStages, ReviewStages
    <1>1. ASSUME NEW d \in Clients, pc[d] \in SubmitStages, call'[d] = call[d]
          PROVE  Queued(call[d])'
        <2>1. PICK args : args = call[d]
            OBVIOUS
        <2>2. Queued(args)
            BY <1>1, <2>1 DEF LoopInv
        <2>3. Queued(args)'
            BY <2>2, QueuedStays
        <2> QED BY <1>1, <2>1, <2>3
    <1> DEFINE Fine(d) == pc'[d] \in SubmitStages =>
                             Queued(call[d])' /\ (pc'[d] # "enqueue" => call'[d].todo # <<>>)
    <1>2. ASSUME NEW d \in Clients, pc'[d] = pc[d], call'[d] = call[d] PROVE Fine(d)
        BY <1>1, <1>2 DEF LoopInv
    <1>3. ASSUME NEW c \in Clients, NEW s \in Submissions, Submit(c, s) PROVE Fine(c)
        <2>1. PICK args : args = Ranking[s]
            OBVIOUS
        <2>2. Queued(args)'
            BY <2>1, RankingQueued, QueuedStays
        <2>3. pc'[c] = "enqueue" /\ call'[c] = args
            BY <1>3, <2>1 DEF Submit, Begin
        <2> QED BY <2>2, <2>3
    <1>4. ASSUME NEW c \in Clients, NEW row \in candidates',
                 pc[c] \in SubmitStages, call[c].todo # <<>>, row.id \in Nat,
                 row.brief = call[c].bundle.id, row.hypothesis = Head(call[c].todo).hypothesis,
                 Go(c, "enqueue", Enqueued(c, row.id))
          PROVE  Fine(c)
        <2>1. PICK args : args = call[c]
            OBVIOUS
        <2>2. Queued(args)'
            BY <1>4, <2>1, QueuedStays DEF LoopInv
        <2>3. {"todo", "queued", "bundle", "rejected", "hypotheses"} \subseteq DOMAIN args
            BY <1>4, <2>1 DEF Shape
        <2>4. PICK new : new = [args EXCEPT !.todo = Tail(@), !.queued = Append(@, row.id)]
            OBVIOUS
        <2>5. Queued(new)'
            BY <1>4, <2>1, <2>2, <2>3, <2>4, QueuedGrows
        <2>6. pc'[c] = "enqueue" /\ call'[c] = new
            BY <1>4, <2>1, <2>4 DEF Go, Enqueued
        <2> QED BY <2>5, <2>6
    <1>5. ASSUME NEW c \in Clients, FindCandidate(c) PROVE Fine(c)
        <2>1. pc[c] = "enqueue" /\ call[c].todo # <<>> /\ candidates' = candidates
            BY <1>5 DEF FindCandidate, queue
        <2>2. CASE Goto(c, "queue")
            BY <1>1, <2>1, <2>2 DEF Goto
        <2>3. ASSUME NEW row \in candidates, SameSource(row, c), Go(c, "enqueue", Enqueued(c, row.id))
              PROVE  Fine(c)
            BY <1>4, <2>1, <2>3 DEF SameSource, CandidatesInv, Candidate
        <2> QED BY <1>5, <2>2, <2>3 DEF FindCandidate
    <1>6. ASSUME NEW c \in Clients, InsertCandidate(c) PROVE Fine(c)
        <2>1. pc[c] = "queue" /\ (Goto(c, "commitQueue") \/ pc'[c] = "idle")
            BY <1>6 DEF InsertCandidate, End
        <2> QED BY <1>1, <2>1 DEF Goto, LoopInv
    <1>7. ASSUME NEW c \in Clients, CommitCandidate(c) PROVE Fine(c)
        <2>1. /\ pc[c] = "commitQueue" /\ queuing[c] \in candidates'
              /\ Go(c, "enqueue", Enqueued(c, queuing[c].id))
            BY <1>7 DEF CommitCandidate
        <2>2. Candidate(queuing[c]) /\ SameSource(queuing[c], c) /\ call[c].todo # <<>>
            BY <2>1 DEF CandidatesInv, LoopInv
        <2> QED BY <1>4, <2>1, <2>2 DEF Candidate, SameSource, CandidatesInv
    <1>8. ASSUME NEW c \in Clients, pc'[c] \notin SubmitStages PROVE Fine(c)
        BY <1>8
    <1> HIDE DEF Fine
    <1>9. ASSUME NEW c \in Clients, Calls(c) \/ Step(c) \/ Crash(c) PROVE \A d \in Clients : Fine(d)
        <2>1. \A d \in Clients \ {c} : pc'[d] = pc[d] /\ call'[d] = call[d]
            BY <1>9, FeedbackAside, QueueElsewhere DEF Calls, Step, Crash, Die, Aside, Elsewhere
        <2>2. Fine(c)
            BY <1>3, <1>5, <1>6, <1>7, <1>8, <1>9, FeedbackAside
               DEF Calls, Step, Crash, Die, Aside, QueueStep, Review, Begin, Submitted, End,
                   UpdateCandidate, Goto, CommitReview
        <2> QED BY <1>2, <2>1, <2>2
    <1>10. ASSUME Notes \/ UNCHANGED vars PROVE \A d \in Clients : Fine(d)
        BY <1>2, <1>10 DEF Notes, RecordOutcome, vars, session, Fine
    <1> QED BY <1>9, <1>10 DEF Next, LoopInv, Fine

\* A submission keeps what it was given and what it ranked.
LEMMA InitRanked == Init => RankedInv
    BY DEF Init, SessionInit, RankedInv, SubmitStages

LEMMA StepRanked == CallsInv /\ RankedInv /\ [Next]_vars => RankedInv'
    <1> SUFFICES ASSUME CallsInv, RankedInv, [Next]_vars PROVE RankedInv' OBVIOUS
    <1> USE DEF CallsInv, SubmitStages, ReviewStages
    <1> DEFINE Of(args) == \E s \in Submissions :
                              /\ args.bundle = s.bundle /\ args.hypotheses = s.hypotheses
                              /\ args.ranked = RankHypotheses(s.hypotheses, s.bundle)
               Fine(d) == pc'[d] \in SubmitStages => Of(call'[d])
    <1>1. ASSUME NEW d \in Clients, pc[d] \in SubmitStages, call'[d] = call[d] PROVE Fine(d)
        BY <1>1 DEF RankedInv
    <1>2. ASSUME NEW d \in Clients, pc'[d] = pc[d], call'[d] = call[d] PROVE Fine(d)
        BY <1>2 DEF RankedInv
    <1>3. ASSUME NEW c \in Clients, NEW s \in Submissions, Submit(c, s) PROVE Fine(c)
        <2>1. PICK args : args = Ranking[s]
            OBVIOUS
        <2>2. /\ args.bundle = s.bundle /\ args.hypotheses = s.hypotheses
              /\ args.ranked = RankHypotheses(s.hypotheses, s.bundle)
            BY <2>1 DEF Ranking
        <2>3. call'[c] = args
            BY <1>3, <2>1 DEF Submit, Begin
        <2> QED BY <2>2, <2>3
    <1>4. ASSUME NEW c \in Clients, pc[c] \in SubmitStages, NEW id,
                 Go(c, "enqueue", Enqueued(c, id))
          PROVE  Fine(c)
        <2>1. PICK args : args = call[c]
            OBVIOUS
        <2>2. {"todo", "queued", "bundle", "ranked", "hypotheses"} \subseteq DOMAIN args
            BY <1>4, <2>1 DEF Shape
        <2>3. PICK new : new = [args EXCEPT !.todo = Tail(@), !.queued = Append(@, id)]
            OBVIOUS
        <2>4. /\ new.bundle = args.bundle /\ new.hypotheses = args.hypotheses
              /\ new.ranked = args.ranked
            BY <2>2, <2>3
        <2>5. call'[c] = new
            BY <1>4, <2>1, <2>3 DEF Go, Enqueued
        <2>6. Of(args)
            BY <1>4, <2>1 DEF RankedInv
        <2>7. Of(new)
            <3> HIDE DEF RankedInv
            <3> QED BY <2>4, <2>6
        <2> QED BY <2>5, <2>7
    <1>5. ASSUME NEW c \in Clients, FindCandidate(c) \/ CommitCandidate(c) PROVE Fine(c)
        <2>1. pc[c] \in SubmitStages
            BY <1>5 DEF FindCandidate, CommitCandidate
        <2>2. Goto(c, "queue") \/ \E id : Go(c, "enqueue", Enqueued(c, id))
            BY <1>5 DEF FindCandidate, CommitCandidate
        <2>3. CASE Goto(c, "queue")
            BY <1>1, <2>1, <2>3 DEF Goto
        <2> HIDE DEF Fine
        <2> QED BY <1>4, <2>1, <2>2, <2>3
    <1>6. ASSUME NEW c \in Clients, InsertCandidate(c) PROVE Fine(c)
        <2>1. pc[c] = "queue" /\ (Goto(c, "commitQueue") \/ pc'[c] = "idle")
            BY <1>6 DEF InsertCandidate, End
        <2> QED BY <1>1, <2>1 DEF Goto
    <1>7. ASSUME NEW c \in Clients, pc'[c] \notin SubmitStages PROVE Fine(c)
        BY <1>7
    <1> HIDE DEF Fine
    <1>8. ASSUME NEW c \in Clients, Calls(c) \/ Step(c) \/ Crash(c) PROVE \A d \in Clients : Fine(d)
        <2>1. \A d \in Clients \ {c} : pc'[d] = pc[d] /\ call'[d] = call[d]
            BY <1>8, FeedbackAside, QueueElsewhere DEF Calls, Step, Crash, Die, Aside, Elsewhere
        <2>2. Fine(c)
            BY <1>3, <1>5, <1>6, <1>7, <1>8, FeedbackAside
               DEF Calls, Step, Crash, Die, Aside, QueueStep, Review, Begin, Submitted, End,
                   UpdateCandidate, Goto, CommitReview
        <2> QED BY <1>2, <2>1, <2>2
    <1>9. ASSUME Notes \/ UNCHANGED vars PROVE \A d \in Clients : Fine(d)
        BY <1>2, <1>9 DEF Notes, RecordOutcome, vars, session
    <1> QED BY <1>8, <1>9 DEF Next, RankedInv, Fine

-----------------------------------------------------------------------------
(* Answers *)

\* A number that was a candidate's stays one, and stays that candidate's.
LEMMA IdsStay ==
    ASSUME CandidatesInv, NoTwins, [Next]_vars, NEW row \in candidates
    PROVE  /\ \E now \in candidates' : now.id = row.id
           /\ \A now \in candidates' : now.id = row.id => SameRow(now, row)
    <1>1. \E now \in candidates' : now.id = row.id
        BY RowsStay DEF SameRow
    <1>2. ASSUME NEW now \in candidates', now.id = row.id PROVE SameRow(now, row)
        <2>1. ASSUME NEW old \in candidates, SameRow(now, old) PROVE SameRow(now, row)
            BY <1>2, <2>1 DEF NoTwins, Twins, SameRow
        <2>2. ASSUME NEW c \in Queuers, now = queuing[c] PROVE FALSE
            BY <1>2, <2>2 DEF NoTwins, Twins
        <2> QED BY <2>1, <2>2, RowsStay
    <1> QED BY <1>1, <1>2

LEMMA InitReview == Init => ReviewInv
    BY DEF Init, SessionInit, ReviewInv, ReviewStages, NoAnswer

LEMMA StepReview ==
    CallsInv /\ CandidatesInv /\ NoTwins /\ ReviewInv /\ [Next]_vars => ReviewInv'
    <1> SUFFICES ASSUME CallsInv, CandidatesInv, NoTwins, ReviewInv, [Next]_vars
                 PROVE  ReviewInv'
        OBVIOUS
    <1> USE DEF CallsInv, ReviewStages, SubmitStages
    <1> DEFINE Fine(d) ==
            /\ pc'[d] \in ReviewStages => \E row \in candidates' : row.id = call'[d].id
            /\ pc'[d] = "commitReview" =>
                 \A row \in candidates' : row.id = call'[d].id => Visible(row, call'[d].tenant)
            /\ answer'[d].status = "ok" /\ answer'[d].call.tool = "review" =>
                 \E row \in candidates' : row.id = answer'[d].call.id
    <1>1. ASSUME NEW d \in Clients, pc'[d] = pc[d], call'[d] = call[d], answer'[d] = answer[d]
          PROVE  Fine(d)
        <2>1. pc[d] = "commitReview" =>
                 \A row \in candidates' : row.id = call[d].id => Visible(row, call[d].tenant)
            BY IdsStay DEF ReviewInv, Visible, SameRow
        <2> QED BY <1>1, <2>1, IdsStay DEF ReviewInv
    <1>2. ASSUME NEW c \in Clients, Aside(c) PROVE Fine(c)
        BY <1>2, IdsStay DEF Aside, ReviewInv, NoAnswer
    <1>3. ASSUME NEW c \in Clients, NEW s \in Submissions, Submit(c, s) PROVE Fine(c)
        BY <1>3 DEF Submit, Begin, NoAnswer
    <1>4. ASSUME NEW c \in Clients, NEW tenant \in Reviewers, NEW r \in Resolutions,
                 Review(c, tenant, r)
          PROVE  Fine(c)
        BY <1>4 DEF Review, Begin, NoAnswer, queue
    <1>5. ASSUME NEW c \in Clients,
                 FindCandidate(c) \/ InsertCandidate(c) \/ CommitCandidate(c) \/ Submitted(c)
          PROVE  Fine(c)
        <2>1. call[c].tool = "submit"
            BY <1>5 DEF FindCandidate, InsertCandidate, CommitCandidate, Submitted, Shape
        <2>2. /\ pc'[c] \notin ReviewStages
              /\ answer'[c] = answer[c] \/ answer'[c].call.tool = "submit"
            BY <1>5, <2>1 DEF FindCandidate, InsertCandidate, CommitCandidate, Submitted, End, Go, Goto
        <2> QED BY <2>2, IdsStay DEF ReviewInv
    <1>6. ASSUME NEW c \in Clients, UpdateCandidate(c) PROVE Fine(c)
        <2>1. pc[c] = "update" /\ UNCHANGED candidates
            BY <1>6 DEF UpdateCandidate
        <2>2. PICK row \in candidates :
                 /\ row.id = call[c].id
                 /\ \/ \E status, result : End(c, status, result)
                    \/ Visible(row, call[c].tenant) /\ Goto(c, "commitReview")
            BY <1>6 DEF UpdateCandidate
        <2>3. \A x \in candidates : x.id = row.id => x = row
            BY DEF NoTwins, Twins
        <2> QED BY <2>1, <2>2, <2>3 DEF End, Goto, ReviewInv
    <1>7. ASSUME NEW c \in Clients, CommitReview(c) PROVE Fine(c)
        <2>1. pc[c] = "commitReview" /\ End(c, "ok", TRUE)
            BY <1>7 DEF CommitReview
        <2> QED BY <2>1, IdsStay DEF End, ReviewInv
    <1>8. ASSUME NEW c \in Clients, Crash(c) PROVE Fine(c)
        BY <1>8, IdsStay DEF Crash, Die, ReviewInv
    <1> HIDE DEF Fine
    <1>9. ASSUME NEW c \in Clients, Calls(c) \/ Step(c) \/ Crash(c) PROVE \A d \in Clients : Fine(d)
        <2>1. \A d \in Clients \ {c} : pc'[d] = pc[d] /\ call'[d] = call[d] /\ answer'[d] = answer[d]
            BY <1>9, FeedbackAside, QueueElsewhere DEF Calls, Step, Crash, Die, Aside, Elsewhere
        <2>2. Fine(c)
            BY <1>2, <1>3, <1>4, <1>5, <1>6, <1>7, <1>8, <1>9, FeedbackAside
               DEF Calls, Step, QueueStep
        <2> QED BY <1>1, <2>1, <2>2
    <1>10. ASSUME Notes \/ UNCHANGED vars PROVE \A d \in Clients : Fine(d)
        BY <1>1, <1>10 DEF Notes, RecordOutcome, vars, session
    <1> QED BY <1>9, <1>10 DEF Next, ReviewInv, Fine

LEMMA InitStands == Init => LastReviewStands
    BY DEF Init, SessionInit, QueueInit, LastReviewStands, NoAnswer

\* A review and its verdict are committed together.
LEMMA StepVerdicts ==
    ASSUME CallsInv, CandidatesInv, NoTwins, LastReviewStands, [Next]_vars
    PROVE  \A row \in candidates' :
              [status |-> row.status, promoted |-> row.promoted] = verdicts'[row.id]
    <1> DEFINE Right == \A row \in candidates' :
                           [status |-> row.status, promoted |-> row.promoted] = verdicts'[row.id]
    <1> SUFFICES Right
        OBVIOUS
    <1>1. ASSUME NEW c \in Clients, CommitCandidate(c) PROVE Right
        <2>1. /\ pc[c] = "commitQueue" /\ candidates' = candidates \cup {queuing[c]}
              /\ verdicts' = [id \in DOMAIN verdicts \cup {queuing[c].id} |->
                               IF id = queuing[c].id THEN Unreviewed ELSE verdicts[id]]
            BY <1>1 DEF CommitCandidate
        <2>2. \A row \in candidates : row.id # queuing[c].id /\ row.id \in DOMAIN verdicts
            BY <2>1 DEF NoTwins, Queuers, Twins, CandidatesInv
        <2>3. [status |-> queuing[c].status, promoted |-> queuing[c].promoted] = Unreviewed
            BY <2>1 DEF CandidatesInv
        <2> QED BY <2>1, <2>2, <2>3 DEF LastReviewStands
    <1>2. ASSUME NEW c \in Clients, CommitReview(c) PROVE Right
        <2> DEFINE r == call[c].resolution
        <2>1. pc[c] = "commitReview" /\ verdicts' = [verdicts EXCEPT ![reviewing[c]] = r]
            BY <1>2 DEF CommitReview
        <2>2. PICK After \in [candidates -> candidates'] :
                 /\ candidates' = {After[row] : row \in candidates}
                 /\ \A row \in candidates :
                      /\ SameRow(After[row], row)
                      /\ row.id # reviewing[c] => After[row] = row
                      /\ row.id = reviewing[c] =>
                           After[row].status = r.status /\ After[row].promoted = r.promoted
            BY <1>2, ReviewedRows
        <2>3. r = [status |-> r.status, promoted |-> r.promoted]
            BY <2>1, QueueAssumption DEF Shape, ReviewStages, SubmitStages, CallsInv
        <2> HIDE DEF r
        <2>4. ASSUME NEW row \in candidates
              PROVE  [status |-> After[row].status, promoted |-> After[row].promoted]
                       = verdicts'[After[row].id]
            <3>1. row.id \in DOMAIN verdicts /\ After[row].id = row.id
                BY <2>2 DEF CandidatesInv, SameRow
            <3>2. CASE row.id = reviewing[c]
                BY <2>1, <2>2, <2>3, <3>1, <3>2
            <3>3. CASE row.id # reviewing[c]
                BY <2>1, <2>2, <3>1, <3>3 DEF LastReviewStands
            <3> QED BY <3>2, <3>3
        <2> QED BY <2>2, <2>4
    <1>3. CASE UNCHANGED <<candidates, verdicts>>
        BY <1>3 DEF LastReviewStands
    <1>4. Notes \/ UNCHANGED vars => UNCHANGED <<candidates, verdicts>>
        BY DEF Notes, vars, queue
    <1> HIDE DEF Right
    <1>5. ASSUME NEW c \in Clients, Calls(c) \/ Step(c) \/ Crash(c) PROVE Right
        <2>1. CASE CommitCandidate(c) \/ CommitReview(c)
            BY <1>1, <1>2, <2>1
        <2>2. CASE ~CommitCandidate(c) /\ ~CommitReview(c)
            <3>1. UNCHANGED <<candidates, verdicts>>
                BY <1>5, <2>2, OthersKeepRows
            <3> QED BY <1>3, <3>1
        <2> QED BY <2>1, <2>2
    <1>6. CASE Notes \/ UNCHANGED vars
        BY <1>3, <1>4, <1>6
    <1> QED BY <1>5, <1>6 DEF Next

LEMMA StepStands ==
    CallsInv /\ CandidatesInv /\ NoTwins /\ ReviewInv /\ LastReviewStands /\ [Next]_vars
      => LastReviewStands'
    <1> SUFFICES ASSUME CallsInv, CandidatesInv, NoTwins, ReviewInv, LastReviewStands, [Next]_vars
                 PROVE  LastReviewStands'
        OBVIOUS
    <1> USE DEF CallsInv, ReviewStages, SubmitStages
    <1> DEFINE Fine(d) == answer'[d].status = "ok" /\ answer'[d].call.tool = "review" =>
                            \A row \in candidates' : row.id = answer'[d].call.id =>
                               (answer'[d].result <=> answer'[d].call.tenant \in {None, row.tenant})
    <1>1. ASSUME NEW d \in Clients, answer'[d] = answer[d] PROVE Fine(d)
        BY <1>1, IdsStay DEF LastReviewStands, ReviewInv, SameRow
    <1>2. ASSUME NEW c \in Clients, UpdateCandidate(c), answer'[c] # answer[c] PROVE Fine(c)
        <2>1. UNCHANGED candidates
            BY <1>2 DEF UpdateCandidate
        <2>2. PICK row \in candidates :
                 /\ row.id = call[c].id
                 /\ \/ ~Visible(row, call[c].tenant) /\ End(c, "ok", FALSE)
                    \/ End(c, "raised", "CheckViolation") \/ Goto(c, "commitReview")
            BY <1>2 DEF UpdateCandidate
        <2>3. \A x \in candidates : x.id = row.id => x = row
            BY DEF NoTwins, Twins
        <2> QED BY <1>2, <2>1, <2>2, <2>3 DEF End, Goto, Visible
    <1>3. ASSUME NEW c \in Clients, CommitReview(c) PROVE Fine(c)
        <2>1. pc[c] = "commitReview" /\ End(c, "ok", TRUE)
            BY <1>3 DEF CommitReview
        <2>2. \A row \in candidates' : row.id = call[c].id => Visible(row, call[c].tenant)
            BY <2>1, IdsStay DEF ReviewInv, Visible, SameRow
        <2> QED BY <2>1, <2>2 DEF End, Visible
    <1>4. ASSUME NEW c \in Clients,
                 answer'[c] \in {NoAnswer, answer[c]} \/ answer'[c].call.tool # "review"
          PROVE  Fine(c)
        BY <1>1, <1>4 DEF NoAnswer
    <1>5. ASSUME NEW c \in Clients,
                 FindCandidate(c) \/ InsertCandidate(c) \/ CommitCandidate(c) \/ Submitted(c)
          PROVE  answer'[c] = answer[c] \/ answer'[c].call.tool # "review"
        <2>1. call[c].tool = "submit"
            BY <1>5 DEF FindCandidate, InsertCandidate, CommitCandidate, Submitted, Shape
        <2> QED BY <1>5, <2>1
                DEF FindCandidate, InsertCandidate, CommitCandidate, Submitted, End, Go, Goto
    <1> HIDE DEF Fine
    <1>6. ASSUME NEW c \in Clients, Calls(c) \/ Step(c) \/ Crash(c) PROVE \A d \in Clients : Fine(d)
        <2>1. \A d \in Clients \ {c} : answer'[d] = answer[d]
            BY <1>6, FeedbackAside, QueueElsewhere DEF Calls, Step, Crash, Die, Aside, Elsewhere
        <2>2. Fine(c)
            BY <1>1, <1>2, <1>3, <1>4, <1>5, <1>6, FeedbackAside
               DEF Calls, Step, QueueStep, Crash, Die, Aside, Submit, Review, Begin
        <2> QED BY <1>1, <2>1, <2>2
    <1>7. ASSUME Notes \/ UNCHANGED vars PROVE \A d \in Clients : Fine(d)
        BY <1>1, <1>7 DEF Notes, RecordOutcome, vars, session
    <1>8. \A d \in Clients : Fine(d)
        BY <1>6, <1>7 DEF Next
    <1> QED BY <1>8, StepVerdicts DEF LastReviewStands, Fine

LEMMA InitQueued == Init => RejectedAreQueued
    BY DEF Init, SessionInit, QueueInit, RejectedAreQueued, NoAnswer

LEMMA StepQueued ==
    CallsInv /\ CandidatesInv /\ NoTwins /\ LoopInv /\ RejectedAreQueued /\ [Next]_vars
      => RejectedAreQueued'
    <1> SUFFICES ASSUME CallsInv, CandidatesInv, NoTwins, LoopInv, RejectedAreQueued, [Next]_vars
                 PROVE  RejectedAreQueued'
        OBVIOUS
    <1> USE DEF CallsInv, ReviewStages, SubmitStages
    <1> DEFINE Fine(d) ==
            answer'[d].status = "ok" /\ answer'[d].call.tool = "submit" =>
               LET args == answer'[d].call
                   wanted == Known(args.rejected, IdsIn(args.hypotheses))
               IN  /\ Len(args.queued) = Len(wanted)
                   /\ \A i \in DOMAIN wanted : \E row \in candidates' :
                        /\ row.id = args.queued[i]
                        /\ row.brief = args.bundle.id
                        /\ row.hypothesis = wanted[i]
    <1>1. ASSUME NEW d \in Clients, answer'[d] = answer[d] PROVE Fine(d)
        <2> SUFFICES ASSUME answer[d].status = "ok", answer[d].call.tool = "submit" PROVE Fine(d)
            BY <1>1
        <2> DEFINE args == answer[d].call
                   wanted == Known(args.rejected, IdsIn(args.hypotheses))
        <2>1. ASSUME NEW i \in DOMAIN wanted
              PROVE  \E row \in candidates' : /\ row.id = args.queued[i]
                                              /\ row.brief = args.bundle.id
                                              /\ row.hypothesis = wanted[i]
            <3>1. PICK row \in candidates : /\ row.id = args.queued[i]
                                           /\ row.brief = args.bundle.id
                                           /\ row.hypothesis = wanted[i]
                BY DEF RejectedAreQueued
            <3>2. PICK now \in candidates' : SameRow(now, row)
                BY RowsStay
            <3> QED BY <3>1, <3>2 DEF SameRow
        <2> QED BY <1>1, <2>1 DEF RejectedAreQueued
    <1>2. ASSUME NEW c \in Clients, Submitted(c) PROVE Fine(c)
        <2>1. /\ pc[c] = "enqueue" /\ call[c].todo = <<>> /\ UNCHANGED candidates
              /\ answer'[c].call = call[c]
            BY <1>2 DEF Submitted, End, queue
        <2> DEFINE args == call[c]
                   wanted == Known(args.rejected, IdsIn(args.hypotheses))
        <2>2. Queued(call[c])
            BY <2>1 DEF LoopInv
        <2>3. DOMAIN wanted = 1 .. Len(wanted) /\ Len(wanted) = Len(args.queued)
            BY <2>1, <2>2 DEF Queued
        <2> QED BY <2>1, <2>2, <2>3 DEF Queued
    <1>3. ASSUME NEW c \in Clients,
                 answer'[c] \in {NoAnswer, answer[c]} \/ answer'[c].call.tool # "submit"
                   \/ answer'[c].status # "ok"
          PROVE  Fine(c)
        BY <1>1, <1>3 DEF NoAnswer
    <1>4. ASSUME NEW c \in Clients, FindCandidate(c) \/ InsertCandidate(c) \/ CommitCandidate(c)
          PROVE  answer'[c] = answer[c] \/ answer'[c].status # "ok"
        BY <1>4 DEF FindCandidate, InsertCandidate, CommitCandidate, End, Go, Goto
    <1>5. ASSUME NEW c \in Clients, UpdateCandidate(c) \/ CommitReview(c)
          PROVE  answer'[c] = answer[c] \/ answer'[c].call.tool # "submit"
        <2>0. pc[c] \in ReviewStages
            BY <1>5 DEF UpdateCandidate, CommitReview
        <2>1. call[c].tool = "review"
            BY <2>0 DEF Shape
        <2>2. \/ Goto(c, "commitReview") \/ \E status, result : End(c, status, result)
            BY <1>5 DEF UpdateCandidate, CommitReview
        <2> QED BY <2>1, <2>2 DEF End, Goto
    <1> HIDE DEF Fine
    <1>6. ASSUME NEW c \in Clients, Calls(c) \/ Step(c) \/ Crash(c) PROVE \A d \in Clients : Fine(d)
        <2>1. \A d \in Clients \ {c} : answer'[d] = answer[d]
            BY <1>6, FeedbackAside, QueueElsewhere DEF Calls, Step, Crash, Die, Aside, Elsewhere
        <2>2. Fine(c)
            BY <1>1, <1>2, <1>3, <1>4, <1>5, <1>6, FeedbackAside
               DEF Calls, Step, QueueStep, Crash, Die, Aside, Submit, Review, Begin
        <2> QED BY <1>1, <2>1, <2>2
    <1>7. ASSUME Notes \/ UNCHANGED vars PROVE \A d \in Clients : Fine(d)
        BY <1>1, <1>7 DEF Notes, RecordOutcome, vars, session
    <1>8. \A d \in Clients : Fine(d)
        BY <1>6, <1>7 DEF Next
    <1>9. \A x, y \in candidates' : x.brief = y.brief /\ x.hypothesis = y.hypothesis => x.id = y.id
        BY StepNoTwins DEF NoTwins, Twins
    <1> QED BY <1>8, <1>9 DEF RejectedAreQueued, Fine

-----------------------------------------------------------------------------
(* How hypotheses are scored *)

LEMMA ItemPlaces ==
    ASSUME NEW b, IsBundle(b)
    PROVE  /\ Len(Items(b)) \in Nat /\ DOMAIN Items(b) = 1 .. Len(Items(b))
           /\ \A i \in DOMAIN Items(b) : Items(b)[i].weight \in Int
           /\ Len(b.constraints) \in Nat /\ DOMAIN b.constraints = 1 .. Len(b.constraints)
    <1>1. PICK X, s, t : X = ToSet(Items(b)) /\ s = b.constraints /\ t = b.evidence
        OBVIOUS
    <1>2. s \in Seq(X) /\ t \in Seq(X) /\ Items(b) = s \o t
        BY <1>1 DEF IsBundle, Items
    <1>3. Items(b) \in Seq(X)
        BY <1>2
    <1>4. Len(Items(b)) \in Nat /\ DOMAIN Items(b) = 1 .. Len(Items(b))
        BY <1>3
    <1>5. Len(s) \in Nat /\ DOMAIN s = 1 .. Len(s)
        BY <1>2
    <1>6. \A i \in DOMAIN Items(b) : Items(b)[i].weight \in Int
        BY DEF IsBundle, ToSet
    <1> QED BY <1>1, <1>4, <1>5, <1>6

\* by_id finds the first item of an id that the bundle has.
LEMMA FirstItem ==
    ASSUME NEW b, IsBundle(b), NEW i \in DOMAIN Items(b)
    PROVE  /\ FirstOf(b, Items(b)[i].id) \in DOMAIN Items(b)
           /\ Items(b)[FirstOf(b, Items(b)[i].id)].id = Items(b)[i].id
           /\ \A j \in DOMAIN Items(b) :
                 Items(b)[j].id = Items(b)[i].id => FirstOf(b, Items(b)[i].id) <= j
    <1>1. PICK n \in Nat : n = Len(Items(b)) /\ DOMAIN Items(b) = 1 .. n
        BY ItemPlaces
    <1>2. PICK S : S = {j \in DOMAIN Items(b) : Items(b)[j].id = Items(b)[i].id}
        OBVIOUS
    <1>3. S \in SUBSET (1 .. n) /\ S # {}
        BY <1>1, <1>2
    <1>4. Min(S) \in S /\ \A j \in S : Min(S) <= j
        BY <1>3, Least
    <1>5. FirstOf(b, Items(b)[i].id) = Min(S)
        BY <1>2 DEF FirstOf
    <1> QED BY <1>2, <1>4, <1>5

Weights(b) == [i \in DOMAIN Items(b) |-> Items(b)[i].weight]
Worths(h, b) == [i \in DOMAIN h.cited |->
                   IF i \in UniqueValid(h, b) THEN ById(b, h.cited[i]).weight ELSE 0]
Leads(h, b) == [i \in UniqueValid(h, b) |-> FirstOf(b, h.cited[i])]

\* First citations of what the bundle has lead to the cited items, one to one.
LEMMA CitationsLead ==
    ASSUME NEW h, IsHypothesis(h), NEW b, IsBundle(b)
    PROVE  /\ Moves(Leads(h, b), UniqueValid(h, b), CitedItems(h, b), Worths(h, b), Weights(b))
           /\ \A i \in UniqueValid(h, b) : ById(b, h.cited[i]) = Items(b)[Leads(h, b)[i]]
    <1> DEFINE U == UniqueValid(h, b)
               items == Items(b)
               m == Leads(h, b)
    <1>1. /\ DOMAIN h.cited = 1 .. Len(h.cited) /\ Len(h.cited) \in Nat
          /\ DOMAIN items = 1 .. Len(items) /\ Len(items) \in Nat
        <2>1. h.cited \in Seq(ToSet(h.cited))
            BY DEF IsHypothesis
        <2> QED BY <2>1, ItemPlaces
    <1>2. ASSUME NEW i \in U
          PROVE  /\ i \in DOMAIN h.cited /\ \A j \in 1 .. i - 1 : h.cited[j] # h.cited[i]
                 /\ m[i] = FirstOf(b, h.cited[i])
                 /\ m[i] \in DOMAIN items /\ items[m[i]].id = h.cited[i]
                 /\ \A j \in DOMAIN items : items[j].id = h.cited[i] => m[i] <= j
        <2>1. /\ i \in DOMAIN h.cited /\ \A j \in 1 .. i - 1 : h.cited[j] # h.cited[i]
              /\ h.cited[i] \in IdsIn(Items(b))
            BY DEF UniqueValid
        <2>2. PICK k \in DOMAIN items : items[k].id = h.cited[i]
            BY <2>1 DEF IdsIn
        <2>3. m[i] = FirstOf(b, h.cited[i])
            BY DEF Leads
        <2>4. /\ FirstOf(b, items[k].id) \in DOMAIN items
              /\ items[FirstOf(b, items[k].id)].id = items[k].id
              /\ \A j \in DOMAIN items : items[j].id = items[k].id => FirstOf(b, items[k].id) <= j
            BY FirstItem
        <2> QED BY <2>1, <2>2, <2>3, <2>4
    <1>3. ASSUME NEW i \in U PROVE m[i] \in CitedItems(h, b)
        <2>1. Contains(h.cited, items[m[i]].id)
            BY <1>1, <1>2 DEF Contains
        <2>2. ASSUME NEW j \in 1 .. m[i] - 1 PROVE items[j].id # items[m[i]].id
            <3>1. j \in DOMAIN items /\ ~(m[i] <= j)
                BY <1>1, <1>2
            <3> QED BY <1>2, <3>1
        <2> QED BY <1>2, <2>1, <2>2 DEF CitedItems
    <1>4. ASSUME NEW i \in U, NEW j \in U, m[i] = m[j] PROVE i = j
        <2>1. h.cited[i] = h.cited[j] /\ i \in 1 .. Len(h.cited) /\ j \in 1 .. Len(h.cited)
            BY <1>1, <1>2, <1>4
        <2>2. i \notin 1 .. j - 1 /\ j \notin 1 .. i - 1
            BY <1>2, <2>1
        <2> QED BY <2>1, <2>2
    <1>5. ASSUME NEW y \in CitedItems(h, b) PROVE \E i \in U : m[i] = y
        <2>1. y \in DOMAIN items /\ \A j \in 1 .. y - 1 : items[j].id # items[y].id
            BY DEF CitedItems
        <2>2. PICK S : S = {i \in 1 .. Len(h.cited) : h.cited[i] = items[y].id}
            OBVIOUS
        <2>3. S \in SUBSET (1 .. Len(h.cited)) /\ S # {}
            BY <2>2 DEF CitedItems, Contains
        <2>4. PICK i \in S : \A j \in S : i <= j
            BY <1>1, <2>3, Lowest
        <2>5. i \in 1 .. Len(h.cited) /\ h.cited[i] = items[y].id
            BY <2>2
        <2>6. i \in U
            <3>1. h.cited[i] \in IdsIn(Items(b))
                BY <2>1, <2>5 DEF IdsIn
            <3>2. ASSUME NEW j \in 1 .. i - 1, h.cited[j] = h.cited[i] PROVE FALSE
                <4>1. j \in S /\ ~(i <= j)
                    BY <1>1, <2>2, <2>5, <3>2
                <4> QED BY <2>4, <4>1
            <3> QED BY <1>1, <2>5, <3>1, <3>2 DEF UniqueValid
        <2>7. m[i] \in DOMAIN items /\ items[m[i]].id = items[y].id /\ m[i] <= y
            BY <1>2, <2>1, <2>5, <2>6
        <2>8. m[i] \notin 1 .. y - 1
            BY <2>1, <2>7
        <2>9. m[i] = y
            BY <1>1, <2>1, <2>7, <2>8
        <2> QED BY <2>6, <2>9
    <1>6. ASSUME NEW i \in U
          PROVE  ById(b, h.cited[i]) = items[m[i]] /\ Worths(h, b)[i] = Weights(b)[m[i]]
        <2>1. ById(b, h.cited[i]) = items[m[i]]
            BY <1>2 DEF ById
        <2> QED BY <1>2, <2>1 DEF Worths, Weights
    <1> HIDE DEF m
    <1>7. Moves(m, U, CitedItems(h, b), Worths(h, b), Weights(b))
        BY <1>3, <1>4, <1>5, <1>6 DEF Moves
    <1> QED BY <1>6, <1>7 DEF m

LEMMA CoverageSums ==
    ASSUME NEW h, IsHypothesis(h), NEW b, IsBundle(b)
    PROVE  /\ Coverage(h, b) = MapThenSumSet(LAMBDA i : Items(b)[i].weight, CitedItems(h, b))
           /\ Coverage(h, b) \in Int
    <1> DEFINE U == UniqueValid(h, b)
               C == CitedItems(h, b)
               v == Worths(h, b)
               w == Weights(b)
    <1>1. PICK k \in Nat, n \in Nat : DOMAIN h.cited = 1 .. k /\ DOMAIN Items(b) = 1 .. n
        <2>1. h.cited \in Seq(ToSet(h.cited))
            BY DEF IsHypothesis
        <2> QED BY <2>1, ItemPlaces
    <1>2. U \in SUBSET (1 .. k) /\ C \in SUBSET (1 .. n)
        BY <1>1 DEF UniqueValid, CitedItems
    <1>3. \A i \in 1 .. n : w[i] \in Int
        BY <1>1, ItemPlaces DEF Weights
    <1>4. \A i \in U : ById(b, h.cited[i]).weight \in Int
        BY CitationsLead, ItemPlaces DEF Moves, CitedItems
    <1>5. \A i \in 1 .. k : v[i] \in Int
        BY <1>1, <1>4 DEF Worths
    <1>6. \A i \in U : v[i] = ById(b, h.cited[i]).weight
        BY <1>1, <1>2 DEF Worths
    <1>7. \A i \in C : w[i] = Items(b)[i].weight
        BY <1>1, <1>2 DEF Weights
    <1> HIDE DEF v, w
    <1>8. PICK g : SumOf(g, v, k)
        BY <1>5, Summing
    <1>9. PICK s : SumOf(s, w, n)
        BY <1>3, Summing
    <1>10. \A T \in SUBSET U : T # {} => (CHOOSE x \in T : TRUE) \in U
        OBVIOUS
    <1>11. \A T \in SUBSET C : T # {} => (CHOOSE x \in T : TRUE) \in C
        OBVIOUS
    <1>12. Coverage(h, b) = g[U]
        <2> DEFINE Rhs(f) == [T \in SUBSET U |->
                                IF T = {} THEN 0
                                ELSE ById(b, h.cited[CHOOSE x \in T : TRUE]).weight
                                       + f[T \ {CHOOSE x \in T : TRUE}]]
                   iter == CHOOSE f : f = Rhs(f)
        <2>1. Coverage(h, b) = iter[U]
            BY DEF Coverage, MapThenSumSet, MapThenFoldSet
        <2>2. \A f : Rhs(f) = NextSum(f, v, U)
            BY <1>6, <1>10 DEF NextSum, Some
        <2> HIDE DEF Rhs
        <2>3. iter = NextSum(iter, v, U)
            <3>1. PICK f : f = NextSum(f, v, U)
                BY <1>2, <1>8, SumComputed
            <3>2. f = Rhs(f)
                BY <2>2, <3>1
            <3> QED BY <2>2, <3>2
        <2> HIDE DEF iter
        <2>4. iter[U] = g[U]
            BY <1>2, <1>8, <2>3, SumComputed
        <2> QED BY <2>1, <2>4
    <1>13. MapThenSumSet(LAMBDA i : Items(b)[i].weight, C) = s[C]
        <2> DEFINE Rhs(f) == [T \in SUBSET C |->
                                IF T = {} THEN 0
                                ELSE Items(b)[CHOOSE x \in T : TRUE].weight
                                       + f[T \ {CHOOSE x \in T : TRUE}]]
                   iter == CHOOSE f : f = Rhs(f)
        <2>1. MapThenSumSet(LAMBDA i : Items(b)[i].weight, C) = iter[C]
            BY DEF MapThenSumSet, MapThenFoldSet
        <2>2. \A f : Rhs(f) = NextSum(f, w, C)
            BY <1>7, <1>11 DEF NextSum, Some
        <2> HIDE DEF Rhs
        <2>3. iter = NextSum(iter, w, C)
            <3>1. PICK f : f = NextSum(f, w, C)
                BY <1>2, <1>9, SumComputed
            <3>2. f = Rhs(f)
                BY <2>2, <3>1
            <3> QED BY <2>2, <3>2
        <2> HIDE DEF iter
        <2>4. iter[C] = s[C]
            BY <1>2, <1>9, <2>3, SumComputed
        <2> QED BY <2>1, <2>4
    <1>14. g[U] = s[C]
        <2>1. PICK m : Moves(m, U, C, v, w)
            BY CitationsLead DEF v, w
        <2> QED BY <1>2, <1>8, <1>9, <2>1, SumMoved
    <1>15. g[U] \in Int
        BY <1>2, <1>8 DEF SumOf
    <1> QED BY <1>12, <1>13, <1>14, <1>15

LEMMA KindsOfItems ==
    ASSUME NEW h, IsHypothesis(h), NEW b, IsBundle(b)
    PROVE  /\ Kinds(h, b) = {Items(b)[i].kind : i \in CitedItems(h, b)}
           /\ Cardinality(Kinds(h, b)) \in Nat
           /\ Corroboration(h, b) = IF CitedItems(h, b) = {} THEN 0
                                    ELSE Cardinality(Kinds(h, b)) - 1
    <1> DEFINE C == CitedItems(h, b)
               K == Kinds(h, b)
    <1>1. K = {Items(b)[i].kind : i \in C}
        <2>1. \A x \in K : x \in {Items(b)[i].kind : i \in C}
            BY CitationsLead DEF Moves, Kinds
        <2>2. \A i \in C : Items(b)[i].kind \in K
            BY CitationsLead DEF Moves, Kinds
        <2> HIDE DEF C, K
        <2> QED BY <2>1, <2>2
    <1>2. IsFiniteSet(C)
        <2>1. PICK n \in Nat : DOMAIN Items(b) = 1 .. n
            BY ItemPlaces
        <2>2. n \in Int /\ 1 \in Int
            OBVIOUS
        <2>3. IsFiniteSet(1 .. n)
            BY <2>2, FS_Interval
        <2>4. C \in SUBSET (1 .. n)
            BY <2>1 DEF CitedItems
        <2> QED BY <2>3, <2>4, FS_Subset
    <1>3. IsFiniteSet(K)
        <2> DEFINE f == [i \in C |-> Items(b)[i].kind]
        <2>1. f \in Surjection(C, K)
            <3>1. f \in [C -> K] /\ \A x \in K : \E i \in C : f[i] = x
                <4> HIDE DEF C, K
                <4> QED BY <1>1
            <3> QED BY <3>1, Fun_IsSurj
        <2> HIDE DEF f, C, K
        <2> QED BY <1>2, <2>1, FS_Surjection
    <1>4. Cardinality(K) \in Nat /\ (Cardinality(K) = 0 <=> K = {})
        BY <1>3, FS_CardinalityType, FS_EmptySet
    <1>5. K = {} <=> C = {}
        <2> HIDE DEF C, K
        <2> QED BY <1>1
    <1>6. Corroboration(h, b) = IF C = {} THEN 0 ELSE Cardinality(K) - 1
        <2>1. PICK k \in Nat : k = Cardinality(K)
            BY <1>4
        <2>2. Max({0, k - 1}) = IF k = 0 THEN 0 ELSE k - 1
            <3>1. PICK S : S = {0, k - 1}
                OBVIOUS
            <3>2. \E x \in S : \A y \in S : x >= y
                BY <3>1
            <3>3. Max(S) \in S /\ \A y \in S : Max(S) >= y
                BY <3>2 DEF Max
            <3> QED BY <3>1, <3>3
        <2> QED BY <1>4, <1>5, <2>1, <2>2 DEF Corroboration
    <1> QED BY <1>1, <1>4, <1>6

LEMMA ContradictionCounts ==
    ASSUME NEW h, NEW b, IsBundle(b)
    PROVE  /\ Contradiction(h, b) = Cardinality(BrokenConstraints(h, b))
           /\ Contradiction(h, b) \in Nat
    <1> DEFINE s == b.constraints
               P == {i \in DOMAIN s : Contradicts(h, s[i])}
               B == BrokenConstraints(h, b)
               f == [i \in P |-> s[i]]
    <1>1. ASSUME NEW x \in ToSet(s)
          PROVE  Contradicts(h, x) <=> x \in B
        <2>1. x.rule \in HardKinds \cup {"known_issue"}
            BY DEF IsBundle
        <2> QED BY <2>1 DEF Contradicts, HardKinds, BrokenConstraints
    <1>2. \A i \in DOMAIN s : s[i] \in ToSet(s)
        BY DEF ToSet
    <1>3. f \in [P -> B]
        BY <1>1, <1>2
    <1>4. \A i, j \in P : f[i] = f[j] => i = j
        BY DEF IsBundle
    <1>5. \A x \in B : \E i \in P : f[i] = x
        BY <1>1 DEF ToSet, BrokenConstraints
    <1>6. IsFiniteSet(P)
        <2>1. PICK n \in Nat : DOMAIN s = 1 .. n
            BY ItemPlaces
        <2>2. n \in Int /\ 1 \in Int
            OBVIOUS
        <2>3. IsFiniteSet(1 .. n)
            BY <2>2, FS_Interval
        <2>4. P \in SUBSET (1 .. n)
            BY <2>1
        <2> QED BY <2>3, <2>4, FS_Subset
    <1>7. Contradiction(h, b) = Cardinality(P)
        BY DEF Contradiction
    <1> HIDE DEF P, B, f
    <1>8. ExistsBijection(P, B)
        <2>1. f \in Bijection(P, B)
            BY <1>3, <1>4, <1>5, Fun_IsBij
        <2> QED BY <2>1 DEF ExistsBijection
    <1>9. Cardinality(B) = Cardinality(P)
        BY <1>6, <1>8, FS_Bijection
    <1> QED BY <1>6, <1>7, <1>9, FS_CardinalityType DEF B

-----------------------------------------------------------------------------
(* How hypotheses are ranked *)

Numbered(x) ==
    x.score \in Int /\ x.coverage \in Int /\ x.contradiction \in Int /\ x.kinds \in Int /\ x.id \in Int

LEMMA ScoreFields ==
    ASSUME NEW h, IsHypothesis(h), NEW b, IsBundle(b)
    PROVE  LET x == ScoreHypothesis(h, b)
           IN  Numbered(x) /\ x.id = h.id /\ x.score = SetScore(h, b)
    <1> DEFINE x == ScoreHypothesis(h, b)
    <1>1. /\ x.id = h.id /\ x.coverage = Coverage(h, b) /\ x.contradiction = Contradiction(h, b)
          /\ x.kinds = Cardinality(Kinds(h, b))
          /\ x.score = Coverage(h, b) - 2000 * Contradiction(h, b) + 250 * Corroboration(h, b)
        BY DEF ScoreHypothesis
    <1>2. h.id \in Int
        BY DEF IsHypothesis
    <1> HIDE DEF x
    <1>3. PICK sum, count, kinds, extra :
             /\ sum = Coverage(h, b) /\ count = Contradiction(h, b)
             /\ kinds = Cardinality(Kinds(h, b)) /\ extra = Corroboration(h, b)
        OBVIOUS
    <1>4. /\ sum = MapThenSumSet(LAMBDA i : Items(b)[i].weight, CitedItems(h, b)) /\ sum \in Int
        BY <1>3, CoverageSums
    <1>5. count = Cardinality(BrokenConstraints(h, b)) /\ count \in Nat
        BY <1>3, ContradictionCounts
    <1>6. /\ kinds = Cardinality({Items(b)[i].kind : i \in CitedItems(h, b)}) /\ kinds \in Nat
          /\ extra = IF CitedItems(h, b) = {} THEN 0 ELSE kinds - 1
        BY <1>3, KindsOfItems
    <1>7. SetScore(h, b) = sum - 2000 * count
                             + IF CitedItems(h, b) = {} THEN 0 ELSE 250 * (kinds - 1)
        BY <1>4, <1>5, <1>6 DEF SetScore
    <1>8. x.score = sum - 2000 * count + 250 * extra
        BY <1>1, <1>3
    <1>9. x.score = SetScore(h, b) /\ x.score \in Int
        BY <1>4, <1>5, <1>6, <1>7, <1>8
    <1> QED BY <1>1, <1>2, <1>3, <1>4, <1>5, <1>6, <1>9 DEF Numbered, x

\* The five keys, one after the other.
Beats(x, y) ==
    \/ x.score > y.score
    \/ /\ x.score = y.score
       /\ \/ x.coverage > y.coverage
          \/ /\ x.coverage = y.coverage
             /\ \/ x.contradiction < y.contradiction
                \/ /\ x.contradiction = y.contradiction
                   /\ x.kinds > y.kinds \/ (x.kinds = y.kinds /\ x.id < y.id)

LEMMA BetterKeys ==
    ASSUME NEW x, NEW y, Numbered(x), Numbered(y)
    PROVE  Better(x, y) <=> Beats(x, y)
    <1> DEFINE key(s) == <<-s.score, -s.coverage, s.contradiction, -s.kinds, s.id>>
               less(i) == key(x)[i] < key(y)[i]
               same(i) == key(x)[i] = key(y)[i]
    <1>1. Better(x, y) <=> \E i \in 1 .. 5 : less(i) /\ \A j \in 1 .. i - 1 : same(j)
        BY DEF Better
    <1>2. /\ less(1) <=> x.score > y.score
          /\ same(1) <=> x.score = y.score
          /\ less(2) <=> x.coverage > y.coverage
          /\ same(2) <=> x.coverage = y.coverage
          /\ less(3) <=> x.contradiction < y.contradiction
          /\ same(3) <=> x.contradiction = y.contradiction
          /\ less(4) <=> x.kinds > y.kinds
          /\ same(4) <=> x.kinds = y.kinds
          /\ less(5) <=> x.id < y.id
        BY DEF Numbered
    <1> HIDE DEF less, same
    <1>3. /\ 1 .. 1 - 1 = {} /\ 1 .. 2 - 1 = {1} /\ 1 .. 3 - 1 = {1, 2}
          /\ 1 .. 4 - 1 = {1, 2, 3} /\ 1 .. 5 - 1 = {1, 2, 3, 4} /\ 1 .. 5 = {1, 2, 3, 4, 5}
        OBVIOUS
    <1>4. Better(x, y) <=> \/ less(1)
                           \/ less(2) /\ same(1)
                           \/ less(3) /\ same(1) /\ same(2)
                           \/ less(4) /\ same(1) /\ same(2) /\ same(3)
                           \/ less(5) /\ same(1) /\ same(2) /\ same(3) /\ same(4)
        BY <1>1, <1>3
    <1> QED BY <1>2, <1>4 DEF Beats

LEMMA BetterOrder ==
    ASSUME NEW n \in Nat, NEW s, \A i \in 1 .. n : Numbered(s[i]), NEW before,
           before = [i \in 1 .. n |-> {j \in 1 .. n : Better(s[j], s[i])}]
    PROVE  Comparing(before, n)
    <1>1. ASSUME NEW x, NEW y, Numbered(x), Numbered(y), Better(x, y)
          PROVE  ~Better(y, x)
        <2>1. Beats(x, y) /\ (Better(y, x) <=> Beats(y, x))
            BY <1>1, BetterKeys
        <2> QED BY <1>1, <2>1 DEF Beats, Numbered
    <1>2. ASSUME NEW x, NEW y, NEW z, Numbered(x), Numbered(y), Numbered(z), Better(x, y)
          PROVE  Better(x, z) \/ Better(z, y)
        <2>1. Beats(x, y)
            BY <1>2, BetterKeys
        <2>2. (Better(x, z) <=> Beats(x, z)) /\ (Better(z, y) <=> Beats(z, y))
            BY <1>2, BetterKeys
        <2>3. Numbered(x) /\ Numbered(y) /\ Numbered(z)
            BY <1>2
        <2>4. CASE x.score # y.score \/ x.coverage # y.coverage
            BY <2>1, <2>2, <2>3, <2>4 DEF Beats, Numbered
        <2>5. CASE /\ x.score = y.score /\ x.coverage = y.coverage
                   /\ z.score # x.score \/ z.coverage # x.coverage
            BY <2>1, <2>2, <2>3, <2>5 DEF Beats, Numbered
        <2>6. CASE /\ x.score = y.score /\ x.coverage = y.coverage
                   /\ z.score = x.score /\ z.coverage = x.coverage
            BY <2>1, <2>2, <2>3, <2>6 DEF Beats, Numbered
        <2> QED BY <2>4, <2>5, <2>6
    <1>3. before \in [1 .. n -> SUBSET (1 .. n)]
        OBVIOUS
    <1>4. \A i, j \in 1 .. n : j \in before[i] <=> Better(s[j], s[i])
        OBVIOUS
    <1> QED BY <1>1, <1>2, <1>3, <1>4 DEF Comparing

\* What the ranking of a submission lists.
LEMMA RankedBest ==
    ASSUME NEW s \in Submissions
    PROVE  BestFirst(RankHypotheses(s.hypotheses, s.bundle), s.hypotheses, s.bundle)
    <1>1. PICK hs, b : hs = s.hypotheses /\ b = s.bundle
        OBVIOUS
    <1>2. /\ IsBundle(b) /\ hs \in Seq(ToSet(hs)) /\ \A h \in ToSet(hs) : IsHypothesis(h)
        BY <1>1, QueueAssumption
    <1>3. PICK n \in Nat : n = Len(hs) /\ DOMAIN hs = 1 .. n
        BY <1>2
    <1> DEFINE scored == [i \in DOMAIN hs |-> ScoreHypothesis(hs[i], b)]
               before == [i \in 1 .. n |-> {j \in 1 .. n : Better(scored[j], scored[i])}]
               at == Listed(1 .. n, Stable(before, n))
               ranked == RankHypotheses(hs, b)
    <1>4. ASSUME NEW i \in 1 .. n
          PROVE  /\ Numbered(scored[i]) /\ scored[i].id = hs[i].id
                 /\ scored[i].score = SetScore(hs[i], b)
        <2>1. PICK h : h = hs[i] /\ IsHypothesis(h)
            BY <1>2, <1>3 DEF ToSet
        <2>2. scored[i] = ScoreHypothesis(h, b)
            BY <1>3, <2>1
        <2> HIDE DEF scored
        <2> QED BY <1>2, <2>1, <2>2, ScoreFields
    <1>5. ranked = [k \in 1 .. n |-> scored[at[k]]]
        <2> DEFINE ahead == [i \in DOMAIN scored |->
                               {j \in DOMAIN scored : Better(scored[j], scored[i])
                                     \/ (~Better(scored[i], scored[j]) /\ j < i)}]
        <2>1. DOMAIN scored = 1 .. n
            BY <1>3
        <2>2. ranked = [k \in DOMAIN scored |-> scored[Listed(DOMAIN scored, ahead)[k]]]
            BY DEF RankHypotheses, SortedBy
        <2> HIDE DEF scored
        <2>3. ahead = Stable(before, n)
            BY <2>1 DEF Stable
        <2> HIDE DEF ahead, before, ranked
        <2> QED BY <2>1, <2>2, <2>3
    <1>6. Comparing(before, n)
        <2>1. PICK v : v = scored
            OBVIOUS
        <2>2. PICK w : w = before
            OBVIOUS
        <2>3. \A i \in 1 .. n : Numbered(v[i])
            BY <1>4, <2>1
        <2> HIDE DEF scored
        <2>4. w = [i \in 1 .. n |-> {j \in 1 .. n : Better(v[j], v[i])}]
            BY <2>1, <2>2
        <2> HIDE DEF before
        <2> QED BY <2>2, <2>3, <2>4, BetterOrder
    <1>7. /\ at \in [1 .. n -> 1 .. n]
          /\ \A i \in 1 .. n : \E k \in 1 .. n : at[k] = i
          /\ \A k, l \in 1 .. n : k < l => at[k] # at[l] /\ at[l] \notin before[at[k]]
        <2>1. PICK w : w = before
            OBVIOUS
        <2> HIDE DEF before
        <2>2. LET p == Listed(1 .. n, Stable(w, n))
              IN  /\ p \in [1 .. n -> 1 .. n]
                  /\ \A i \in 1 .. n : \E k \in 1 .. n : p[k] = i
                  /\ \A k, l \in 1 .. n : k < l => p[k] # p[l] /\ p[l] \notin w[p[k]]
            <3>1. Comparing(w, n)
                BY <1>6, <2>1
            <3> QED BY <3>1, SortedPlaces
        <2> QED BY <2>1, <2>2
    <1>8. at \in Bijection(1 .. n, 1 .. n)
        <2> HIDE DEF at, before
        <2>1. \A k, l \in 1 .. n : at[k] = at[l] => k = l
            BY <1>7
        <2> QED BY <1>7, <2>1, Fun_IsBij
    <1>9. ASSUME NEW i \in 1 .. n, NEW j \in 1 .. n,
                 SetScore(hs[at[i]], b) > SetScore(hs[at[j]], b)
          PROVE  i < j
        <2>1. PICK p \in 1 .. n, q \in 1 .. n : p = at[i] /\ q = at[j]
            BY <1>7
        <2>2. Better(scored[p], scored[q])
            <3>1. PICK x, y : x = scored[p] /\ y = scored[q]
                OBVIOUS
            <3>2. Numbered(x) /\ Numbered(y) /\ x.score > y.score
                BY <1>4, <1>9, <2>1, <3>1
            <3>3. Beats(x, y)
                BY <3>2 DEF Beats
            <3> QED BY <3>1, <3>2, <3>3, BetterKeys
        <2> HIDE DEF scored, at
        <2>3. p \in before[q] /\ p # q
            <3>1. ~(SetScore(hs[q], b) > SetScore(hs[q], b))
                BY <1>4 DEF Numbered
            <3> QED BY <1>9, <2>1, <2>2, <3>1
        <2> HIDE DEF before
        <2>4. ~(j < i) /\ j # i
            BY <1>7, <2>1, <2>3
        <2> QED BY <2>4
    <1>10. DOMAIN ranked = 1 .. n /\ \A i \in 1 .. n : ranked[i] = scored[at[i]]
        <2> HIDE DEF ranked, scored, at
        <2> QED BY <1>5
    <1>11. \A i \in 1 .. n : /\ ranked[i].id = hs[at[i]].id
                             /\ ranked[i].score = SetScore(hs[at[i]], b)
        <2> HIDE DEF ranked, scored, at, before
        <2> QED BY <1>4, <1>7, <1>10
    <1>12. DOMAIN at = 1 .. n
        <2> HIDE DEF at, before
        <2> QED BY <1>7
    <1> HIDE DEF ranked, scored, at, before
    <1>13. BestFirst(ranked, hs, b)
        BY <1>3, <1>8, <1>9, <1>10, <1>11, <1>12 DEF BestFirst
    <1> QED BY <1>1, <1>13 DEF ranked

-----------------------------------------------------------------------------
(* The theorems *)

\* What is checked as an invariant for a few calls is inductive.
THEOREM QueueInvariant == Spec => []QueueIInv
    <1>1. Init => QueueIInv
        BY InitCandidates, InitNoTwins, InitLoop, InitRanked, InitReview, InitStands, InitQueued
           DEF QueueIInv
    <1>2. FeedbackIInv /\ QueueIInv /\ [Next]_vars => QueueIInv'
        BY StepCandidates, StepNoTwins, StepLoop, StepRanked, StepReview, StepStands, StepQueued
           DEF QueueIInv, FeedbackIInv
    <1> QED BY <1>1, <1>2, FeedbackInvariant, PTL DEF Spec

\* No hypothesis of a brief is queued twice, and the ids a submission returns
\* are those of stored candidates for what it rejected, in order
\* (hypotheses.py:109-157, constraint_candidate_repository.py:22-57).
THEOREM RejectedQueued == Spec => []RejectedAreQueued
    <1>1. QueueIInv => RejectedAreQueued
        BY DEF QueueIInv
    <1> QED BY <1>1, QueueInvariant, PTL

\* A candidate is what the last committed review made of it, and only a
\* review of its tenant or of none says that it updated it
\* (constraint_candidate_repository.py:80-100).
THEOREM ReviewStands == Spec => []LastReviewStands
    <1>1. QueueIInv => LastReviewStands
        BY DEF QueueIInv
    <1> QED BY <1>1, QueueInvariant, PTL

\* However submissions race, die and are made again, each goes on with every
\* hypothesis it was given, scored by the set of the bundle's items it cites
\* and of the constraints it contradicts, best first (hypothesis.py:8-13,
\* 55-164).
THEOREM ScoresAreSets == Spec => []ScoredBySets
    <1>1. ASSUME QueueIInv, NEW c \in Clients, pc[c] \in {"enqueue", "queue"}
          PROVE  BestFirst(call[c].ranked, call[c].hypotheses, call[c].bundle)
        <2>1. PICK s \in Submissions :
                 /\ call[c].bundle = s.bundle /\ call[c].hypotheses = s.hypotheses
                 /\ call[c].ranked = RankHypotheses(s.hypotheses, s.bundle)
            BY <1>1 DEF QueueIInv, RankedInv, SubmitStages
        <2> QED BY <2>1, RankedBest
    <1>2. QueueIInv => ScoredBySets
        BY <1>1 DEF ScoredBySets
    <1> QED BY <1>2, QueueInvariant, PTL

\* The bounds on calls and deaths.
LEMMA Counters ==
    Spec => [](calls \in 0 .. MaxCalls /\ crashes \in 0 .. MaxCrashes)
    <1> DEFINE Counted == calls \in 0 .. MaxCalls /\ crashes \in 0 .. MaxCrashes
    <1>1. Init => Counted
        BY BoundsAssumption DEF Init, SessionInit
    <1>2. ASSUME Counted, NEW c \in Clients, Calls(c) \/ Step(c) \/ Crash(c) PROVE Counted'
        <2>1. \/ calls < MaxCalls /\ calls' = calls + 1 /\ UNCHANGED crashes
              \/ crashes < MaxCrashes /\ crashes' = crashes + 1 /\ UNCHANGED calls
              \/ UNCHANGED <<calls, crashes>>
            BY <1>2 DEF Calls, Step, Crash, Die, Feedback, Submit, Review, Begin, FeedbackStep,
                        QueueStep, CheckBrief, FindOutcome, InsertOutcome, CommitOutcome, Learn,
                        Rescore, Acknowledge, FindCandidate, InsertCandidate, CommitCandidate,
                        Submitted, UpdateCandidate, CommitReview, Go, Goto, End
        <2> QED BY <1>2, <2>1, BoundsAssumption
    <1>3. Counted /\ (Notes \/ UNCHANGED vars) => Counted'
        BY BoundsAssumption DEF Notes, RecordOutcome, vars, session
    <1>4. Counted /\ [Next]_vars => Counted'
        BY <1>2, <1>3 DEF Next
    <1> QED BY <1>1, <1>4, PTL DEF Spec

\* Types of both halves, and whoever has an open transaction is in a call.
THEOREM TypeCorrect == Spec => []TypeOK
    <1>1. /\ FeedbackIInv /\ QueueIInv
          /\ calls \in 0 .. MaxCalls /\ crashes \in 0 .. MaxCrashes
          => TypeOK
        <2> SUFFICES ASSUME FeedbackIInv, QueueIInv PROVE
              /\ \A row \in outcomes : row.id \in 1 .. issued
              /\ \A row \in candidates : row.id \in 1 .. drawn
              /\ \A row \in candidates : row.status \in Statuses
              /\ \A c \in Clients :
                   /\ inserting[c] # NoRow <=> pc[c] = "commit"
                   /\ queuing[c] # NoCandidate <=> pc[c] = "commitQueue"
                   /\ reviewing[c] # 0 <=> pc[c] = "commitReview"
                   /\ pc[c] = "idle" <=> call[c] = NoCall
              /\ DOMAIN verdicts = {row.id : row \in candidates}
            BY DEF TypeOK
        <2>1. \A c \in Clients : pc[c] = "idle" <=> call[c] = NoCall
            BY DEF FeedbackIInv, CallsInv, Shape, NoCall, FeedbackStages, SubmitStages, ReviewStages
        <2> QED BY <2>1
                DEF FeedbackIInv, QueueIInv, RowsInv, Rows, CandidatesInv, Candidate
    <1> QED BY <1>1, FeedbackInvariant, QueueInvariant, Counters, PTL

=============================================================================
