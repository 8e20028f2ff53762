---------------------------- MODULE BriefBuilder ----------------------------
(***************************************************************************)
(* BriefBuilder.build_and_log, called by get_context_brief                 *)
(* (src/chips/compiler/builder.py, decision_log_producer.py,               *)
(* mcp/modules/brief.py).  A call embeds its task, runs the queries of     *)
(* BriefRetrieval one after the other at READ COMMITTED, probes two        *)
(* outside sources, assembles what BriefAssembly says, stores the brief,   *)
(* commits, and stores its decision row in a second transaction.  Other    *)
(* sessions meanwhile add and retire constraints, as ConstraintRegister    *)
(* allows; the sources come and go; the call may die at any step.          *)
(*                                                                         *)
(* A world is what a behaviour finds: rows, files, policies and the calls  *)
(* and outside events it will see.                                         *)
(***************************************************************************)
EXTENDS BriefAssembly, FiniteSets

CONSTANTS
    Worlds,         \* the initial contents
    Answers,        \* what the cross-encoder may answer, by name
    Rules,          \* constraints that can be in force: identity and kind
    MaxConstraints  \* bound on the constraint ids

\* A table of rows that have these columns, numbers in some of them.
Table(rows, columns, numbers) ==
    /\ rows \in Seq(ToSet(rows))
    /\ \A x \in ToSet(rows) : /\ columns \cup numbers \subseteq DOMAIN x
                              /\ \A n \in numbers : x[n] \in Int
                              /\ \A n \in numbers \cap {"chars", "tokens"} : x[n] >= 0

Texts == {"id", "chars", "tokens"}

\* The keys of the tables, which name a row each, and the ids of what was found
\* in the code, which start with "find:" or "struct:" (migrations 001, evidence.py,
\* structural.py): an id says of what kind it is.
OwnIds(w) ==
    LET reports == UNION {{m.enrichment[k] : k \in DOMAIN m.enrichment} : m \in ToSet(w.memories)}
        found == UNION {ToSet(IdsOf(report)) : report \in reports \cup {w.symbols}}
        kinds == <<ToSet(IdsOf(w.memories)), ToSet(IdsOf(w.files)), ToSet(IdsOf(w.commits)), found>>
    IN  /\ \A rows \in {w.memories, w.files, w.commits} : IsInjective(IdsOf(rows))
        /\ \A i, j \in DOMAIN kinds : i # j => kinds[i] \cap kinds[j] = {}

\* What the migrations, the parser and the policy files make sure of.
IsWorld(w) ==
    /\ Table(w.memories, {"tenant", "type", "enrichment"}, Texts \cup {"confidence", "learned"})
    /\ \A m \in ToSet(w.memories) : \A k \in DOMAIN m.enrichment :
          Table(m.enrichment[k], {}, Texts \cup {"rank", "line"})
    /\ Table(w.files, {"tenant"}, Texts \cup {"churn", "entropy", "defects", "recency"})
    /\ Table(w.commits, {"tenant"}, Texts \cup {"recency", "pairs"})
    /\ Table(w.symbols, {"name", "callees"}, Texts)
    /\ \A d \in ToSet(w.symbols) : d.callees \in Seq(ToSet(d.callees))
    /\ OwnIds(w)
    /\ Table(w.policies, {"forbidden", "required"}, {})
    /\ \A p \in ToSet(w.policies) : /\ p.forbidden \in Seq(ToSet(p.forbidden))
                                    /\ p.required \in Seq(ToSet(p.required))
    /\ w.rules \in Seq(Rules) /\ Len(w.rules) <= MaxConstraints
    /\ \A req \in w.requests : req.files \in Seq(ToSet(req.files))
    /\ w.answers \subseteq DOMAIN Answers
    /\ w.calls \in Nat /\ w.events \in Nat

ASSUME BuilderAssumption ==
    /\ RetrievalAssumption
    /\ AssemblyAssumption
    /\ MaxConstraints \in Nat
    /\ None \notin 1 .. MaxConstraints
    /\ None \notin {"available", "error"}
    /\ IsFiniteSet(Rules)
    /\ \A r \in Rules : /\ r = [kind |-> r.kind, scope |-> r.scope, tenant |-> r.tenant,
                                target |-> r.target]
                        /\ r.kind \in {"forbidden", "invariant", "known_issue"}
    /\ \A a \in DOMAIN Answers : LET raw == Answers[a].scores IN
          IsFiniteSet(DOMAIN raw) /\ \A i \in DOMAIN raw : raw[i] \in Nat
    /\ \A w \in Worlds : IsWorld(w)

VARIABLES
    world,      \* the rows and the working tree; they do not change
    active,     \* the constraint in force for each rule, or None
    retired,    \* the constraints that were retired
    sources,    \* what a probe of each outside source would report
    pc,         \* where the call is, or "idle"
    job,        \* what the call has gathered so far
    cache,      \* the builder's probe results
    briefs,     \* cortex_briefs
    decisions,  \* cortex_decision_log
    answered,   \* the briefs that were returned to a caller
    calls,      \* how many calls were made
    events,     \* how many outside events happened
    window      \* history: the constraints in force during the open call

register == <<active, retired>>
tables == <<briefs, decisions>>
vars == <<world, active, retired, sources, pc, job, cache, briefs, decisions, answered,
          calls, events, window>>

Register == INSTANCE ConstraintRegister WITH Identities <- Rules, Ids <- 1 .. MaxConstraints

Sources == {"runtime", "workflow"}
Statuses == {"available", "error"}
NoJob == [field \in {} |-> None]
NoCache == [s \in Sources |-> None]
NoWindow == [always |-> {}, ever |-> {}]

InForceIds == {active[r] : r \in Rules} \ {None}

\* The stages of a call, in their order.
After ==
    [embed |-> "memories", memories |-> "files", files |-> "diffs", diffs |-> "structural",
     structural |-> "runtime", runtime |-> "workflow", workflow |-> "assemble",
     assemble |-> "rerank", rerank |-> "compress", compress |-> "persist",
     persist |-> "decide", decide |-> "return"]
Stages == DOMAIN After \cup {"return"}

\* The call gathers more and goes on.
Gather(more) ==
    /\ pc' = After[pc]
    /\ job' = Over(more, job)

-----------------------------------------------------------------------------
(* get_context_brief: a connection and a builder of its own *)

Call(req) ==
    /\ pc = "idle"
    /\ calls < world.calls
    /\ pc' = "embed"
    /\ job' = [req |-> req]
    /\ cache' = NoCache
    /\ calls' = calls + 1
    /\ window' = [always |-> InForceIds, ever |-> InForceIds]
    /\ UNCHANGED <<world, register, sources, tables, answered, events>>

Embed ==
    /\ pc = "embed"
    /\ Gather(NoJob)
    /\ UNCHANGED <<world, register, sources, cache, tables, answered, calls, events, window>>

-----------------------------------------------------------------------------
(* _retrieve *)

\* What MemoryExtractor stored with the commit's memory.
WithFindings(m) == Over([findings |-> ExtractFindings(m.enrichment)], m)

MemoriesStep ==
    /\ pc = "memories"
    /\ LET memories == Mapped(RetrieveMemories(world, job.req), WithFindings)
       IN  Gather([memories |-> memories, governor |-> Governor(memories)])
    /\ UNCHANGED <<world, register, sources, cache, tables, answered, calls, events, window>>

FilesStatus(files, req, governor) ==
    IF governor.triggered \/ req.files = <<>> THEN "not_configured"
    ELSE IF files # <<>> THEN "available" ELSE "unavailable"

FilesStep ==
    /\ pc = "files"
    /\ LET files == IF job.governor.triggered THEN <<>> ELSE RetrieveFileSignals(world, job.req)
       IN  Gather([files |-> files, fileStatus |-> FilesStatus(files, job.req, job.governor)])
    /\ UNCHANGED <<world, register, sources, cache, tables, answered, calls, events, window>>

DiffsStep ==
    /\ pc = "diffs"
    /\ Gather([diffs |-> IF job.governor.triggered THEN <<>> ELSE RetrieveDiffs(world, job.req)])
    /\ UNCHANGED <<world, register, sources, cache, tables, answered, calls, events, window>>

\* The definitions of the request's files, file by file.
Parsed(symbols, files) ==
    FlattenSeq(Mapped(files, LAMBDA f : Where(symbols, LAMBDA s : s.file = f)))

\* An exception in the walk is logged, and the brief goes without it.
StructuralStep ==
    /\ pc = "structural"
    /\ LET skipped == job.req.files = <<>> \/ job.governor.triggered
           found == RetrieveStructural(Parsed(world.symbols, job.req.files))
       IN  \E walk \in IF skipped THEN {"skipped"} ELSE {"success", "error"} :
             Gather([walk |-> walk, structural |-> IF walk = "success" THEN found ELSE <<>>])
    /\ UNCHANGED <<world, register, sources, cache, tables, answered, calls, events, window>>

-----------------------------------------------------------------------------
(* _rank_and_assemble *)

\* _probe_cached: a call takes less than the lifetime of an entry.
Probe(s) ==
    /\ pc = s
    /\ LET status == IF cache[s] = None THEN sources[s] ELSE cache[s]
       IN  /\ Gather([x \in {s} |-> status])
           /\ cache' = [cache EXCEPT ![s] = status]
    /\ UNCHANGED <<world, register, sources, tables, answered, calls, events, window>>

\* ConstraintRepository.for_scope: newest first.
ForScope(req) ==
    LET rules == {r \in Rules : active[r] # None /\ InForce(r, req)}
        newer == [r \in rules |-> {q \in rules : active[q] > active[r]}]
    IN  Mapped(Listed(rules, newer), LAMBDA r : Over([id |-> active[r]], r))

Assemble ==
    /\ pc = "assemble"
    /\ LET learned == ForScope(job.req)
           policies == PoliciesFor(world.policies, job.req.scope)
           signals == RankSignals(job.memories, job.files, job.diffs)
       IN  Gather([learned |-> learned,
                   signals |-> signals,
                   hard |-> HardConstraints(learned, policies, job.memories),
                   forbidden |-> ForbiddenEdits(learned, policies),
                   allowed |-> AllowedEdits(learned, policies),
                   items |-> SoftItems(job.memories, job.files, job.diffs, job.structural,
                                       signals)])
    /\ UNCHANGED <<world, register, sources, cache, tables, answered, calls, events, window>>

-----------------------------------------------------------------------------
(* _rerank, _compress, _persist, record_brief_decision *)

RerankStep ==
    /\ pc = "rerank"
    /\ \E a \in world.answers : Gather(Rerank(job.signals, job.items, Answers[a]))
    /\ UNCHANGED <<world, register, sources, cache, tables, answered, calls, events, window>>

CompressStep ==
    /\ pc = "compress"
    /\ \E reply \in {"summary", "blank", "failed"} :
         Gather(Over([bundle |-> EvidenceBundle(job.learned, job.items)],
                     Compress(job.items, reply)))
    /\ UNCHANGED <<world, register, sources, cache, tables, answered, calls, events, window>>

\* build_decision_fields
DecisionRow(brief) ==
    [brief |-> brief.id,
     tenant |-> brief.req.tenant,
     memories |-> Len(brief.memories),
     skipped |-> brief.governor.skipped,
     files |-> brief.fileStatus,
     evidence |-> IdsOf(brief.signals)]

\* Mutant of Persist: build logs the decision as well.
PersistAndLog ==
    /\ pc = "persist"
    /\ Gather([id |-> Len(briefs) + 1])
    /\ briefs' = Append(briefs, job)
    /\ decisions' = Append(decisions, DecisionRow(job'))
    /\ UNCHANGED <<world, register, sources, cache, answered, calls, events, window>>

\* The brief is committed; its id is its place.
Persist ==
    /\ pc = "persist"
    /\ Gather([id |-> Len(briefs) + 1])
    /\ briefs' = Append(briefs, job)
    /\ UNCHANGED <<world, register, sources, cache, decisions, answered, calls, events, window>>

Decide ==
    /\ pc = "decide"
    /\ Gather(NoJob)
    /\ decisions' = Append(decisions, DecisionRow(job))
    /\ UNCHANGED <<world, register, sources, cache, briefs, answered, calls, events, window>>

Done ==
    /\ pc' = "idle"
    /\ job' = NoJob
    /\ window' = NoWindow

Return ==
    /\ pc = "return"
    /\ answered' = answered \cup {job.id}
    /\ Done
    /\ UNCHANGED <<world, register, sources, cache, tables, calls, events>>

-----------------------------------------------------------------------------
(* What happens around the call *)

Outside == events < world.events /\ events' = events + 1

\* Mutant of Abort: the next call finds what this one gathered.
AbortKeepsJob ==
    /\ pc # "idle"
    /\ Outside
    /\ pc' = "idle"
    /\ window' = NoWindow
    /\ UNCHANGED <<world, register, sources, job, cache, tables, answered, calls>>

\* The call raises or its process dies; what it committed stays.
Abort ==
    /\ pc # "idle"
    /\ Outside
    /\ Done
    /\ UNCHANGED <<world, register, sources, cache, tables, answered, calls>>

ChangeConstraint ==
    /\ Outside
    /\ LET added == Cardinality(InForceIds \cup retired)
       IN  \E r \in Rules : \/ Register!Retire(r)
                            \/ added < MaxConstraints /\ Register!Add(r, added + 1)
    /\ window' = IF pc = "idle" THEN NoWindow
                 ELSE [window EXCEPT !.always = @ \cap InForceIds', !.ever = @ \cup InForceIds']
    /\ UNCHANGED <<world, sources, pc, job, cache, tables, answered, calls>>

ChangeSource ==
    /\ Outside
    /\ \E s \in Sources : \E status \in Statuses \ {sources[s]} :
         sources' = [sources EXCEPT ![s] = status]
    /\ UNCHANGED <<world, register, pc, job, cache, tables, answered, calls, window>>

-----------------------------------------------------------------------------
(* The specification *)

\* The constraints world.rules were added before, in their order.
Init ==
    /\ world \in Worlds
    /\ active = [r \in Rules |-> IF Contains(world.rules, r)
                                 THEN CHOOSE i \in DOMAIN world.rules : world.rules[i] = r
                                 ELSE None]
    /\ retired = {}
    /\ sources = [s \in Sources |-> "available"]
    /\ pc = "idle"
    /\ job = NoJob
    /\ cache = NoCache
    /\ briefs = <<>>
    /\ decisions = <<>>
    /\ answered = {}
    /\ calls = 0
    /\ events = 0
    /\ window = NoWindow

Step ==
    \/ Embed \/ MemoriesStep \/ FilesStep \/ DiffsStep \/ StructuralStep
    \/ \E s \in Sources : Probe(s)
    \/ Assemble \/ RerankStep \/ CompressStep \/ Persist \/ Decide \/ Return

Next ==
    \/ \E req \in world.requests : Call(req)
    \/ Step
    \/ Abort \/ ChangeConstraint \/ ChangeSource

Spec == Init /\ [][Next]_vars

-----------------------------------------------------------------------------
(* Properties.  They say in sets what the operators above compute.         *)

\* Types, and which parts of a call go together (builder.py:250-385).
TypeOK ==
    /\ active \in [Rules -> 1 .. MaxConstraints \cup {None}]
    /\ retired \subseteq 1 .. MaxConstraints
    /\ sources \in [Sources -> Statuses]
    /\ cache \in [Sources -> Statuses \cup {None}]
    /\ pc \in Stages \cup {"idle"}
    /\ pc = "idle" <=> DOMAIN job = {}
    /\ pc = "idle" => window = NoWindow
    /\ \A i \in DOMAIN decisions : decisions[i].brief \in DOMAIN briefs
    /\ answered \subseteq DOMAIN briefs
    /\ calls \in 0 .. world.calls /\ events \in 0 .. world.events

Has(field) == field \in DOMAIN job

Applies(rule, req) ==
    /\ rule.scope \in {"*", req.scope}
    /\ req.tenant \in {None, rule.tenant}

Shown(layer) == {e[2] : e \in {x \in ToSet(job.hard) : x[1] = layer}}

\* A constraint that was in force for the task from the call to the answer is
\* among the hard constraints and in the evidence bundle, and the edit it
\* forbids is not allowed; what is shown was in force at some moment of the
\* call (constraints.py:83-122, builder.py:513-531).
ShowsConstraintsInForce ==
    Has("hard") =>
        /\ \A r \in {q \in Rules : active[q] \in window.always /\ Applies(q, job.req)} :
             /\ active[r] \in Shown("constraint")
             /\ Has("bundle") => \E i \in DOMAIN job.bundle.constraints :
                                    job.bundle.constraints[i].id = active[r]
             /\ r.kind # "known_issue" => r.target \notin ToSet(job.allowed)
        /\ Shown("constraint") \subseteq window.ever

Decided(b) == {i \in DOMAIN decisions : decisions[i].brief = b}

\* A brief has at most one decision row, a returned brief has one, and only a
\* call that died leaves a brief without; the row agrees with the brief, and a
\* source it does not call skipped was read (builder.py:369-385,
\* decision_log_producer.py:24-58).
OneDecisionPerBrief ==
    /\ \A b \in DOMAIN briefs : Cardinality(Decided(b)) <= 1
    /\ \A b \in answered : Decided(b) # {}
    /\ Cardinality({b \in DOMAIN briefs : Decided(b) = {}} \cup answered) <= calls
    /\ \A i \in DOMAIN decisions :
         LET brief == briefs[decisions[i].brief]
         IN  /\ ToSet(decisions[i].evidence)
                  = ToSet(IdsOf(brief.memories) \o IdsOf(brief.files) \o IdsOf(brief.diffs))
             /\ "diffs" \notin decisions[i].skipped =>
                  brief.diffs = RetrieveDiffs(world, brief.req)

\* Everything that was retrieved is ranked once and ends as a hard constraint,
\* in the prompt, or in the trace of what was dropped, never in two of them
\* (builder.py:534-591, reranker.py:87-120, compressor.py:80-89).
NothingGetsLost ==
    Has("kept") =>
        LET retrieved == ToSet(IdsOf(job.memories) \o IdsOf(job.files) \o IdsOf(job.diffs))
            soft == retrieved \cup ToSet(IdsOf(job.structural))
            kept == ToSet(IdsOf(job.kept))
            dropped == ToSet(IdsOf(job.dropped))
        IN  /\ soft \subseteq Shown("memory") \cup kept \cup dropped
            /\ kept \cap dropped = {}
            /\ (kept \cup dropped) \cap Shown("memory") = {}
            /\ ToSet(IdsOf(job.signals)) = retrieved
            /\ IsInjective(IdsOf(job.signals))

TooMuch(items) ==
    \/ Len(items) > MaxItems
    \/ Total(items, LAMBDA x : x.chars + 4) > CharBudget
    \/ Total(items, LAMBDA x : x.tokens) > TokenBudget

\* The items of the prompt respect all three limits and nothing that was
\* dropped would still fit; only when no item fits is one too large sent
\* (compressor.py:126-167).
PromptIsFull ==
    Has("kept") =>
        /\ TooMuch(job.kept) => \A i \in DOMAIN job.items : TooMuch(<<job.items[i]>>)
        /\ Len(job.kept) <= MaxItems
        /\ job.items # <<>> => job.kept # <<>>
        /\ \A i \in DOMAIN job.dropped : TooMuch(Append(job.kept, job.dropped[i]))

\* What the analysers of one kind found in a memory's commit.
Reported(m, kind) == IF kind \in DOMAIN m.enrichment THEN m.enrichment[kind] ELSE <<>>

\* A severe finding about a retrieved memory's commit is a hard constraint,
\* unless the cap was spent on findings at least as severe; an architecture
\* violation always is (findings.py:21-52, builder.py:155-172).
SevereFindingsShown ==
    Has("hard") =>
        \A i \in DOMAIN job.memories : LET found == Reported(job.memories[i], "security") IN
            /\ \A f \in ToSet(Reported(job.memories[i], "architecture")) :
                 f.id \in Shown("finding")
            /\ \A f \in {x \in ToSet(found) : x.rank > 0} :
                 \/ f.id \in Shown("finding")
                 \/ Cardinality({j \in DOMAIN found :
                                   found[j].rank >= f.rank /\ found[j].id \in Shown("finding")})
                      >= FindingCap["security"]

\* The definitions that n calls lead to.
WithinHops(symbols, from, n) ==
    LET near[k \in 0 .. n] ==
            IF k = 0 THEN from
            ELSE near[k - 1] \cup {c \in Defined(symbols) : \E b \in near[k - 1] :
                                      Contains(Definition(symbols, b).callees, c)}
    IN  near[n]

\* The walk finds each definition within HopDepth calls of an anchor once, by
\* whatever path it is reached, unless the budget ends it (structural.py:219-261).
WalkFindsWhatIsNear ==
    Has("walk") /\ job.walk = "success" =>
        LET symbols == Parsed(world.symbols, job.req.files)
            near == WithinHops(symbols, ToSet(Anchors(symbols)), HopDepth)
            found == {x.name : x \in ToSet(job.structural)}
            used == Total(job.structural, LAMBDA x : x.tokens)
        IN  /\ found \subseteq near
            /\ Cardinality(found) = Len(job.structural)
            /\ used <= WalkBudget
            /\ \/ found = near
               \/ \E n \in near \ found : used + Definition(symbols, n).tokens > WalkBudget

\* A brief for a tenant holds no row of another one, whichever of the queries
\* found it (tenant.py:22-35 and the four queries of a brief).
NoForeignRows ==
    Has("learned") /\ job.req.tenant # None =>
        \A row \in ToSet(job.memories) \cup ToSet(job.files) \cup ToSet(job.diffs)
                     \cup ToSet(job.learned) :
            row.tenant = job.req.tenant

-----------------------------------------------------------------------------
(* The inductive invariant of BriefBuilder_proofs: what a call has gathered *)
(* at each stage, where it came from, and what of it was stored.            *)

\* The fields a call has when it gets to a stage.
Gathered ==
    LET memories == {"req"}
        files == memories \cup {"memories", "governor"}
        diffs == files \cup {"files", "fileStatus"}
        structural == diffs \cup {"diffs"}
        runtime == structural \cup {"walk", "structural"}
        workflow == runtime \cup {"runtime"}
        assemble == workflow \cup {"workflow"}
        rerank == assemble \cup {"learned", "signals", "hard", "forbidden", "allowed", "items"}
        persist == rerank \cup {"context", "kept", "dropped", "bundle"}
        decide == persist \cup {"id"}
    IN  [idle |-> {}, embed |-> {"req"}, memories |-> memories, files |-> files, diffs |-> diffs,
         structural |-> structural, runtime |-> runtime, workflow |-> workflow,
         assemble |-> assemble, rerank |-> rerank, compress |-> rerank, persist |-> persist,
         decide |-> decide, return |-> decide]

Seen == [always : SUBSET (1 .. MaxConstraints), ever : SUBSET (1 .. MaxConstraints)]

CallInv ==
    /\ IsWorld(world)
    /\ DOMAIN job = Gathered[pc]
    /\ Has("req") => job.req \in world.requests
    /\ window \in Seen

\* An id belongs to one rule; the window of a call follows the register.
RegisterInv ==
    /\ \A q, r \in Rules : active[q] = active[r] /\ active[q] # None => q = r
    /\ pc # "idle" => window.always \subseteq InForceIds /\ InForceIds \subseteq window.ever

\* What a brief says was read is what was read.
Faithful(brief) ==
    /\ brief.memories = Mapped(RetrieveMemories(world, brief.req), WithFindings)
    /\ brief.governor = Governor(brief.memories)

Read(brief, rows) == IF brief.governor.triggered THEN <<>> ELSE rows

RetrievedInv ==
    /\ Has("memories") => Faithful(job)
    /\ Has("files") => job.files = Read(job, RetrieveFileSignals(world, job.req))
    /\ Has("diffs") => job.diffs = Read(job, RetrieveDiffs(world, job.req))
    /\ Has("structural") =>
          job.structural = IF job.walk = "success"
                           THEN RetrieveStructural(Parsed(world.symbols, job.req.files)) ELSE <<>>

Learned(r) == Over([id |-> active[r]], r)

LearnedInv ==
    /\ Has("learned") =>
          LET policies == PoliciesFor(world.policies, job.req.scope)
          IN  /\ job.learned \in Seq(ToSet(job.learned))
              /\ \A c \in ToSet(job.learned) : \E i \in window.ever, r \in Rules :
                    InForce(r, job.req) /\ c = Over([id |-> i], r)
              /\ \A r \in Rules : active[r] \in window.always /\ InForce(r, job.req) =>
                    Learned(r) \in ToSet(job.learned)
              /\ job.hard = HardConstraints(job.learned, policies, job.memories)
              /\ job.allowed = AllowedEdits(job.learned, policies)
    /\ Has("bundle") => job.bundle = EvidenceBundle(job.learned, job.items)

Retrieved(brief) == IdsOf(brief.memories) \o IdsOf(brief.files) \o IdsOf(brief.diffs)

\* Ranked and reranked, the signals are those of what was retrieved.
SignalsInv ==
    Has("signals") => /\ Table(job.signals, {}, {"id", "score"})
                      /\ Table(job.items, {}, Texts \cup {"score"})
                      /\ ToSet(IdsOf(job.signals)) = ToSet(Retrieved(job))

\* No two of the rows have one of these ids.
Once(rows, ids) ==
    \A i, j \in DOMAIN rows : rows[i].id = rows[j].id /\ rows[i].id \in ids => i = j

Vows(brief) == {m.id : m \in {x \in ToSet(brief.memories) : Unbreakable(x)}}

\* What was retrieved has one signal and is an item, once, or a vow; an item is
\* sent or dropped.
PlacedInv ==
    /\ Has("items") =>
          LET retrieved == ToSet(Retrieved(job))
              items == ToSet(IdsOf(job.items))
          IN  /\ Once(job.signals, retrieved) /\ Once(job.items, retrieved)
              /\ retrieved \cup ToSet(IdsOf(job.structural)) \subseteq items \cup Vows(job)
              /\ items \cap Vows(job) = {}
    /\ Has("kept") =>
          LET kept == ToSet(IdsOf(job.kept))
              dropped == ToSet(IdsOf(job.dropped))
          IN  kept \cup dropped = ToSet(IdsOf(job.items)) /\ kept \cap dropped = {}

\* The call's brief is stored once, and then its decision, once.
StoredInv ==
    /\ briefs \in Seq(ToSet(briefs)) /\ decisions \in Seq(ToSet(decisions))
    /\ Len(briefs) <= calls
    /\ pc \in Stages \ {"decide", "return"} => Len(briefs) < calls
    /\ \A b \in DOMAIN briefs :
          LET brief == briefs[b]
          IN  /\ DOMAIN brief = Gathered["persist"]
              /\ Faithful(brief)
              /\ brief.diffs = Read(brief, RetrieveDiffs(world, brief.req))
              /\ ToSet(IdsOf(brief.signals)) = ToSet(Retrieved(brief))
    /\ \A i \in DOMAIN decisions : LET b == decisions[i].brief IN
          b \in DOMAIN briefs /\ decisions[i] = DecisionRow(Over([id |-> b], briefs[b]))
    /\ \A i, j \in DOMAIN decisions : decisions[i].brief = decisions[j].brief => i = j
    /\ pc \in {"decide", "return"} =>
          job.id \in DOMAIN briefs /\ job = Over([id |-> job.id], briefs[job.id])
    /\ pc = "decide" => Decided(job.id) = {}
    /\ pc = "return" => Decided(job.id) # {}
    /\ \A b \in answered : b \in DOMAIN briefs /\ Decided(b) # {}

IInv ==
    /\ TypeOK
    /\ CallInv
    /\ RegisterInv
    /\ RetrievedInv
    /\ LearnedInv
    /\ SignalsInv
    /\ PlacedInv
    /\ PromptIsFull
    /\ StoredInv
=============================================================================
