--------------------------- MODULE BriefRetrieval ---------------------------
(***************************************************************************)
(* What a brief retrieves and how it orders it: the queries of             *)
(* src/chips/compiler/retrieval.py, the governor, the ranker, the reranker *)
(* and the walk over the call graph (governor.py, ranker.py, reranker.py,  *)
(* structural.py).  Pure operators over one state of the database and of   *)
(* the working tree.  Scores and confidences are thousandths; item ids are *)
(* numbers, ordered as the program orders its strings.                     *)
(***************************************************************************)
EXTENDS Integers, Sequences, FiniteSets, SequencesExt, Sorting

CONSTANTS
    MemoryLimit,    \* LIMIT of the semantic search
    DiffLimit,      \* LIMIT of the commit query
    MinItems,       \* memories the governor wants to see
    Threshold,      \* the mean confidence it is content with
    WalkBudget,     \* token budget of the structural walk
    HopDepth,       \* how many calls it follows
    MaxAnchors,     \* how many symbols it starts from
    None            \* Python's None

RetrievalAssumption ==
    {MemoryLimit, DiffLimit, MinItems, Threshold, WalkBudget, HopDepth, MaxAnchors} \subseteq Nat

\* The elements of s at the places of I, in their order.
At(s, I) ==
    LET upTo[i \in 0 .. Len(s)] ==
          IF i = 0 THEN <<>>
          ELSE IF i \in I THEN Append(upTo[i - 1], s[i]) ELSE upTo[i - 1]
    IN  upTo[Len(s)]

\* A comprehension with a condition.
Where(s, P(_)) == At(s, {i \in DOMAIN s : P(s[i])})

\* A record with other fields put over it.
Over(new, old) ==
    [f \in DOMAIN new \cup DOMAIN old |-> IF f \in DOMAIN new THEN new[f] ELSE old[f]]

Take(s, n) == SubSeq(s, 1, IF Len(s) < n THEN Len(s) ELSE n)
Lesser(a, b) == IF a < b THEN a ELSE b
Greater(a, b) == IF a < b THEN b ELSE a
Mapped(s, f(_)) == [i \in DOMAIN s |-> f(s[i])]
IdsOf(s) == Mapped(s, LAMBDA x : x.id)
Total(s, f(_)) == FoldLeft(LAMBDA sum, x : sum + f(x), 0, s)

-----------------------------------------------------------------------------
(* The queries *)

InTenant(row, tenant) == tenant = None \/ row.tenant = tenant

\* db.memories holds the live, embedded rows, nearest to the task first.
RetrieveMemories(db, req) ==
    Take(Where(db.memories, LAMBDA m : /\ req.scope = None \/ m.scope = req.scope
                                       /\ InTenant(m, req.tenant)),
         MemoryLimit)

\* The stored confidence scaled into churn, entropy and defect weights.
Fragility(row) ==
    Lesser((45 * row.churn + 35 * row.entropy + 15 * (IF row.defects > 0 THEN 1000 ELSE 0)) \div 100,
           1000)

RetrieveFileSignals(db, req) ==
    LET rows == Where(db.files, LAMBDA f : /\ Contains(req.files, f.id)
                                           /\ InTenant(f, req.tenant))
    IN  Mapped(rows, LAMBDA f : Over([fragility |-> Fragility(f)], f))

\* Mutant of RetrieveDiffs: no tenant in the query.
RetrieveDiffsOfAll(db, req) ==
    Take(Where(db.commits, LAMBDA c : req.scope = None \/ req.scope \in c.touches), DiffLimit)

\* db.commits holds the newest first; a scope matches a part of a path.
RetrieveDiffs(db, req) ==
    Take(Where(db.commits, LAMBDA c : /\ req.scope = None \/ req.scope \in c.touches
                                      /\ InTenant(c, req.tenant)),
         DiffLimit)

-----------------------------------------------------------------------------
(* The governor: whether the memories alone are good enough *)

MeanReached(memories) ==
    Total(memories, LAMBDA m : m.confidence) >= Threshold * Len(memories)

Governor(memories) ==
    LET triggered == memories # <<>> /\ Len(memories) >= MinItems /\ MeanReached(memories)
    IN  [triggered |-> triggered,
         items |-> Len(memories),
         skipped |-> IF triggered THEN {"diffs", "file_signals"} ELSE {}]

-----------------------------------------------------------------------------
(* The ranker *)

Signal(item, type, score) == [id |-> item.id, type |-> type, score |-> score]

MemorySignal(m) ==
    Signal(m, "memory", Lesser(Greater(m.confidence + m.learned, 0), 1000))

FileSignal(f) ==
    LET fragility == IF f.fragility # 0 THEN f.fragility ELSE f.churn
    IN  Signal(f, "file", Lesser((2 * fragility + 3 * f.recency) \div 5, 1000))

DiffSignal(c) ==
    Signal(c, "diff", Lesser((3 * c.recency + 2 * Lesser(100 * c.pairs, 1000)) \div 10, 1000))

HigherScore(a, b) == a.score > b.score

RankSignals(memories, files, diffs) ==
    SortedBy(Mapped(memories, MemorySignal) \o Mapped(files, FileSignal)
               \o Mapped(diffs, DiffSignal),
             HigherScore)

-----------------------------------------------------------------------------
(* The reranker.  An answer of the cross-encoder is a function from item   *)
(* ids to raw scores; it may be absent ("unavailable", "error") and it may *)
(* leave items out.                                                        *)

BestFirst(a, b) == \/ a.score > b.score
                   \/ a.score = b.score /\ a.id < b.id

\* Mutant of Rerank: signals of hard constraints are forgotten.
RerankItemsOnly(signals, items, answer) ==
    LET raw == answer.scores
        best == CHOOSE x \in {raw[i] : i \in DOMAIN raw} :
                    \A i \in DOMAIN raw : raw[i] <= x
        norm(id) == IF id \notin DOMAIN raw THEN 0
                    ELSE (1000 * raw[id]) \div (IF best = 0 THEN 1 ELSE best)
        merged(item) == [item EXCEPT !.score = (7 * norm(item.id) + 3 * @) \div 10]
        matched == Where(items, LAMBDA x : Contains(IdsOf(signals), x.id))
        rescored(x) == LET s == SelectInSeq(signals, LAMBDA y : y.id = x.id)
                       IN  [signals[s] EXCEPT !.score = merged(x).score]
    IN  IF items = <<>> \/ answer.status # "scored" \/ DOMAIN raw = {}
        THEN [signals |-> signals, items |-> items]
        ELSE [signals |-> SortedBy(Mapped(matched, rescored), HigherScore),
              items |-> SortedBy(Mapped(items, merged), BestFirst)]

Rerank(signals, items, answer) ==
    LET raw == answer.scores
        best == CHOOSE x \in {raw[i] : i \in DOMAIN raw} :
                    \A i \in DOMAIN raw : raw[i] <= x
        norm(id) == IF id \notin DOMAIN raw THEN 0
                    ELSE (1000 * raw[id]) \div (IF best = 0 THEN 1 ELSE best)
        merged(item) == [item EXCEPT !.score = (7 * norm(item.id) + 3 * @) \div 10]
        matched == Where(items, LAMBDA x : Contains(IdsOf(signals), x.id))
        rescored(x) == LET s == SelectInSeq(signals, LAMBDA y : y.id = x.id)
                       IN  [signals[s] EXCEPT !.score = merged(x).score]
        others == Where(signals, LAMBDA s : ~Contains(IdsOf(items), s.id))
    IN  IF items = <<>> \/ answer.status # "scored" \/ DOMAIN raw = {}
        THEN [signals |-> signals, items |-> items]
        ELSE [signals |-> SortedBy(Mapped(matched, rescored) \o others, HigherScore),
              items |-> SortedBy(Mapped(items, merged), BestFirst)]

-----------------------------------------------------------------------------
(* The structural walk.  A symbol is a definition the parser found: its    *)
(* name, its file, the tokens of its text and the names it calls, each     *)
(* once.  Of two definitions of one name the later stands, in the place of *)
(* the first (a dict that is assigned twice).                              *)

Names(symbols) ==
    LET firsts == {i \in DOMAIN symbols : \A j \in 1 .. i - 1 : symbols[j].name # symbols[i].name}
    IN  Mapped(At(symbols, firsts), LAMBDA s : s.name)

Definition(symbols, name) == symbols[SelectLastInSeq(symbols, LAMBDA s : s.name = name)]

Defined(symbols) == {symbols[i].name : i \in DOMAIN symbols}

Anchors(symbols) == Take(Names(symbols), MaxAnchors)

NoWalk == [queue |-> <<>>, depth |-> <<>>, visited |-> {}, found |-> <<>>, used |-> 0, full |-> FALSE]

\* Mutant of Visit: callees go to the front of the queue.
VisitDepthFirst(symbols, w) ==
    LET name == Head(w.queue)
        sym == Definition(symbols, name)
        seen == w.visited \cup {name}
        calls == IF w.depth[name] >= HopDepth THEN <<>>
                 ELSE Where(sym.callees, LAMBDA c : c \notin seen /\ c \in Defined(symbols))
        reached == [c \in ToSet(calls) |-> w.depth[name] + 1]
    IN  IF w.full \/ w.queue = <<>> THEN w
        ELSE IF name \in w.visited THEN [w EXCEPT !.queue = Tail(@)]
        ELSE IF w.used + sym.tokens > WalkBudget
             THEN [w EXCEPT !.queue = Tail(@), !.visited = seen, !.full = TRUE]
        ELSE [w EXCEPT !.queue = calls \o Tail(@), !.visited = seen,
                       !.found = Append(@, sym), !.used = @ + sym.tokens,
                       !.depth = Over(@, reached)]

Visit(symbols, w) ==
    LET name == Head(w.queue)
        sym == Definition(symbols, name)
        seen == w.visited \cup {name}
        calls == IF w.depth[name] >= HopDepth THEN <<>>
                 ELSE Where(sym.callees, LAMBDA c : c \notin seen /\ c \in Defined(symbols))
        reached == [c \in ToSet(calls) |-> w.depth[name] + 1]
    IN  IF w.full \/ w.queue = <<>> THEN w
        ELSE IF name \in w.visited THEN [w EXCEPT !.queue = Tail(@)]
        ELSE IF w.used + sym.tokens > WalkBudget
             THEN [w EXCEPT !.queue = Tail(@), !.visited = seen, !.full = TRUE]
        ELSE [w EXCEPT !.queue = Tail(@) \o calls, !.visited = seen,
                       !.found = Append(@, sym), !.used = @ + sym.tokens,
                       !.depth = Over(@, reached)]

\* The calls, by the definition and the place in its list.
CallSites(symbols) == UNION {{i} \X DOMAIN symbols[i].callees : i \in DOMAIN symbols}

\* Every pop removes one entry; every definition is expanded once.
WalkSteps(symbols) == MaxAnchors + Cardinality(CallSites(symbols))

RetrieveStructural(symbols) ==
    LET walk[i \in 0 .. WalkSteps(symbols)] ==
          IF i > 0 THEN Visit(symbols, walk[i - 1])
          ELSE [NoWalk EXCEPT !.queue = Anchors(symbols),
                              !.depth = [n \in ToSet(Anchors(symbols)) |-> 0]]
    IN  walk[WalkSteps(symbols)].found

=============================================================================
