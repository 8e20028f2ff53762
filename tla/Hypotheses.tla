----------------------------- MODULE Hypotheses -----------------------------
(***************************************************************************)
(* How hypotheses are scored against an evidence bundle, and what becomes  *)
(* of the rejected ones (src/chips/compiler/hypothesis.py,                 *)
(* mcp/tools/hypotheses.py).  Weights and scores are thousandths.  A       *)
(* bundle has two sequences, constraints and evidence; ids are numbers.    *)
(***************************************************************************)
EXTENDS Integers, Sequences, SequencesExt, FiniteSetsExt, Sorting

HardKinds == {"forbidden", "invariant"}

IdsIn(items) == {items[i].id : i \in DOMAIN items}
Items(bundle) == bundle.constraints \o bundle.evidence

\* by_id: the first item of that id.
FirstOf(bundle, id) == Min({i \in DOMAIN Items(bundle) : Items(bundle)[i].id = id})
ById(bundle, id) == Items(bundle)[FirstOf(bundle, id)]

\* Mutant of UniqueValid: an id that is cited twice counts twice.
EveryValid(h, bundle) == {i \in DOMAIN h.cited : h.cited[i] \in IdsIn(Items(bundle))}

\* The places where the bundle's items are cited, each for the first time.
UniqueValid(h, bundle) ==
    {i \in DOMAIN h.cited : /\ h.cited[i] \in IdsIn(Items(bundle))
                            /\ \A j \in 1 .. i - 1 : h.cited[j] # h.cited[i]}

Coverage(h, bundle) ==
    MapThenSumSet(LAMBDA i : ById(bundle, h.cited[i]).weight, UniqueValid(h, bundle))

Kinds(h, bundle) == {ById(bundle, h.cited[i]).kind : i \in UniqueValid(h, bundle)}

Corroboration(h, bundle) == Max({0, Cardinality(Kinds(h, bundle)) - 1})

Contradicts(h, constraint) ==
    /\ constraint.rule \in HardKinds
    /\ \/ constraint.id \in h.declared
       \/ constraint.path \in h.paths
       \/ constraint.symbol \in h.symbols

Contradiction(h, bundle) ==
    Cardinality({i \in DOMAIN bundle.constraints : Contradicts(h, bundle.constraints[i])})

\* validate_hypothesis: what is cited or declared and is not there.
Violations(h, bundle) ==
    [unknown |-> ToSet(h.cited) \ IdsIn(Items(bundle)),
     undeclared |-> h.declared \ IdsIn(bundle.constraints)]

ScoreHypothesis(h, bundle) ==
    [id |-> h.id,
     score |-> Coverage(h, bundle) - 2000 * Contradiction(h, bundle)
                 + 250 * Corroboration(h, bundle),
     coverage |-> Coverage(h, bundle),
     contradiction |-> Contradiction(h, bundle),
     kinds |-> Cardinality(Kinds(h, bundle)),
     violations |-> Violations(h, bundle)]

\* (-score, -coverage, contradiction, -unique_kinds, hypothesis_id)
Better(a, b) ==
    LET key(s) == <<-s.score, -s.coverage, s.contradiction, -s.kinds, s.id>>
    IN  \E i \in 1 .. 5 : key(a)[i] < key(b)[i] /\ \A j \in 1 .. i - 1 : key(a)[j] = key(b)[j]

RankHypotheses(hypotheses, bundle) ==
    SortedBy([i \in DOMAIN hypotheses |-> ScoreHypothesis(hypotheses[i], bundle)], Better)

\* A single touched path, or symbol, becomes the target.
Only(S) == IF Cardinality(S) = 1 THEN S ELSE {}

ProposedTarget(h) == [path |-> Only(h.paths), symbol |-> Only(h.symbols)]

\* The ids that are among these, in their order.
Known(ids, S) ==
    LET upTo[i \in 0 .. Len(ids)] ==
          IF i = 0 THEN <<>>
          ELSE IF ids[i] \in S THEN Append(upTo[i - 1], ids[i]) ELSE upTo[i - 1]
    IN  upTo[Len(ids)]

\* One candidate for each rejected id that names a hypothesis of the call.
RejectedOnes(hypotheses, rejected) ==
    LET known == Known(rejected, IdsIn(hypotheses))
        named(id) == hypotheses[SelectLastInSeq(hypotheses, LAMBDA h : h.id = id)]
    IN  [i \in DOMAIN known |-> [hypothesis |-> known[i],
                                 target |-> ProposedTarget(named(known[i]))]]

=============================================================================
