---------------------------- MODULE BriefAssembly ----------------------------
(***************************************************************************)
(* What a brief says: the findings a commit memory carries                 *)
(* (src/chips/harvester/findings.py), the hard constraints in their locked *)
(* order (compiler/constraints.py, policy.py), the soft items              *)
(* (compiler/builder.py), what the compressor keeps of them                *)
(* (compiler/compressor.py) and the evidence bundle                        *)
(* (compiler/evidence_bundle.py).  A text is its id and its size.          *)
(***************************************************************************)
EXTENDS BriefRetrieval

CONSTANTS
    FindingCap,     \* per kind of finding, how many a memory carries
    MaxItems,       \* soft items the prompt has room for
    CharBudget,     \* characters it has room for
    TokenBudget     \* tokens it has room for

AssemblyAssumption ==
    /\ \A k \in DOMAIN FindingCap : FindingCap[k] \in Nat
    /\ "architecture" \notin DOMAIN FindingCap
    /\ {MaxItems, CharBudget, TokenBudget} \subseteq Nat
    /\ MaxItems # 0

-----------------------------------------------------------------------------
(* Findings.  The rank of a finding is its severity, confidence or length, *)
(* by kind; its id is the hash of what identifies it (_normalized_finding),*)
(* which leaves the rank out.                                              *)

SortedKinds == {"security", "dead_code", "clones"}
SoftKinds == <<"dead_code", "api_surface", "clones", "type_errors", "fragility", "uncovered">>

Worst(f, g) == f.rank > g.rank \/ (f.rank = g.rank /\ f.line < g.line)

\* extract_findings: what of an enrichment result is stored with the memory.
ExtractFindings(enrichment) ==
    [kind \in DOMAIN enrichment |->
        LET found == enrichment[kind]
        IN  Take(IF kind \in SortedKinds THEN SortedBy(found, Worst) ELSE found,
                 IF kind \in DOMAIN FindingCap THEN FindingCap[kind] ELSE Len(found))]

FindingsOf(m, kind) == IF kind \in DOMAIN m.findings THEN m.findings[kind] ELSE <<>>

Severe(f) == f.rank >= 1

\* Mutant of HardAdditions: MEDIUM is soft like LOW.
HighOnlyAdditions(memories) ==
    FlattenSeq(Mapped(memories, LAMBDA m :
        Where(FindingsOf(m, "security"), LAMBDA f : f.rank >= 2)
          \o FindingsOf(m, "architecture")))

HardAdditions(memories) ==
    FlattenSeq(Mapped(memories, LAMBDA m :
        Where(FindingsOf(m, "security"), Severe) \o FindingsOf(m, "architecture")))

SoftAdditions(memories) ==
    FlattenSeq(Mapped(memories, LAMBDA m :
        Where(FindingsOf(m, "security"), LAMBDA f : ~Severe(f))
          \o FlattenSeq(Mapped(SoftKinds, LAMBDA k : FindingsOf(m, k)))))

-----------------------------------------------------------------------------
(* Constraints *)

\* Mutant of InForce: a global constraint is for the scope "*" only.
InForceExact(constraint, req) ==
    constraint.scope = req.scope /\ InTenant(constraint, req.tenant)

InForce(constraint, req) ==
    /\ constraint.scope = "*" \/ constraint.scope = req.scope
    /\ InTenant(constraint, req.tenant)

\* ORDER BY and _recent_first: newest first.
OfKind(learned, kind) ==
    SortedBy(Where(learned, LAMBDA c : c.kind = kind), LAMBDA c, d : c.id > d.id)

PoliciesFor(policies, scope) ==
    Where(policies, LAMBDA p : p.scope = "*" \/ p.scope = scope)

Forbidden(policies) == FlattenSeq(Mapped(policies, LAMBDA p : p.forbidden))
Required(policies) == FlattenSeq(Mapped(policies, LAMBDA p : p.required))

Unbreakable(m) == m.type \in {"invariant", "contract"}

Entry(layer, id) == <<layer, id>>

HardConstraints(learned, policies, memories) ==
    LET constraints(kind) == Mapped(OfKind(learned, kind), LAMBDA c : Entry("constraint", c.id))
    IN  constraints("forbidden")
          \o Mapped(Forbidden(policies), LAMBDA p : Entry("policy", p))
          \o constraints("invariant")
          \o Mapped(Where(memories, Unbreakable), LAMBDA m : Entry("memory", m.id))
          \o constraints("known_issue")
          \o Mapped(HardAdditions(memories), LAMBDA f : Entry("finding", f.id))

ForbiddenEdits(learned, policies) ==
    Mapped(OfKind(learned, "forbidden"), LAMBDA c : Entry("constraint", c.id))
      \o Mapped(Forbidden(policies), LAMBDA p : Entry("policy", p))

Blocked(learned) ==
    {learned[i].target : i \in {j \in DOMAIN learned : learned[j].kind \in {"forbidden", "invariant"}}}

AllowedEdits(learned, policies) ==
    Where(Required(policies), LAMBDA edit : edit \notin Blocked(learned))

-----------------------------------------------------------------------------
(* Soft items *)

Item(x, category, score) ==
    [id |-> x.id, category |-> category, chars |-> x.chars, tokens |-> x.tokens, score |-> score]

SoftItems(memories, files, diffs, structural, signals) ==
    LET ranked(x) == signals[SelectLastInSeq(signals, LAMBDA s : s.id = x.id)].score
    IN  SortedBy(
          Mapped(Where(memories, LAMBDA m : ~Unbreakable(m)),
                 LAMBDA m : Item(m, "memory", ranked(m)))
            \o Mapped(diffs, LAMBDA d : Item(d, "diff", ranked(d)))
            \o Mapped(files, LAMBDA f : Item(f, "file", ranked(f)))
            \o Mapped(SoftAdditions(memories), LAMBDA f : Item(f, "finding", 0))
            \o Mapped(structural, LAMBDA s : Item(s, "structural", 0)),
          BestFirst)

-----------------------------------------------------------------------------
(* The compressor *)

Cost(item) == item.chars + 4

\* Mutant of Fits: one item more.
FitsOneMore(item, kept) ==
    /\ Len(kept) <= MaxItems
    /\ Total(kept, Cost) + Cost(item) <= CharBudget
    /\ Total(kept, LAMBDA x : x.tokens) + item.tokens <= TokenBudget

Fits(item, kept) ==
    /\ Len(kept) < MaxItems
    /\ Total(kept, Cost) + Cost(item) <= CharBudget
    /\ Total(kept, LAMBDA x : x.tokens) + item.tokens <= TokenBudget

\* The best item of each category, in the order of the items.
CategoryHeads(ordered) ==
    FoldLeft(LAMBDA heads, x : IF \E i \in DOMAIN heads : heads[i].category = x.category
                               THEN heads ELSE Append(heads, x),
             <<>>, ordered)

KeepIfFits(kept, item) == IF Fits(item, kept) THEN Append(kept, item) ELSE kept

Trim(items) ==
    LET ordered == SortedBy(items, BestFirst)
        heads == FoldLeft(KeepIfFits, <<>>, CategoryHeads(ordered))
        kept == FoldLeft(LAMBDA acc, x : IF Contains(IdsOf(acc), x.id) THEN acc
                                         ELSE KeepIfFits(acc, x),
                         heads, ordered)
    IN  IF kept = <<>> THEN Take(ordered, 1) ELSE kept

\* What follows the hard constraints in the text of a brief: what the model
\* replied, or the kept items themselves when the call failed.
Context(items, reply) ==
    IF items = <<>> \/ reply = "blank" THEN "none"
    ELSE IF reply = "failed" THEN "items" ELSE "summary"

Compress(items, reply) ==
    LET kept == Trim(items)
    IN  [context |-> Context(items, reply),
         kept |-> kept,
         dropped |-> Where(items, LAMBDA x : ~Contains(IdsOf(kept), x.id))]

-----------------------------------------------------------------------------
(* The evidence bundle: the constraints, and the soft items that are       *)
(* citable (file signals are not)                                          *)

CitableCategories == {"memory", "diff", "finding", "structural"}

EvidenceBundle(learned, items) ==
    [constraints |-> Mapped(learned, LAMBDA c : [id |-> c.id, kind |-> c.kind, target |-> c.target]),
     evidence |-> Mapped(Where(items, LAMBDA x : x.category \in CitableCategories),
                         LAMBDA x : [id |-> x.id, kind |-> x.category, weight |-> x.score])]

=============================================================================
