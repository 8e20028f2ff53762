------------------------- MODULE DefectCorpus_proofs -------------------------
(***************************************************************************)
(* What holds of the defect corpus and of predictions for every set of     *)
(* commits and every limit, with ingestion and any number of rebuilds      *)
(* going on.                                                               *)
(***************************************************************************)
EXTENDS DefectCorpus, FiniteSetTheorems, FunctionTheorems, TLAPS

-----------------------------------------------------------------------------
(* Sorted sets of numbers *)

Below(S, x) == {y \in S : y < x}

\* Each place of a finite set of numbers is taken.
LEMMA NthIsThere ==
    ASSUME NEW S \in SUBSET Nat, IsFiniteSet(S), NEW i \in 1 .. Cardinality(S)
    PROVE  Nth(S, i) \in S /\ Cardinality(Below(S, Nth(S, i))) = i - 1
    <1> DEFINE place == [x \in S |-> 1 + Cardinality(Below(S, x))]
               places == 1 .. Cardinality(S)
    <1>1. Cardinality(S) \in Nat
        BY FS_CardinalityType
    <1>2. IsFiniteSet(places) /\ Cardinality(places) = Cardinality(S)
        BY <1>1, FS_Interval
    <1>3. ASSUME NEW x \in S
          PROVE  /\ IsFiniteSet(Below(S, x)) /\ Cardinality(Below(S, x)) \in Nat
                 /\ Cardinality(Below(S, x)) < Cardinality(S)
        <2>1. Below(S, x) \in SUBSET S /\ x \notin Below(S, x)
            BY DEF Below
        <2>2. IsFiniteSet(Below(S, x)) /\ Cardinality(Below(S, x)) <= Cardinality(S)
              /\ Cardinality(Below(S, x)) # Cardinality(S)
            BY <2>1, FS_Subset
        <2> QED BY <1>1, <2>2, FS_CardinalityType
    <1>4. place \in [S -> places]
        BY <1>1, <1>3
    <1>5. ASSUME NEW x \in S, NEW y \in S, x < y PROVE place[x] # place[y]
        <2>1. ~(x < x) /\ \A z \in S : z < x => z < y
            BY <1>5
        <2>2. Below(S, x) \in SUBSET Below(S, y) /\ x \in Below(S, y) \ Below(S, x)
            BY <1>5, <2>1 DEF Below
        <2>3. Cardinality(Below(S, x)) # Cardinality(Below(S, y))
            BY <2>2, <1>3, FS_Subset
        <2> QED BY <2>3, <1>3
    <1>6. \A x, y \in S : place[x] = place[y] => x = y
        <2>1. \A x, y \in S : x < y \/ y < x \/ x = y
            OBVIOUS
        <2> HIDE DEF place
        <2> QED BY <1>5, <2>1
    <1>7. place \in Injection(S, places)
        BY <1>4, <1>6, Fun_IsInj
    <1>8. place \in Surjection(S, places)
        BY <1>7, <1>2, FS_Injection
    <1>9. PICK x \in S : place[x] = i
        <2> HIDE DEF place
        <2> QED BY <1>8 DEF Surjection
    <1>10. Cardinality(Below(S, x)) = i - 1
        BY <1>9, <1>3
    <1> QED BY <1>10 DEF Nth, Below

LEMMA NthIncreases ==
    ASSUME NEW S \in SUBSET Nat, IsFiniteSet(S),
           NEW i \in 1 .. Cardinality(S), NEW j \in 1 .. Cardinality(S), i < j
    PROVE  Nth(S, i) < Nth(S, j)
    <1> SUFFICES ASSUME ~(Nth(S, i) < Nth(S, j)) PROVE FALSE OBVIOUS
    <1>1. /\ Nth(S, i) \in Nat /\ Cardinality(Below(S, Nth(S, i))) = i - 1
          /\ Nth(S, j) \in Nat /\ Cardinality(Below(S, Nth(S, j))) = j - 1
        BY NthIsThere
    <1>2. Below(S, Nth(S, j)) \in SUBSET Below(S, Nth(S, i)) /\ Below(S, Nth(S, i)) \in SUBSET S
        <2>1. \A z \in S : z < Nth(S, j) => z < Nth(S, i)
            BY <1>1
        <2> QED BY <2>1 DEF Below
    <1>3. Cardinality(Below(S, Nth(S, j))) <= Cardinality(Below(S, Nth(S, i)))
        BY <1>2, FS_Subset
    <1> QED BY <1>1, <1>3, FS_CardinalityType

\* What ORDER BY sha DESC and LIMIT give: members of the set, the latest
\* first, and as many as there are or the limit allows.
LEMMA LatestOnes ==
    ASSUME NEW S \in SUBSET Nat, IsFiniteSet(S), NEW n \in Nat
    PROVE  /\ Latest(S, n) \in Seq(S)
           /\ Len(Latest(S, n)) = n \/ Len(Latest(S, n)) = Cardinality(S)
           /\ Len(Latest(S, n)) <= n
           /\ \A i, j \in DOMAIN Latest(S, n) : i < j => Latest(S, n)[i] > Latest(S, n)[j]
    <1>1. Cardinality(S) \in Nat
        BY FS_CardinalityType
    <1>2. PICK m \in Nat : /\ UpTo(S, n) = 1 .. m /\ m <= Cardinality(S) /\ m <= n
                           /\ m \in {n, Cardinality(S)}
        BY <1>1 DEF UpTo
    <1>3. \A i \in 1 .. m : Cardinality(S) + 1 - i \in 1 .. Cardinality(S)
        BY <1>1, <1>2
    <1>4. \A i \in 1 .. m : Nth(S, Cardinality(S) + 1 - i) \in S
        BY <1>3, NthIsThere
    <1>5. ASSUME NEW i \in 1 .. m, NEW j \in 1 .. m, i < j
          PROVE  Nth(S, Cardinality(S) + 1 - i) > Nth(S, Cardinality(S) + 1 - j)
        <2>1. Cardinality(S) + 1 - j < Cardinality(S) + 1 - i
            BY <1>1, <1>5
        <2>2. Nth(S, Cardinality(S) + 1 - j) < Nth(S, Cardinality(S) + 1 - i)
            BY <1>3, <2>1, NthIncreases
        <2> QED BY <2>2, <1>4
    <1> QED BY <1>2, <1>4, <1>5 DEF Latest

-----------------------------------------------------------------------------
(* The corpus *)

LEMMA ImageIsFinite ==
    ASSUME NEW S, IsFiniteSet(S), NEW f, DOMAIN f = S
    PROVE  IsFiniteSet({f[x] : x \in S})
    <1> DEFINE g == [x \in S |-> f[x]]
               T == {f[x] : x \in S}
    <1>1. g \in Surjection(S, T)
        BY DEF Surjection
    <1> HIDE DEF g, T
    <1>2. IsFiniteSet(T)
        BY <1>1, FS_Surjection
    <1> QED BY <1>2 DEF T

\* Finitely many commits have finitely many shas.
LEMMA FinitelyMany ==
    ASSUME CorpusInv, NEW shas
    PROVE  /\ IsFiniteSet(ShasTouching(shas)) /\ ShasTouching(shas) \in SUBSET Nat
           /\ ShasTouching(shas) \subseteq {m.sha : m \in ingested}
    <1> USE CommitsAssumption DEF CorpusInv
    <1>1. IsFiniteSet({m.sha : m \in ingested})
        <2> DEFINE f == [m \in ingested |-> m.sha]
        <2>1. IsFiniteSet({f[m] : m \in ingested})
            BY ImageIsFinite
        <2> QED BY <2>1
    <1>2. ShasTouching(shas) \subseteq {m.sha : m \in ingested}
        BY DEF ShasTouching
    <1>3. {m.sha : m \in ingested} \subseteq Nat
        OBVIOUS
    <1> QED BY <1>1, <1>2, <1>3, FS_Subset

\* What a query of a prediction gives.
LEMMA QueryNamesCommits ==
    ASSUME CorpusInv, NEW shas
    PROVE  NamesCommits(Latest(ShasTouching(shas), PredictLimit))
    <1> DEFINE S == ShasTouching(shas)
               L == Latest(S, PredictLimit)
    <1>1. S \in SUBSET Nat /\ IsFiniteSet(S) /\ S \subseteq {m.sha : m \in ingested}
        BY FinitelyMany
    <1> HIDE DEF S
    <1>2. /\ L \in Seq(S) /\ Len(L) <= PredictLimit
          /\ \A i, j \in DOMAIN L : i < j => L[i] > L[j]
        BY <1>1, LatestOnes, LimitAssumption
    <1> HIDE DEF L
    <1>3. ToSet(L) \subseteq S
        BY <1>2 DEF ToSet
    <1>4. NamesCommits(L)
        BY <1>1, <1>2, <1>3 DEF NamesCommits
    <1> QED BY <1>4 DEF L, S

\* Every step is one of these, and the commits are never forgotten.
LEMMA StepKinds ==
    ASSUME [Next]_vars
    PROVE  /\ \/ \E m \in Commits : Ingest(m)
              \/ Rebuild \/ PredictCount \/ PredictReverts \/ PredictMatch \/ HarvestIssueRefs
              \/ UNCHANGED vars
           /\ ingested \subseteq ingested'
    BY DEF Next, Ingest, Rebuild, ReadTruth, DeleteCorpus, ClearCommits, CallerCommits,
           RebuildDies, RebuildGoesOn, Predict, PredictCount, PredictReverts, PredictMatch,
           HarvestIssueRefs, vars

LEMMA InitCorpus == Init => CorpusInv
    BY FS_EmptySet DEF Init, CorpusInv, NoRebuild

LEMMA StepCorpus == CorpusInv /\ [Next]_vars => CorpusInv'
    <1> SUFFICES ASSUME CorpusInv, [Next]_vars PROVE CorpusInv' OBVIOUS
    <1> USE DEF CorpusInv
    <1>1. CASE \E m \in Commits : Ingest(m)
        <2>1. PICK m \in Commits : Ingest(m)
            BY <1>1
        <2>2. /\ ingested' = ingested \cup {m} /\ corpus' = corpus \cup {ExtractEvidence(m)}
              /\ UNCHANGED <<rebuild, harvest>>
            BY <2>1 DEF Ingest
        <2>3. IsFiniteSet(ingested')
            BY <2>2, FS_AddElement
        <2>4. corpus' \subseteq {ExtractEvidence(k) : k \in ingested'}
            BY <2>2
        <2> QED BY <2>2, <2>3, <2>4
    <1>2. CASE Rebuild
        <2>1. CASE ReadTruth
            BY <2>1 DEF ReadTruth, RebuildGoesOn, NoRebuild
        <2>2. CASE DeleteCorpus
            BY <2>2 DEF DeleteCorpus, RebuildGoesOn
        <2>3. CASE ClearCommits
            BY <2>3 DEF ClearCommits, RebuildGoesOn
        <2>4. CASE CallerCommits
            <3>1. {ExtractEvidence(m) : m \in rebuild.todo} \subseteq {ExtractEvidence(m) : m \in ingested}
                OBVIOUS
            <3> QED BY <2>4, <3>1 DEF CallerCommits, RebuildGoesOn, NoRebuild
        <2>5. CASE RebuildDies
            BY <2>5 DEF RebuildDies, NoRebuild
        <2> QED BY <1>2, <2>1, <2>2, <2>3, <2>4, <2>5 DEF Rebuild
    <1>3. CASE PredictCount \/ PredictReverts \/ PredictMatch
        BY <1>3 DEF PredictCount, PredictReverts, PredictMatch
    <1>4. CASE HarvestIssueRefs
        BY <1>4 DEF HarvestIssueRefs
    <1>5. CASE UNCHANGED vars
        BY <1>5 DEF vars
    <1> QED BY <1>1, <1>2, <1>3, <1>4, <1>5, StepKinds

-----------------------------------------------------------------------------
(* Predictions *)

LEMMA InitPrediction == Init => PredictionInv /\ PredictionNamesItsCommits
    <1> SUFFICES ASSUME Init PROVE PredictionInv /\ PredictionNamesItsCommits OBVIOUS
    <1>1. NamesCommits(<<>>)
        BY LimitAssumption DEF NamesCommits, ToSet
    <1> QED BY <1>1, NoneAssumption DEF Init, PredictionInv, PredictionNamesItsCommits, NoPrediction

\* Only the clear takes evidence away.
LEMMA CorpusGrows == CorpusInv /\ [Next]_vars => corpus \subseteq corpus' \/ ClearCommits
    BY StepKinds DEF Ingest, Rebuild, ReadTruth, DeleteCorpus, CallerCommits,
           RebuildDies, RebuildGoesOn, PredictCount, PredictReverts, PredictMatch,
           HarvestIssueRefs, vars

LEMMA CountedDefective ==
    CorpusInv => IsFiniteSet(ShasTouching(Defective)) /\ Cardinality(ShasTouching(Defective)) \in Nat
    BY FinitelyMany, FS_CardinalityType

\* So the commits that were counted are there until it comes.
LEMMA DefectiveStay ==
    ASSUME CorpusInv', ingested \subseteq ingested', corpus \subseteq corpus',
           CorpusInv
    PROVE  Cardinality(ShasTouching(Defective)) <= Cardinality(ShasTouching(Defective))'
    <1>1. ShasTouching(Defective) \subseteq ShasTouching(Defective)'
        BY DEF ShasTouching, Defective
    <1>2. (CorpusInv => IsFiniteSet(ShasTouching(Defective)))'
        BY CountedDefective, PTL
    <1> QED BY <1>1, <1>2, FS_Subset

LEMMA StepPrediction == CorpusInv /\ CorpusInv' /\ PredictionInv /\ [Next]_vars => PredictionInv'
    <1> SUFFICES ASSUME CorpusInv, CorpusInv', PredictionInv, [Next]_vars
                 PROVE  PredictionInv'
        OBVIOUS
    <1> DEFINE now == Cardinality(ShasTouching(Defective))
               then == Cardinality(ShasTouching(Defective))'
    <1>1. now \in Nat /\ then \in Nat
        <2>1. (CorpusInv => Cardinality(ShasTouching(Defective)) \in Nat)'
            BY CountedDefective, PTL
        <2> QED BY <2>1, CountedDefective
    <1>2. NamesCommits(prediction.introduced)' /\ NamesCommits(prediction.matched)'
        <2>1. ingested \subseteq ingested'
            BY StepKinds
        <2>2. ASSUME NEW shas, NamesCommits(shas) PROVE
                /\ ToSet(shas) \subseteq {m.sha : m \in ingested'}
                /\ Len(shas) <= PredictLimit
                /\ \A i, j \in DOMAIN shas : i < j => shas[i] > shas[j]
            BY <2>1, <2>2 DEF NamesCommits
        <2>3. CASE UNCHANGED prediction
            BY <2>2, <2>3 DEF NamesCommits, PredictionInv
        <2>4. CASE PredictCount
            <3>1. prediction'.introduced = <<>> /\ prediction'.matched = <<>>
                BY <2>4 DEF PredictCount, NoPrediction
            <3>2. NamesCommits(<<>>)
                BY LimitAssumption DEF NamesCommits, ToSet
            <3> QED BY <2>2, <3>1, <3>2 DEF NamesCommits
        <2>5. CASE PredictReverts
            <3>1. /\ prediction'.introduced = Latest(ShasTouching(Reverted), PredictLimit)
                  /\ prediction'.matched = prediction.matched
                BY <2>5 DEF PredictReverts, PredictionInv
            <3>2. NamesCommits(Latest(ShasTouching(Reverted), PredictLimit))
                BY QueryNamesCommits
            <3> QED BY <2>2, <3>1, <3>2 DEF NamesCommits, PredictionInv
        <2>6. CASE PredictMatch
            <3>1. /\ prediction'.matched = Latest(ShasTouching(Defective), PredictLimit)
                  /\ prediction'.introduced = prediction.introduced
                BY <2>6 DEF PredictMatch, PredictionInv
            <3>2. NamesCommits(Latest(ShasTouching(Defective), PredictLimit))
                BY QueryNamesCommits
            <3> QED BY <2>2, <3>1, <3>2 DEF NamesCommits, PredictionInv
        <2>7. CASE ClearCommits
            <3>1. /\ prediction'.introduced = prediction.introduced
                  /\ prediction'.matched = prediction.matched
                BY <2>7 DEF ClearCommits, PredictionInv
            <3> QED BY <2>2, <3>1 DEF NamesCommits, PredictionInv
        <2>8. \/ UNCHANGED prediction \/ PredictCount \/ PredictReverts \/ PredictMatch
              \/ ClearCommits
            BY StepKinds DEF Ingest, Rebuild, ReadTruth, DeleteCorpus, CallerCommits,
                   RebuildDies, RebuildGoesOn, HarvestIssueRefs, vars
        <2> QED BY <2>3, <2>4, <2>5, <2>6, <2>7, <2>8
    <1>3. CASE UNCHANGED prediction /\ corpus \subseteq corpus'
        <2>1. now <= then
            BY <1>3, StepKinds, DefectiveStay
        <2>2. prediction.pc # "idle" /\ ~prediction.disturbed => prediction.count <= then
            BY <1>1, <2>1 DEF PredictionInv
        <2> QED BY <1>2, <1>3, <2>2 DEF PredictionInv
    <1>4. CASE ClearCommits
        <2>1. prediction' = [prediction EXCEPT !.disturbed = @ \/ prediction.pc # "idle"]
            BY <1>4 DEF ClearCommits
        <2>2. DOMAIN prediction = {"pc", "count", "introduced", "matched", "reason", "disturbed"}
            BY DEF PredictionInv
        <2>3. /\ prediction'.disturbed \in BOOLEAN
              /\ prediction'.pc = prediction.pc /\ prediction'.count = prediction.count
              /\ prediction'.pc # "idle" => prediction'.disturbed
            BY <2>1, <2>2 DEF PredictionInv
        <2>4. prediction' = [pc |-> prediction'.pc, count |-> prediction'.count,
                     introduced |-> prediction'.introduced, matched |-> prediction'.matched,
                     reason |-> prediction'.reason, disturbed |-> prediction'.disturbed]
            BY <2>1, <2>2
        <2> QED BY <1>2, <2>3, <2>4 DEF PredictionInv
    <1>5. CASE PredictCount
        <2>1. prediction' = [NoPrediction EXCEPT !.pc = "reverts",
                                  !.count = Cardinality(ShasTouching(Defective))]
              /\ UNCHANGED <<ingested, corpus>>
            BY <1>5 DEF PredictCount
        <2>2. ShasTouching(Defective)' = ShasTouching(Defective)
            BY <2>1 DEF ShasTouching, Defective
        <2>3. /\ prediction'.count = then /\ prediction'.disturbed = FALSE
              /\ prediction'.pc = "reverts"
              /\ prediction' = [pc |-> prediction'.pc, count |-> prediction'.count,
                     introduced |-> prediction'.introduced, matched |-> prediction'.matched,
                     reason |-> prediction'.reason, disturbed |-> prediction'.disturbed]
            BY <2>1, <2>2 DEF NoPrediction
        <2>4. prediction'.count \in Nat /\ prediction'.count <= then
            BY <1>1, <2>3
        <2> HIDE DEF then
        <2>5. prediction'.pc \in {"idle", "reverts", "match"} /\ prediction'.disturbed \in BOOLEAN
            BY <2>3
        <2> QED BY <1>2, <2>3, <2>4, <2>5 DEF PredictionInv, then
    <1>6. CASE PredictReverts \/ PredictMatch
        <2>1. DOMAIN prediction = {"pc", "count", "introduced", "matched", "reason", "disturbed"}
            BY DEF PredictionInv
        <2>2. /\ UNCHANGED <<ingested, corpus>>
              /\ prediction.pc # "idle" /\ prediction'.pc \in {"idle", "match"}
              /\ DOMAIN prediction' = DOMAIN prediction
              /\ prediction' = [x \in DOMAIN prediction' |-> prediction'[x]]
              /\ prediction'.count = prediction.count
              /\ prediction'.disturbed = prediction.disturbed
            BY <1>6, <2>1 DEF PredictReverts, PredictMatch
        <2>3. prediction' = [pc |-> prediction'.pc, count |-> prediction'.count,
                     introduced |-> prediction'.introduced, matched |-> prediction'.matched,
                     reason |-> prediction'.reason, disturbed |-> prediction'.disturbed]
            BY <2>1, <2>2
        <2>4. ShasTouching(Defective)' = ShasTouching(Defective)
            BY <2>2 DEF ShasTouching, Defective
        <2> QED BY <1>2, <2>2, <2>3, <2>4 DEF PredictionInv
    <1>7. \/ UNCHANGED prediction \/ ClearCommits \/ PredictCount \/ PredictReverts \/ PredictMatch
        BY StepKinds DEF Ingest, Rebuild, ReadTruth, DeleteCorpus, CallerCommits,
               RebuildDies, RebuildGoesOn, HarvestIssueRefs, vars
    <1> QED BY <1>3, <1>4, <1>5, <1>6, <1>7, CorpusGrows

LEMMA StepNamed ==
    CorpusInv /\ PredictionInv /\ PredictionNamesItsCommits /\ [Next]_vars
        => PredictionNamesItsCommits'
    <1> SUFFICES ASSUME CorpusInv, PredictionInv, PredictionNamesItsCommits, [Next]_vars,
                        prediction'.reason = "history_found"
                 PROVE  PredictionNamesItsCommits'
        BY DEF PredictionNamesItsCommits
    <1>1. CASE UNCHANGED prediction
        BY <1>1, StepKinds DEF PredictionNamesItsCommits
    <1>2. CASE ClearCommits
        <2>1. prediction' = [prediction EXCEPT !.disturbed = @ \/ prediction.pc # "idle"]
              /\ ingested' = ingested
            BY <1>2 DEF ClearCommits, RebuildGoesOn
        <2>2. DOMAIN prediction = {"pc", "count", "introduced", "matched", "reason", "disturbed"}
            BY DEF PredictionInv
        <2>3. /\ prediction'.matched = prediction.matched /\ prediction'.count = prediction.count
              /\ prediction'.reason = prediction.reason
              /\ prediction.disturbed => prediction'.disturbed
            BY <2>1, <2>2
        <2> QED BY <2>1, <2>3 DEF PredictionNamesItsCommits
    <1>3. CASE PredictCount \/ PredictReverts
        BY <1>3, NoneAssumption DEF PredictCount, PredictReverts, PredictionInv, NoPrediction
    <1>4. CASE PredictMatch
        <2> DEFINE S == ShasTouching(Defective)
        <2>1. /\ prediction.pc = "match"
              /\ prediction'.matched = Latest(S, PredictLimit)
              /\ prediction'.count = prediction.count
              /\ prediction'.disturbed = prediction.disturbed
              /\ UNCHANGED <<ingested, corpus>>
            BY <1>4 DEF PredictMatch, PredictionInv
        <2>2. /\ Latest(S, PredictLimit) \in Seq(S)
              /\ \/ Len(Latest(S, PredictLimit)) = PredictLimit
                 \/ Len(Latest(S, PredictLimit)) = Cardinality(S)
            BY FinitelyMany, LatestOnes, LimitAssumption
        <2>3. \/ prediction.disturbed \/ prediction.count <= Cardinality(S)
            BY <2>1 DEF PredictionInv
        <2>4. \A sha \in S : \E m \in ingested : m.sha = sha /\ HighPrecision(ExtractEvidence(m))
            BY DEF ShasTouching, Defective, CorpusInv, ExtractEvidence
        <2>5. prediction.count \in Nat /\ Cardinality(S) \in Nat
            BY CountedDefective DEF PredictionInv
        <2> HIDE DEF S
        <2>6. \A i \in DOMAIN prediction'.matched : \E m \in ingested' :
                 m.sha = prediction'.matched[i] /\ HighPrecision(ExtractEvidence(m))
            BY <2>1, <2>2, <2>4
        <2> QED BY <2>1, <2>2, <2>3, <2>5, <2>6 DEF PredictionNamesItsCommits
    <1>5. \/ UNCHANGED prediction \/ ClearCommits \/ PredictCount \/ PredictReverts \/ PredictMatch
        BY StepKinds DEF Ingest, Rebuild, ReadTruth, DeleteCorpus, CallerCommits,
               RebuildDies, RebuildGoesOn, HarvestIssueRefs, vars
    <1> QED BY <1>1, <1>2, <1>3, <1>4, <1>5

-----------------------------------------------------------------------------
(* The theorems *)

\* The inductive invariant of the corpus, its rebuild and the predictions.
THEOREM DefectCorpusInvariant == Spec => []IInv
    <1>1. Init => IInv
        BY InitCorpus, InitPrediction DEF IInv
    <1>2. IInv /\ [Next]_vars => IInv'
        BY StepCorpus, StepPrediction, StepNamed DEF IInv
    <1> QED BY <1>1, <1>2, PTL DEF Spec

\* The types: the corpus holds evidence of ingested commits only, and a
\* prediction names ingested commits, the latest first and no more than its
\* limit.
THEOREM TypeCorrect == Spec => []TypeOK
    <1>1. IInv => TypeOK
        BY DEF IInv, TypeOK, CorpusInv, PredictionInv
    <1> QED BY <1>1, DefectCorpusInvariant, PTL

\* DefectPredictor.predict, read statement by statement while commits are
\* ingested and the corpus is rebuilt, names defective commits, and no fewer
\* than it counted or may name unless the corpus was cleared under it.
THEOREM PredictionsHold == Spec => []PredictionNamesItsCommits
    <1>1. IInv => PredictionNamesItsCommits
        BY DEF IInv
    <1> QED BY <1>1, DefectCorpusInvariant, PTL
=============================================================================
