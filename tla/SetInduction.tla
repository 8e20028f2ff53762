---------------------------- MODULE SetInduction ----------------------------
(***************************************************************************)
(* Induction over the natural numbers, about sets: a fact of every number  *)
(* is stated as a set of numbers that is all of them.  What folds, stable  *)
(* sorting and sums compute follows from it.                               *)
(***************************************************************************)
EXTENDS Integers, SequencesExt, FiniteSetsExt, Sorting, FiniteSetTheorems, FunctionTheorems,
        SequenceTheorems, WellFoundedInduction, TLAPS

LEMMA Induction ==
    ASSUME NEW S \in SUBSET Nat, 0 \in S, \A n \in S : n + 1 \in S
    PROVE  S = Nat
    <1> SUFFICES ASSUME Nat \ S # {} PROVE FALSE OBVIOUS
    <1>1. PICK x \in Nat \ S : \A y \in Nat \ S : ~(<<y, x>> \in OpToRel(<, Nat))
        BY NatLessThanWellFounded, WFMin
    <1>2. x # 0 /\ x - 1 \in Nat /\ x - 1 + 1 = x
        OBVIOUS
    <1>3. x - 1 \notin S
        BY <1>2
    <1>4. <<x - 1, x>> \in OpToRel(<, Nat)
        BY <1>1, <1>2 DEF OpToRel
    <1> QED BY <1>1, <1>2, <1>3, <1>4

\* The steps of a computation from left to right, and its course.
Stepping(next, n, X) == next \in [1 .. n -> [X -> X]]
Runs(f, next, n, X, base) ==
    f \in [0 .. n -> X] /\ f[0] = base /\ \A i \in 1 .. n : f[i] = next[i][f[i - 1]]

\* Every such computation has a course.
LEMMA Recursion ==
    ASSUME NEW n \in Nat, NEW X, NEW base \in X, NEW next, Stepping(next, n, X)
    PROVE  \E f : Runs(f, next, n, X, base)
    <1> USE DEF Stepping, Runs
    <1> DEFINE Steps(f, k) == f[0] = base /\ \A i \in 1 .. k : f[i] = next[i][f[i - 1]]
               Can(k) == k > n \/ \E f \in [0 .. k -> X] : Steps(f, k)
               Reach == {k \in Nat : Can(k)}
    <1>1. 0 \in Reach
        <2> DEFINE f == [i \in 0 .. 0 |-> base]
        <2>1. f \in [0 .. 0 -> X] /\ Steps(f, 0)
            OBVIOUS
        <2> QED BY <2>1
    <1>2. ASSUME NEW k \in Reach PROVE k + 1 \in Reach
        <2>1. ASSUME k + 1 <= n PROVE Can(k + 1)
            <3>1. PICK f \in [0 .. k -> X] : Steps(f, k)
                BY <2>1
            <3> DEFINE g == [i \in 0 .. k + 1 |-> IF i = k + 1 THEN next[k + 1][f[k]] ELSE f[i]]
            <3>2. f[k] \in X /\ k + 1 \in 1 .. n
                BY <2>1
            <3>3. next[k + 1][f[k]] \in X
                BY <3>2
            <3>4. g \in [0 .. k + 1 -> X]
                BY <3>3
            <3>5. ASSUME NEW i \in 1 .. k + 1 PROVE g[i] = next[i][g[i - 1]]
                <4>1. g[i - 1] = f[i - 1]
                    OBVIOUS
                <4>2. CASE i = k + 1
                    BY <4>1, <4>2
                <4>3. CASE i \in 1 .. k
                    BY <3>1, <4>1, <4>3
                <4> QED BY <4>2, <4>3
            <3>6. g[0] = base
                BY <3>1
            <3> HIDE DEF g
            <3> QED BY <3>4, <3>5, <3>6
        <2> HIDE DEF Can
        <2>2. k + 1 > n => Can(k + 1)
            BY DEF Can
        <2> QED BY <2>1, <2>2
    <1>3. n \in Reach
        BY <1>1, <1>2, Induction
    <1> QED BY <1>3

\* Two functions that begin alike and step alike are alike.
LEMMA Unrolled ==
    ASSUME NEW n \in Nat, NEW f, NEW g, g[0] = f[0],
           \A i \in 1 .. n : g[i - 1] = f[i - 1] => g[i] = f[i]
    PROVE  \A i \in 0 .. n : g[i] = f[i]
    <1> DEFINE Alike == {k \in Nat : k > n \/ g[k] = f[k]}
    <1>1. 0 \in Alike
        OBVIOUS
    <1>2. ASSUME NEW k \in Alike PROVE k + 1 \in Alike
        <2>1. k + 1 \in Nat /\ (k + 1) - 1 = k
            OBVIOUS
        <2>2. CASE k + 1 > n
            BY <2>1, <2>2
        <2>3. CASE k + 1 <= n
            BY <2>1, <2>3
        <2> QED BY <2>2, <2>3
    <1>3. Alike = Nat
        <2>1. Alike \in SUBSET Nat
            OBVIOUS
        <2> HIDE DEF Alike
        <2> QED BY <1>1, <1>2, <2>1, Induction
    <1> QED BY <1>3

\* The greatest of the numbers up to n that are in S.
LEMMA Greatest ==
    ASSUME NEW n \in Nat, NEW S \in SUBSET (1 .. n), S # {}
    PROVE  Max(S) \in S /\ \A i \in S : i <= Max(S)
    <1> DEFINE Bounded == {k \in Nat : \A T \in SUBSET (1 .. k) :
                              T # {} => \E x \in T : \A y \in T : x >= y}
    <1>1. 0 \in Bounded
        <2>1. 1 .. 0 = {}
            OBVIOUS
        <2> QED BY <2>1
    <1>2. ASSUME NEW k \in Bounded PROVE k + 1 \in Bounded
        <2>1. ASSUME NEW T \in SUBSET (1 .. k + 1), T # {}
              PROVE  \E x \in T : \A y \in T : x >= y
            <3>1. CASE k + 1 \in T
                BY <3>1
            <3>2. CASE k + 1 \notin T
                <4>1. T \in SUBSET (1 .. k)
                    BY <3>2
                <4> QED BY <2>1, <4>1
            <3> QED BY <3>1, <3>2
        <2> QED BY <2>1
    <1>3. n \in Bounded
        BY <1>1, <1>2, Induction
    <1>4. \E x \in S : \A y \in S : x >= y
        BY <1>3
    <1> QED BY <1>4 DEF Max

\* The least of the numbers up to n that are in S.
LEMMA Lowest ==
    ASSUME NEW n \in Nat, NEW S \in SUBSET (1 .. n), S # {}
    PROVE  \E x \in S : \A y \in S : x =< y
    <1> DEFINE Below == {k \in Nat : \A T \in SUBSET (1 .. k) :
                            T # {} => \E x \in T : \A y \in T : x =< y}
    <1>1. 0 \in Below
        <2>1. 1 .. 0 = {}
            OBVIOUS
        <2> QED BY <2>1
    <1>2. ASSUME NEW k \in Below PROVE k + 1 \in Below
        <2>1. ASSUME NEW T \in SUBSET (1 .. k + 1), T # {}
              PROVE  \E x \in T : \A y \in T : x =< y
            <3>1. CASE k + 1 \notin T
                <4>1. T \in SUBSET (1 .. k)
                    BY <3>1
                <4> QED BY <2>1, <4>1
            <3>2. CASE T = {k + 1}
                BY <3>2
            <3>3. CASE k + 1 \in T /\ T # {k + 1}
                <4>1. T \ {k + 1} \in SUBSET (1 .. k) /\ T \ {k + 1} # {}
                    BY <3>3
                <4>2. PICK x \in T \ {k + 1} : \A y \in T \ {k + 1} : x =< y
                    BY <4>1
                <4>3. x =< k + 1
                    BY <4>1, <4>2
                <4> QED BY <4>2, <4>3
            <3> QED BY <3>1, <3>2, <3>3
        <2> QED BY <2>1
    <1>3. n \in Below
        BY <1>1, <1>2, Induction
    <1> QED BY <1>3

LEMMA Least ==
    ASSUME NEW n \in Nat, NEW S \in SUBSET (1 .. n), S # {}
    PROVE  Min(S) \in S /\ \A i \in S : Min(S) =< i
    <1>1. \E x \in S : \A y \in S : x =< y
        BY Lowest
    <1> QED BY <1>1 DEF Min

\* The first k numbers.
LEMMA FirstPlaces ==
    ASSUME NEW n \in Nat, NEW k \in 1 .. n
    PROVE  1 .. k \subseteq 1 .. n /\ 1 .. k # {} /\ Max(1 .. k) = k
    <1>1. 1 .. k \in SUBSET (1 .. n) /\ k \in 1 .. k /\ k \in Nat
        OBVIOUS
    <1>2. Max(1 .. k) \in 1 .. k /\ \A i \in 1 .. k : i <= Max(1 .. k)
        BY <1>1, Greatest
    <1>3. Max(1 .. k) = k
        BY <1>1, <1>2
    <1> QED BY <1>1, <1>3

\* A fold from left to right is defined on the sets of places: it steps at the
\* greatest.  There is such a function.
FoldsSets(h, next, n, X, base) ==
    /\ h \in [SUBSET (1 .. n) -> X]
    /\ \A T \in SUBSET (1 .. n) :
          h[T] = IF T = {} THEN base ELSE next[Max(T)][h[T \ {Max(T)}]]

LEMMA Folding ==
    ASSUME NEW n \in Nat, NEW X, NEW base \in X, NEW next, Stepping(next, n, X)
    PROVE  \E h : FoldsSets(h, next, n, X, base)
    <1> DEFINE P == SUBSET (1 .. n)
               V == [P -> X]
               start == [T \in P |-> base]
               At(k, g) == [T \in P |-> IF k \in T THEN next[k][g[T \ {k}]] ELSE g[T]]
               step == [k \in 1 .. n |-> [g \in V |-> At(k, g)]]
    <1>1. next \in [1 .. n -> [X -> X]]
        BY DEF Stepping
    <1>2. start \in V
        OBVIOUS
    <1>3. ASSUME NEW k \in 1 .. n, NEW g \in V PROVE At(k, g) \in V
        <2>1. \A T \in P : T \ {k} \in P /\ g[T] \in X /\ g[T \ {k}] \in X
            OBVIOUS
        <2>2. \A x \in X : next[k][x] \in X
            BY <1>1
        <2> HIDE DEF P
        <2> QED BY <2>1, <2>2
    <1>4. step \in [1 .. n -> [V -> V]]
        <2> HIDE DEF At, V
        <2> QED BY <1>3
    <1>5. PICK G : Runs(G, step, n, V, start)
        <2> HIDE DEF step, V, start
        <2>1. Stepping(step, n, V)
            BY <1>4 DEF Stepping
        <2> QED BY <1>2, <2>1, Recursion
    <1>6. G \in [0 .. n -> V] /\ G[0] = start /\ \A k \in 1 .. n : G[k] = step[k][G[k - 1]]
        BY <1>5 DEF Runs
    <1>7. ASSUME NEW k \in 1 .. n, NEW T \in P
          PROVE  G[k][T] = IF k \in T THEN next[k][G[k - 1][T \ {k}]] ELSE G[k - 1][T]
        <2>1. k - 1 \in 0 .. n
            OBVIOUS
        <2>2. PICK g \in V : g = G[k - 1]
            BY <1>6, <2>1
        <2>3. G[k] = step[k][g]
            BY <1>6, <2>2
        <2>4. step[k][g] = At(k, g)
            <3> HIDE DEF At, V
            <3> QED OBVIOUS
        <2>5. At(k, g)[T] = IF k \in T THEN next[k][g[T \ {k}]] ELSE g[T]
            <3> HIDE DEF P
            <3> QED OBVIOUS
        <2> QED BY <2>2, <2>3, <2>4, <2>5
    <1> DEFINE Upto(T, m) == \A i \in T : i <= m
               Same == {d \in Nat : d > n \/ \A T \in P : Upto(T, n - d) => G[n][T] = G[n - d][T]}
    <1> HIDE DEF step, V
    <1>8. 0 \in Same
        <2>1. n - 0 = n
            OBVIOUS
        <2> QED BY <2>1
    <1>9. ASSUME NEW d \in Same PROVE d + 1 \in Same
        <2>1. CASE d + 1 > n
            BY <2>1
        <2>2. CASE d + 1 <= n
            <3>1. PICK k \in 1 .. n : k = n - d /\ k - 1 = n - (d + 1)
                BY <2>2
            <3>2. ASSUME NEW T \in P, Upto(T, k - 1) PROVE G[n][T] = G[k - 1][T]
                <4>1. k \notin T /\ Upto(T, k)
                    BY <3>2
                <4>2. G[n][T] = G[k][T]
                    BY <2>2, <3>1, <4>1
                <4> HIDE DEF P, Upto
                <4> QED BY <1>7, <4>1, <4>2
            <3> QED BY <3>1, <3>2
        <2> QED BY <2>1, <2>2
    <1>10. Same = Nat
        <2>1. Same \in SUBSET Nat
            OBVIOUS
        <2> HIDE DEF Same
        <2> QED BY <1>8, <1>9, <2>1, Induction
    <1>11. ASSUME NEW T \in P, NEW m \in 0 .. n, Upto(T, m) PROVE G[n][T] = G[m][T]
        <2>1. PICK d \in Nat : d = n - m /\ d <= n /\ n - d = m
            OBVIOUS
        <2> QED BY <1>10, <1>11, <2>1
    <1> HIDE DEF Same
    <1>12. G[n] \in [P -> X]
        <2>1. n \in 0 .. n
            OBVIOUS
        <2> QED BY <1>6, <2>1 DEF V
    <1>13. ASSUME NEW T \in P
           PROVE  G[n][T] = IF T = {} THEN base ELSE next[Max(T)][G[n][T \ {Max(T)}]]
        <2>1. CASE T = {}
            <3>1. Upto(T, 0) /\ 0 \in 0 .. n
                BY <2>1
            <3>2. G[n][T] = G[0][T]
                BY <1>11, <3>1
            <3> QED BY <1>6, <2>1, <3>2
        <2>2. CASE T # {}
            <3>1. PICK m \in 1 .. n : m = Max(T) /\ m \in T /\ Upto(T, m)
                BY <2>2, Greatest
            <3>2. m \in 0 .. n /\ m - 1 \in 0 .. n /\ T \ {m} \in P /\ Upto(T \ {m}, m - 1)
                <4>1. ASSUME NEW i \in T \ {m} PROVE i <= m - 1
                    <5>1. i \in 1 .. n /\ i <= m /\ i # m
                        BY <3>1
                    <5> QED BY <5>1
                <4> QED BY <4>1
            <3> HIDE DEF P, Upto
            <3>3. G[n][T] = G[m][T] /\ G[n][T \ {m}] = G[m - 1][T \ {m}]
                BY <1>11, <3>1, <3>2
            <3>4. G[m][T] = next[m][G[m - 1][T \ {m}]]
                BY <1>7, <3>1
            <3> QED BY <2>2, <3>1, <3>3, <3>4
        <2> QED BY <2>1, <2>2
    <1> QED BY <1>12, <1>13 DEF FoldsSets

\* A function that steps so, as long as its values are what the steps are for.
Unfolds(iter, next, n, X, base) ==
    /\ iter[{}] = base
    /\ \A T \in SUBSET (1 .. n) :
          T # {} /\ iter[T \ {Max(T)}] \in X => iter[T] = next[Max(T)][iter[T \ {Max(T)}]]

\* Such a function has, at all the places, the end of a course.
LEMMA Course ==
    ASSUME NEW n \in Nat, NEW X, NEW base \in X, NEW next, Stepping(next, n, X),
           NEW iter, Unfolds(iter, next, n, X, base)
    PROVE  \E f : Runs(f, next, n, X, base) /\ iter[1 .. n] = f[n]
    <1> DEFINE g == [k \in 0 .. n |-> iter[1 .. k]]
    <1>1. PICK f : Runs(f, next, n, X, base)
        BY Recursion
    <1>2. f \in [0 .. n -> X] /\ f[0] = base /\ \A k \in 1 .. n : f[k] = next[k][f[k - 1]]
        BY <1>1 DEF Runs
    <1>3. g[0] = f[0]
        <2>1. 1 .. 0 = {} /\ 0 \in 0 .. n
            OBVIOUS
        <2> QED BY <1>2, <2>1 DEF Unfolds
    <1>4. ASSUME NEW k \in 1 .. n, g[k - 1] = f[k - 1] PROVE g[k] = f[k]
        <2>1. k \in 0 .. n /\ k - 1 \in 0 .. n
            OBVIOUS
        <2>2. iter[1 .. k - 1] = f[k - 1] /\ f[k - 1] \in X
            BY <1>2, <1>4, <2>1
        <2>3. 1 .. k \subseteq 1 .. n /\ 1 .. k # {} /\ Max(1 .. k) = k
            BY FirstPlaces
        <2>4. (1 .. k) \ {Max(1 .. k)} = 1 .. k - 1
            BY <2>3
        <2>5. iter[1 .. k] = next[k][iter[1 .. k - 1]]
            BY <2>2, <2>3, <2>4 DEF Unfolds
        <2> QED BY <1>2, <2>1, <2>2, <2>5
    <1>5. g[n] = iter[1 .. n] /\ n \in 0 .. n
        OBVIOUS
    <1>6. \A k \in 1 .. n : g[k - 1] = f[k - 1] => g[k] = f[k]
        BY <1>4
    <1>7. PICK v : v = g
        OBVIOUS
    <1> HIDE DEF g
    <1>8. v[0] = f[0] /\ \A k \in 1 .. n : v[k - 1] = f[k - 1] => v[k] = f[k]
        BY <1>3, <1>6, <1>7
    <1>9. \A k \in 0 .. n : v[k] = f[k]
        BY <1>8, Unrolled
    <1> QED BY <1>1, <1>5, <1>7, <1>9

-----------------------------------------------------------------------------
(* Sorting *)

LEMMA OwnElements ==
    ASSUME NEW X, NEW s \in Seq(X)
    PROVE  /\ s \in Seq(ToSet(s)) /\ ToSet(s) \subseteq X
           /\ Len(s) \in Nat /\ DOMAIN s = 1 .. Len(s)
    <1>1. s \in [1 .. Len(s) -> ToSet(s)] /\ Len(s) \in Nat /\ ToSet(s) \subseteq X
        BY LenProperties DEF ToSet
    <1> QED BY <1>1, IsASeq

\* ahead[x] are the members of S before x, in a strict and total order.
Ordering(ahead, S) ==
    /\ ahead \in [S -> SUBSET S]
    /\ \A x \in S : x \notin ahead[x]
    /\ \A x, y \in S : x \in ahead[y] => ahead[x] \subseteq ahead[y]
    /\ \A x, y \in S : x = y \/ x \in ahead[y] \/ y \in ahead[x]

\* Each member has a place of its own, and each place is taken.
LEMMA ListedElements ==
    ASSUME NEW S, IsFiniteSet(S), NEW ahead, Ordering(ahead, S)
    PROVE  Listed(S, ahead) \in Seq(S) /\ ToSet(Listed(S, ahead)) = S
           /\ DOMAIN Listed(S, ahead) = 1 .. Cardinality(S) /\ Cardinality(S) \in Nat
           /\ \A k \in 1 .. Cardinality(S) : Cardinality(ahead[Listed(S, ahead)[k]]) = k - 1
    <1> DEFINE places == 1 .. Cardinality(S)
               place == [x \in S |-> 1 + Cardinality(ahead[x])]
    <1>1. Cardinality(S) \in Nat
        BY FS_CardinalityType
    <1>2. IsFiniteSet(places) /\ Cardinality(places) = Cardinality(S)
        BY <1>1, FS_Interval
    <1>3. ASSUME NEW x \in S
          PROVE  /\ IsFiniteSet(ahead[x]) /\ Cardinality(ahead[x]) \in Nat
                 /\ Cardinality(ahead[x]) < Cardinality(S)
        <2>1. ahead[x] \in SUBSET S /\ x \notin ahead[x]
            BY DEF Ordering
        <2>2. IsFiniteSet(ahead[x]) /\ Cardinality(ahead[x]) <= Cardinality(S)
              /\ Cardinality(ahead[x]) # Cardinality(S)
            BY <2>1, FS_Subset
        <2> QED BY <1>1, <2>2, FS_CardinalityType
    <1>4. place \in [S -> places]
        BY <1>1, <1>3
    <1>5. ASSUME NEW x \in S, NEW y \in S, x \in ahead[y] PROVE place[x] # place[y]
        <2>1. ahead[x] \in SUBSET ahead[y] /\ x \notin ahead[x]
            BY <1>5 DEF Ordering
        <2>2. Cardinality(ahead[x]) # Cardinality(ahead[y])
            BY <1>3, <1>5, <2>1, FS_Subset
        <2> QED BY <2>2, <1>3
    <1>6. \A x, y \in S : place[x] = place[y] => x = y
        <2>1. \A x, y \in S : x \in ahead[y] \/ y \in ahead[x] \/ x = y
            BY DEF Ordering
        <2> HIDE DEF place
        <2> QED BY <1>5, <2>1
    <1>7. place \in Injection(S, places)
        BY <1>4, <1>6, Fun_IsInj
    <1>8. place \in Surjection(S, places)
        BY <1>7, <1>2, FS_Injection
    <1>9. ASSUME NEW k \in places
          PROVE  \E x \in S : Cardinality(ahead[x]) = k - 1
        <2>1. PICK x \in S : place[x] = k
            <3> HIDE DEF place
            <3> QED BY <1>8 DEF Surjection
        <2> QED BY <2>1, <1>3
    <1>10. \A k \in places : /\ Listed(S, ahead)[k] \in S
                             /\ Cardinality(ahead[Listed(S, ahead)[k]]) = k - 1
        BY <1>9 DEF Listed
    <1>11. DOMAIN Listed(S, ahead) = places
           /\ Listed(S, ahead) = [k \in places |-> Listed(S, ahead)[k]]
        BY DEF Listed
    <1>12. Listed(S, ahead) \in [places -> S]
        BY <1>10, <1>11
    <1>13. ASSUME NEW x \in S PROVE x \in ToSet(Listed(S, ahead))
        <2>1. place[x] \in places /\ place[x] - 1 = Cardinality(ahead[x])
            BY <1>1, <1>3
        <2>2. PICK y \in S : y = Listed(S, ahead)[place[x]]
            BY <1>10, <2>1
        <2>3. Cardinality(ahead[y]) = place[x] - 1
            BY <1>10, <2>1, <2>2
        <2>4. place[y] = place[x]
            BY <1>3, <2>1, <2>3
        <2>5. y = x
            <3> HIDE DEF place
            <3> QED BY <1>6, <2>4
        <2> HIDE DEF place
        <2> QED BY <1>11, <2>1, <2>2, <2>5 DEF ToSet
    <1>14. Listed(S, ahead) \in Seq(S)
        BY <1>1, <1>12, IsASeq
    <1>15. ToSet(Listed(S, ahead)) \subseteq S
        BY <1>10, <1>11 DEF ToSet
    <1> QED BY <1>1, <1>10, <1>11, <1>13, <1>14, <1>15

\* A sort key that can be compared: before[i] are the places with a smaller key.
Comparing(before, n) ==
    /\ before \in [1 .. n -> SUBSET (1 .. n)]
    /\ \A i, j \in 1 .. n : j \in before[i] => i \notin before[j]
    /\ \A i, j, k \in 1 .. n : j \in before[i] => j \in before[k] \/ k \in before[i]

\* Places with equal keys keep their order.
Stable(before, n) ==
    [i \in 1 .. n |-> {j \in 1 .. n : j \in before[i] \/ (i \notin before[j] /\ j < i)}]

LEMMA StableOrders ==
    ASSUME NEW n \in Nat, NEW before, Comparing(before, n)
    PROVE  Ordering(Stable(before, n), 1 .. n)
    <1> DEFINE ahead == Stable(before, n)
    <1>0. \A i, j \in 1 .. n : j \in ahead[i] <=> j \in before[i] \/ (i \notin before[j] /\ j < i)
        BY DEF Stable
    <1>1. ahead \in [1 .. n -> SUBSET (1 .. n)]
        BY DEF Stable
    <1>2. \A i, j, k \in 1 .. n : j \in before[i] /\ k \in before[j] => k \in before[i]
        BY DEF Comparing
    <1>3. \A i, j \in 1 .. n : j \in before[i] => i \notin before[j]
        BY DEF Comparing
    <1>4. \A i \in 1 .. n : i \notin ahead[i]
        BY <1>0 DEF Comparing
    <1>5. \A i, j \in 1 .. n : i = j \/ i \in ahead[j] \/ j \in ahead[i]
        <2>1. \A i, j \in 1 .. n : i = j \/ i < j \/ j < i
            OBVIOUS
        <2> QED BY <1>0, <2>1
    <1>6. ASSUME NEW i \in 1 .. n, NEW j \in 1 .. n, j \in ahead[i], NEW k \in ahead[j]
          PROVE  k \in ahead[i]
        <2>1. k \in 1 .. n
            BY <1>1
        <2>2. j \in before[i] \/ (i \notin before[j] /\ j < i)
            BY <1>0, <1>6
        <2>3. k \in before[j] \/ (j \notin before[k] /\ k < j)
            BY <1>0, <2>1
        <2>4. CASE j \in before[i]
            <3>1. k \in before[i]
                BY <1>2, <2>1, <2>3, <2>4 DEF Comparing
            <3> QED BY <1>0, <2>1, <3>1
        <2>5. CASE j \notin before[i] /\ k \in before[j]
            <3>1. k \in before[i]
                BY <2>1, <2>2, <2>5 DEF Comparing
            <3> QED BY <1>0, <2>1, <3>1
        <2>6. CASE j \notin before[i] /\ k \notin before[j]
            <3>1. i \notin before[j] /\ j \notin before[k] /\ k < i
                BY <2>1, <2>2, <2>3, <2>6
            <3>2. i \notin before[k]
                BY <2>1, <3>1 DEF Comparing
            <3> QED BY <1>0, <2>1, <3>1, <3>2
        <2> QED BY <2>4, <2>5, <2>6
    <1> HIDE DEF ahead
    <1>7. Ordering(ahead, 1 .. n)
        BY <1>1, <1>4, <1>5, <1>6 DEF Ordering
    <1> QED BY <1>7 DEF ahead

StableSort(s, before) ==
    [k \in DOMAIN s |-> s[Listed(DOMAIN s, Stable(before, Len(s)))[k]]]

\* A stable sort loses nothing and adds nothing.
LEMMA SortedElements ==
    ASSUME NEW X, NEW s \in Seq(X), NEW before, Comparing(before, Len(s))
    PROVE  StableSort(s, before) \in Seq(X) /\ ToSet(StableSort(s, before)) = ToSet(s)
    <1> DEFINE n == Len(s)
               at == Listed(DOMAIN s, Stable(before, n))
               sorted == [k \in DOMAIN s |-> s[at[k]]]
    <1>1. n \in Nat /\ DOMAIN s = 1 .. n /\ \A i \in 1 .. n : s[i] \in X
        OBVIOUS
    <1>2. IsFiniteSet(1 .. n) /\ Cardinality(1 .. n) = n
        <2> HIDE DEF n
        <2>1. n \in Int /\ 1 \in Int
            BY <1>1
        <2>2. IsFiniteSet(1 .. n) /\ Cardinality(1 .. n) = IF 1 > n THEN 0 ELSE n - 1 + 1
            BY <2>1, FS_Interval
        <2> QED BY <1>1, <2>2
    <1>3. at \in Seq(1 .. n) /\ ToSet(at) = 1 .. n /\ DOMAIN at = 1 .. n
        BY <1>1, <1>2, StableOrders, ListedElements
    <1> HIDE DEF at, n
    <1>4. \A k \in 1 .. n : at[k] \in 1 .. n
        BY <1>3 DEF ToSet
    <1>5. sorted \in [1 .. n -> X]
        BY <1>1, <1>4
    <1>6. ToSet(sorted) = ToSet(s)
        <2>1. \A i \in 1 .. n : \E k \in 1 .. n : at[k] = i
            BY <1>3 DEF ToSet
        <2> QED BY <1>1, <1>4, <2>1 DEF ToSet
    <1>7. sorted \in Seq(X)
        BY <1>1, <1>5, IsASeq
    <1> QED BY <1>6, <1>7 DEF at, n, StableSort

\* It puts the places in order, each once.
LEMMA SortedPlaces ==
    ASSUME NEW n \in Nat, NEW before, Comparing(before, n)
    PROVE  LET at == Listed(1 .. n, Stable(before, n))
           IN  /\ at \in [1 .. n -> 1 .. n]
               /\ \A i \in 1 .. n : \E k \in 1 .. n : at[k] = i
               /\ \A k, l \in 1 .. n : k < l => at[k] # at[l] /\ at[l] \notin before[at[k]]
    <1> DEFINE ahead == Stable(before, n)
               at == Listed(1 .. n, ahead)
    <1>1. IsFiniteSet(1 .. n) /\ Cardinality(1 .. n) = n
        <2>1. IsFiniteSet(1 .. n) /\ Cardinality(1 .. n) = IF 1 > n THEN 0 ELSE n - 1 + 1
            BY FS_Interval
        <2> QED BY <2>1
    <1>2. Ordering(ahead, 1 .. n)
        BY StableOrders
    <1> HIDE DEF ahead
    <1>3. /\ at \in Seq(1 .. n) /\ ToSet(at) = 1 .. n /\ DOMAIN at = 1 .. n
          /\ \A k \in 1 .. n : Cardinality(ahead[at[k]]) = k - 1
        BY <1>1, <1>2, ListedElements
    <1>6. at = [k \in 1 .. n |-> at[k]]
        BY <1>1 DEF Listed
    <1> HIDE DEF at
    <1>4. at \in [1 .. n -> 1 .. n] /\ \A i \in 1 .. n : \E k \in 1 .. n : at[k] = i
        BY <1>3, <1>6 DEF ToSet
    <1>5. ASSUME NEW k \in 1 .. n, NEW l \in 1 .. n, k < l
          PROVE  at[k] # at[l] /\ at[l] \notin before[at[k]]
        <2>1. PICK i \in 1 .. n, j \in 1 .. n : i = at[k] /\ j = at[l]
            BY <1>4
        <2>2. Cardinality(ahead[i]) = k - 1 /\ Cardinality(ahead[j]) = l - 1
            BY <1>3, <2>1
        <2>3. i # j
            BY <1>5, <2>2
        <2>4. ASSUME j \in ahead[i] PROVE FALSE
            <3>1. ahead[i] \in SUBSET (1 .. n) /\ ahead[j] \in SUBSET ahead[i]
                BY <1>2, <2>4 DEF Ordering
            <3>2. IsFiniteSet(ahead[i])
                BY <1>1, <3>1, FS_Subset
            <3>3. Cardinality(ahead[j]) <= Cardinality(ahead[i])
                BY <3>1, <3>2, FS_Subset
            <3> QED BY <1>5, <2>2, <3>3
        <2>5. j \in before[i] => j \in ahead[i]
            BY DEF ahead, Stable
        <2> QED BY <2>1, <2>3, <2>4, <2>5
    <1> QED BY <1>4, <1>5 DEF at, ahead

-----------------------------------------------------------------------------
(* Sums over sets *)

\* Every set of places shrinks to the empty one.
LEMMA Shrinking ==
    ASSUME NEW n \in Nat, NEW F, {} \in F,
           \A T \in SUBSET (1 .. n) : T # {} => \E x \in T : T \ {x} \in F => T \in F
    PROVE  \A T \in SUBSET (1 .. n) : T \in F
    <1> DEFINE Good == {k \in Nat : \A T \in SUBSET (1 .. n) : Cardinality(T) = k => T \in F}
    <1>1. \A T \in SUBSET (1 .. n) : IsFiniteSet(T)
        <2>1. n \in Int /\ 1 \in Int
            OBVIOUS
        <2>2. IsFiniteSet(1 .. n)
            BY <2>1, FS_Interval
        <2> QED BY <2>2, FS_Subset
    <1>2. 0 \in Good
        <2>1. ASSUME NEW T \in SUBSET (1 .. n), Cardinality(T) = 0 PROVE T = {}
            BY <1>1, <2>1, FS_EmptySet
        <2> QED BY <2>1
    <1>3. ASSUME NEW k \in Good PROVE k + 1 \in Good
        <2>1. ASSUME NEW T \in SUBSET (1 .. n), Cardinality(T) = k + 1 PROVE T \in F
            <3>1. T # {}
                BY <1>1, <2>1, FS_EmptySet
            <3>2. PICK x \in T : T \ {x} \in F => T \in F
                BY <3>1
            <3>3. Cardinality(T \ {x}) = Cardinality(T) - 1
                BY <1>1, <3>2, FS_RemoveElement
            <3>4. Cardinality(T \ {x}) = k /\ T \ {x} \in SUBSET (1 .. n)
                BY <2>1, <3>3
            <3> QED BY <3>2, <3>4
        <2> QED BY <2>1
    <1>4. Good = Nat
        <2>1. Good \in SUBSET Nat
            OBVIOUS
        <2> HIDE DEF Good
        <2> QED BY <1>2, <1>3, <2>1, Induction
    <1>5. ASSUME NEW T \in SUBSET (1 .. n) PROVE T \in F
        <2>1. Cardinality(T) \in Nat
            BY <1>1, FS_CardinalityType
        <2> QED BY <1>4, <2>1
    <1> QED BY <1>5

\* h gives the sum of the numbers w of each set of places.
SumOf(h, w, n) ==
    /\ h \in [SUBSET (1 .. n) -> Int] /\ h[{}] = 0
    /\ \A T \in SUBSET (1 .. n) : \A x \in T : h[T] = w[x] + h[T \ {x}]

LEMMA Summing ==
    ASSUME NEW n \in Nat, NEW w, \A i \in 1 .. n : w[i] \in Int
    PROVE  \E h : SumOf(h, w, n)
    <1> DEFINE next == [i \in 1 .. n |-> [v \in Int |-> w[i] + v]]
    <1>1. Stepping(next, n, Int) /\ 0 \in Int
        BY DEF Stepping
    <1>2. \A i \in 1 .. n : \A v \in Int : next[i][v] = w[i] + v
        OBVIOUS
    <1> HIDE DEF next
    <1>3. PICK X, zero : X = Int /\ zero = 0
        OBVIOUS
    <1>4. zero \in X /\ Stepping(next, n, X)
        BY <1>1, <1>3
    <1>5. PICK h : FoldsSets(h, next, n, X, zero)
        BY <1>4, Folding
    <1>6. h \in [SUBSET (1 .. n) -> Int] /\ h[{}] = 0
        BY <1>3, <1>5 DEF FoldsSets
    <1>7. ASSUME NEW T \in SUBSET (1 .. n), T # {}
          PROVE  Max(T) \in T /\ h[T] = w[Max(T)] + h[T \ {Max(T)}]
        <2>1. Max(T) \in T
            BY <1>7, Greatest
        <2>2. h[T] = next[Max(T)][h[T \ {Max(T)}]]
            BY <1>5, <1>7 DEF FoldsSets
        <2>3. h[T \ {Max(T)}] \in Int
            BY <1>6
        <2> QED BY <1>2, <2>1, <2>2, <2>3
    <1> DEFINE F == {T \in SUBSET (1 .. n) : \A x \in T : h[T] = w[x] + h[T \ {x}]}
    <1>8. {} \in F
        OBVIOUS
    <1>9. ASSUME NEW T \in SUBSET (1 .. n), T # {}
          PROVE  \E x \in T : T \ {x} \in F => T \in F
        <2>1. PICK m \in T : m = Max(T) /\ h[T] = w[m] + h[T \ {m}] /\ \A i \in T : i <= m
            BY <1>7, <1>9, Greatest
        <2>2. ASSUME T \ {m} \in F, NEW x \in T PROVE h[T] = w[x] + h[T \ {x}]
            <3>1. CASE x = m
                BY <2>1, <3>1
            <3>2. CASE x # m
                <4>1. PICK U : U = T \ {x}
                    OBVIOUS
                <4>2. U \in SUBSET (1 .. n) /\ m \in U /\ \A i \in U : i <= m
                    BY <2>1, <3>2, <4>1
                <4>3. Max(U) \in U /\ \A i \in U : i <= Max(U)
                    BY <4>2, Greatest
                <4>4. Max(U) = m
                    <5>1. PICK z : z = Max(U)
                        OBVIOUS
                    <5>2. z \in 1 .. n /\ m \in 1 .. n /\ z <= m /\ m <= z
                        BY <4>2, <4>3, <5>1
                    <5> QED BY <5>1, <5>2
                <4>5. h[U] = w[m] + h[U \ {m}]
                    BY <1>7, <4>2, <4>4
                <4>6. h[T \ {m}] = w[x] + h[(T \ {m}) \ {x}]
                    BY <2>2, <3>2
                <4>7. (T \ {m}) \ {x} = U \ {m} /\ U \ {m} \in SUBSET (1 .. n)
                    BY <4>1, <4>2
                <4>8. h[U \ {m}] \in Int /\ w[x] \in Int /\ w[m] \in Int
                    BY <1>6, <4>7
                <4> QED BY <2>1, <4>1, <4>5, <4>6, <4>7, <4>8
            <3> QED BY <3>1, <3>2
        <2> QED BY <2>2
    <1> HIDE DEF F
    <1>10. \A T \in SUBSET (1 .. n) : T \in F
        BY <1>8, <1>9, Shrinking
    <1>11. \A T \in SUBSET (1 .. n) : \A x \in T : h[T] = w[x] + h[T \ {x}]
        <2> TAKE T \in SUBSET (1 .. n)
        <2>1. T \in F
            BY <1>10
        <2> QED BY <2>1 DEF F
    <1> QED BY <1>6, <1>11 DEF SumOf

\* Whichever member a recursion takes next, it computes the sum.
Descends(iter, w, S) ==
    /\ iter[{}] = 0
    /\ \A T \in SUBSET S : T # {} => \E x \in T : iter[T] = w[x] + iter[T \ {x}]

LEMMA AnyOrder ==
    ASSUME NEW n \in Nat, NEW w, NEW h, SumOf(h, w, n), NEW S \in SUBSET (1 .. n), NEW iter,
           Descends(iter, w, S)
    PROVE  iter[S] = h[S]
    <1> DEFINE F == {T \in SUBSET (1 .. n) : T \subseteq S => iter[T] = h[T]}
    <1>1. {} \in F
        BY DEF SumOf, Descends
    <1>2. ASSUME NEW T \in SUBSET (1 .. n), T # {}
          PROVE  \E x \in T : T \ {x} \in F => T \in F
        <2>1. CASE T \subseteq S
            <3>1. PICK x \in T : iter[T] = w[x] + iter[T \ {x}]
                BY <1>2, <2>1 DEF Descends
            <3>2. h[T] = w[x] + h[T \ {x}]
                BY <3>1 DEF SumOf
            <3>3. T \ {x} \in F => T \in F
                BY <2>1, <3>1, <3>2
            <3> QED BY <3>1, <3>3
        <2>2. CASE ~(T \subseteq S)
            BY <1>2, <2>2
        <2> QED BY <2>1, <2>2
    <1> HIDE DEF F
    <1>3. \A T \in SUBSET (1 .. n) : T \in F
        BY <1>1, <1>2, Shrinking
    <1> QED BY <1>3 DEF F

\* What MapThenSumSet computes: it takes some member next.
Some(T) == CHOOSE x \in T : TRUE
NextSum(g, w, S) ==
    [T \in SUBSET S |-> IF T = {} THEN 0 ELSE w[Some(T)] + g[T \ {Some(T)}]]

LEMMA SumComputed ==
    ASSUME NEW n \in Nat, NEW w, NEW h, SumOf(h, w, n), NEW S \in SUBSET (1 .. n)
    PROVE  /\ \E f : f = NextSum(f, w, S)
           /\ \A iter : iter = NextSum(iter, w, S) => iter[S] = h[S]
    <1>1. \A T \in SUBSET S : T # {} => Some(T) \in T
        BY DEF Some
    <1>2. \E f : f = NextSum(f, w, S)
        <2> DEFINE f == [T \in SUBSET S |-> h[T]]
        <2>1. ASSUME NEW T \in SUBSET S
              PROVE  f[T] = IF T = {} THEN 0 ELSE w[Some(T)] + f[T \ {Some(T)}]
            <3>1. CASE T = {}
                BY <3>1 DEF SumOf
            <3>2. CASE T # {}
                <4>1. h[T] = w[Some(T)] + h[T \ {Some(T)}]
                    BY <1>1, <3>2 DEF SumOf
                <4>2. f[T] = h[T] /\ f[T \ {Some(T)}] = h[T \ {Some(T)}]
                    OBVIOUS
                <4> HIDE DEF f
                <4> QED BY <3>2, <4>1, <4>2
            <3> QED BY <3>1, <3>2
        <2>2. f = [T \in SUBSET S |-> f[T]]
            OBVIOUS
        <2> HIDE DEF f
        <2>3. f = NextSum(f, w, S)
            BY <2>1, <2>2 DEF NextSum
        <2> QED BY <2>3
    <1>3. ASSUME NEW iter, iter = NextSum(iter, w, S) PROVE iter[S] = h[S]
        <2>1. iter[{}] = 0
            BY <1>3 DEF NextSum
        <2>2. ASSUME NEW T \in SUBSET S, T # {}
              PROVE  \E x \in T : iter[T] = w[x] + iter[T \ {x}]
            <3>1. NextSum(iter, w, S)[T] = w[Some(T)] + iter[T \ {Some(T)}]
                BY <2>2 DEF NextSum
            <3>2. iter[T] = NextSum(iter, w, S)[T]
                BY <1>3
            <3>3. Some(T) \in T
                BY <1>1, <2>2
            <3> QED BY <3>1, <3>2, <3>3
        <2>3. Descends(iter, w, S)
            BY <2>1, <2>2 DEF Descends
        <2> QED BY <2>3, AnyOrder
    <1> QED BY <1>2, <1>3

\* The same numbers at other places have the same sum.
Moves(m, S, T, v, w) ==
    /\ \A i \in S : m[i] \in T /\ v[i] = w[m[i]]
    /\ \A i, j \in S : m[i] = m[j] => i = j
    /\ \A y \in T : \E i \in S : m[i] = y

LEMMA SumMoved ==
    ASSUME NEW k \in Nat, NEW n \in Nat, NEW v, NEW w, NEW g, NEW h, SumOf(g, v, k), SumOf(h, w, n),
           NEW S \in SUBSET (1 .. k), NEW T \in SUBSET (1 .. n), NEW m, Moves(m, S, T, v, w)
    PROVE  g[S] = h[T]
    <1> DEFINE Image(A) == {m[i] : i \in A}
               F == {A \in SUBSET (1 .. k) : A \subseteq S => g[A] = h[Image(A)]}
    <1>1. {} \in F
        <2>1. Image({}) = {}
            OBVIOUS
        <2> QED BY <2>1 DEF SumOf
    <1>2. ASSUME NEW A \in SUBSET (1 .. k), A # {}
          PROVE  \E x \in A : A \ {x} \in F => A \in F
        <2>1. PICK x \in A : TRUE
            BY <1>2
        <2>2. ASSUME A \subseteq S, A \ {x} \in F PROVE g[A] = h[Image(A)]
            <3>0. x \in S /\ \A i \in A : m[i] \in T
                BY <2>1, <2>2 DEF Moves
            <3>1. Image(A) \in SUBSET (1 .. n) /\ m[x] \in Image(A) /\ v[x] = w[m[x]]
                <4>1. \A y \in Image(A) : y \in T
                    BY <3>0
                <4>2. m[x] \in Image(A)
                    BY <2>1
                <4>3. v[x] = w[m[x]]
                    BY <3>0 DEF Moves
                <4> HIDE DEF Image
                <4> QED BY <4>1, <4>2, <4>3
            <3>2. Image(A) \ {m[x]} = Image(A \ {x})
                BY <2>2 DEF Moves
            <3>3. g[A \ {x}] = h[Image(A \ {x})]
                BY <2>2
            <3>4. g[A] = v[x] + g[A \ {x}]
                BY DEF SumOf
            <3> HIDE DEF Image
            <3>5. h[Image(A)] = w[m[x]] + h[Image(A) \ {m[x]}]
                BY <3>1 DEF SumOf
            <3> QED BY <3>1, <3>2, <3>3, <3>4, <3>5
        <2>3. A \ {x} \in F => A \in F
            BY <2>2
        <2> QED BY <2>1, <2>3
    <1> HIDE DEF F
    <1>3. S \in F
        BY <1>1, <1>2, Shrinking
    <1>4. Image(S) = T
        <2>1. \A y \in Image(S) : y \in T
            BY DEF Moves
        <2>2. \A y \in T : y \in Image(S)
            BY DEF Moves
        <2> HIDE DEF Image
        <2> QED BY <2>1, <2>2
    <1> QED BY <1>3, <1>4 DEF F

=============================================================================
